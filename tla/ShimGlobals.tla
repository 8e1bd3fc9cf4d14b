------------------------------ MODULE ShimGlobals ------------------------------
(***************************************************************************)
(* What the NTT entry points of the shim (src/api.cu) share: the record of *)
(* icicle's NTT domain, the coset generator and the two tables of coset    *)
(* powers.  They are plain globals, used by every host thread, and by      *)
(* kernels that run later, in the order of the stream they are put on.     *)
(*                                                                         *)
(* A caller is a host thread with a stream of its own and one device       *)
(* buffer: it loads the buffer, transforms it as often as it wants, waits  *)
(* for the stream and reads the buffer back (prove_gpu.go does that).  The *)
(* module says nothing of which callers there are: the configurations name *)
(* those of a prover in Initialisers, InitLogs and Ops.                    *)
(*                                                                         *)
(* A buffer is abstracted to the basis of the polynomial in it, whether    *)
(* that is the polynomial p(X) or p(gX), and the order of its entries.     *)
(***************************************************************************)
EXTENDS Integers, Sequences

CONSTANTS
  Callers,
  Logs,        \* logarithms of the sizes of the buffers
  Initialisers,  \* the callers of gpu_ntt_init
  InitLogs,    \* the sizes they ask it for
  Ops,         \* Ops[c]: the transforms caller c makes
  Failures,    \* the calls that may fail
  QueueBound   \* a caller with this many kernels underway waits for them

ASSUME LogsAssumption         == Logs \cup InitLogs \subseteq Nat \ {0}
ASSUME InitialisersAssumption == Initialisers \subseteq Callers
ASSUME FailuresAssumption     == Failures \subseteq {"domain", "sync", "malloc l1", "malloc l2"}
ASSUME BoundAssumption        == QueueBound \in Nat \ {0}

VARIABLES
  domainLog,   \* g_ntt_domain_log
  domain,      \* the domain icicle has, 0 for none
  genReady,    \* g_coset_gen_ready
  genSet,      \* the device globals g_coset_gen and g_coset_gen_inv are set
  tables,      \* the tables that are allocated: "l1" and "l2"
  content,     \* what was last built in them
  pc,          \* pc[c]: what the thread of caller c executes
  call,        \* call[c]: the arguments of the call it is in
  granted,     \* granted[c]: the size gpu_ntt_init last returned 0 for to c
  size,        \* size[c]: logarithm of the size of c's buffer
  value,       \* value[c]: what the buffer holds
  want,        \* want[c]: what it holds once all calls that returned 0 are done
  queue        \* queue[c]: the kernels on c's stream, the first one running

globals == <<domainLog, domain, genReady, genSet, tables, content>>
buffers == <<size, value, want, queue>>
vars    == <<domainLog, domain, genReady, genSet, tables, content, pc, call,
             granted, size, value, want, queue>>

-------------------------------------------------------------------------------
(* Transforms and buffers.                                                 *)

\* order: icicle's kNN, kNR or kRN; gpu_ntt, gpu_ntt_dif, gpu_ntt_dit, and with
\* coset gpu_ntt_coset and gpu_ntt_coset_dit.
Transforms ==
  [order : {"NN", "NR", "RN"}, inverse : BOOLEAN, coset : {FALSE}] \cup
  [order : {"NN", "RN"},       inverse : BOOLEAN, coset : {TRUE}]

ASSUME OpsAssumption == \A c \in Callers : Ops[c] \subseteq Transforms

Values == [basis : {"coeffs", "evals"}, shifted : BOOLEAN,
           layout : {"natural", "reversed"}]
Wrong   == [wrong |-> TRUE]      \* of no use to anybody
Unknown == [unknown |-> TRUE]    \* a call returned -1: the caller gives it up

InputLayout(order)  == IF order = "RN" THEN "reversed" ELSE "natural"
OutputLayout(order) == IF order = "NR" THEN "reversed" ELSE "natural"

\* gnark's transform takes a polynomial in one basis to the other one, on the
\* domain or on the coset, in the order op says.
Accepts(op, v) ==
  /\ v \in Values
  /\ v.layout = InputLayout(op.order)
  /\ v.basis = IF op.inverse THEN "evals" ELSE "coeffs"
  /\ v.shifted = (op.coset /\ op.inverse)

Promised(op) == [basis   |-> IF op.inverse THEN "coeffs" ELSE "evals",
                 shifted |-> op.coset /\ ~op.inverse,
                 layout  |-> OutputLayout(op.order)]

\* The size of the first level of the tables, and of the second for size log.
LogB(log)    == IF log \div 2 > 13 THEN 13 ELSE log \div 2
LogL2(log)   == log - LogB(log)
TooLarge(log) == LogL2(log) > 14       \* COSET_LMAX = 2^14

NoContent == [none |-> TRUE]
Built(log, inverse) == [log |-> log, inverse |-> inverse]

\* The tables hold the powers that a buffer of size log is multiplied with.  What
\* an earlier build left behind the end of a shorter one is not counted on.
Serves(log, inverse) ==
  /\ content # NoContent
  /\ content.inverse = inverse
  /\ LogB(content.log) = LogB(log)
  /\ LogL2(content.log) >= LogL2(log)

-------------------------------------------------------------------------------
Init ==
  /\ domainLog = 0
  /\ domain = 0
  /\ genReady = FALSE
  /\ genSet = FALSE
  /\ tables = {}
  /\ content = NoContent
  /\ pc = [c \in Callers |-> "idle"]
  /\ call = [c \in Callers |-> NoContent]
  /\ granted = [c \in Callers |-> 0]
  /\ size = [c \in Callers |-> 0]
  /\ value = [c \in Callers |-> Unknown]
  /\ want = [c \in Callers |-> Unknown]
  /\ queue = [c \in Callers |-> <<>>]

Goto(c, from, to) == /\ pc[c] = from
                     /\ pc' = [pc EXCEPT ![c] = to]

Launch(c, kernel) == queue' = [queue EXCEPT ![c] = Append(@, kernel)]

-------------------------------------------------------------------------------
(* gpu_ntt_init and gpu_ntt_cleanup.                                       *)

\* The call returns 0 for size log; size 0: it has not, or has returned -1.
Grant(c, log) == granted' = [granted EXCEPT ![c] = log]

\* Faulty: the size is recorded before the domain is built.
StartInitRecords(c, log) ==
  /\ pc[c] = "idle"
  /\ \/ /\ domainLog >= log
        /\ Grant(c, log)
        /\ UNCHANGED <<pc, call, domainLog>>
     \/ /\ domainLog < log
        /\ pc' = [pc EXCEPT ![c] = "init.check"]
        /\ call' = [call EXCEPT ![c] = [log |-> log]]
        /\ domainLog' = log
        /\ Grant(c, 0)
  /\ UNCHANGED <<domain, genReady, genSet, tables, content, buffers>>

\* The first read of g_ntt_domain_log.
StartInit(c, log) ==
  /\ pc[c] = "idle"
  /\ \/ /\ domainLog >= log
        /\ Grant(c, log)
        /\ UNCHANGED <<pc, call>>
     \/ /\ domainLog < log
        /\ pc' = [pc EXCEPT ![c] = "init.check"]
        /\ call' = [call EXCEPT ![c] = [log |-> log]]
        /\ Grant(c, 0)
  /\ UNCHANGED <<globals, buffers>>

\* The second read: another thread may have recorded a domain in between.
CheckRelease(c) ==
  /\ \/ domainLog # 0 /\ Goto(c, "init.check", "init.release")
     \/ domainLog = 0 /\ Goto(c, "init.check", "init.build")
  /\ UNCHANGED <<globals, call, granted, buffers>>

\* Faulty: the old domain is left for icicle to find.
ReleaseNothing(c) ==
  /\ Goto(c, "init.release", "init.build")
  /\ UNCHANGED <<globals, call, granted, buffers>>

\* The transforms that are on their way have the twiddles of the domain they were
\* launched on: release is not taken to wait for them.
Lost(kernels) ==
  [j \in DOMAIN kernels |->
     IF kernels[j].kind = "ntt" THEN [kind |-> "lost"] ELSE kernels[j]]

ReleaseDomain(c) ==
  /\ Goto(c, "init.release", "init.build")
  /\ domain' = 0
  /\ queue' = [d \in Callers |-> Lost(queue[d])]
  /\ UNCHANGED <<domainLog, genReady, genSet, tables, content, call, granted,
                 size, value, want>>

\* icicle keeps a domain it already has.
BuildDomain(c) ==
  /\ \/ /\ Goto(c, "init.build", "init.record")
        /\ domain' = IF domain = 0 THEN call[c].log ELSE domain
     \/ /\ "domain" \in Failures
        /\ Goto(c, "init.build", "idle")
        /\ UNCHANGED domain
  /\ UNCHANGED <<domainLog, genReady, genSet, tables, content, call, granted, buffers>>

\* Faulty: one less than the size that was built.
RecordOneLess(c) ==
  /\ Goto(c, "init.record", "idle")
  /\ domainLog' = call[c].log - 1
  /\ Grant(c, call[c].log)
  /\ UNCHANGED <<domain, genReady, genSet, tables, content, call, buffers>>

RecordDomain(c) ==
  /\ Goto(c, "init.record", "idle")
  /\ domainLog' = call[c].log
  /\ Grant(c, call[c].log)
  /\ UNCHANGED <<domain, genReady, genSet, tables, content, call, buffers>>

\* The program ends its use of the shim: no call is underway, no kernel runs.
Cleanup ==
  /\ \A c \in Callers : pc[c] = "idle" /\ queue[c] = <<>>
  /\ domainLog' = 0
  /\ domain' = 0
  /\ granted' = [c \in Callers |-> 0]
  /\ UNCHANGED <<genReady, genSet, tables, content, pc, call, buffers>>

-------------------------------------------------------------------------------
(* gpu_ntt, gpu_ntt_dif, gpu_ntt_dit, gpu_ntt_coset, gpu_ntt_coset_dit.    *)

\* A transform is two launches at most; the coset's powers come in before the
\* transform or after the inverse one.
First(op) == CASE ~op.coset              -> "ntt"
               [] op.coset /\ op.inverse -> "ntt"
               [] OTHER                  -> "scale.alloc"

AfterNtt(op)   == IF op.coset /\ op.inverse THEN "scale.alloc" ELSE "return"
AfterScale(op) == IF op.inverse THEN "return" ELSE "ntt"

\* The caller transforms what it has.  Nothing here looks whether there is a
\* domain for its size.
StartTransform(c, op) ==
  /\ pc[c] = "idle"
  /\ Len(queue[c]) < QueueBound
  /\ Accepts(op, want[c])
  /\ call' = [call EXCEPT ![c] = op]
  /\ pc' = [pc EXCEPT ![c] = IF ~op.coset \/ genReady THEN First(op) ELSE "gen.setup"]
  /\ UNCHANGED <<globals, granted, buffers>>

SetupGen(c) ==
  /\ Goto(c, "gen.setup", "gen.sync")
  /\ Launch(c, [kind |-> "gen"])
  /\ UNCHANGED <<globals, call, granted, size, value, want>>

\* The call returns -1 and the caller gives up what is in its buffer.
GiveUp(c, from) == /\ Goto(c, from, "idle")
                   /\ want' = [want EXCEPT ![c] = Unknown]

Fail(c, from) ==
  /\ GiveUp(c, from)
  /\ UNCHANGED <<globals, call, granted, size, value, queue>>

SyncGen(c) ==
  /\ queue[c] = <<>>
  /\ \/ /\ Goto(c, "gen.sync", First(call[c]))
        /\ genReady' = TRUE
        /\ UNCHANGED <<domainLog, domain, genSet, tables, content, call, granted, buffers>>
     \/ /\ "sync" \in Failures
        /\ Fail(c, "gen.sync")

\* icicle refuses a size its domain does not cover.
LaunchNtt(c) ==
  \/ /\ domain >= size[c]
     /\ Goto(c, "ntt", AfterNtt(call[c]))
     /\ Launch(c, [kind |-> "ntt", op |-> call[c]])
     /\ UNCHANGED <<globals, call, granted, size, value, want>>
  \/ /\ domain < size[c]
     /\ Fail(c, "ntt")

\* Both tables are allocated when the first is not there.
AllocTables(c) ==
  /\ \/ /\ "l1" \in tables \/ tables' = {"l1", "l2"}
        /\ "l1" \in tables => UNCHANGED tables
        /\ Goto(c, "scale.alloc", "scale.check")
        /\ UNCHANGED want
     \/ /\ "l1" \notin tables
        /\ \/ "malloc l1" \in Failures /\ UNCHANGED tables
           \/ "malloc l2" \in Failures /\ tables' = {"l1"}
        /\ GiveUp(c, "scale.alloc")
  /\ UNCHANGED <<domainLog, domain, genReady, genSet, content, call, granted,
                 size, value, queue>>

\* A size whose tables would not fit is refused.
CheckSize(c) ==
  \/ /\ ~TooLarge(size[c])
     /\ Goto(c, "scale.check", "scale.build")
     /\ UNCHANGED <<globals, call, granted, buffers>>
  \/ /\ TooLarge(size[c])
     /\ Fail(c, "scale.check")

\* Faulty: the tables are built once for each size, for either direction.
LaunchBuildOnce(c) ==
  /\ Goto(c, "scale.build", "scale.mul")
  /\ IF content # NoContent /\ content.log = size[c]
     THEN UNCHANGED queue
     ELSE Launch(c, [kind |-> "build", inverse |-> call[c].inverse])
  /\ UNCHANGED <<globals, call, granted, size, value, want>>

LaunchBuild(c) ==
  /\ Goto(c, "scale.build", "scale.mul")
  /\ Launch(c, [kind |-> "build", inverse |-> call[c].inverse])
  /\ UNCHANGED <<globals, call, granted, size, value, want>>

LaunchMul(c) ==
  /\ Goto(c, "scale.mul", AfterScale(call[c]))
  /\ Launch(c, [kind |-> "mul", inverse |-> call[c].inverse])
  /\ UNCHANGED <<globals, call, granted, size, value, want>>

ReturnTransform(c) ==
  /\ Goto(c, "return", "idle")
  /\ want' = [want EXCEPT ![c] = Promised(call[c])]
  /\ UNCHANGED <<globals, call, granted, size, value, queue>>

-------------------------------------------------------------------------------
(* The device.  A kernel has its effect when it ends.                      *)

\* What a kernel makes of its caller's buffer: it works on what is in the
\* buffer and in the tables then, with no check.
Result(c, k) ==
  LET v == value[c]
  IN  CASE k.kind = "ntt" /\ v \in Values /\ v.layout = InputLayout(k.op.order)
                          /\ v.basis = IF k.op.inverse THEN "evals" ELSE "coeffs" ->
             [v EXCEPT !.basis = IF k.op.inverse THEN "coeffs" ELSE "evals",
                       !.layout = OutputLayout(k.op.order)]
        [] k.kind = "mul" /\ v \in Values /\ v.basis = "coeffs"
                          /\ v.layout = "natural" /\ v.shifted = k.inverse
                          /\ tables = {"l1", "l2"} /\ Serves(size[c], k.inverse) ->
             [v EXCEPT !.shifted = ~k.inverse]
        [] k.kind \in {"gen", "build"} -> v
        [] OTHER -> Wrong

\* The end of the first kernel on the stream.
EndKernel(c) ==
  /\ queue[c] # <<>>
  /\ LET k == Head(queue[c])
     IN  /\ value' = [value EXCEPT ![c] = Result(c, k)]
         /\ genSet' = (genSet \/ k.kind = "gen")
         /\ content' = IF k.kind = "build" /\ tables = {"l1", "l2"} /\ genSet
                       THEN Built(size[c], k.inverse) ELSE content
  /\ queue' = [queue EXCEPT ![c] = Tail(@)]
  /\ UNCHANGED <<domainLog, domain, genReady, tables, pc, call, granted, size, want>>

-------------------------------------------------------------------------------
(* The callers, outside the shim.                                          *)

\* The caller waits for its stream (gpu_stream_sync), takes a result out
\* (gpu_memcpy_d2h) and puts a polynomial of any size in (gpu_memcpy_h2d).
Load(c, log, v) ==
  /\ pc[c] = "idle" /\ queue[c] = <<>>
  /\ size' = [size EXCEPT ![c] = log]
  /\ value' = [value EXCEPT ![c] = v]
  /\ want' = [want EXCEPT ![c] = v]
  /\ UNCHANGED <<globals, pc, call, granted, queue>>

\* Polynomials come as evaluations on the domain, in natural order.
Loaded == [basis |-> "evals", shifted |-> FALSE, layout |-> "natural"]

Caller(c) ==
  \/ c \in Initialisers /\ \E log \in InitLogs : StartInit(c, log)
  \/ CheckRelease(c) \/ ReleaseDomain(c) \/ BuildDomain(c) \/ RecordDomain(c)
  \/ \E op \in Ops[c] : StartTransform(c, op)
  \/ SetupGen(c) \/ SyncGen(c) \/ LaunchNtt(c) \/ AllocTables(c) \/ CheckSize(c)
  \/ LaunchBuild(c) \/ LaunchMul(c) \/ ReturnTransform(c)
  \/ \E log \in Logs : Load(c, log, Loaded)

Next == \/ \E c \in Callers : Caller(c) \/ EndKernel(c)
        \/ Cleanup

Spec == Init /\ [][Next]_vars
-------------------------------------------------------------------------------
(* Properties.                                                             *)

Labels == {"idle", "init.check", "init.release", "init.build", "init.record",
           "gen.setup", "gen.sync", "ntt", "scale.alloc", "scale.check",
           "scale.build", "scale.mul", "return"}

Kernels == [kind : {"gen", "lost"}] \cup [kind : {"ntt"}, op : Transforms] \cup
           [kind : {"build", "mul"}, inverse : BOOLEAN]

\* The type invariant.
TypeOK ==
  /\ domainLog \in InitLogs \cup {0} /\ domain \in InitLogs \cup {0}
  /\ genReady \in BOOLEAN /\ genSet \in BOOLEAN
  /\ tables \in {{}, {"l1"}, {"l1", "l2"}}
  /\ content \in {NoContent} \cup [log : Logs, inverse : BOOLEAN]
  /\ pc \in [Callers -> Labels]
  /\ call \in [Callers -> {NoContent} \cup [log : InitLogs] \cup Transforms]
  /\ granted \in [Callers -> InitLogs \cup {0}]
  /\ size \in [Callers -> Logs \cup {0}]
  /\ value \in [Callers -> Values \cup {Wrong, Unknown}]
  /\ want \in [Callers -> Values \cup {Unknown}]
  /\ queue \in [Callers -> Seq(Kernels)]

\* A size gpu_ntt_init returned 0 for is covered by the domain icicle has, as
\* the early return's comment "existing (larger) domain covers it" says, while
\* other threads are at any point of their transforms.
GrantsHold == \A c \in Callers : granted[c] <= domain

\* When a caller's stream has come to rest outside any call, its buffer holds
\* what the calls that returned 0 promise, although the tables they multiply
\* with are shared and rebuilt by kernels that run later than the call.
ResultsRight ==
  \A c \in Callers :
    pc[c] = "idle" /\ queue[c] = <<>> /\ want[c] # Unknown => value[c] = want[c]
===============================================================================
