--------------------------- MODULE ShimGlobalsProofs ---------------------------
(***************************************************************************)
(* One thread of a prover asks for the domain (prove_gpu.go:223), others   *)
(* transform at the same time.  gpu_ntt_init reads g_ntt_domain_log twice  *)
(* and writes it long after, so with two such threads one can release the  *)
(* domain another was promised.  With one, the record is its own between   *)
(* its steps, and it has the domain it was promised: for any sequence of   *)
(* sizes when icicle can build them all, and when it cannot, for one size. *)
(*                                                                         *)
(* With one size nobody releases a domain either.  When, besides, one      *)
(* caller divides on the coset, as a prover's own goroutine does,          *)
(* all callers get the results they were promised.  A call returns before  *)
(* its kernels have run, and they read the tables when they run: the       *)
(* invariant follows what the buffer will hold from kernel to kernel, and  *)
(* says of each multiplication on the stream that the build of its table   *)
(* is the kernel before it, or was the last build of all.                  *)
(***************************************************************************)
EXTENDS ShimGlobals, SequenceTheorems, TLAPS

InInit == {"init.check", "init.release", "init.build", "init.record"}

Functions ==
  /\ pc = [c \in Callers |-> pc[c]]
  /\ call = [c \in Callers |-> call[c]]
  /\ granted = [c \in Callers |-> granted[c]]

\* What is known of the domain when i alone asks for it: outside gpu_ntt_init the
\* record is true, inside it nothing is promised.
DomainInv(i) ==
  /\ domainLog \in InitLogs \cup {0}
  /\ granted[i] \in InitLogs \cup {0}
  /\ \A c \in Callers \ {i} : pc[c] \notin InInit /\ granted[c] = 0
  /\ pc[i] \notin InInit => domain = domainLog /\ granted[i] <= domainLog
  /\ pc[i] \in InInit => /\ granted[i] = 0
                         /\ call[i].log \in InitLogs /\ domainLog < call[i].log
  /\ pc[i] \in {"init.check", "init.release"} => domain = domainLog
  /\ pc[i] = "init.release" => domainLog # 0
  /\ pc[i] = "init.build" => domain = 0 /\ ("domain" \in Failures => domainLog = 0)
  /\ pc[i] = "init.record" => domain = call[i].log

IInv(i) == Functions /\ DomainInv(i)

\* A size that can fail is the only one.
BuildsOrOneSize == "domain" \notin Failures \/ \E L : InitLogs = {L}

\* Nobody has asked for a domain.
LEMMA InitInv ==
  ASSUME NEW i \in Callers, Init
  PROVE  IInv(i)
BY DEF Init, IInv, Functions, DomainInv, InInit

\* With one size, whoever passed the first read with no domain recorded finds
\* none recorded at the second.
LEMMA NoRelease ==
  ASSUME NEW i \in Callers, DomainInv(i), NEW L, InitLogs = {L}, NEW c \in Callers
  PROVE  pc[c] # "init.release"
<1>1. CASE c = i
  <2>1. SUFFICES ASSUME pc[i] = "init.release" PROVE FALSE
    BY <1>1
  <2>2. domainLog \in {0, L} /\ domainLog # 0 /\ call[i].log = L /\ domainLog < call[i].log
    BY <2>1 DEF DomainInv, InInit
  <2>3. L \in Nat
    BY LogsAssumption
  <2> QED BY <2>2, <2>3
<1>2. CASE c # i
  BY <1>2 DEF DomainInv, InInit
<1> QED BY <1>1, <1>2

\* gpu_ntt_init.
LEMMA DomainStep ==
  ASSUME BuildsOrOneSize, NEW i \in Callers, IInv(i), NEW c \in Callers,
         \/ c = i /\ \E log \in InitLogs : StartInit(c, log)
         \/ CheckRelease(c) \/ ReleaseDomain(c) \/ BuildDomain(c) \/ RecordDomain(c)
  PROVE  IInv(i)'
<1>1. InitLogs \subseteq Nat \ {0}
  BY LogsAssumption
<1>2. c = i
  BY DEF IInv, DomainInv, InInit, CheckRelease, ReleaseDomain, BuildDomain, RecordDomain, Goto
<1> USE DEF IInv, Functions, DomainInv, InInit
<1>3. ASSUME NEW log \in InitLogs, StartInit(i, log) PROVE IInv(i)'
  <2>1. pc[i] = "idle" /\ UNCHANGED globals
    BY <1>3 DEF StartInit
  <2>2. CASE domainLog >= log /\ Grant(i, log) /\ UNCHANGED <<pc, call>>
    BY <1>1, <2>1, <2>2 DEF Grant, globals
  <2>3. CASE /\ domainLog < log
             /\ pc' = [pc EXCEPT ![i] = "init.check"]
             /\ call' = [call EXCEPT ![i] = [log |-> log]]
             /\ Grant(i, 0)
    BY <1>1, <2>1, <2>3 DEF Grant, globals
  <2> QED BY <1>3, <2>2, <2>3 DEF StartInit
<1>4. CASE CheckRelease(i)
  BY <1>1, <1>4 DEF CheckRelease, Goto, globals
<1>5. CASE ReleaseDomain(i)
  <2>1. "domain" \notin Failures
    <3>1. pc[i] = "init.release"
      BY <1>5 DEF ReleaseDomain, Goto
    <3> QED BY <3>1, NoRelease DEF BuildsOrOneSize
  <2> QED BY <1>5, <2>1 DEF ReleaseDomain, Goto
<1>6. CASE BuildDomain(i)
  BY <1>1, <1>6 DEF BuildDomain, Goto
<1>7. CASE RecordDomain(i)
  <2>1. /\ pc[i] = "init.record" /\ call[i].log \in InitLogs /\ domain = call[i].log
        /\ pc' = [pc EXCEPT ![i] = "idle"] /\ domainLog' = call[i].log
        /\ granted' = [granted EXCEPT ![i] = call[i].log]
        /\ UNCHANGED <<domain, call>>
    BY <1>7 DEF RecordDomain, Goto, Grant
  <2>2. call[i].log <= call[i].log
    BY <1>1, <2>1
  <2> QED BY <1>1, <2>1, <2>2
<1> QED BY <1>2, <1>3, <1>4, <1>5, <1>6, <1>7

\* A transform: it moves its thread between labels of its own.
LEMMA TransformStep ==
  ASSUME NEW i \in Callers, IInv(i), NEW c \in Callers,
         \/ \E op \in Ops[c] : StartTransform(c, op)
         \/ SetupGen(c) \/ SyncGen(c) \/ LaunchNtt(c) \/ AllocTables(c) \/ CheckSize(c)
         \/ LaunchBuild(c) \/ LaunchMul(c) \/ ReturnTransform(c)
  PROVE  IInv(i)'
<1>1. /\ UNCHANGED <<domainLog, domain, granted>>
      /\ pc' = [pc EXCEPT ![c] = pc'[c]]
      /\ pc[c] \notin InInit /\ pc'[c] \notin InInit
      /\ call' = [call EXCEPT ![c] = call'[c]]
  BY DEF IInv, Functions, StartTransform, SetupGen, SyncGen, LaunchNtt, AllocTables,
     CheckSize, LaunchBuild, LaunchMul, ReturnTransform, GiveUp, Fail, Goto, First,
     AfterNtt, AfterScale, InInit, globals, buffers
<1> QED BY <1>1 DEF IInv, Functions, DomainInv, InInit

\* All steps together.
LEMMA StepInv ==
  ASSUME BuildsOrOneSize, NEW i \in Callers, Initialisers \subseteq {i}, IInv(i), [Next]_vars
  PROVE  IInv(i)'
<1>1. ASSUME NEW c \in Callers, Caller(c) PROVE IInv(i)'
  <2>1. ASSUME NEW log \in Logs, Load(c, log, Loaded) PROVE IInv(i)'
    BY <2>1 DEF Load, IInv, Functions, DomainInv, globals
  <2>2. CASE \/ c \in Initialisers /\ \E log \in InitLogs : StartInit(c, log)
             \/ CheckRelease(c) \/ ReleaseDomain(c) \/ BuildDomain(c) \/ RecordDomain(c)
    BY <2>2, DomainStep
  <2>3. CASE \/ \E op \in Ops[c] : StartTransform(c, op)
             \/ SetupGen(c) \/ SyncGen(c) \/ LaunchNtt(c) \/ AllocTables(c) \/ CheckSize(c)
             \/ LaunchBuild(c) \/ LaunchMul(c) \/ ReturnTransform(c)
    BY <2>3, TransformStep
  <2> QED BY <1>1, <2>1, <2>2, <2>3 DEF Caller
<1>2. ASSUME NEW c \in Callers, EndKernel(c) PROVE IInv(i)'
  BY <1>2 DEF EndKernel, IInv, Functions, DomainInv
<1>3. CASE Cleanup
  BY <1>3 DEF Cleanup, IInv, Functions, DomainInv, InInit
<1>4. CASE UNCHANGED vars
  BY <1>4 DEF vars, IInv, Functions, DomainInv
<1> QED BY <1>1, <1>2, <1>3, <1>4 DEF Next

\* When one caller asks for the domain, it has the domain gpu_ntt_init returned 0
\* for, through all transforms of all callers: it may ask for larger and larger
\* ones as long as icicle builds them, and when icicle may fail, for one size.
THEOREM GrantsHoldThm ==
  ASSUME BuildsOrOneSize, NEW i \in Callers, Initialisers \subseteq {i}
  PROVE  Spec => []GrantsHold
<1>1. Init => IInv(i)
  BY InitInv
<1>2. IInv(i) /\ [Next]_vars => IInv(i)'
  BY StepInv
<1>3. ASSUME IInv(i) PROVE GrantsHold
  <2>1. InitLogs \subseteq Nat
    BY LogsAssumption
  <2>2. domain \in Nat /\ granted[i] <= domain
    <3>1. CASE pc[i] \notin InInit
      BY <1>3, <2>1, <3>1 DEF IInv, DomainInv
    <3>2. CASE pc[i] \in InInit
      <4>1. domain \in InitLogs \cup {0}
        <5>1. DomainInv(i)
          BY <1>3 DEF IInv
        <5>2. \/ pc[i] \in {"init.check", "init.release"}
              \/ pc[i] = "init.build" \/ pc[i] = "init.record"
          BY <3>2 DEF InInit
        <5> QED BY <3>2, <5>1, <5>2 DEF DomainInv
      <4>2. granted[i] = 0
        BY <1>3, <3>2 DEF IInv, DomainInv
      <4>3. domain \in Nat
        <5>1. 0 \in Nat
          OBVIOUS
        <5> QED BY <2>1, <4>1, <5>1
      <4> QED BY <4>2, <4>3
    <3> QED BY <3>1, <3>2
  <2>3. ASSUME NEW c \in Callers PROVE granted[c] <= domain
    BY <1>3, <2>2 DEF IInv, DomainInv
  <2> QED BY <2>3 DEF GrantsHold
<1> QED BY <1>1, <1>2, <1>3, PTL DEF Spec

-------------------------------------------------------------------------------
(* Type correctness, whatever the callers do.                              *)

\* TypeOK, and that a buffer that is transformed has a size.
Typed ==
  /\ TypeOK
  /\ \A c \in Callers :
       /\ want[c] \in Values => size[c] \in Logs
       /\ queue[c] # <<>> => size[c] \in Logs
       /\ pc[c] \in InInit => call[c] \in [log : InitLogs]
       /\ pc[c] \in Labels \ ({"idle"} \cup InInit) =>
            size[c] \in Logs /\ call[c] \in Transforms

\* What the device does to a buffer leaves it a value.
LEMMA ResultLemma ==
  ASSUME NEW c \in Callers, NEW k \in Kernels, value[c] \in Values \cup {Wrong, Unknown}
  PROVE  Result(c, k) \in Values \cup {Wrong, Unknown}
<1> DEFINE v == value[c]
<1>1. ASSUME v \in Values, NEW b \in {"coeffs", "evals"}, NEW l \in {"natural", "reversed"},
             NEW h \in BOOLEAN
      PROVE  /\ [v EXCEPT !.basis = b, !.layout = l] \in Values
             /\ [v EXCEPT !.shifted = h] \in Values
  BY <1>1 DEF Values
<1>2. CASE k.kind = "ntt" /\ v \in Values
  BY <1>1, <1>2 DEF Result, OutputLayout
<1>3. CASE k.kind = "mul" /\ v \in Values
  BY <1>1, <1>3 DEF Result, Kernels
<1>4. CASE k.kind \in {"gen", "build", "lost"} \/ v \notin Values
  BY <1>4 DEF Result
<1> QED BY <1>2, <1>3, <1>4 DEF Kernels

\* A transform goes from one of its labels to another and launches kernels.
LEMMA TransformTyped ==
  ASSUME Typed, NEW c \in Callers,
         \/ \E op \in Ops[c] : StartTransform(c, op)
         \/ SetupGen(c) \/ SyncGen(c) \/ LaunchNtt(c) \/ AllocTables(c) \/ CheckSize(c)
         \/ LaunchBuild(c) \/ LaunchMul(c) \/ ReturnTransform(c)
  PROVE  Typed'
<1> DEFINE own == Labels \ ({"idle"} \cup InInit)
<1>1. size[c] \in Logs
  BY OpsAssumption
     DEF Typed, TypeOK, Labels, InInit, StartTransform, Accepts, SetupGen, SyncGen, LaunchNtt,
         AllocTables, CheckSize, LaunchBuild, LaunchMul, ReturnTransform, Goto, GiveUp, Fail
<1>2. /\ UNCHANGED <<domainLog, domain, genSet, content, granted, size, value>>
      /\ genReady' \in BOOLEAN /\ tables' \in {{}, {"l1"}, {"l1", "l2"}}
  BY DEF Typed, TypeOK, StartTransform, SetupGen, SyncGen, LaunchNtt, AllocTables, CheckSize,
     LaunchBuild, LaunchMul, ReturnTransform, GiveUp, Fail, globals, buffers
<1>3. PICK l \in {"idle"} \cup own : pc' = [pc EXCEPT ![c] = l]
  <2>1. \A op \in Transforms : {First(op), AfterNtt(op), AfterScale(op)} \subseteq own
    BY DEF First, AfterNtt, AfterScale, Labels, InInit
  <2> QED
    BY <2>1, OpsAssumption
       DEF Typed, TypeOK, Labels, InInit, StartTransform, SetupGen, SyncGen, LaunchNtt,
           AllocTables, CheckSize, LaunchBuild, LaunchMul, ReturnTransform, Goto, GiveUp, Fail
<1>4. \E op \in Transforms : call' = [call EXCEPT ![c] = op]
  <2>1. CASE \E op \in Ops[c] : StartTransform(c, op)
    BY <2>1, OpsAssumption DEF StartTransform
  <2>2. CASE call[c] \in Transforms /\ UNCHANGED call
    BY <2>2 DEF Typed, TypeOK
  <2> QED
    BY <2>1, <2>2
       DEF Typed, Labels, InInit, SetupGen, SyncGen, LaunchNtt, AllocTables, CheckSize,
           LaunchBuild, LaunchMul, ReturnTransform, Goto, GiveUp, Fail
<1>5. \E v \in Values \cup {Unknown} : want' = [want EXCEPT ![c] = v]
  <2>1. \A op \in Transforms : Promised(op) \in Values
    BY DEF Transforms, Promised, Values, OutputLayout
  <2>2. CASE ReturnTransform(c)
    BY <2>1, <2>2 DEF ReturnTransform, Goto, Typed, Labels, InInit
  <2>3. CASE UNCHANGED want
    BY <2>3 DEF Typed, TypeOK
  <2>4. CASE want' = [want EXCEPT ![c] = Unknown]
    BY <2>4
  <2> QED
    BY <2>2, <2>3, <2>4 DEF StartTransform, SetupGen, SyncGen, LaunchNtt, AllocTables,
       CheckSize, LaunchBuild, LaunchMul, GiveUp, Fail, buffers
<1>6. \/ UNCHANGED queue
      \/ \E k \in Kernels : queue' = [queue EXCEPT ![c] = Append(@, k)]
  <2>1. \/ UNCHANGED queue
        \/ SetupGen(c) \/ LaunchBuild(c) \/ LaunchMul(c)
        \/ Goto(c, "ntt", AfterNtt(call[c])) /\ Launch(c, [kind |-> "ntt", op |-> call[c]])
    BY DEF StartTransform, SyncGen, LaunchNtt, AllocTables, CheckSize, ReturnTransform, Fail,
       buffers
  <2>2. CASE SetupGen(c)
    BY <2>2 DEF SetupGen, Launch, Kernels
  <2>3. CASE LaunchBuild(c) \/ LaunchMul(c)
    <3>1. call[c].inverse \in BOOLEAN
      BY <2>3 DEF LaunchBuild, LaunchMul, Goto, Typed, Labels, InInit, Transforms
    <3> QED BY <2>3, <3>1 DEF LaunchBuild, LaunchMul, Launch, Kernels
  <2>4. CASE Goto(c, "ntt", AfterNtt(call[c])) /\ Launch(c, [kind |-> "ntt", op |-> call[c]])
    BY <2>4 DEF Goto, Launch, Kernels, Typed, Labels, InInit
  <2> QED BY <2>1, <2>2, <2>3, <2>4
<1>7. /\ queue' \in [Callers -> Seq(Kernels)]
      /\ \A d \in Callers \ {c} : queue'[d] = queue[d]
  <2>1. CASE UNCHANGED queue
    BY <2>1 DEF Typed, TypeOK
  <2>2. ASSUME NEW k \in Kernels, queue' = [queue EXCEPT ![c] = Append(@, k)]
        PROVE  /\ queue' \in [Callers -> Seq(Kernels)]
               /\ \A d \in Callers \ {c} : queue'[d] = queue[d]
    <3>1. Append(queue[c], k) \in Seq(Kernels)
      BY AppendProperties DEF Typed, TypeOK
    <3> QED BY <2>2, <3>1 DEF Typed, TypeOK
  <2> QED BY <1>6, <2>1, <2>2
<1>8. TypeOK'
  <2>1. pc' \in [Callers -> Labels]
    BY <1>3 DEF Typed, TypeOK, Labels, InInit
  <2>2. call' \in [Callers -> {NoContent} \cup [log : InitLogs] \cup Transforms]
    BY <1>4 DEF Typed, TypeOK
  <2>3. want' \in [Callers -> Values \cup {Unknown}]
    BY <1>5 DEF Typed, TypeOK
  <2> QED BY <1>2, <1>7, <2>1, <2>2, <2>3 DEF Typed, TypeOK
<1>9. ASSUME NEW d \in Callers
      PROVE  /\ want'[d] \in Values => size'[d] \in Logs
             /\ queue'[d] # <<>> => size'[d] \in Logs
             /\ pc'[d] \in InInit => call'[d] \in [log : InitLogs]
             /\ pc'[d] \in own => size'[d] \in Logs /\ call'[d] \in Transforms
  <2>1. CASE d = c
    BY <1>1, <1>2, <1>3, <1>4, <2>1 DEF Typed, TypeOK, InInit
  <2>2. CASE d # c
    BY <1>2, <1>3, <1>4, <1>5, <1>7, <2>2 DEF Typed, TypeOK
  <2> QED BY <2>1, <2>2
<1> QED BY <1>8, <1>9 DEF Typed

\* A release changes kernels on the streams, and leaves as many.
LEMMA LostTyped ==
  ASSUME NEW q \in Seq(Kernels)
  PROVE  Lost(q) \in Seq(Kernels) /\ (Lost(q) # <<>> => q # <<>>)
<1>1. [kind |-> "lost"] \in Kernels
  BY DEF Kernels
<1>2. \A j \in DOMAIN q : q[j] \in Kernels
  BY ElementOfSeq
<1>3. DOMAIN q = 1 .. Len(q) /\ Len(q) \in Nat
  OBVIOUS
<1>4. Lost(q) \in [1 .. Len(q) -> Kernels]
  BY <1>1, <1>2, <1>3 DEF Lost
<1>5. Lost(q) \in Seq(Kernels) /\ Len(Lost(q)) = Len(q)
  BY <1>3, <1>4
<1> QED BY <1>5, EmptySeq

\* gpu_ntt_init, a caller that loads its buffer, the device, the end.
LEMMA OtherTyped ==
  ASSUME Typed, NEW c \in Callers,
         \/ \E log \in InitLogs : StartInit(c, log)
         \/ CheckRelease(c) \/ ReleaseDomain(c) \/ BuildDomain(c) \/ RecordDomain(c)
         \/ \E log \in Logs : Load(c, log, Loaded)
         \/ EndKernel(c)
  PROVE  Typed'
<1> USE DEF Typed, TypeOK
<1>1. ASSUME NEW log \in InitLogs, StartInit(c, log) PROVE Typed'
  <2>1. CASE Grant(c, log) /\ UNCHANGED <<pc, call, globals, buffers>>
    BY <2>1 DEF Grant, globals, buffers
  <2>2. CASE /\ pc[c] = "idle" /\ pc' = [pc EXCEPT ![c] = "init.check"]
             /\ call' = [call EXCEPT ![c] = [log |-> log]]
             /\ Grant(c, 0) /\ UNCHANGED <<globals, buffers>>
    BY <2>2 DEF Grant, Labels, InInit, globals, buffers
  <2> QED BY <1>1, <2>1, <2>2 DEF StartInit
<1>2. CASE CheckRelease(c)
  BY <1>2 DEF CheckRelease, Goto, Labels, InInit, globals, buffers
<1>7. CASE ReleaseDomain(c)
  <2>1. /\ queue' \in [Callers -> Seq(Kernels)]
        /\ \A d \in Callers : queue'[d] # <<>> => queue[d] # <<>>
    BY <1>7, LostTyped DEF ReleaseDomain
  <2>2. UNCHANGED <<domainLog, genReady, genSet, tables, content, call, granted, size, value, want>>
    BY <1>7 DEF ReleaseDomain
  <2> QED BY <1>7, <2>1, <2>2 DEF ReleaseDomain, Goto, Labels, InInit
<1>3. CASE BuildDomain(c)
  <2>1. call[c].log \in InitLogs
    BY <1>3 DEF BuildDomain, Goto, InInit
  <2> QED BY ZenonT(40), <1>3, <2>1 DEF BuildDomain, Goto, Labels, InInit, buffers
<1>4. CASE RecordDomain(c)
  <2>1. call[c].log \in InitLogs
    BY <1>4 DEF RecordDomain, Goto, InInit
  <2> QED BY <1>4, <2>1 DEF RecordDomain, Goto, Grant, Labels, InInit, buffers
<1>5. ASSUME NEW log \in Logs, Load(c, log, Loaded) PROVE Typed'
  <2>1. Loaded \in Values
    BY DEF Loaded, Values
  <2> QED BY <1>5, <2>1 DEF Load, globals
<1>6. CASE EndKernel(c)
  <2>1. queue[c] \in Seq(Kernels) /\ queue[c] # <<>>
    BY <1>6 DEF EndKernel
  <2>2. Head(queue[c]) \in Kernels /\ Tail(queue[c]) \in Seq(Kernels)
    BY <2>1, HeadTailProperties
  <2>3. Result(c, Head(queue[c])) \in Values \cup {Wrong, Unknown}
    BY <2>2, ResultLemma
  <2>4. content' \in {NoContent} \cup [log : Logs, inverse : BOOLEAN]
    <3>1. Head(queue[c]).kind = "build" => Head(queue[c]).inverse \in BOOLEAN
      BY <2>2 DEF Kernels
    <3> QED BY <1>6, <2>1, <3>1 DEF EndKernel, Built
  <2>5. genSet' \in BOOLEAN
    BY <1>6 DEF EndKernel
  <2>6. /\ value' = [value EXCEPT ![c] = Result(c, Head(queue[c]))]
        /\ queue' = [queue EXCEPT ![c] = Tail(@)]
        /\ UNCHANGED <<domainLog, domain, genReady, tables, pc, call, granted, size, want>>
    BY <1>6 DEF EndKernel
  <2> QED BY <2>1, <2>2, <2>3, <2>4, <2>5, <2>6
<1> QED BY <1>1, <1>2, <1>3, <1>4, <1>5, <1>6, <1>7

LEMMA InitTyped == Init => Typed
<1>1. Unknown \notin Values
  BY DEF Unknown, Values
<1>2. Init => /\ queue \in [Callers -> Seq(Kernels)] /\ \A c \in Callers : queue[c] = <<>>
              /\ pc \in [Callers -> Labels] /\ \A c \in Callers : pc[c] = "idle"
  BY DEF Init, Labels
<1>3. Init => \A c \in Callers : want[c] = Unknown
  BY DEF Init
<1>4. Init => TypeOK
  BY <1>2 DEF Init, TypeOK
<1> QED BY <1>1, <1>2, <1>3, <1>4 DEF Typed, InInit

LEMMA StepTyped == Typed /\ [Next]_vars => Typed'
<1>1. ASSUME Typed, UNCHANGED vars PROVE Typed'
  BY <1>1 DEF vars, Typed, TypeOK
<1>2. ASSUME Typed, Cleanup PROVE Typed'
  BY <1>2 DEF Cleanup, buffers, Typed, TypeOK
<1>3. ASSUME Typed, NEW c \in Callers, Caller(c) \/ EndKernel(c) PROVE Typed'
  BY <1>3, TransformTyped, OtherTyped DEF Caller
<1> QED BY <1>1, <1>2, <1>3 DEF Next

\* Whatever sizes are asked for, whichever transforms are made and whatever
\* fails, the shim's globals and the kernels on the streams have their shape.
THEOREM TypeOKThm == Spec => []TypeOK
BY InitTyped, StepTyped, PTL DEF Spec, Typed
-------------------------------------------------------------------------------
(* What the buffers hold.                                                  *)

\* A caller that makes coset transforms.  The theorem is about programs with at
\* most one, which never asks for the forward transform on reversed order.
Divides(c) == \E op \in Ops[c] : op.coset

OneDivider ==
  /\ \A c, d \in Callers : Divides(c) /\ Divides(d) => c = d
  /\ \A c \in Callers : \A op \in Ops[c] : op.coset /\ ~op.inverse => op.order = "NN"

\* The labels of a transform, and those where the coset's generator is set up.
InSetup     == {"gen.setup", "gen.sync"}
InScale     == {"scale.alloc", "scale.check", "scale.build", "scale.mul"}
InTransform == InSetup \cup InScale \cup {"ntt", "return"}

NttKernel(op)        == [kind |-> "ntt", op |-> op]
BuildKernel(inverse) == [kind |-> "build", inverse |-> inverse]
MulKernel(inverse)   == [kind |-> "mul", inverse |-> inverse]

\* What kernel k of caller c finds in the buffer when all goes well, and what it
\* leaves there.
Needs(c, k) ==
  CASE k.kind = "ntt" -> [basis |-> IF k.op.inverse THEN "evals" ELSE "coeffs",
                          shifted |-> k.op.coset, layout |-> InputLayout(k.op.order)]
    [] k.kind \in {"build", "mul"} ->
                         [basis |-> "coeffs", shifted |-> k.inverse, layout |-> "natural"]
    [] k.kind = "gen" -> want[c]

Gives(c, k) ==
  CASE k.kind = "ntt" -> [basis |-> IF k.op.inverse THEN "coeffs" ELSE "evals",
                          shifted |-> k.op.coset, layout |-> OutputLayout(k.op.order)]
    [] k.kind = "mul" -> [basis |-> "coeffs", shifted |-> ~k.inverse, layout |-> "natural"]
    [] k.kind \in {"build", "gen"} -> Needs(c, k)

\* What the buffer will hold when all kernels launched so far are done.
Underway(c) ==
  CASE pc[c] = "ntt"       -> Needs(c, NttKernel(call[c]))
    [] pc[c] \in InScale   -> Needs(c, MulKernel(call[c].inverse))
    [] pc[c] = "return"    -> Promised(call[c])
    [] OTHER               -> want[c]

\* What it will hold when the first j - 1 of them are.
At(c, j) == IF j \in 1 .. Len(queue[c]) THEN Needs(c, queue[c][j]) ELSE Underway(c)

\* Each kernel finds what it needs, the first one now, the others when the one
\* before them is done.
Chained(c) ==
  want[c] # Unknown =>
    /\ value[c] = At(c, 1)
    /\ \A j \in 1 .. Len(queue[c]) : Gives(c, queue[c][j]) = At(c, j + 1)

\* A multiplication that is number j on the stream will find its table: it was
\* built for it last, or the build is the kernel before it.
TableReady(c, j, inverse) ==
  IF j = 1 THEN content = Built(size[c], inverse)
           ELSE queue[c][j - 1] = BuildKernel(inverse)

Tabled(c) ==
  /\ \A j \in 1 .. Len(queue[c]) :
       LET k == queue[c][j]
       IN  /\ k.kind # "lost"
           /\ k.kind = "gen" => pc[c] = "gen.sync"
           /\ k.kind \in {"build", "mul"} => Divides(c) /\ genSet /\ tables = {"l1", "l2"}
           /\ k.kind = "mul" => TableReady(c, j, k.inverse)
  /\ pc[c] \in InScale \ {"scale.alloc"} => tables = {"l1", "l2"}
  /\ pc[c] = "scale.mul" => TableReady(c, Len(queue[c]) + 1, call[c].inverse)

\* The call is one of the caller's, for what its buffer will hold; before it
\* launches anything on the coset the generator has been set up.
Called(c) ==
  /\ pc[c] \in InTransform =>
       /\ call[c] \in Ops[c] /\ Accepts(call[c], want[c])
       /\ pc[c] \in InSetup \cup InScale => call[c].coset
       /\ pc[c] \notin InSetup /\ call[c].coset => genSet
  /\ pc[c] = "gen.sync" /\ ~genSet =>
       \E j \in 1 .. Len(queue[c]) : queue[c][j].kind = "gen"

ResultInv ==
  /\ tables \in {{}, {"l1", "l2"}}
  /\ genReady => genSet
  /\ \A c \in Callers : Called(c) /\ Tabled(c) /\ Chained(c)

-------------------------------------------------------------------------------
(* Values.                                                                 *)

\* A value is determined by its three fields.
LEMMA ValueFields ==
  ASSUME NEW v \in Values
  PROVE  v = [basis |-> v.basis, shifted |-> v.shifted, layout |-> v.layout]
BY DEF Values

\* The kernels of a transform, in the order of its launches, take the value the
\* transform accepts to the one it promises.
LEMMA KernelsOf ==
  ASSUME OneDivider, NEW c \in Callers, NEW op \in Ops[c], NEW v, Accepts(op, v)
  PROVE  LET ntt == NttKernel(op)
             mul == MulKernel(op.inverse)
         IN  /\ ntt \in Kernels /\ mul \in Kernels /\ BuildKernel(op.inverse) \in Kernels
             /\ v \in Values
             /\ First(op) = "ntt" => v = Needs(c, ntt)
             /\ First(op) = "scale.alloc" => op.coset /\ v = Needs(c, mul)
             /\ First(op) \in {"ntt", "scale.alloc"}
             /\ AfterNtt(op) = "return" => Gives(c, ntt) = Promised(op)
             /\ AfterNtt(op) = "scale.alloc" => op.coset /\ Gives(c, ntt) = Needs(c, mul)
             /\ AfterNtt(op) \in {"return", "scale.alloc"}
             /\ op.coset /\ AfterScale(op) = "return" => Gives(c, mul) = Promised(op)
             /\ op.coset /\ AfterScale(op) = "ntt" => Gives(c, mul) = Needs(c, ntt)
             /\ AfterScale(op) \in {"return", "ntt"}
             /\ Promised(op) \in Values
<1>1. /\ op \in Transforms /\ op.inverse \in BOOLEAN /\ op.coset \in BOOLEAN
      /\ op.order \in {"NN", "NR", "RN"} /\ op.coset => op.order \in {"NN", "RN"}
      /\ op.coset /\ ~op.inverse => op.order = "NN"
  BY OpsAssumption DEF Transforms, OneDivider
<1>2. /\ v \in Values /\ v.layout = InputLayout(op.order)
      /\ v.basis = (IF op.inverse THEN "evals" ELSE "coeffs")
      /\ v.shifted = (op.coset /\ op.inverse)
      /\ v = [basis |-> v.basis, shifted |-> v.shifted, layout |-> v.layout]
  BY ValueFields DEF Accepts
<1>3. NttKernel(op) \in Kernels /\ MulKernel(op.inverse) \in Kernels
      /\ BuildKernel(op.inverse) \in Kernels
  BY <1>1 DEF Kernels, NttKernel, MulKernel, BuildKernel
<1>4. /\ Needs(c, NttKernel(op)) =
           [basis |-> IF op.inverse THEN "evals" ELSE "coeffs",
            shifted |-> op.coset, layout |-> InputLayout(op.order)]
      /\ Gives(c, NttKernel(op)) =
           [basis |-> IF op.inverse THEN "coeffs" ELSE "evals",
            shifted |-> op.coset, layout |-> OutputLayout(op.order)]
      /\ Needs(c, MulKernel(op.inverse)) =
           [basis |-> "coeffs", shifted |-> op.inverse, layout |-> "natural"]
      /\ Gives(c, MulKernel(op.inverse)) =
           [basis |-> "coeffs", shifted |-> ~op.inverse, layout |-> "natural"]
  BY DEF Needs, Gives, NttKernel, MulKernel
<1>5. /\ First(op) = (IF op.coset /\ ~op.inverse THEN "scale.alloc" ELSE "ntt")
      /\ AfterNtt(op) = (IF op.coset /\ op.inverse THEN "scale.alloc" ELSE "return")
      /\ AfterScale(op) = (IF op.inverse THEN "return" ELSE "ntt")
  BY <1>1 DEF First, AfterNtt, AfterScale
<1>6. Promised(op) \in Values
  BY <1>1 DEF Promised, Values, OutputLayout
<1>7. CASE ~op.coset
  BY <1>1, <1>2, <1>3, <1>4, <1>5, <1>6, <1>7 DEF Promised
<1>8. CASE op.coset /\ op.inverse
  BY <1>1, <1>2, <1>3, <1>4, <1>5, <1>6, <1>8 DEF Promised, OutputLayout
<1>9. CASE op.coset /\ ~op.inverse
  BY <1>1, <1>2, <1>3, <1>4, <1>5, <1>6, <1>9 DEF Promised, InputLayout
<1> QED BY <1>1, <1>7, <1>8, <1>9

-------------------------------------------------------------------------------
(* Streams.                                                                *)

\* One more kernel on a stream.
LEMMA Appended ==
  ASSUME NEW q \in Seq(Kernels), NEW k \in Kernels
  PROVE  /\ Len(Append(q, k)) = Len(q) + 1 /\ Len(q) \in Nat
         /\ \A j \in 1 .. Len(q) : Append(q, k)[j] = q[j] /\ j \in 1 .. Len(q) + 1
         /\ Append(q, k)[Len(q) + 1] = k
         /\ \A j \in 1 .. Len(q) : q[j] \in Kernels
BY AppendProperties, ElementOfSeq

\* One kernel less.
LEMMA Ended ==
  ASSUME NEW q \in Seq(Kernels), q # <<>>
  PROVE  \E n \in Nat :
           /\ Len(q) = n + 1 /\ Len(Tail(q)) = n
           /\ q[1] = Head(q) /\ Head(q) \in Kernels
           /\ \A j \in 1 .. n : Tail(q)[j] = q[j + 1]
           /\ \A j \in 1 .. n + 1 : q[j] \in Kernels
<1>1. Len(q) \in Nat /\ Len(q) # 0
  BY EmptySeq
<1>2. PICK n \in Nat : Len(q) = n + 1
  <2>1. Len(q) - 1 \in Nat /\ Len(q) = (Len(q) - 1) + 1
    BY <1>1
  <2> QED BY <2>1
<1>3. /\ Head(q) = q[1] /\ Head(q) \in Kernels /\ Len(Tail(q)) = Len(q) - 1
      /\ \A j \in 1 .. Len(q) - 1 : Tail(q)[j] = q[j + 1]
  BY HeadTailProperties
<1>4. \A j \in 1 .. Len(q) : q[j] \in Kernels
  BY ElementOfSeq
<1>5. Len(q) - 1 = n
  BY <1>2
<1> QED BY <1>2, <1>3, <1>4, <1>5

\* A call that launches nothing and moves to a label with the same promise.
LEMMA StayChained ==
  ASSUME NEW c \in Callers, Chained(c), queue'[c] = queue[c], value'[c] = value[c],
         want'[c] = want[c], Underway(c)' = Underway(c)
  PROVE  Chained(c)'
<1>1. \A k : Needs(c, k)' = Needs(c, k) /\ Gives(c, k)' = Gives(c, k)
  BY DEF Needs, Gives
<1>2. \A j : At(c, j)' = At(c, j)
  BY <1>1 DEF At
<1> QED BY <1>1, <1>2 DEF Chained

\* A launch of a kernel that finds what is underway.
LEMMA LaunchChained ==
  ASSUME Typed, NEW c \in Callers, NEW k \in Kernels, Chained(c), Launch(c, k),
         UNCHANGED <<value, want>>,
         want[c] # Unknown => Needs(c, k) = Underway(c) /\ Gives(c, k) = Underway(c)'
  PROVE  Chained(c)'
<1> DEFINE q == queue[c]
<1>1. queue'[c] = Append(q, k) /\ q \in Seq(Kernels)
  BY DEF Launch, Typed, TypeOK
<1>2. PICK n \in Nat : /\ n = Len(q) /\ Len(queue'[c]) = n + 1 /\ queue'[c][n + 1] = k
                      /\ \A j \in 1 .. n : queue'[c][j] = q[j]
  BY <1>1, Appended
<1>3. \A l : Needs(c, l)' = Needs(c, l) /\ Gives(c, l)' = Gives(c, l)
  BY DEF Needs, Gives
<1> SUFFICES ASSUME want[c] # Unknown
             PROVE  /\ value[c] = At(c, 1)'
                    /\ \A j \in 1 .. n + 1 : Gives(c, queue'[c][j]) = At(c, j + 1)'
  BY <1>2, <1>3 DEF Chained
<1>4. \A j \in 1 .. n + 1 : At(c, j)' = At(c, j)
  <2>1. \A j \in 1 .. n : At(c, j)' = At(c, j)
    BY <1>2, <1>3 DEF At
  <2>2. At(c, n + 1)' = Needs(c, k) /\ At(c, n + 1) = Underway(c)
    <3>1. n + 1 \in 1 .. n + 1 /\ n + 1 \notin 1 .. n
      BY <1>2
    <3> QED BY <1>2, <1>3, <3>1 DEF At
  <2>3. \A j \in 1 .. n + 1 : j \in 1 .. n \/ j = n + 1
    BY <1>2
  <2> QED BY <1>2, <2>1, <2>2, <2>3
<1>5. At(c, n + 2)' = Underway(c)'
  <2>1. n + 2 \notin 1 .. n + 1
    BY <1>2
  <2> QED BY <1>2, <2>1 DEF At
<1>6. \A j \in 1 .. n : Gives(c, queue'[c][j]) = At(c, j + 1)'
  BY <1>2, <1>4 DEF Chained
<1>7. value[c] = At(c, 1)'
  BY <1>2, <1>4 DEF Chained
<1>8. Gives(c, queue'[c][n + 1]) = At(c, (n + 1) + 1)'
  <2>1. (n + 1) + 1 = n + 2
    OBVIOUS
  <2>2. Gives(c, queue'[c][n + 1]) = Underway(c)'
    BY <1>2
  <2> QED BY <1>5, <2>1, <2>2
<1>9. \A j \in 1 .. n + 1 : j \in 1 .. n \/ j = n + 1
  OBVIOUS
<1> QED BY <1>6, <1>7, <1>8, <1>9

\* What a caller's stream holds stays right while others work: only the caller
\* that divides has kernels that depend on the tables, and it alone rebuilds them.
LEMMA Untouched ==
  ASSUME ResultInv, NEW d \in Callers,
         pc'[d] = pc[d], call'[d] = call[d], size'[d] = size[d], value'[d] = value[d],
         want'[d] = want[d], queue'[d] = queue[d],
         genSet => genSet', tables = {"l1", "l2"} => tables' = {"l1", "l2"},
         content' = content \/ ~Divides(d)
  PROVE  Called(d)' /\ Tabled(d)' /\ Chained(d)'
<1>1. Called(d)'
  BY DEF ResultInv, Called
<1>2. Tabled(d)'
  <2>1. pc[d] \in InScale => Divides(d)
    BY DEF ResultInv, Called, Divides, InTransform
  <2>2. \A j, inverse : TableReady(d, j, inverse) /\ (j = 1 => content' = content)
                          => TableReady(d, j, inverse)'
    BY DEF TableReady
  <2>3. ASSUME NEW j \in 1 .. Len(queue[d])
        PROVE  LET k == queue[d][j]
               IN  /\ k.kind # "lost"
                   /\ k.kind = "gen" => pc'[d] = "gen.sync"
                   /\ k.kind \in {"build", "mul"} =>
                        Divides(d) /\ genSet' /\ tables' = {"l1", "l2"}
                   /\ k.kind = "mul" => TableReady(d, j, k.inverse)'
    BY <2>2, <2>3 DEF ResultInv, Tabled
  <2>4. pc[d] = "scale.mul" => TableReady(d, Len(queue[d]) + 1, call[d].inverse)'
    BY <2>1, <2>2 DEF ResultInv, Tabled, InScale
  <2>5. pc'[d] \in InScale \ {"scale.alloc"} => tables' = {"l1", "l2"}
    BY DEF ResultInv, Tabled
  <2> QED BY <2>3, <2>4, <2>5 DEF Tabled
<1>3. Underway(d)' = Underway(d)
  BY DEF Underway, Needs
<1> QED BY <1>1, <1>2, <1>3, StayChained DEF ResultInv

\* The tables when the caller launches nothing.
LEMMA StayTabled ==
  ASSUME NEW c \in Callers, Tabled(c), queue'[c] = queue[c], UNCHANGED <<size, content>>,
         genSet => genSet', tables = {"l1", "l2"} => tables' = {"l1", "l2"},
         pc[c] # "gen.sync" \/ Len(queue[c]) = 0,
         pc'[c] \in InScale \ {"scale.alloc"} => tables' = {"l1", "l2"},
         pc'[c] # "scale.mul"
  PROVE  Tabled(c)'
<1>1. \A j, inverse : TableReady(c, j, inverse)' <=> TableReady(c, j, inverse)
  BY DEF TableReady
<1>2. ASSUME NEW j \in 1 .. Len(queue[c])
      PROVE  LET k == queue[c][j]
             IN  /\ k.kind # "lost"
                 /\ k.kind = "gen" => pc'[c] = "gen.sync"
                 /\ k.kind \in {"build", "mul"} =>
                      Divides(c) /\ genSet' /\ tables' = {"l1", "l2"}
                 /\ k.kind = "mul" => TableReady(c, j, k.inverse)'
  BY <1>1, <1>2 DEF Tabled
<1> QED BY <1>2 DEF Tabled

\* The tables when it launches kernel k.
LEMMA LaunchTabled ==
  ASSUME Typed, NEW c \in Callers, NEW k \in Kernels, Tabled(c), Launch(c, k),
         UNCHANGED <<size, content, genSet, tables>>, pc[c] # "gen.sync",
         k.kind # "lost", k.kind = "gen" => pc'[c] = "gen.sync",
         k.kind \in {"build", "mul"} => Divides(c) /\ genSet /\ tables = {"l1", "l2"},
         k.kind = "mul" => TableReady(c, Len(queue[c]) + 1, k.inverse),
         pc'[c] \in InScale \ {"scale.alloc"} => tables = {"l1", "l2"},
         pc'[c] = "scale.mul" => k = BuildKernel(call'[c].inverse)
  PROVE  Tabled(c)'
<1> DEFINE q == queue[c]
<1>1. queue'[c] = Append(q, k) /\ q \in Seq(Kernels)
  BY DEF Launch, Typed, TypeOK
<1>2. PICK n \in Nat : /\ n = Len(q) /\ Len(queue'[c]) = n + 1 /\ queue'[c][n + 1] = k
                      /\ \A j \in 1 .. n : queue'[c][j] = q[j]
  <2> HIDE DEF q
  <2>1. Len(q) \in Nat /\ Len(queue'[c]) = Len(q) + 1 /\ queue'[c][Len(q) + 1] = k
        /\ \A j \in 1 .. Len(q) : queue'[c][j] = q[j]
    BY <1>1, Appended
  <2> QED BY <2>1
<1>3. ASSUME NEW j \in 1 .. n + 1, NEW inverse, TableReady(c, j, inverse)
      PROVE  TableReady(c, j, inverse)'
  <2>1. j = 1 \/ j - 1 \in 1 .. n
    OBVIOUS
  <2> QED BY <1>2, <1>3, <2>1 DEF TableReady
<1>4. ASSUME NEW j \in 1 .. n + 1
      PROVE  (LET l == queue[c][j]
              IN  /\ l.kind # "lost"
                  /\ l.kind = "gen" => pc[c] = "gen.sync"
                  /\ l.kind \in {"build", "mul"} =>
                       Divides(c) /\ genSet /\ tables = {"l1", "l2"}
                  /\ l.kind = "mul" => TableReady(c, j, l.inverse))'
  <2>1. CASE j \in 1 .. n
    BY <1>2, <1>3, <2>1 DEF Tabled
  <2>2. CASE j = n + 1
    BY <1>2, <1>3, <2>2
  <2> QED BY <2>1, <2>2
<1>5. (pc[c] = "scale.mul" => TableReady(c, n + 2, call[c].inverse))'
  <2>1. n + 2 # 1 /\ (n + 2) - 1 = n + 1
    OBVIOUS
  <2> QED BY <1>2, <2>1 DEF TableReady, BuildKernel
<1>6. Len(queue'[c]) + 1 = n + 2
  BY <1>2
<1> QED BY <1>2, <1>4, <1>5, <1>6 DEF Tabled

-------------------------------------------------------------------------------
(* The steps of a caller, for the caller itself.                           *)

ResultOf(c) == Called(c) /\ Tabled(c) /\ Chained(c)

\* gpu_ntt_init touches no buffer.
LEMMA InitKeeps ==
  ASSUME NEW c \in Callers, ResultOf(c),
         pc[c] \in {"idle"} \cup InInit, pc'[c] \in {"idle"} \cup InInit,
         UNCHANGED <<genSet, tables, content, buffers>>
  PROVE  ResultOf(c)'
<1>1. Called(c)'
  BY DEF Called, InInit, InTransform, InSetup, InScale
<1>2. Tabled(c)'
  BY StayTabled DEF ResultOf, buffers, InInit, InScale
<1>3. Chained(c)'
  <2>1. Underway(c) = want[c] /\ Underway(c)' = want'[c]
    BY DEF Underway, InInit, InScale
  <2> QED BY <2>1, StayChained DEF ResultOf, buffers
<1> QED BY <1>1, <1>2, <1>3 DEF ResultOf

\* An error return: the caller gives up what is in its buffer.
LEMMA GiveUpKeeps ==
  ASSUME Typed, NEW c \in Callers, ResultOf(c), NEW from \in InTransform, GiveUp(c, from),
         from = "gen.sync" => queue[c] = <<>>,
         UNCHANGED <<genSet, content, size, value, queue>>,
         tables = {"l1", "l2"} => tables' = {"l1", "l2"}
  PROVE  ResultOf(c)'
<1>1. pc[c] = from /\ pc'[c] = "idle" /\ want'[c] = Unknown
  BY DEF GiveUp, Goto, Typed, TypeOK
<1>2. Called(c)'
  BY <1>1 DEF Called, InTransform, InSetup, InScale
<1>3. Tabled(c)'
  BY <1>1, StayTabled DEF ResultOf, InScale
<1>4. Chained(c)'
  BY <1>1 DEF Chained
<1> QED BY <1>2, <1>3, <1>4 DEF ResultOf

\* A step of a call that launches nothing.
LEMMA StartKeeps ==
  ASSUME OneDivider, Typed, ResultInv, NEW c \in Callers, ResultOf(c), NEW op \in Ops[c],
         StartTransform(c, op)
  PROVE  ResultOf(c)'
<1>1. /\ pc[c] = "idle" /\ call'[c] = op /\ Accepts(op, want[c])
      /\ pc'[c] = (IF ~op.coset \/ genReady THEN First(op) ELSE "gen.setup")
      /\ UNCHANGED <<globals, granted, buffers>>
  BY DEF StartTransform, Typed, TypeOK
<1>2. /\ First(op) \in {"ntt", "scale.alloc"}
      /\ First(op) = "ntt" => want[c] = Needs(c, NttKernel(op))
      /\ First(op) = "scale.alloc" => op.coset /\ want[c] = Needs(c, MulKernel(op.inverse))
  BY <1>1, KernelsOf
<1>3. Called(c)'
  BY <1>1, <1>2 DEF Called, InTransform, InSetup, InScale, ResultInv, globals, buffers
<1>4. Tabled(c)'
  BY <1>1, <1>2, StayTabled DEF ResultOf, InScale, globals, buffers
<1>5. Underway(c) = want[c] /\ Underway(c)' = want[c]
  <2>1. \A k : Needs(c, k)' = Needs(c, k)
    BY <1>1 DEF Needs, buffers
  <2> QED BY <1>1, <1>2, <2>1 DEF Underway, InScale, buffers
<1>6. Chained(c)'
  BY <1>1, <1>5, StayChained DEF ResultOf, buffers
<1> QED BY <1>3, <1>4, <1>6 DEF ResultOf

\* The generator is there, or the wait for it fails.
LEMMA SyncKeeps ==
  ASSUME OneDivider, Typed, NEW c \in Callers, ResultOf(c), SyncGen(c)
  PROVE  ResultOf(c)' /\ genSet
<1>1. pc[c] = "gen.sync" /\ queue[c] = <<>> /\ "gen.sync" \in InTransform
  BY DEF SyncGen, Goto, Fail, GiveUp, InTransform, InSetup
<1>2. genSet
  BY <1>1 DEF ResultOf, Called
<1>3. CASE Fail(c, "gen.sync")
  BY <1>1, <1>2, <1>3, GiveUpKeeps DEF Fail, globals
<1>4. CASE /\ Goto(c, "gen.sync", First(call[c]))
           /\ UNCHANGED <<domainLog, domain, genSet, tables, content, call, granted, buffers>>
  <2> DEFINE op == call[c]
  <2>1. /\ op \in Ops[c] /\ Accepts(op, want[c]) /\ op.coset /\ pc'[c] = First(op)
        /\ call'[c] = op
    BY <1>1, <1>4 DEF ResultOf, Called, Goto, InTransform, InSetup, Typed, TypeOK
  <2> HIDE DEF op
  <2>2. /\ First(op) \in {"ntt", "scale.alloc"}
        /\ First(op) = "ntt" => want[c] = Needs(c, NttKernel(op))
        /\ First(op) = "scale.alloc" => want[c] = Needs(c, MulKernel(op.inverse))
    BY <2>1, KernelsOf
  <2>3. Called(c)'
    BY <1>2, <1>4, <2>1, <2>2 DEF Called, InTransform, InSetup, InScale, buffers
  <2>4. Tabled(c)'
    <3>1. Len(queue[c]) = 0
      BY <1>1
    <3> QED BY <1>4, <2>1, <2>2, <3>1, StayTabled DEF ResultOf, InScale, buffers
  <2>5. Underway(c) = want[c] /\ Underway(c)' = want[c]
    <3>1. \A k : Needs(c, k)' = Needs(c, k)
      BY <1>4 DEF Needs, buffers
    <3> QED BY <1>1, <1>4, <2>1, <2>2, <3>1 DEF Underway, InScale, buffers
  <2>6. Chained(c)'
    BY <1>4, <2>5, StayChained DEF ResultOf, buffers
  <2> QED BY <1>2, <1>4, <2>3, <2>4, <2>6 DEF ResultOf
<1> QED BY <1>1, <1>3, <1>4 DEF SyncGen

\* The kernel that sets the generator up leaves the buffer alone.
LEMMA SetupKeeps ==
  ASSUME Typed, NEW c \in Callers, ResultOf(c), SetupGen(c)
  PROVE  ResultOf(c)'
<1> DEFINE k == [kind |-> "gen"]
<1>1. /\ pc[c] = "gen.setup" /\ pc'[c] = "gen.sync" /\ Launch(c, k)
      /\ UNCHANGED <<globals, call, granted, size, value, want>> /\ k \in Kernels
  BY DEF SetupGen, Goto, Typed, TypeOK, Kernels
<1>2. /\ Needs(c, k) = want[c] /\ Gives(c, k) = want[c]
      /\ Underway(c) = want[c] /\ Underway(c)' = want[c]
  BY <1>1 DEF Needs, Gives, Underway, InScale
<1>3. Chained(c)'
  BY <1>1, <1>2, LaunchChained DEF ResultOf
<1>4. Tabled(c)'
  BY <1>1, LaunchTabled DEF ResultOf, InScale, globals
<1>5. Called(c)'
  <2>1. queue'[c] = Append(queue[c], k) /\ queue[c] \in Seq(Kernels)
    BY <1>1 DEF Launch, Typed, TypeOK
  <2>2. Len(queue[c]) + 1 \in 1 .. Len(queue'[c]) /\ queue'[c][Len(queue[c]) + 1] = k
    BY <1>1, <2>1, Appended
  <2> QED BY <1>1, <2>2 DEF ResultOf, Called, InTransform, InSetup, InScale, globals
<1> QED BY <1>3, <1>4, <1>5 DEF ResultOf

\* The transform is launched, or icicle refuses it.
LEMMA NttKeeps ==
  ASSUME OneDivider, Typed, NEW c \in Callers, ResultOf(c), LaunchNtt(c)
  PROVE  ResultOf(c)'
<1> DEFINE op == call[c]
           k  == NttKernel(op)
<1>1. /\ pc[c] = "ntt" /\ op \in Ops[c] /\ Accepts(op, want[c])
      /\ op.coset => genSet
  BY DEF LaunchNtt, Goto, Fail, GiveUp, ResultOf, Called, InTransform, InSetup
<1>2. CASE Fail(c, "ntt")
  BY <1>2, GiveUpKeeps DEF Fail, globals, InTransform
<1>3. CASE /\ Goto(c, "ntt", AfterNtt(call[c])) /\ Launch(c, [kind |-> "ntt", op |-> call[c]])
           /\ UNCHANGED <<globals, call, granted, size, value, want>>
  <2>1. /\ pc'[c] = AfterNtt(op) /\ Launch(c, k) /\ k \in Kernels /\ k.kind = "ntt"
        /\ AfterNtt(op) \in {"return", "scale.alloc"}
        /\ AfterNtt(op) = "return" => Gives(c, k) = Promised(op)
        /\ AfterNtt(op) = "scale.alloc" => op.coset /\ Gives(c, k) = Needs(c, MulKernel(op.inverse))
    BY <1>1, <1>3, KernelsOf DEF Goto, Typed, TypeOK, NttKernel
  <2>2. Underway(c) = Needs(c, k)
    BY <1>1 DEF Underway, InScale
  <2>3. Underway(c)' = Gives(c, k)
    <3>1. \A l : Needs(c, l)' = Needs(c, l)
      BY <1>3 DEF Needs
    <3>2. CASE AfterNtt(op) = "return"
      BY <1>3, <2>1, <3>2 DEF Underway, InScale
    <3>3. CASE AfterNtt(op) = "scale.alloc"
      BY <1>3, <2>1, <3>1, <3>3 DEF Underway, InScale
    <3> QED BY <2>1, <3>2, <3>3
  <2> HIDE DEF k
  <2>4. Chained(c)'
    BY <1>3, <2>1, <2>2, <2>3, LaunchChained DEF ResultOf
  <2>5. Tabled(c)'
    BY <1>1, <1>3, <2>1, LaunchTabled DEF ResultOf, InScale, globals
  <2>6. Called(c)'
    BY <1>1, <1>3, <2>1 DEF Called, InTransform, InSetup, InScale, globals
  <2> QED BY <2>4, <2>5, <2>6 DEF ResultOf
<1> QED BY <1>2, <1>3 DEF LaunchNtt

\* The tables are rebuilt for the buffer's size and the call's direction.
LEMMA BuildKeeps ==
  ASSUME OneDivider, Typed, ResultInv, NEW c \in Callers, ResultOf(c), LaunchBuild(c)
  PROVE  ResultOf(c)'
<1> DEFINE op == call[c]
           k  == BuildKernel(op.inverse)
<1>1. /\ pc[c] = "scale.build" /\ pc'[c] = "scale.mul" /\ Launch(c, k)
      /\ UNCHANGED <<globals, call, granted, size, value, want>>
      /\ op \in Ops[c] /\ Accepts(op, want[c]) /\ op.coset /\ genSet
      /\ tables = {"l1", "l2"}
  BY DEF LaunchBuild, Goto, ResultOf, Called, Tabled, InTransform, InSetup, InScale,
     BuildKernel, Typed, TypeOK
<1>2. k \in Kernels /\ k.kind = "build" /\ Divides(c)
  BY <1>1, KernelsOf DEF BuildKernel, Divides
<1>3. /\ Needs(c, k) = Underway(c) /\ Gives(c, k) = Underway(c) /\ Underway(c)' = Underway(c)
  BY <1>1 DEF Needs, Gives, Underway, InScale, BuildKernel, MulKernel
<1>4. Chained(c)'
  BY <1>1, <1>2, <1>3, LaunchChained DEF ResultOf
<1>5. Tabled(c)'
  BY <1>1, <1>2, LaunchTabled DEF ResultOf, globals
<1>6. Called(c)'
  BY <1>1 DEF Called, InTransform, InSetup, InScale, globals
<1> QED BY <1>4, <1>5, <1>6 DEF ResultOf

\* The multiplication right after it.
LEMMA MulKeeps ==
  ASSUME OneDivider, Typed, NEW c \in Callers, ResultOf(c), LaunchMul(c)
  PROVE  ResultOf(c)'
<1> DEFINE op == call[c]
           k  == MulKernel(op.inverse)
<1>1. /\ pc[c] = "scale.mul" /\ pc'[c] = AfterScale(op) /\ Launch(c, k)
      /\ UNCHANGED <<globals, call, granted, size, value, want>>
      /\ op \in Ops[c] /\ Accepts(op, want[c]) /\ op.coset /\ genSet
      /\ tables = {"l1", "l2"} /\ TableReady(c, Len(queue[c]) + 1, op.inverse)
  BY DEF LaunchMul, Goto, ResultOf, Called, Tabled, InTransform, InSetup, InScale, MulKernel,
     Typed, TypeOK
<1>2. /\ k \in Kernels /\ k.kind = "mul" /\ k.inverse = op.inverse /\ Divides(c)
      /\ AfterScale(op) \in {"return", "ntt"}
      /\ AfterScale(op) = "return" => Gives(c, k) = Promised(op)
      /\ AfterScale(op) = "ntt" => Gives(c, k) = Needs(c, NttKernel(op))
  BY <1>1, KernelsOf DEF MulKernel, Divides
<1>3. Underway(c) = Needs(c, k)
  BY <1>1 DEF Underway, InScale
<1>4. Underway(c)' = Gives(c, k)
  <2>1. \A l : Needs(c, l)' = Needs(c, l)
    BY <1>1 DEF Needs
  <2>2. CASE AfterScale(op) = "return"
    BY <1>1, <1>2, <2>2 DEF Underway, InScale
  <2>3. CASE AfterScale(op) = "ntt"
    BY <1>1, <1>2, <2>1, <2>3 DEF Underway, InScale
  <2> QED BY <1>2, <2>2, <2>3
<1>5. Chained(c)'
  BY <1>1, <1>2, <1>3, <1>4, LaunchChained DEF ResultOf
<1>6. Tabled(c)'
  BY <1>1, <1>2, LaunchTabled DEF ResultOf, InScale, globals
<1>7. Called(c)'
  BY <1>1, <1>2 DEF Called, InTransform, InSetup, InScale, globals
<1> QED BY <1>5, <1>6, <1>7 DEF ResultOf

\* The tables are allocated and the size is checked.
LEMMA AllocKeeps ==
  ASSUME "malloc l2" \notin Failures, Typed, ResultInv, NEW c \in Callers, ResultOf(c),
         AllocTables(c) \/ CheckSize(c)
  PROVE  ResultOf(c)' /\ tables' \in {{}, {"l1", "l2"}} /\ (tables # {} => tables' = tables)
<1>1. tables \in {{}, {"l1", "l2"}}
  BY DEF ResultInv
<1>2. ASSUME NEW l \in InScale, pc'[c] = l, l # "scale.mul", pc[c] \in InScale,
             UNCHANGED <<genSet, content, call, buffers>>, tables' = {"l1", "l2"}
      PROVE  ResultOf(c)'
  <2>1. Called(c)'
    BY <1>2 DEF ResultOf, Called, InTransform, InSetup, InScale, buffers
  <2>2. Tabled(c)'
    BY <1>2, StayTabled DEF ResultOf, InScale, buffers
  <2>3. Underway(c)' = Underway(c)
    BY <1>2 DEF Underway, Needs, InScale, buffers
  <2>4. Chained(c)'
    BY <1>2, <2>3, StayChained DEF ResultOf, buffers
  <2> QED BY <2>1, <2>2, <2>4 DEF ResultOf
<1>3. CASE AllocTables(c)
  <2>1. CASE GiveUp(c, "scale.alloc") /\ UNCHANGED tables
    BY <1>1, <1>3, <2>1, GiveUpKeeps DEF AllocTables, InTransform, InScale
  <2>2. CASE /\ "l1" \in tables \/ tables' = {"l1", "l2"}
             /\ "l1" \in tables => UNCHANGED tables
             /\ Goto(c, "scale.alloc", "scale.check")
             /\ UNCHANGED want
    <3>1. tables' = {"l1", "l2"}
      BY <1>1, <2>2
    <3>2. pc'[c] = "scale.check" /\ pc[c] = "scale.alloc"
      BY <2>2 DEF Goto, Typed, TypeOK
    <3> QED BY <1>1, <1>2, <1>3, <2>2, <3>1, <3>2 DEF AllocTables, InScale, buffers
  <2> QED BY <1>3, <2>1, <2>2 DEF AllocTables
<1>4. CASE CheckSize(c)
  <2>1. CASE Fail(c, "scale.check")
    BY <1>1, <2>1, GiveUpKeeps DEF Fail, InTransform, InScale, globals
  <2>2. CASE /\ Goto(c, "scale.check", "scale.build")
             /\ UNCHANGED <<globals, call, granted, buffers>>
    <3>1. pc'[c] = "scale.build" /\ pc[c] = "scale.check"
      BY <2>2 DEF Goto, Typed, TypeOK
    <3>2. tables = {"l1", "l2"}
      BY <3>1 DEF ResultOf, Tabled, InScale
    <3> QED BY <1>2, <2>2, <3>1, <3>2 DEF InScale, globals
  <2> QED BY <1>4, <2>1, <2>2 DEF CheckSize
<1> QED BY <1>3, <1>4

\* The call returns 0: what is underway is what it promised.
LEMMA ReturnKeeps ==
  ASSUME Typed, NEW c \in Callers, ResultOf(c), ReturnTransform(c)
  PROVE  ResultOf(c)'
<1>1. /\ pc[c] = "return" /\ pc'[c] = "idle" /\ want'[c] = Promised(call[c])
      /\ UNCHANGED <<globals, call, granted, size, value, queue>>
  BY DEF ReturnTransform, Goto, Typed, TypeOK
<1>2. Called(c)'
  BY <1>1 DEF Called, InTransform, InSetup, InScale
<1>3. Tabled(c)'
  BY <1>1, StayTabled DEF ResultOf, InScale, globals
<1>4. want[c] # Unknown
  <2>1. Unknown \notin Values
    BY DEF Unknown, Values
  <2> QED BY <1>1, <2>1 DEF ResultOf, Called, InTransform, Accepts
<1>5. Underway(c) = Promised(call[c]) /\ Underway(c)' = Promised(call[c])
  BY <1>1 DEF Underway, InScale
<1>6. ASSUME NEW j \in 1 .. Len(queue[c])
      PROVE  /\ Needs(c, queue[c][j])' = Needs(c, queue[c][j])
             /\ Gives(c, queue[c][j])' = Gives(c, queue[c][j])
  <2>1. queue[c][j].kind \notin {"gen", "lost"} /\ queue'[c] = queue[c]
    BY <1>1, <1>6 DEF ResultOf, Tabled
  <2>2. queue[c][j] \in Kernels
    BY <1>6, ElementOfSeq DEF Typed, TypeOK
  <2>3. queue[c][j].kind \in {"ntt", "build", "mul"}
    BY <2>1, <2>2 DEF Kernels
  <2> QED BY <2>1, <2>3 DEF Needs, Gives
<1>7. \A j : At(c, j)' = At(c, j)
  BY <1>1, <1>5, <1>6 DEF At
<1>8. Chained(c)'
  BY <1>1, <1>4, <1>6, <1>7 DEF ResultOf, Chained
<1> QED BY <1>2, <1>3, <1>8 DEF ResultOf

\* A new polynomial, on a stream at rest.
LEMMA LoadKeeps ==
  ASSUME Typed, NEW c \in Callers, ResultOf(c), NEW log \in Logs, Load(c, log, Loaded)
  PROVE  ResultOf(c)'
<1>1. /\ pc[c] = "idle" /\ pc'[c] = "idle" /\ Len(queue[c]) = 0 /\ queue' = queue
      /\ value'[c] = Loaded /\ want'[c] = Loaded /\ UNCHANGED globals
  BY DEF Load, Typed, TypeOK
<1>2. Called(c)'
  BY <1>1 DEF Called, InTransform, InSetup, InScale
<1>3. Tabled(c)'
  BY <1>1 DEF Tabled, InScale
<1>4. Underway(c)' = Loaded
  BY <1>1 DEF Underway, InScale
<1>5. Chained(c)'
  BY <1>1, <1>4 DEF Chained, At
<1> QED BY <1>2, <1>3, <1>5 DEF ResultOf

-------------------------------------------------------------------------------
(* The device.                                                             *)

\* A transform rewrites two fields of a value.
LEMMA Rewritten ==
  ASSUME NEW v \in Values, NEW b \in {"coeffs", "evals"}, NEW l \in {"natural", "reversed"}
  PROVE  [v EXCEPT !.basis = b, !.layout = l]
           = [basis |-> b, shifted |-> v.shifted, layout |-> l]
<1> DEFINE w == [v EXCEPT !.basis = b, !.layout = l]
<1>1. w \in Values /\ w.basis = b /\ w.shifted = v.shifted /\ w.layout = l
  BY DEF Values
<1> HIDE DEF w
<1>2. w = [basis |-> b, shifted |-> v.shifted, layout |-> l]
  BY <1>1, ValueFields
<1> QED BY <1>2 DEF w

\* A kernel that finds what it needs leaves what it gives.
LEMMA GivesResult ==
  ASSUME Typed, NEW c \in Callers, queue[c] # <<>>, NEW k \in Kernels, k.kind # "lost",
         value[c] = Needs(c, k),
         k.kind = "mul" => tables = {"l1", "l2"} /\ content = Built(size[c], k.inverse)
  PROVE  Result(c, k) = Gives(c, k)
<1> DEFINE v == value[c]
<1>1. CASE k.kind = "ntt"
  <2>1. k.op \in Transforms
    BY <1>1 DEF Kernels
  <2>2. v = [basis |-> IF k.op.inverse THEN "evals" ELSE "coeffs",
             shifted |-> k.op.coset, layout |-> InputLayout(k.op.order)]
    BY <1>1 DEF Needs
  <2>3. /\ k.op.coset \in BOOLEAN /\ k.op.inverse \in BOOLEAN
        /\ InputLayout(k.op.order) \in {"natural", "reversed"}
    BY <2>1 DEF Transforms, InputLayout
  <2>4. /\ v \in Values /\ v.layout = InputLayout(k.op.order)
        /\ v.basis = (IF k.op.inverse THEN "evals" ELSE "coeffs")
    BY <2>2, <2>3 DEF Values
  <2>5. Result(c, k) = [v EXCEPT !.basis = IF k.op.inverse THEN "coeffs" ELSE "evals",
                                 !.layout = OutputLayout(k.op.order)]
    BY <1>1, <2>4 DEF Result
  <2>6. Result(c, k) = [basis |-> IF k.op.inverse THEN "coeffs" ELSE "evals",
                        shifted |-> k.op.coset, layout |-> OutputLayout(k.op.order)]
    <3>1. OutputLayout(k.op.order) \in {"natural", "reversed"}
      BY DEF OutputLayout
    <3>2. v.shifted = k.op.coset
      BY <2>2
    <3> HIDE DEF v
    <3> QED BY <2>4, <2>5, <3>1, <3>2, Rewritten
  <2> QED BY <1>1, <2>6 DEF Gives
<1>2. CASE k.kind = "mul"
  <2>1. k.inverse \in BOOLEAN
    BY <1>2 DEF Kernels
  <2>2. v = [basis |-> "coeffs", shifted |-> k.inverse, layout |-> "natural"]
    BY <1>2 DEF Needs
  <2>3. v \in Values /\ v.basis = "coeffs" /\ v.layout = "natural" /\ v.shifted = k.inverse
    BY <2>1, <2>2 DEF Values
  <2>4. Serves(size[c], k.inverse)
    <3>1. Built(size[c], k.inverse) # NoContent
      BY DEF Built, NoContent
    <3>2. content.log = size[c] /\ content.inverse = k.inverse
      BY <1>2 DEF Built
    <3>3. LogL2(size[c]) \in Int
      BY LogsAssumption DEF Typed, LogL2, LogB
    <3> QED BY <1>2, <3>1, <3>2, <3>3 DEF Serves
  <2>5. Result(c, k) = [v EXCEPT !.shifted = ~k.inverse]
    BY <1>2, <2>3, <2>4 DEF Result
  <2>6. Result(c, k) = [basis |-> "coeffs", shifted |-> ~k.inverse, layout |-> "natural"]
    BY <2>2, <2>5
  <2> QED BY <1>2, <2>6 DEF Gives
<1>3. CASE k.kind \in {"gen", "build"}
  BY <1>3 DEF Result, Gives
<1> QED BY <1>1, <1>2, <1>3 DEF Kernels

\* A kernel ends, for its caller.
LEMMA EndKeeps ==
  ASSUME Typed, NEW c \in Callers, ResultOf(c), EndKernel(c)
  PROVE  /\ ResultOf(c)' /\ UNCHANGED <<tables, genReady, pc, call, size, want>>
         /\ (genSet => genSet')
         /\ content' = content \/ Divides(c)
         /\ \A d \in Callers \ {c} : value'[d] = value[d] /\ queue'[d] = queue[d]
<1> DEFINE q == queue[c]
           k == Head(queue[c])
<1>1. /\ q \in Seq(Kernels) /\ q # <<>>
      /\ value' = [value EXCEPT ![c] = Result(c, k)]
      /\ genSet' = (genSet \/ k.kind = "gen")
      /\ content' = IF k.kind = "build" /\ tables = {"l1", "l2"} /\ genSet
                    THEN Built(size[c], k.inverse) ELSE content
      /\ queue' = [queue EXCEPT ![c] = Tail(@)]
      /\ UNCHANGED <<domainLog, domain, genReady, tables, pc, call, granted, size, want>>
  BY DEF EndKernel, Typed, TypeOK
<1>2. /\ value'[c] = Result(c, k) /\ queue'[c] = Tail(q)
      /\ \A d \in Callers \ {c} : value'[d] = value[d] /\ queue'[d] = queue[d]
  BY <1>1 DEF Typed, TypeOK
<1>3. PICK n \in Nat : /\ Len(q) = n + 1 /\ Len(queue'[c]) = n
                      /\ q[1] = k /\ k \in Kernels
                      /\ \A j \in 1 .. n : queue'[c][j] = q[j + 1] /\ j + 1 \in 1 .. n + 1
                      /\ \A m \in 1 .. n + 1 : q[m] \in Kernels
  <2> HIDE DEF q, k
  <2>1. q \in Seq(Kernels) /\ q # <<>> /\ k = Head(q) /\ queue'[c] = Tail(q)
    BY <1>1, <1>2 DEF q, k
  <2>2. PICK n \in Nat :
           /\ Len(q) = n + 1 /\ Len(Tail(q)) = n
           /\ q[1] = Head(q) /\ Head(q) \in Kernels
           /\ \A j \in 1 .. n : Tail(q)[j] = q[j + 1]
           /\ \A j \in 1 .. n + 1 : q[j] \in Kernels
    BY <2>1, Ended
  <2>3. \A j \in 1 .. n : j + 1 \in 1 .. n + 1
    OBVIOUS
  <2> QED BY <2>1, <2>2, <2>3
<1>4. k.kind \in {"build", "mul"} => Divides(c) /\ genSet /\ tables = {"l1", "l2"}
  BY <1>3 DEF ResultOf, Tabled
<1>5. ASSUME NEW j \in 1 .. n + 1, NEW inverse, TableReady(c, j + 1, inverse)
      PROVE  TableReady(c, j, inverse)'
  <2>1. q[j] = BuildKernel(inverse)
    BY <1>5 DEF TableReady
  <2>2. CASE j = 1
    BY <1>1, <1>3, <1>4, <2>1, <2>2 DEF TableReady, BuildKernel
  <2>3. CASE j # 1
    <3>1. j - 1 \in 1 .. n /\ (j - 1) + 1 = j
      BY <2>3
    <3> QED BY <1>3, <2>1, <2>3, <3>1 DEF TableReady, BuildKernel
  <2> QED BY <2>2, <2>3
<1>6. Tabled(c)'
  <2>1. ASSUME NEW j \in 1 .. n
        PROVE  (LET l == queue[c][j]
                IN  /\ l.kind # "lost"
                    /\ l.kind = "gen" => pc[c] = "gen.sync"
                    /\ l.kind \in {"build", "mul"} =>
                         Divides(c) /\ genSet /\ tables = {"l1", "l2"}
                    /\ l.kind = "mul" => TableReady(c, j, l.inverse))'
    <3> DEFINE l == q[j + 1]
    <3>1. queue'[c][j] = l /\ j + 1 \in 1 .. Len(q) /\ j \in 1 .. n + 1
      BY <1>3
    <3>2. /\ l.kind # "lost"
          /\ l.kind = "gen" => pc[c] = "gen.sync"
          /\ l.kind \in {"build", "mul"} => Divides(c) /\ genSet /\ tables = {"l1", "l2"}
          /\ l.kind = "mul" => TableReady(c, j + 1, l.inverse)
      BY <3>1 DEF ResultOf, Tabled
    <3> HIDE DEF l
    <3> QED BY <1>1, <1>5, <3>1, <3>2
  <2>2. (pc[c] = "scale.mul" => TableReady(c, n + 1, call[c].inverse))'
    BY <1>1, <1>3, <1>5 DEF ResultOf, Tabled
  <2>3. (pc[c] \in InScale \ {"scale.alloc"} => tables = {"l1", "l2"})'
    BY <1>1 DEF ResultOf, Tabled
  <2> QED BY <1>3, <2>1, <2>2, <2>3 DEF Tabled
<1>7. Called(c)'
  <2>1. ASSUME pc[c] = "gen.sync", ~genSet'
        PROVE  \E j \in 1 .. n : queue'[c][j].kind = "gen"
    <3>1. PICK j \in 1 .. n + 1 : q[j].kind = "gen"
      BY <1>1, <1>3, <2>1 DEF ResultOf, Called
    <3>2. j # 1
      BY <1>1, <1>3, <2>1, <3>1
    <3>3. j - 1 \in 1 .. n /\ (j - 1) + 1 = j
      BY <3>2
    <3> QED BY <1>3, <3>1, <3>3
  <2> QED BY <1>1, <1>3, <2>1 DEF ResultOf, Called
<1>8. Chained(c)'
  <2> SUFFICES ASSUME want[c] # Unknown
               PROVE  (/\ value[c] = At(c, 1)
                       /\ \A j \in 1 .. n : Gives(c, queue[c][j]) = At(c, j + 1))'
    <3>1. want' = want
      BY <1>1
    <3> QED BY <1>3, <3>1 DEF Chained
  <2>1. \A l : Needs(c, l)' = Needs(c, l) /\ Gives(c, l)' = Gives(c, l)
    BY <1>1 DEF Needs, Gives
  <2>2. Underway(c)' = Underway(c)
    BY <1>1, <2>1 DEF Underway
  <2>3. \A j \in 1 .. n + 1 : At(c, j)' = At(c, j + 1)
    <3>1. ASSUME NEW j \in 1 .. n PROVE At(c, j)' = At(c, j + 1)
      BY <1>3, <2>1 DEF At
    <3>2. At(c, n + 1)' = At(c, n + 2)
      <4>1. n + 1 \notin 1 .. n /\ n + 2 \notin 1 .. n + 1
        OBVIOUS
      <4> QED BY <1>3, <2>2, <4>1 DEF At
    <3>3. \A j \in 1 .. n + 1 : j \in 1 .. n \/ j = n + 1
      OBVIOUS
    <3> QED BY <3>1, <3>2, <3>3
  <2>4. value[c] = Needs(c, k) /\ Gives(c, k) = At(c, 2)
    BY <1>3 DEF ResultOf, Chained, At
  <2>5. Result(c, k) = Gives(c, k)
    <3>1. /\ k.kind # "lost"
          /\ k.kind = "mul" => tables = {"l1", "l2"} /\ content = Built(size[c], k.inverse)
      BY <1>3 DEF ResultOf, Tabled, TableReady
    <3> QED BY <1>1, <1>3, <2>4, <3>1, GivesResult
  <2>6. ASSUME NEW j \in 1 .. n PROVE (Gives(c, queue[c][j]) = At(c, j + 1))'
    <3>0. PICK l : l = q[j + 1]
      OBVIOUS
    <3>1. Gives(c, l) = At(c, (j + 1) + 1)
      BY <1>3, <3>0 DEF ResultOf, Chained
    <3>2. j + 1 \in 1 .. n + 1
      BY <1>3
    <3>3. Gives(c, l)' = Gives(c, l) /\ queue'[c][j] = l
      BY <1>3, <2>1, <3>0
    <3>4. At(c, j + 1)' = At(c, (j + 1) + 1)
      BY <2>3, <3>2
    <3> QED BY <3>1, <3>3, <3>4
  <2>7. At(c, 1)' = At(c, 2)
    <3>1. 1 \in 1 .. n + 1 /\ 1 + 1 = 2
      OBVIOUS
    <3> QED BY <2>3, <3>1
  <2> QED BY <1>2, <2>4, <2>5, <2>6, <2>7
<1>9. content' = content \/ Divides(c)
  BY <1>1, <1>4
<1> QED BY <1>1, <1>2, <1>6, <1>7, <1>8, <1>9 DEF ResultOf

-------------------------------------------------------------------------------
(* All steps together.                                                     *)

\* A step of a caller, for itself and for the others.
LEMMA CallerKeeps ==
  ASSUME OneDivider, "malloc l2" \notin Failures, Typed, ResultInv, NEW c \in Callers, Caller(c),
         pc[c] # "init.release"
  PROVE  ResultInv'
<1> DEFINE Mine == \/ \E log \in InitLogs : StartInit(c, log)
                   \/ CheckRelease(c) \/ BuildDomain(c) \/ RecordDomain(c)
<1>0. ~ReleaseDomain(c)
  BY DEF ReleaseDomain, Goto
<1>1. ResultOf(c)
  BY DEF ResultInv, ResultOf
<1>2. /\ UNCHANGED <<genSet, content>>
      /\ \A d \in Callers \ {c} : /\ pc'[d] = pc[d] /\ call'[d] = call[d]
                                  /\ size'[d] = size[d] /\ value'[d] = value[d]
                                  /\ want'[d] = want[d] /\ queue'[d] = queue[d]
  BY <1>0, ZenonT(40) DEF Caller, StartInit, CheckRelease, BuildDomain, RecordDomain, StartTransform,
     SetupGen, SyncGen, LaunchNtt, AllocTables, CheckSize, LaunchBuild, LaunchMul, ReturnTransform,
     Load, Goto, Fail, GiveUp, Launch, globals, buffers, Typed, TypeOK
<1>3. \/ UNCHANGED tables
      \/ AllocTables(c)
  BY <1>0 DEF Caller, StartInit, CheckRelease, BuildDomain, RecordDomain, StartTransform, SetupGen,
     SyncGen, LaunchNtt, CheckSize, LaunchBuild, LaunchMul, ReturnTransform, Load, Fail, globals
<1>4. UNCHANGED genReady \/ SyncGen(c)
  BY <1>0 DEF Caller, StartInit, CheckRelease, BuildDomain, RecordDomain, StartTransform, SetupGen,
     LaunchNtt, AllocTables, CheckSize, LaunchBuild, LaunchMul, ReturnTransform, Load, Fail,
     globals
<1>5. /\ tables' \in {{}, {"l1", "l2"}} /\ (tables # {} => tables' = tables)
  BY <1>1, <1>3, AllocKeeps DEF ResultInv
<1>6. genReady' => genSet'
  BY <1>1, <1>2, <1>4, SyncKeeps DEF ResultInv
<1>7. ResultOf(c)'
  <2>1. CASE Mine
    <3>1. /\ pc[c] \in {"idle"} \cup InInit /\ pc'[c] \in {"idle"} \cup InInit
          /\ UNCHANGED <<genSet, tables, content, buffers>>
      BY <2>1 DEF StartInit, CheckRelease, BuildDomain, RecordDomain, Goto, InInit,
         globals, Typed, TypeOK
    <3> QED BY <1>1, <3>1, InitKeeps
  <2>2. ASSUME NEW op \in Ops[c], StartTransform(c, op) PROVE ResultOf(c)'
    BY <1>1, <2>2, StartKeeps
  <2>3. ASSUME NEW log \in Logs, Load(c, log, Loaded) PROVE ResultOf(c)'
    BY <1>1, <2>3, LoadKeeps
  <2>4. CASE SetupGen(c)
    BY <1>1, <2>4, SetupKeeps
  <2>5. CASE SyncGen(c)
    BY <1>1, <2>5, SyncKeeps
  <2>6. CASE LaunchNtt(c)
    BY <1>1, <2>6, NttKeeps
  <2>7. CASE AllocTables(c) \/ CheckSize(c)
    BY <1>1, <2>7, AllocKeeps
  <2>8. CASE LaunchBuild(c)
    BY <1>1, <2>8, BuildKeeps
  <2>9. CASE LaunchMul(c)
    BY <1>1, <2>9, MulKeeps
  <2>10. CASE ReturnTransform(c)
    BY <1>1, <2>10, ReturnKeeps
  <2> QED BY <1>0, <2>1, <2>2, <2>3, <2>4, <2>5, <2>6, <2>7, <2>8, <2>9, <2>10 DEF Caller
<1>8. ASSUME NEW d \in Callers, d # c PROVE Called(d)' /\ Tabled(d)' /\ Chained(d)'
  BY <1>2, <1>5, <1>8, Untouched
<1> QED BY <1>5, <1>6, <1>7, <1>8 DEF ResultInv, ResultOf

\* The end of a kernel, for its caller and for the others.
LEMMA KernelKeeps ==
  ASSUME OneDivider, Typed, ResultInv, NEW c \in Callers, EndKernel(c)
  PROVE  ResultInv'
<1>1. /\ ResultOf(c)' /\ UNCHANGED <<tables, genReady, pc, call, size, want>>
      /\ (genSet => genSet')
      /\ content' = content \/ Divides(c)
      /\ \A d \in Callers \ {c} : value'[d] = value[d] /\ queue'[d] = queue[d]
  BY EndKeeps DEF ResultInv, ResultOf
<1>2. ASSUME NEW d \in Callers, d # c PROVE Called(d)' /\ Tabled(d)' /\ Chained(d)'
  <2>1. content' = content \/ ~Divides(d)
    BY <1>1, <1>2 DEF OneDivider
  <2> QED BY <1>1, <1>2, <2>1, Untouched
<1> QED BY <1>1, <1>2 DEF ResultInv, ResultOf

\* The end of the program's use of the shim, and nothing at all.
LEMMA RestKeeps ==
  ASSUME ResultInv, Cleanup \/ UNCHANGED vars
  PROVE  ResultInv'
<1>1. UNCHANGED <<genReady, genSet, tables, content, pc, call, size, value, want, queue>>
  BY DEF Cleanup, buffers, vars
<1>2. ASSUME NEW d \in Callers PROVE Called(d)' /\ Tabled(d)' /\ Chained(d)'
  BY <1>1, Untouched
<1> QED BY <1>1, <1>2 DEF ResultInv

\* A stream at rest.
LEMMA NoKernel == Len(<<>>) = 0 /\ \A q : Len(q) = 0 \/ q = <<>> => 1 .. Len(q) = {}
OBVIOUS

\* When at most one caller divides, one asks for the domain and always for the same
\* size, and the second table is never the one that cannot be allocated, every
\* caller finds in its buffer what its calls promised, although tables it
\* multiplied with are rebuilt by kernels that run later.
THEOREM ResultsRightThm ==
  ASSUME OneDivider, "malloc l2" \notin Failures,
         NEW i \in Callers, Initialisers \subseteq {i}, NEW L, InitLogs = {L}
  PROVE  Spec => []ResultsRight
<1>1. Init => Typed /\ ResultInv
  <2> SUFFICES ASSUME Init PROVE ResultInv
    BY InitTyped
  <2>1. ASSUME NEW c \in Callers
        PROVE  pc[c] = "idle" /\ Len(queue[c]) = 0 /\ want[c] = Unknown
    BY <2>1, NoKernel DEF Init
  <2>2. tables = {} /\ genReady = FALSE
    BY DEF Init
  <2>3. ASSUME NEW c \in Callers PROVE Called(c) /\ Tabled(c) /\ Chained(c)
    <3>1. pc[c] = "idle" /\ want[c] = Unknown /\ 1 .. Len(queue[c]) = {}
      BY <2>1, NoKernel
    <3>2. Called(c)
      BY <3>1 DEF Called, InTransform, InSetup, InScale
    <3>3. Tabled(c)
      BY <3>1 DEF Tabled, InScale
    <3>4. Chained(c)
      BY <3>1 DEF Chained
    <3> QED BY <3>2, <3>3, <3>4
  <2> QED BY <2>2, <2>3 DEF ResultInv
<1>2. Typed /\ ResultInv /\ IInv(i) /\ [Next]_vars => (Typed /\ ResultInv /\ IInv(i))'
  <2> SUFFICES ASSUME Typed, ResultInv, IInv(i), [Next]_vars
               PROVE  (Typed /\ ResultInv /\ IInv(i))'
    OBVIOUS
  <2>1. IInv(i)'
    BY StepInv DEF BuildsOrOneSize
  <2>2. Typed'
    BY StepTyped
  <2>3. \A c \in Callers : pc[c] # "init.release"
    BY NoRelease DEF IInv
  <2> QED BY <2>1, <2>2, <2>3, CallerKeeps, KernelKeeps, RestKeeps DEF Next
<1>3. ResultInv => ResultsRight
  <2> SUFFICES ASSUME ResultInv, NEW c \in Callers,
                      pc[c] = "idle", queue[c] = <<>>, want[c] # Unknown
               PROVE  value[c] = want[c]
    BY DEF ResultsRight
  <2>1. value[c] = At(c, 1)
    BY DEF ResultInv, Chained
  <2>2. At(c, 1) = Underway(c)
    <3>1. 1 \notin 1 .. Len(queue[c])
      BY NoKernel
    <3> QED BY <3>1 DEF At
  <2>3. Underway(c) = want[c]
    BY DEF Underway, InScale
  <2> QED BY <2>1, <2>2, <2>3
<1>4. Init => IInv(i)
  BY InitInv
<1> QED BY <1>1, <1>2, <1>3, <1>4, PTL DEF Spec
=============================================================================
