--------------------------- MODULE RhoDeviceProofs ---------------------------
(***************************************************************************)
(* For every number of cosets, every set of polynomials and every choice   *)
(* of the calls that may fail: gpuComputeNumeratorRhoLoop frees no buffer  *)
(* twice, and leaves none allocated but the polynomials of a failed        *)
(* upload.                                                                 *)
(*                                                                         *)
(* The deferred calls are at any time a prefix of Order, the order of the  *)
(* defer statements.  The invariant ties each buffer to its place in it: a *)
(* buffer other than a polynomial is live exactly while its deferred call  *)
(* is outstanding.  The polynomials are live while theirs is, and before   *)
(* it exists they are exactly the ones in dPolys, until an error return.   *)
(*                                                                         *)
(* For the stream, KernelsAt bounds what is still on it at each label, and *)
(* whatever is there runs while all deferred calls are outstanding.        *)
(*                                                                         *)
(* And the loop implements RhoLoop, which takes no notice of the stream:   *)
(* DataInv says what the buffers hold while kernels are under way, and one *)
(* lemma per action maps its steps to a step of RhoLoop or to none.        *)
(***************************************************************************)
EXTENDS RhoDevice, FiniteSetTheorems, SequenceTheorems, TLAPS

Order == <<"stream", "ptrs", "polys", "twiddles", "scale", "result", "cres", "challenges",
           "bp", "denoms", "coset">>

LivePolys == {p \in Polys : mem[p] = "live"}

MemInv ==
  /\ mem \in [Buffers -> {"none", "live", "freed"}]
  /\ held \subseteq Entries
  /\ owed \in Seq(Buffers \cup {"polys"})
  /\ Len(owed) <= 11
  /\ \A j \in 1 .. Len(owed) : owed[j] = Order[j]
  /\ \A j \in 1 .. 11 : j # 3 => (mem[Order[j]] = "live" <=> j <= Len(owed))
  /\ Len(owed) >= 3 => held = Entries /\ LivePolys = Polys

Returning == pc \in {"unwind", "end"}

PcInv ==
  /\ ~Returning => error = "none"
  /\ pc = "stream" => Len(owed) = 0 /\ held = {} /\ LivePolys = {}
  /\ pc = "polys" => Len(owed) = 1 /\ held \subseteq Polys /\ LivePolys = held
  /\ pc = "ptrs" => Len(owed) = 1 /\ held = Entries /\ LivePolys = Polys
  /\ pc = "meta" => 3 <= Len(owed) /\ Len(owed) <= 10
  /\ pc \notin Setup /\ ~Returning => Len(owed) = 11
  /\ pc = "end" => Len(owed) = 0
  /\ Returning /\ error # "upload" /\ Len(owed) < 3 => LivePolys = {}

IInv == MemInv /\ PcInv
-------------------------------------------------------------------------------
(* The order of the deferred calls.                                        *)

\* The tail of Order is Meta.
LEMMA OrderMeta == \A k \in 1 .. 8 : Order[k + 3] = Meta[k]
<1> TAKE k \in 1 .. 8
<1>1. k \in {1, 2, 3, 4, 5, 6, 7, 8}
  OBVIOUS
<1> QED
  BY <1>1 DEF Order, Meta

\* No deferred call is there twice.
LEMMA OrderInjective == \A j, k \in 1 .. 11 : Order[j] = Order[k] => j = k
<1> SUFFICES ASSUME NEW j \in 1 .. 11, NEW k \in 1 .. 11, Order[j] = Order[k]
             PROVE  j = k
  OBVIOUS
<1>1. j \in {1, 2, 3, 4, 5, 6, 7, 8, 9, 10, 11} /\ k \in {1, 2, 3, 4, 5, 6, 7, 8, 9, 10, 11}
  OBVIOUS
<1> QED
  BY <1>1 DEF Order

\* The buffers are the polynomials and the entries of Order but "polys".
LEMMA OrderBuffers ==
  /\ Buffers = Polys \cup {"stream", "ptrs", "twiddles", "scale", "result", "cres",
                           "challenges", "bp", "denoms", "coset"}
  /\ \A j \in 1 .. 11 : /\ j # 3 => Order[j] \in Buffers \ Polys
                        /\ Order[j] # "ZS"
                        /\ Order[j] = "polys" <=> j = 3
  /\ \A b \in Buffers \ Polys : \E j \in 1 .. 11 : j # 3 /\ b = Order[j]
<1>1. Range(Meta) = {"twiddles", "scale", "result", "cres", "challenges", "bp", "denoms", "coset"}
  <2>1. DOMAIN Meta = {1, 2, 3, 4, 5, 6, 7, 8}
    BY DEF Meta
  <2> QED
    BY <2>1 DEF Range, Meta
<1>2. Buffers = Polys \cup {"stream", "ptrs", "twiddles", "scale", "result", "cres",
                            "challenges", "bp", "denoms", "coset"}
  BY <1>1 DEF Buffers
<1>3. ASSUME NEW j \in 1 .. 11
      PROVE  /\ j # 3 => Order[j] \in Buffers \ Polys
             /\ Order[j] # "ZS"
             /\ Order[j] = "polys" <=> j = 3
  <2>1. j \in {1, 2, 3, 4, 5, 6, 7, 8, 9, 10, 11}
    OBVIOUS
  <2> QED
    BY <1>2, <2>1, PolysAssumption DEF Order
<1>4. ASSUME NEW b \in Buffers \ Polys
      PROVE  \E j \in 1 .. 11 : j # 3 /\ b = Order[j]
  <2>1. /\ Order[1] = "stream" /\ Order[2] = "ptrs" /\ Order[4] = "twiddles"
        /\ Order[5] = "scale" /\ Order[6] = "result" /\ Order[7] = "cres"
        /\ Order[8] = "challenges" /\ Order[9] = "bp" /\ Order[10] = "denoms"
        /\ Order[11] = "coset"
    BY DEF Order
  <2> QED
    BY <1>2, <2>1
<1> QED
  BY <1>2, <1>3, <1>4

\* Appending a second element.
LEMMA AppendSecond ==
  ASSUME NEW S, NEW s \in Seq(S), NEW e \in S, Len(s) = 1
  PROVE  /\ Append(s, e) \in Seq(S) /\ Len(Append(s, e)) = 2
         /\ Append(s, e)[1] = s[1] /\ Append(s, e)[2] = e
<1>1. Append(s, e) \in Seq(S) /\ Len(Append(s, e)) = Len(s) + 1
  BY ONLY AppendProperties, s \in Seq(S), e \in S
<1>2. Append(s, e)[1] = s[1] /\ Append(s, e)[Len(s) + 1] = e
  BY AppendProperties
<1> QED
  BY SMTT(30), <1>1, <1>2

-------------------------------------------------------------------------------
(* What freeing does.                                                      *)

\* Freeing one buffer by its own name.
LEMMA FreeOne ==
  ASSUME NEW b \in Buffers, b # "ZS", b # "Z", mem \in [Buffers -> {"none", "live", "freed"}],
         mem[b] = "live"
  PROVE  Freed({b}) = [mem EXCEPT ![b] = "freed"]
BY DEF Freed, Pointer

\* Freeing the polynomials of dPolys when each of them is live: ZS, which is
\* skipped, is the only entry whose pointer is another's.
LEMMA FreePolys ==
  ASSUME mem \in [Buffers -> {"none", "live", "freed"}], held \subseteq Entries,
         \A p \in Polys : p \in held => mem[p] = "live"
  PROVE  Freed(OwnedPolys) = [b \in Buffers |-> IF b \in Polys /\ b \in held
                                                THEN "freed" ELSE mem[b]]
BY OrderBuffers, PolysAssumption DEF Freed, Pointer, OwnedPolys, Entries
-------------------------------------------------------------------------------
(* The invariant.                                                          *)

LEMMA InitInv == Init => IInv
<1> SUFFICES ASSUME Init PROVE IInv
  OBVIOUS
<1>1. \A b \in Buffers : mem[b] = "none"
  BY DEF Init
<1>2. \A j \in 1 .. 11 : j # 3 => mem[Order[j]] = "none"
  BY <1>1, OrderBuffers
<1>3. MemInv
  BY <1>2 DEF Init, MemInv, LivePolys
<1>4. LivePolys = {}
  BY <1>1 DEF LivePolys, Buffers
<1> QED
  BY <1>3, <1>4 DEF Init, IInv, PcInv, Returning, Setup

\* A buffer that is next in Order is allocated and its deferred call recorded.
LEMMA PushInv ==
  ASSUME MemInv, NEW k \in {1, 2} \cup 4 .. 11, Len(owed) = k - 1, Allocate(Order[k]),
         owed' = Append(owed, Order[k]), UNCHANGED held
  PROVE  MemInv' /\ Len(owed') = k /\ LivePolys' = LivePolys
<1>1. Order[k] \in Buffers \ Polys /\ Order[k] # "polys"
  BY OrderBuffers
<1>2. mem' = [mem EXCEPT ![Order[k]] = "live"]
  BY DEF Allocate
<1>3. \A p \in Polys : mem'[p] = mem[p]
  BY <1>1, <1>2, OrderBuffers DEF MemInv
<1>4. LivePolys' = LivePolys
  BY <1>3 DEF LivePolys
<1>5. /\ owed' \in Seq(Buffers \cup {"polys"}) /\ Len(owed') = k
      /\ owed'[k] = Order[k] /\ \A j \in 1 .. k - 1 : owed'[j] = owed[j]
  BY <1>1 DEF MemInv
<1>6. \A j \in 1 .. Len(owed') : owed'[j] = Order[j]
  BY <1>5 DEF MemInv
<1>7. ASSUME NEW j \in 1 .. 11, j # 3
      PROVE  mem'[Order[j]] = "live" <=> j <= k
  <2>1. CASE j = k
    BY <1>1, <1>2, <1>7, <2>1 DEF MemInv
  <2>2. CASE j # k
    <3>1. Order[j] # Order[k]
      <4>1. k \in 1 .. 11
        OBVIOUS
      <4> QED BY <2>2, <4>1, OrderInjective, Zenon
    <3>2. mem'[Order[j]] = mem[Order[j]]
      BY SMTT(30), <1>2, <1>7, <3>1, OrderBuffers DEF MemInv
    <3>3. j <= k <=> j <= Len(owed)
      BY <2>2
    <3> QED
      BY <1>7, <3>2, <3>3 DEF MemInv
  <2> QED
    BY <2>1, <2>2
<1>8. mem' \in [Buffers -> {"none", "live", "freed"}]
  BY <1>1, <1>2 DEF MemInv
<1>9. Len(owed') >= 3 => held' = Entries /\ LivePolys' = Polys
  BY <1>4, <1>5 DEF MemInv
<1> QED
  BY <1>4, <1>5, <1>6, <1>7, <1>8, <1>9 DEF MemInv

\* What MemInv needs of a step that changes nothing but polynomials while their
\* deferred call is not there.
LEMMA PolysInv ==
  ASSUME MemInv, Len(owed) < 3, mem' \in [Buffers -> {"none", "live", "freed"}],
         \A b \in Buffers \ Polys : mem'[b] = mem[b],
         held' \subseteq Entries, UNCHANGED owed
  PROVE  MemInv'
BY OrderBuffers DEF MemInv

\* A polynomial is allocated or fails to be, or the polynomials are freed by
\* hand: the steps before the deferred call for them exists.
LEMMA UploadInv == IInv /\ (UploadPoly \/ ShareZ) => IInv'
<1> SUFFICES ASSUME IInv, UploadPoly \/ ShareZ PROVE IInv'
  OBVIOUS
<1> USE DEF IInv
<1>1. CASE ShareZ
  <2>1. MemInv'
    BY <1>1, PolysInv DEF ShareZ, MemInv, PcInv, Entries, Continue, LivePolys
  <2> QED
    BY <1>1, <2>1 DEF ShareZ, PcInv, Returning, Setup, Continue, LivePolys
<1>2. CASE UploadPoly
  <2>1. /\ pc = "polys" /\ Len(owed) = 1 /\ held \subseteq Polys /\ LivePolys = held
        /\ error = "none" /\ UNCHANGED owed
    BY <1>2 DEF UploadPoly, PcInv, Returning
  <2>2. PICK p \in Polys \ held :
          \/ /\ Continue("polys")
             /\ Allocate(p) /\ held' = held \cup {p} /\ dev' = [dev EXCEPT !.x[p] = x[p]]
          \/ Fail("setup") /\ mem' = Freed(OwnedPolys) /\ UNCHANGED <<held, dev>>
          \/ Fail("upload") /\ Allocate(p) /\ held' = held \cup {p} /\ UNCHANGED dev
    BY <1>2 DEF UploadPoly
  <2>3. CASE Allocate(p) /\ held' = held \cup {p}
    <3>1. /\ mem' = [mem EXCEPT ![p] = "live"] /\ p \in Buffers
          /\ mem' \in [Buffers -> {"none", "live", "freed"}]
      BY <2>3, OrderBuffers DEF Allocate, MemInv
    <3>2. LivePolys' = held'
      BY <2>1, <2>3, <3>1, OrderBuffers DEF LivePolys, MemInv
    <3>3. MemInv'
      BY <2>1, <2>3, <3>1, PolysInv DEF Entries, MemInv
    <3>4. held' \subseteq Polys
      BY <2>1, <2>3
    <3>5. \/ pc' = "polys" /\ error' = error
          \/ pc' = "unwind" /\ error' \in {"setup", "upload"} /\ error' # "setup"
      BY <2>1, <2>2, <2>3, <3>1, FreePolys DEF Continue, Fail, MemInv
    <3> QED
      BY <2>1, <3>2, <3>3, <3>4, <3>5 DEF PcInv, Returning, Setup
  <2>4. CASE Fail("setup") /\ mem' = Freed(OwnedPolys) /\ UNCHANGED held
    <3>1. mem' = [b \in Buffers |-> IF b \in Polys /\ b \in held THEN "freed" ELSE mem[b]]
      BY <2>1, <2>4, FreePolys DEF MemInv, LivePolys
    <3>2. LivePolys' = {}
      BY <2>1, <3>1, OrderBuffers DEF LivePolys
    <3>3. MemInv'
      BY <2>1, <2>4, <3>1, PolysInv DEF MemInv
    <3> QED
      BY <2>1, <2>4, <3>2, <3>3 DEF PcInv, Returning, Setup, Fail
  <2> QED
    BY <2>2, <2>3, <2>4
<1> QED
  BY <1>1, <1>2

LEMMA AcquireInv == IInv /\ AcquireStream => IInv'
<1> SUFFICES ASSUME IInv, AcquireStream PROVE IInv'
  OBVIOUS
<1> USE DEF IInv
<1>1. /\ pc = "stream" /\ Len(owed) = 0 /\ held = {} /\ LivePolys = {} /\ held' = held
      /\ error = "none"
  BY DEF AcquireStream, PcInv, Returning
<1>2. CASE Continue("polys") /\ Allocate("stream") /\ owed' = <<"stream">>
  <2>1. Order[1] = "stream" /\ owed' = Append(owed, Order[1])
    BY <1>1, <1>2 DEF Order, MemInv
  <2>2. MemInv' /\ Len(owed') = 1 /\ LivePolys' = {}
    BY <1>1, <1>2, <2>1, PushInv
  <2> QED
    BY <1>1, <1>2, <2>2 DEF PcInv, Returning, Setup, Continue
<1>3. CASE Fail("setup") /\ UNCHANGED <<mem, owed>>
  BY <1>1, <1>3 DEF PcInv, MemInv, Returning, Setup, Fail, LivePolys
<1> QED
  BY <1>2, <1>3 DEF AcquireStream

LEMMA PointersInv == IInv /\ AllocatePointers => IInv'
<1> SUFFICES ASSUME IInv, AllocatePointers PROVE IInv'
  OBVIOUS
<1> USE DEF IInv
<1>1. /\ pc = "ptrs" /\ Len(owed) = 1 /\ held = Entries /\ LivePolys = Polys
      /\ held' = held /\ error = "none"
  BY DEF AllocatePointers, PcInv, Returning
<1>2. Order[2] = "ptrs" /\ Order[3] = "polys" /\ "ptrs" \in Buffers \ Polys
  BY OrderBuffers DEF Order
<1>3. Freed(OwnedPolys) = [b \in Buffers |-> IF b \in Polys THEN "freed" ELSE mem[b]]
  BY <1>1, FreePolys, OrderBuffers, PolysAssumption DEF MemInv, LivePolys, Entries
<1>4. CASE Continue("meta") /\ Allocate("ptrs") /\ owed' = owed \o <<"ptrs", "polys">>
  <2>1. mem' = [mem EXCEPT !["ptrs"] = "live"]
    BY <1>4 DEF Allocate
  <2>2. LivePolys' = Polys
    BY <1>1, <1>2, <2>1 DEF LivePolys, MemInv
  <2>3. /\ owed' \in Seq(Buffers \cup {"polys"}) /\ Len(owed') = 3
        /\ owed'[1] = owed[1] /\ owed'[2] = "ptrs" /\ owed'[3] = "polys"
    <3>1. owed \in Seq(Buffers \cup {"polys"}) /\ <<"ptrs", "polys">> \in Seq(Buffers \cup {"polys"})
      BY <1>2 DEF MemInv
    <3> QED
      BY <1>1, <1>2, <1>4, <3>1, ConcatProperties
  <2>4. \A j \in 1 .. Len(owed') : owed'[j] = Order[j]
    BY <1>1, <1>2, <2>3 DEF MemInv
  <2>5. ASSUME NEW j \in 1 .. 11, j # 3
        PROVE  mem'[Order[j]] = "live" <=> j <= 3
    <3>1. CASE j = 2
      BY <1>2, <2>1, <3>1 DEF MemInv
    <3>2. CASE j # 2
      <4>1. Order[j] # Order[2]
        BY <3>2, OrderInjective
      <4> QED
        BY <1>1, <1>2, <2>1, <2>5, <3>2, <4>1, OrderBuffers DEF MemInv
    <3> QED
      BY <3>1, <3>2
  <2>6. mem' \in [Buffers -> {"none", "live", "freed"}]
    BY <1>2, <2>1 DEF MemInv
  <2>7. MemInv'
    BY <1>1, <2>2, <2>3, <2>4, <2>5, <2>6 DEF MemInv
  <2> QED
    BY <1>1, <1>4, <2>3, <2>7 DEF PcInv, Returning, Setup, Continue
<1>5. CASE Fail("setup") /\ mem' = Freed(OwnedPolys) /\ UNCHANGED owed
  <2>1. LivePolys' = {}
    BY <1>3, <1>5 DEF LivePolys, Buffers
  <2>2. MemInv'
    BY <1>1, <1>3, <1>5, PolysInv DEF MemInv
  <2> QED
    BY <1>1, <1>5, <2>1, <2>2 DEF PcInv, Returning, Setup, Fail
<1>6. CASE /\ Fail("setup")
           /\ mem' = [Freed(OwnedPolys) EXCEPT !["ptrs"] = "live"]
           /\ owed' = Append(owed, "ptrs")
  <2>1. LivePolys' = {}
    BY <1>2, <1>3, <1>6 DEF LivePolys, Buffers
  <2>2. /\ owed' \in Seq(Buffers \cup {"polys"}) /\ Len(owed') = 2
        /\ owed'[1] = owed[1] /\ owed'[2] = "ptrs"
    <3>1. owed \in Seq(Buffers \cup {"polys"})
      BY DEF MemInv
    <3> QED
      <4> DEFINE S == Buffers \cup {"polys"}
      <4>1. owed \in Seq(S) /\ "ptrs" \in S /\ Len(owed) = 1 /\ owed' = Append(owed, "ptrs")
        BY <1>1, <1>2, <1>6, <3>1
      <4> HIDE DEF S
      <4>2. owed' \in Seq(S) /\ Len(owed') = 2 /\ owed'[1] = owed[1] /\ owed'[2] = "ptrs"
        BY <4>1, AppendSecond
      <4> QED
        BY <4>2 DEF S
  <2>3. \A j \in 1 .. Len(owed') : owed'[j] = Order[j]
    BY <1>1, <1>2, <2>2 DEF MemInv
  <2>4. ASSUME NEW j \in 1 .. 11, j # 3
        PROVE  mem'[Order[j]] = "live" <=> j <= 2
    <3>1. CASE j = 2
      BY <1>2, <1>3, <1>6, <3>1 DEF MemInv
    <3>2. CASE j # 2
      <4>1. Order[j] # Order[2]
        BY <3>2, OrderInjective
      <4> QED
        BY <1>1, <1>2, <1>3, <1>6, <2>4, <3>2, <4>1, OrderBuffers DEF MemInv
    <3> QED
      BY <3>1, <3>2
  <2>5. mem' \in [Buffers -> {"none", "live", "freed"}]
    BY <1>2, <1>3, <1>6 DEF MemInv
  <2>6. MemInv'
    BY <1>1, <2>2, <2>3, <2>4, <2>5 DEF MemInv
  <2> QED
    BY <1>1, <1>6, <2>1, <2>2, <2>6 DEF PcInv, Returning, Setup, Fail
<1> QED
  BY <1>4, <1>5, <1>6 DEF AllocatePointers

LEMMA MetaInv == IInv /\ AllocateMeta => IInv'
<1> SUFFICES ASSUME IInv, AllocateMeta PROVE IInv'
  OBVIOUS
<1> USE DEF IInv
<1> DEFINE k == Len(owed) - 2
<1>1. /\ pc = "meta" /\ 3 <= Len(owed) /\ Len(owed) <= 10 /\ error = "none" /\ held' = held
      /\ LivePolys = Polys
  BY DEF AllocateMeta, PcInv, MemInv, Returning
<1>2. k \in 1 .. 8 /\ Meta[k] = Order[Len(owed) + 1] /\ Len(Meta) = 8
  <2>1. Len(owed) \in Nat
    BY DEF MemInv
  <2>2. \A n \in Nat : 3 <= n /\ n <= 10 => n - 2 \in 1 .. 8 /\ (n - 2) + 3 = n + 1
    OBVIOUS
  <2>3. k \in 1 .. 8 /\ k + 3 = Len(owed) + 1
    BY <1>1, <2>1, <2>2
  <2> QED
    BY <2>3, OrderMeta DEF Meta
<1>3. \/ /\ Continue(IF k = 8 THEN "gpu.coset" ELSE "meta")
         /\ Allocate(Meta[k]) /\ owed' = Append(owed, Meta[k])
      \/ Fail("setup") /\ UNCHANGED <<mem, owed>>
      \/ Fail("setup") /\ Allocate(Meta[k]) /\ owed' = Append(owed, Meta[k])
  BY <1>2 DEF AllocateMeta
<1>4. CASE Allocate(Meta[k]) /\ owed' = Append(owed, Meta[k])
  <2>1. MemInv' /\ Len(owed') = Len(owed) + 1 /\ LivePolys' = Polys
    <3>1. Len(owed) + 1 \in 4 .. 11
      BY <1>1
    <3> QED
      BY <1>1, <1>2, <1>4, <3>1, PushInv
  <2>2. \/ pc' = "meta" /\ error' = "none" /\ 3 <= Len(owed') /\ Len(owed') <= 10
        \/ pc' = "gpu.coset" /\ error' = "none" /\ Len(owed') = 11
        \/ pc' = "unwind" /\ Len(owed') >= 3
    <3>1. CASE k = 8
      <4>1. Len(owed') = 11
        BY <2>1, <3>1 DEF MemInv
      <4> QED
        BY <1>1, <1>3, <1>4, <2>1, <3>1, <4>1 DEF Continue, Fail
    <3>2. CASE k # 8
      <4>1. Len(owed') >= 3 /\ Len(owed') <= 10
        <5>1. Len(owed) \in Nat
          BY DEF MemInv
        <5>2. \A n \in Nat : 3 <= n /\ n <= 10 /\ n - 2 # 8 => n + 1 >= 3 /\ n + 1 <= 10
          OBVIOUS
        <5> QED
          BY <1>1, <2>1, <3>2, <5>1, <5>2
      <4> QED
        BY <1>1, <1>3, <1>4, <2>1, <3>2, <4>1 DEF Continue, Fail
    <3> QED
      BY <3>1, <3>2
  <2> QED
    BY <2>1, <2>2 DEF PcInv, Returning, Setup
<1>5. CASE Fail("setup") /\ UNCHANGED <<mem, owed>>
  BY <1>1, <1>5 DEF PcInv, MemInv, LivePolys, Returning, Setup, Fail
<1> QED
  BY <1>3, <1>4, <1>5

\* The deferred calls run.
LEMMA UnwindInv == IInv /\ Unwind => IInv'
<1> SUFFICES ASSUME IInv, Unwind PROVE IInv'
  OBVIOUS
<1> USE DEF IInv
<1>1. pc = "unwind" /\ UNCHANGED <<error, held>>
  BY DEF Unwind
<1>2. CASE owed = <<>>
  BY <1>1, <1>2 DEF Unwind, MemInv, PcInv, LivePolys, Returning, Setup
<1>3. CASE owed # <<>>
  <2> DEFINE n == Len(owed)
             S == Buffers \cup {"polys"}
  <2>1. owed \in Seq(S) /\ n \in 1 .. 11 /\ owed[n] = Order[n]
    <3>1. owed \in Seq(S) /\ n \in Nat /\ n # 0
      BY <1>3, EmptySeq DEF MemInv
    <3>2. n <= 11
      BY DEF MemInv
    <3> HIDE DEF n
    <3>3. n \in 1 .. 11 /\ n \in 1 .. n
      BY <3>1, <3>2
    <3> QED
      BY <3>1, <3>3 DEF n, MemInv
  <2>2. Last(owed) = Order[n] /\ owed' = SubSeq(owed, 1, n - 1)
    BY <1>1, <1>3, <2>1 DEF Unwind, Last, Front
  <2>3. owed' \in Seq(S) /\ Len(owed') = n - 1 /\ \A j \in 1 .. n - 1 : owed'[j] = owed[j]
    <3> HIDE DEF n, S
    <3>1. \A j \in 1 .. n - 1 : owed[j] \in S
      BY <2>1, ElementOfSeq DEF n
    <3> QED
      BY <2>1, <2>2, <3>1, SubSeqProperties
  <2> HIDE DEF n
  <2>4. \A j \in 1 .. Len(owed') : owed'[j] = Order[j]
    BY <2>1, <2>3 DEF n, MemInv
  <2>5. pc' = pc /\ mem' = Freed(Deferred(Order[n]))
    BY <1>1, <1>3, <2>2 DEF Unwind
  <2>6. CASE n = 3
    <3>1. Order[n] = "polys" /\ held = Entries /\ LivePolys = Polys
      BY <2>6 DEF n, MemInv, Order
    <3>2. mem' = [b \in Buffers |-> IF b \in Polys THEN "freed" ELSE mem[b]]
      BY <2>5, <3>1, FreePolys DEF Deferred, MemInv, LivePolys, Entries
    <3>3. \A j \in 1 .. 11 : j # 3 => mem'[Order[j]] = mem[Order[j]]
      BY <3>2, OrderBuffers
    <3>4. LivePolys' = {}
      BY <3>2 DEF LivePolys, Buffers
    <3>5. \A j \in 1 .. 11 : j # 3 => (mem'[Order[j]] = "live" <=> j <= n - 1)
      BY <2>6, <3>3 DEF n, MemInv
    <3> QED
      BY <1>1, <2>3, <2>4, <2>5, <2>6, <3>2, <3>4, <3>5
      DEF MemInv, PcInv, Returning, Setup
  <2>7. CASE n # 3
    <3>1. /\ Order[n] \in Buffers \ Polys /\ Order[n] # "ZS" /\ Order[n] # "polys"
          /\ Order[n] # "Z"
      BY <2>1, <2>7, OrderBuffers, PolysAssumption
    <3>2. mem[Order[n]] = "live"
      <4>1. n <= Len(owed)
        BY <2>1 DEF n
      <4> QED
        BY <2>1, <2>7, <4>1 DEF MemInv
    <3>3. mem' = [mem EXCEPT ![Order[n]] = "freed"]
      BY <2>5, <3>1, <3>2, FreeOne DEF Deferred, MemInv
    <3>4. LivePolys' = LivePolys
      BY <3>1, <3>3 DEF LivePolys, MemInv
    <3>5. ASSUME NEW j \in 1 .. 11, j # 3
          PROVE  mem'[Order[j]] = "live" <=> j <= n - 1
      <4>1. CASE j = n
        BY <2>1, <3>1, <3>3, <4>1 DEF MemInv
      <4>2. CASE j # n
        <5>1. mem'[Order[j]] = mem[Order[j]]
          BY <2>1, <3>1, <3>3, <3>5, <4>2, OrderInjective, OrderBuffers DEF MemInv
        <5> QED
          BY <2>1, <3>5, <4>2, <5>1 DEF n, MemInv
      <4> QED
        BY <4>1, <4>2
    <3>6. mem' \in [Buffers -> {"none", "live", "freed"}]
      BY <3>1, <3>3 DEF MemInv
    <3>7. MemInv'
      BY <1>1, <2>1, <2>3, <2>4, <3>4, <3>5, <3>6 DEF n, MemInv
    <3>8. Len(owed') < 3 => Len(owed) < 3
      BY <2>1, <2>3, <2>7 DEF n
    <3> QED
      BY <1>1, <2>5, <3>4, <3>7, <3>8 DEF PcInv, Returning, Setup
  <2> QED
    BY <2>6, <2>7
<1> QED
  BY <1>2, <1>3

\* The loop, the downloads and the kernels allocate and free nothing.
LEMMA LoopInv ==
  ASSUME IInv, UNCHANGED memory,
         \/ UNCHANGED <<pc, error>>
         \/ pc \notin Setup /\ ~Returning /\ error' = error /\ pc' \notin Setup /\ ~Returning'
         \/ pc \notin Setup /\ ~Returning /\ pc' = "unwind"
  PROVE  IInv'
<1>1. MemInv'
  BY DEF IInv, MemInv, LivePolys, memory
<1>2. ~Returning => error = "none" /\ (pc \notin Setup => Len(owed) = 11)
  BY DEF IInv, PcInv
<1>3. UNCHANGED <<held, owed, LivePolys>>
  BY DEF memory, LivePolys
<1>4. CASE UNCHANGED <<pc, error>>
  BY <1>1, <1>3, <1>4 DEF IInv, PcInv, Returning, Setup
<1>5. CASE ~Returning /\ pc \notin Setup /\ error' = error /\ pc' \notin Setup /\ ~Returning'
  BY <1>1, <1>2, <1>3, <1>5 DEF IInv, PcInv, Returning, Setup
<1>6. CASE ~Returning /\ pc \notin Setup /\ pc' = "unwind"
  <2>1. Len(owed') = 11 /\ ~(Len(owed') < 3)
    BY <1>2, <1>3, <1>6
  <2> QED
    BY <1>1, <1>6, <2>1 DEF IInv, PcInv, Returning, Setup
<1> QED
  BY <1>4, <1>5, <1>6

LEMMA NextInv == IInv /\ [Next]_vars => IInv'
<1> SUFFICES ASSUME IInv, [Next]_vars PROVE IInv'
  OBVIOUS
<1>1. CASE AcquireStream
  BY <1>1, AcquireInv
<1>2. CASE UploadPoly \/ ShareZ
  BY <1>2, UploadInv
<1>3. CASE AllocatePointers
  BY <1>3, PointersInv
<1>4. CASE AllocateMeta
  BY <1>4, MetaInv
<1>5. CASE Unwind
  BY <1>5, UnwindInv
<1>6. CASE MoveCoset \/ LiftBlinding \/ LaunchIteration \/ SyncAndScatter \/ UnliftBlinding
  BY <1>6, LoopInv DEF MoveCoset, LiftBlinding, LaunchIteration, SyncAndScatter,
     UnliftBlinding, Continue, Fail, Returning, Setup
<1>7. CASE StreamSync \/ DownloadCres \/ DownloadPoly
  BY <1>7, LoopInv DEF StreamSync, DownloadCres, DownloadPoly, Continue, Fail, Returning, Setup
<1>8. CASE EndKernel \/ UNCHANGED vars
  BY <1>8, LoopInv DEF EndKernel, vars, memory
<1> QED
  BY <1>1, <1>2, <1>3, <1>4, <1>5, <1>6, <1>7, <1>8 DEF Next

THEOREM Invariance == Spec => []IInv
<1>1. Init => IInv
  BY InitInv
<1>2. IInv /\ [Next]_vars => IInv'
  BY NextInv
<1> QED
  BY <1>1, <1>2, PTL DEF Spec

-------------------------------------------------------------------------------
(* The theorems.                                                           *)

\* gpuComputeNumeratorRhoLoop frees no device buffer that is not allocated.
THEOREM FreedOnceThm == Spec => []FreedOnce
<1>1. IInv => FreedOnce
  BY DEF IInv, MemInv, FreedOnce
<1> QED
  BY <1>1, Invariance, PTL

\* When it has returned, on any path but that of a failed upload, every buffer
\* and the stream have been released; on that path all but the polynomials.
THEOREM NothingLeftThm == Spec => []NothingLeft
<1>1. IInv => NothingLeft
  <2> SUFFICES ASSUME IInv, pc = "end"
               PROVE  /\ Live \subseteq Polys
                      /\ error # "upload" => Live = {}
    BY DEF NothingLeft
  <2>1. Len(owed) = 0
    BY DEF IInv, PcInv
  <2>2. \A b \in Buffers \ Polys : mem[b] # "live"
    BY <2>1, OrderBuffers DEF IInv, MemInv
  <2>3. Live \subseteq Polys
    BY <2>2 DEF Live
  <2>4. error # "upload" => LivePolys = {}
    BY <2>1 DEF IInv, PcInv, Returning
  <2> QED
    BY <2>3, <2>4 DEF Live, LivePolys
<1> QED
  BY <1>1, Invariance, PTL

-------------------------------------------------------------------------------
(* The kernels on the stream.                                              *)

Kernels == {Denominators, Evaluate} \cup {Transform(p) : p \in Polys}
           \cup {Scatter(k) : k \in Iterations}

\* What can still be on the stream when the host executes label l.
KernelsAt(l) ==
  CASE l \in Setup                                      -> {}
    [] l \in {"gpu.cres", "gpu.polys"}                  -> {}
    [] l \in {"gpu.coset", "gpu.unlift", "gpu.wait"}    -> {k \in Kernels : k.op = "scatter"}
    [] l = "gpu.lift" -> {k \in Kernels : k.op \in {"scatter", "denominators"}}
    [] OTHER                                            -> Kernels

Labels == Setup \cup {"gpu.coset", "gpu.lift", "gpu.kernels", "gpu.sync", "gpu.unlift",
                      "gpu.wait", "gpu.cres", "gpu.polys", "unwind", "end"}

\* Something is on the stream only while every deferred call is outstanding.
QueueInv == /\ queue \in Seq(KernelsAt(pc))
            /\ queue # <<>> => Len(owed) = 11

LoopTyped ==
  /\ pc \in Labels /\ error \in Failures \cup {"none"} /\ fetched \subseteq Polys
  /\ i \in 0 .. Rho
  /\ pc \in Setup \cup {"gpu.coset", "gpu.lift", "gpu.kernels", "gpu.sync", "gpu.unlift"}
       => i < Rho

StreamInv == QueueInv /\ LoopTyped

\* A sequence over no elements is empty.
LEMMA SeqOfNothing == \A s \in Seq({}) : s = <<>>
<1> SUFFICES ASSUME NEW s \in Seq({}), s # <<>> PROVE FALSE
  OBVIOUS
<1> QED BY HeadTailProperties

\* Later labels of an iteration allow more kernels on the stream.
LEMMA MoreKernels ==
  /\ \A l : KernelsAt(l) \subseteq Kernels
  /\ KernelsAt("gpu.kernels") = Kernels /\ KernelsAt("gpu.sync") = Kernels
  /\ KernelsAt("unwind") = Kernels /\ KernelsAt("end") = Kernels
  /\ KernelsAt("gpu.coset") \subseteq KernelsAt("gpu.lift")
  /\ Denominators \in KernelsAt("gpu.lift")
  /\ KernelsAt("gpu.unlift") = KernelsAt("gpu.coset")
  /\ KernelsAt("gpu.unlift") = KernelsAt("gpu.wait")
  /\ \A k \in Iterations : Scatter(k) \in KernelsAt("gpu.unlift")
  /\ KernelsAt("gpu.cres") = {} /\ KernelsAt("gpu.polys") = {}
  /\ \A l \in Setup : KernelsAt(l) = {}
BY DEF KernelsAt, Kernels, Setup, Denominators, Scatter

\* The batch of an iteration: the polynomials are finitely many.
LEMMA BatchLemma == Batch \in Seq(Kernels)
<1> DEFINE s == SetToSeq(Polys)
<1>1. s \in Seq(Polys)
  <2>1. Cardinality(Polys) \in Nat /\ ExistsBijection(1 .. Cardinality(Polys), Polys)
    BY FiniteAssumption, FS_CardinalityType
  <2>2. \E f \in [1 .. Cardinality(Polys) -> Polys] : IsInjective(f)
    BY <2>1 DEF ExistsBijection, Bijection, Injection
  <2>3. s \in [1 .. Cardinality(Polys) -> Polys]
    BY <2>2 DEF SetToSeq
  <2> QED BY <2>1, <2>3
<1> HIDE DEF s
<1> DEFINE t == [k \in 1 .. Len(s) |-> Transform(s[k])]
<1>2. t \in Seq(Kernels)
  <2>1. \A k \in 1 .. Len(s) : Transform(s[k]) \in Kernels
    BY <1>1, ElementOfSeq DEF Kernels
  <2>2. t \in [1 .. Len(s) -> Kernels] /\ Len(s) \in Nat
    BY <1>1, <2>1
  <2> HIDE DEF t
  <2> QED BY <2>2
<1>3. <<Evaluate>> \in Seq(Kernels)
  BY DEF Kernels
<1> HIDE DEF t
<1>4. t \o <<Evaluate>> \in Seq(Kernels)
  BY <1>2, <1>3, ConcatProperties
<1> QED BY <1>4 DEF Batch, s, t

\* The stream may hold no more at the next label than it may now.
LEMMA QueueKept ==
  ASSUME QueueInv, UNCHANGED <<queue, owed>>, KernelsAt(pc) \subseteq KernelsAt(pc')
  PROVE  QueueInv'
BY SeqMonotonic DEF QueueInv

\* An error return leaves on the stream what is there.
LEMMA FailKept ==
  ASSUME StreamInv, NEW phase, Fail(phase), UNCHANGED <<queue, owed, i, fetched>>
  PROVE  StreamInv'
<1>1. QueueInv'
  BY QueueKept, MoreKernels DEF StreamInv, Fail
<1> QED BY <1>1 DEF StreamInv, LoopTyped, Fail, Labels, Setup

\* Setup: the stream is not used yet.
LEMMA SetupStream ==
  ASSUME IInv, StreamInv,
         AcquireStream \/ UploadPoly \/ ShareZ \/ AllocatePointers \/ AllocateMeta
  PROVE  StreamInv'
<1>1. /\ pc \in Setup /\ queue = <<>>
      /\ UNCHANGED <<queue, i, fetched>>
  <2>1. pc \in Setup /\ UNCHANGED <<queue, i, fetched>>
    BY DEF AcquireStream, UploadPoly, ShareZ, AllocatePointers, AllocateMeta, Setup, host
  <2> QED BY <2>1, MoreKernels, SeqOfNothing DEF StreamInv, QueueInv
<1>2. QueueInv'
  BY <1>1 DEF QueueInv
<1>3. \/ pc' \in Setup \cup {"gpu.coset"} /\ error' = error
      \/ pc' = "unwind" /\ error' \in Failures
  BY DEF AcquireStream, UploadPoly, ShareZ, AllocatePointers, AllocateMeta, Setup, Continue,
     Fail
<1> QED BY <1>1, <1>2, <1>3 DEF StreamInv, LoopTyped, Labels, Setup

\* The loop launches with every deferred call outstanding.
LEMMA IterationStream ==
  ASSUME IInv, StreamInv, MoveCoset \/ LiftBlinding \/ LaunchIteration
  PROVE  StreamInv'
<1>1. /\ pc \in {"gpu.coset", "gpu.lift", "gpu.kernels"}
      /\ UNCHANGED <<owed, i, fetched>> /\ Len(owed) = 11
  BY DEF MoveCoset, LiftBlinding, LaunchIteration, host, memory, IInv, PcInv, Setup, Returning
<1>2. ASSUME NEW phase, Fail(phase), UNCHANGED queue PROVE StreamInv'
  BY <1>1, <1>2, FailKept
<1>3. ASSUME NEW s \in Seq(Kernels), pc = "gpu.kernels", queue' = queue \o s,
             \/ Continue("gpu.sync")
             \/ Fail("loop")
      PROVE  StreamInv'
  <2>1. queue' \in Seq(Kernels)
    BY <1>3, MoreKernels, ConcatProperties DEF StreamInv, QueueInv
  <2> QED
    BY <1>1, <1>3, <2>1, MoreKernels
       DEF StreamInv, QueueInv, LoopTyped, Labels, Setup, Continue, Fail
<1>4. CASE MoveCoset
  <2>1. CASE /\ pc = "gpu.coset" /\ Continue("gpu.lift")
             /\ queue' = Append(queue, Denominators)
    <3>1. queue \in Seq(KernelsAt("gpu.lift"))
      BY <2>1, MoreKernels, SeqMonotonic DEF StreamInv, QueueInv
    <3>2. queue' \in Seq(KernelsAt("gpu.lift"))
      BY <2>1, <3>1, MoreKernels, AppendProperties
    <3> QED BY <1>1, <2>1, <3>2 DEF StreamInv, QueueInv, LoopTyped, Labels, Setup, Continue
  <2> QED BY <1>2, <1>4, <2>1 DEF MoveCoset
<1>5. CASE LiftBlinding
  <2>1. CASE pc = "gpu.lift" /\ Continue("gpu.kernels") /\ UNCHANGED queue
    <3>1. QueueInv'
      BY <1>1, <2>1, QueueKept, MoreKernels DEF StreamInv, Continue
    <3> QED BY <1>1, <2>1, <3>1 DEF StreamInv, LoopTyped, Labels, Setup, Continue
  <2> QED BY <1>2, <1>5, <2>1 DEF LiftBlinding
<1>6. CASE LaunchIteration
  <2>1. CASE Continue("gpu.sync") /\ queue' = queue \o Batch
    BY <1>3, <1>6, <2>1, BatchLemma DEF LaunchIteration
  <2>2. CASE /\ Fail("loop")
             /\ \E k \in 0 .. Len(Batch) - 1 : queue' = queue \o SubSeq(Batch, 1, k)
    <3>1. PICK k \in 0 .. Len(Batch) - 1 : queue' = queue \o SubSeq(Batch, 1, k)
      BY <2>2
    <3>2. \A j \in 1 .. k : Batch[j] \in Kernels
      BY <3>1, BatchLemma, ElementOfSeq
    <3>3. SubSeq(Batch, 1, k) \in Seq(Kernels)
      BY <3>2, SubSeqProperties
    <3> QED BY <1>3, <1>6, <2>2, <3>1, <3>3 DEF LaunchIteration
  <2> QED BY <1>6, <2>1, <2>2 DEF LaunchIteration
<1> QED BY <1>4, <1>5, <1>6

\* The host waits for the stream, scatters, and goes on to the next iteration.
LEMMA ScatterStream ==
  ASSUME IInv, StreamInv, SyncAndScatter \/ UnliftBlinding
  PROVE  StreamInv'
<1>1. /\ pc \in {"gpu.sync", "gpu.unlift"} /\ i \in Iterations
      /\ UNCHANGED <<owed, fetched>> /\ Len(owed) = 11
  BY RhoAssumption
     DEF SyncAndScatter, UnliftBlinding, host, memory, IInv, PcInv, Setup, Returning, StreamInv,
         LoopTyped, Iterations
<1>2. CASE SyncAndScatter
  <2>1. CASE Continue("gpu.unlift") /\ queue' = <<Scatter(i)>>
    <3>1. queue' \in Seq(KernelsAt("gpu.unlift"))
      BY <1>1, <2>1, MoreKernels
    <3> QED
      BY <1>1, <1>2, <2>1, <3>1
         DEF SyncAndScatter, StreamInv, QueueInv, LoopTyped, Labels, Setup, Continue
  <2> QED BY <1>1, <1>2, <2>1, FailKept DEF SyncAndScatter
<1>3. CASE UnliftBlinding
  <2>1. QueueInv'
    BY <1>1, <1>3, QueueKept, MoreKernels DEF UnliftBlinding, StreamInv, Continue
  <2>2. pc' = (IF i + 1 = Rho THEN "gpu.wait" ELSE "gpu.coset") /\ i' = i + 1 /\ error' = error
    BY <1>3 DEF UnliftBlinding, Continue
  <2> QED
    BY <1>1, <1>3, <2>1, <2>2, RhoAssumption
       DEF StreamInv, LoopTyped, Labels, Setup, Iterations
<1> QED BY <1>2, <1>3

\* After StreamSync nothing is on the stream while the host copies.
LEMMA DownloadStream ==
  ASSUME IInv, StreamInv, StreamSync \/ DownloadCres \/ DownloadPoly
  PROVE  StreamInv'
<1>1. queue = <<>> /\ UNCHANGED <<queue, owed, i>>
  BY MoreKernels, SeqOfNothing
     DEF StreamSync, DownloadCres, DownloadPoly, host, memory, StreamInv, QueueInv
<1>2. QueueInv'
  BY <1>1 DEF QueueInv
<1>3. /\ pc \in {"gpu.wait", "gpu.cres", "gpu.polys"} /\ fetched' \subseteq Polys
      /\ \/ pc' \in {"gpu.cres", "gpu.polys"} /\ error' = error
         \/ pc' = "unwind" /\ error' \in Failures \cup {error}
  BY DEF StreamSync, DownloadCres, DownloadPoly, Continue, Fail, host, StreamInv, LoopTyped
<1> QED BY <1>1, <1>2, <1>3 DEF StreamInv, LoopTyped, Labels, Setup

\* The deferred calls wait for the stream, and kernels end.
LEMMA UnwindStream ==
  ASSUME IInv, StreamInv, Unwind \/ EndKernel
  PROVE  StreamInv'
<1>1. CASE Unwind
  <2>1. CASE owed = <<>> /\ UNCHANGED owed
    BY <1>1, <2>1, QueueKept, MoreKernels DEF Unwind, StreamInv, LoopTyped, Labels, Setup, host
  <2>2. CASE queue = <<>> /\ UNCHANGED pc
    BY <1>1, <2>2 DEF Unwind, StreamInv, QueueInv, LoopTyped, Labels, Setup, host
  <2> QED BY <1>1, <2>1, <2>2 DEF Unwind
<1>2. CASE EndKernel
  <2>1. queue' \in Seq(KernelsAt(pc))
    BY <1>2, HeadTailProperties DEF EndKernel, StreamInv, QueueInv
  <2> QED BY <1>2, <2>1 DEF EndKernel, StreamInv, QueueInv, LoopTyped, memory, host
<1> QED BY <1>1, <1>2

\* Both invariants hold of every run.
LEMMA StreamInvariance == Spec => [](IInv /\ StreamInv)
<1>1. Init => StreamInv
  BY RhoAssumption DEF Init, StreamInv, QueueInv, LoopTyped, Labels, Setup
<1>2. IInv /\ StreamInv /\ [Next]_vars => StreamInv'
  <2>1. ASSUME StreamInv, UNCHANGED vars PROVE StreamInv'
    BY <2>1 DEF vars, host, StreamInv, QueueInv, LoopTyped
  <2> QED
    BY <2>1, SetupStream, IterationStream, ScatterStream, DownloadStream, UnwindStream DEF Next
<1> QED BY <1>1, <1>2, InitInv, NextInv, PTL DEF Spec

\* The state of gpuComputeNumeratorRhoLoop has its shape.
THEOREM TypeOKThm == Spec => []TypeOK
<1>1. ASSUME IInv, StreamInv PROVE TypeOK
  <2>1. queue \in Seq(Kernels)
    BY <1>1, MoreKernels, SeqMonotonic DEF StreamInv, QueueInv
  <2> QED BY <1>1, <2>1 DEF TypeOK, IInv, MemInv, StreamInv, LoopTyped, Labels, Kernels
<1> QED BY <1>1, StreamInvariance, PTL

\* No kernel that can still run uses a freed buffer, or one the host is copying
\* into or out of, for every number of cosets and every set of polynomials.
THEOREM StreamSafeThm == Spec => []StreamSafe
<1>1. ASSUME IInv, StreamInv, NEW k \in DOMAIN queue
      PROVE  Uses(queue[k]) \subseteq Live /\ Uses(queue[k]) \cap Copies = {}
  <2>1. queue \in Seq(KernelsAt(pc)) /\ queue # <<>>
    BY <1>1 DEF StreamInv, QueueInv
  <2>2. queue[k] \in KernelsAt(pc)
    BY <1>1, <2>1, ElementOfSeq
  <2>3. Live = Buffers
    <3>1. Len(owed) = 11
      BY <1>1, <2>1 DEF StreamInv, QueueInv
    <3>2. LivePolys = Polys
      BY <1>1, <3>1 DEF IInv, MemInv
    <3> QED BY <1>1, <3>1, <3>2, OrderBuffers DEF IInv, MemInv, Live, LivePolys
  <2>4. Uses(queue[k]) \subseteq Buffers
    BY <2>2, MoreKernels, OrderBuffers
       DEF Kernels, Uses, Denominators, Evaluate, Transform, Scatter
  <2>5. Uses(queue[k]) \cap Copies = {}
    <3>1. CASE pc \in {"gpu.coset", "gpu.lift"}
      BY <2>2, <3>1, PolysAssumption
         DEF KernelsAt, Kernels, Setup, Uses, Copies, Denominators, Evaluate, Transform, Scatter
    <3>2. CASE pc \in {"gpu.cres", "gpu.polys"}
      BY <2>2, <3>2, MoreKernels
    <3> QED BY <3>1, <3>2 DEF Copies
  <2> QED BY <2>3, <2>4, <2>5
<1>2. IInv /\ StreamInv => StreamSafe
  BY <1>1 DEF StreamSafe
<1> QED BY <1>2, StreamInvariance, PTL
-------------------------------------------------------------------------------
(* What the buffers hold.                                                  *)

FunctionOn(f, S) == f = [e \in S |-> f[e]]

DataTyped ==
  /\ DOMAIN dev = {"x", "scale", "coset", "denoms", "bp", "challenges", "result", "cres"}
  /\ FunctionOn(dev.x, Polys) /\ FunctionOn(x, Polys) /\ FunctionOn(before, Polys)
  /\ FunctionOn(dev.cres, Iterations)

\* The result of the constraints over what is on the device now.
ResultNow == [coset |-> dev.challenges.coset, expo |-> dev.challenges.expo,
              denoms |-> dev.denoms, bp |-> dev.bp, x |-> dev.x]

\* While a batch runs: an array is moved once, when its transform ends, and the
\* evaluation is the last to end.
BatchInv ==
  /\ \A p \in Polys : dev.x[p] = IF Pending(Transform(p)) THEN before[p]
                                 ELSE Mul(before[p], dev.scale)
  /\ \A j, k \in 1 .. Len(queue) : queue[j] = queue[k] /\ queue[j].op = "transform" => j = k
  /\ queue # <<>> => queue[Len(queue)] = Evaluate
  /\ queue = <<>> => dev.result = ResultNow

\* Scatters come first on the stream, and the evaluation last.
QueueOrder ==
  \A j \in 1 .. Len(queue) : /\ queue[j].op = "scatter" => j = 1
                             /\ queue[j] = Evaluate => j = Len(queue)

HostInv ==
  /\ pc \in Setup => before = x /\ \A p \in Polys \cap held : dev.x[p] = x[p]
  /\ pc \notin Setup \cup {"gpu.sync"} /\ ~Returning => before = dev.x
  /\ pc \notin Setup /\ ~Returning => dev.scale = scaling
  /\ pc # "gpu.polys" /\ ~Returning => cres = NoRows
  /\ pc \in {"gpu.lift", "gpu.kernels", "gpu.sync"} => dev.coset = coset
  /\ pc \in {"gpu.kernels", "gpu.sync"} =>
       dev.bp = bp /\ dev.challenges = [coset |-> coset, expo |-> expo]
  /\ pc \notin Setup \cup {"gpu.sync"} /\ ~Returning =>
       \A j \in 1 .. Len(queue) : queue[j].op \in {"scatter", "denominators"}

DataInv == DataTyped /\ HostInv /\ QueueOrder /\ (pc = "gpu.sync" => BatchInv)

\* What a kernel changes when it ends.
LEMMA EffectOf ==
  ASSUME DataTyped, NEW kernel \in Kernels
  PROVE  LET d == Effect(dev, kernel)
         IN  /\ DOMAIN d = DOMAIN dev
             /\ d.scale = dev.scale /\ d.coset = dev.coset /\ d.bp = dev.bp
             /\ d.challenges = dev.challenges
             /\ d.denoms = IF kernel = Denominators THEN dev.coset ELSE dev.denoms
             /\ d.x = [p \in Polys |-> IF kernel = Transform(p)
                                       THEN Mul(dev.x[p], dev.scale) ELSE dev.x[p]]
             /\ d.result = IF kernel = Evaluate THEN ResultNow ELSE dev.result
             /\ d.cres = [k \in Iterations |-> IF kernel = Scatter(k)
                                               THEN dev.result ELSE dev.cres[k]]
<1>1. CASE kernel = Denominators
  BY <1>1 DEF DataTyped, FunctionOn, Effect, DenominatorsEnd, Denominators, Evaluate, Transform, Scatter
<1>2. CASE kernel = Evaluate
  BY <1>2
  DEF DataTyped, FunctionOn, Effect, EvaluateEnd, Denominators, Evaluate, Transform, Scatter,
      ResultNow
<1>3. ASSUME NEW p \in Polys, kernel = Transform(p)
      PROVE  LET d == Effect(dev, kernel)
             IN  /\ d = [dev EXCEPT !.x[p] = Mul(@, dev.scale)]
                 /\ kernel # Denominators /\ kernel # Evaluate
                 /\ \A k \in Iterations : kernel # Scatter(k)
                 /\ \A r \in Polys : kernel = Transform(r) <=> r = p
  BY <1>3 DEF Effect, TransformEnd, Denominators, Evaluate, Transform, Scatter
<1>4. ASSUME NEW k \in Iterations, kernel = Scatter(k)
      PROVE  LET d == Effect(dev, kernel)
             IN  /\ d = [dev EXCEPT !.cres[k] = dev.result]
                 /\ kernel # Denominators /\ kernel # Evaluate
                 /\ \A p \in Polys : kernel # Transform(p)
                 /\ \A r \in Iterations : kernel = Scatter(r) <=> r = k
  BY <1>4 DEF Effect, ScatterEnd, Denominators, Evaluate, Transform, Scatter
<1>5. CASE \E p \in Polys : kernel = Transform(p)
  <2>1. PICK p \in Polys : kernel = Transform(p)
    BY <1>5
  <2> QED BY <1>3, <2>1 DEF DataTyped, FunctionOn
<1>6. CASE \E k \in Iterations : kernel = Scatter(k)
  <2>1. PICK k \in Iterations : kernel = Scatter(k)
    BY <1>6
  <2> QED BY <1>4, <2>1 DEF DataTyped, FunctionOn
<1> QED BY <1>1, <1>2, <1>5, <1>6 DEF Kernels

\* The end of a kernel: only that kernel may be off the stream then.
LEMMA StreamMoves ==
  ASSUME queue \in Seq(Kernels), EndKernel
  PROVE  /\ Head(queue) \in Kernels /\ dev' = Effect(dev, Head(queue))
         /\ \E n \in Nat :
              /\ Len(queue) = n + 1 /\ Len(queue') = n /\ queue' \in Seq(Kernels)
              /\ queue[1] = Head(queue)
              /\ \A j \in 1 .. n : queue'[j] = queue[j + 1] /\ j + 1 \in 1 .. n + 1
         /\ \A kernel : kernel # Head(queue) => (Pending(kernel)' <=> Pending(kernel))
<1>1. queue # <<>> /\ dev' = Effect(dev, Head(queue)) /\ queue' = Tail(queue)
  BY DEF EndKernel
<1>2. Len(queue) \in Nat /\ Len(queue) # 0
  BY <1>1, EmptySeq
<1>3. PICK n \in Nat : Len(queue) = n + 1
  <2>1. Len(queue) - 1 \in Nat /\ Len(queue) = (Len(queue) - 1) + 1
    BY <1>2
  <2> QED BY <2>1
<1>4. /\ queue[1] = Head(queue) /\ Head(queue) \in Kernels /\ queue' \in Seq(Kernels)
      /\ Len(queue') = Len(queue) - 1
      /\ \A j \in 1 .. Len(queue) - 1 : queue'[j] = queue[j + 1]
  BY <1>1, HeadTailProperties
<1>5. Len(queue) - 1 = n /\ \A j \in 1 .. n : j + 1 \in 1 .. n + 1
  BY <1>3
<1>6. ASSUME NEW kernel, kernel # Head(queue) PROVE Pending(kernel)' <=> Pending(kernel)
  <2>1. DOMAIN queue = 1 .. n + 1 /\ DOMAIN queue' = 1 .. n
    BY <1>3, <1>4, <1>5
  <2>2. ASSUME NEW j \in 1 .. n + 1, queue[j] = kernel PROVE \E k \in 1 .. n : queue'[k] = kernel
    <3>1. j # 1
      BY <1>4, <1>6, <2>2
    <3>2. j - 1 \in 1 .. n /\ (j - 1) + 1 = j
      BY <3>1
    <3> QED BY <1>4, <1>5, <2>2, <3>2
  <2>3. ASSUME NEW j \in 1 .. n, queue'[j] = kernel PROVE \E k \in 1 .. n + 1 : queue[k] = kernel
    BY <1>4, <1>5, <2>3
  <2> QED BY <2>1, <2>2, <2>3 DEF Pending
<1> QED BY <1>1, <1>3, <1>4, <1>5, <1>6

\* The batch: each polynomial once, then the constraints.
LEMMA BatchShape ==
  \E m \in Nat :
    /\ Len(Batch) = m + 1 /\ Batch[m + 1] = Evaluate
    /\ \A j \in 1 .. m : \E p \in Polys : Batch[j] = Transform(p)
    /\ \A j, k \in 1 .. m : Batch[j] = Batch[k] => j = k
    /\ \A p \in Polys : \E j \in 1 .. m : Batch[j] = Transform(p)
<1> DEFINE s == SetToSeq(Polys)
           n == Cardinality(Polys)
<1>1. n \in Nat /\ s \in [1 .. n -> Polys] /\ IsInjective(s)
  <2>1. n \in Nat /\ ExistsBijection(1 .. n, Polys)
    BY FiniteAssumption, FS_CardinalityType
  <2>2. \E f \in [1 .. n -> Polys] : IsInjective(f)
    BY <2>1 DEF ExistsBijection, Bijection, Injection
  <2> QED BY <2>1, <2>2 DEF SetToSeq
<1>2. \A p \in Polys : \E j \in 1 .. n : s[j] = p
  <2>1. IsFiniteSet(1 .. n) /\ Cardinality(1 .. n) = n
    <3>1. IF 1 > n THEN n = 0 ELSE n - 1 + 1 = n
      BY <1>1
    <3> HIDE DEF n
    <3> QED BY <1>1, <3>1, FS_Interval
  <2>2. s \in Injection(1 .. n, Polys)
    BY <1>1 DEF Injection
  <2>3. s \in Surjection(1 .. n, Polys)
    BY <2>1, <2>2, FiniteAssumption, FS_Injection
  <2> QED BY <2>3 DEF Surjection
<1> HIDE DEF s, n
<1>3. Len(s) = n /\ s \in Seq(Polys)
  BY <1>1
<1> DEFINE t == [k \in 1 .. n |-> Transform(s[k])]
<1>4. t \in Seq(Kernels) /\ Len(t) = n /\ <<Evaluate>> \in Seq(Kernels)
  <2>1. \A k \in 1 .. n : Transform(s[k]) \in Kernels
    BY <1>1 DEF Kernels
  <2>2. t \in [1 .. n -> Kernels]
    BY <2>1
  <2> HIDE DEF t
  <2> QED BY <1>1, <2>2 DEF Kernels
<1>5. \A k \in 1 .. n : t[k] = Transform(s[k])
  OBVIOUS
<1>6. Batch = t \o <<Evaluate>>
  BY <1>3 DEF Batch, s
<1> HIDE DEF t
<1>7. /\ Len(Batch) = n + 1 /\ Batch[n + 1] = Evaluate
      /\ \A k \in 1 .. n : Batch[k] = Transform(s[k])
  <2>1. Len(<<Evaluate>>) = 1 /\ <<Evaluate>>[1] = Evaluate
    OBVIOUS
  <2>2. /\ Len(Batch) = Len(t) + Len(<<Evaluate>>)
        /\ \A k \in 1 .. Len(t) + Len(<<Evaluate>>) :
             Batch[k] = IF k <= Len(t) THEN t[k] ELSE <<Evaluate>>[k - Len(t)]
    BY ONLY <1>4, <1>6, ConcatProperties
  <2>3. n + 1 \in 1 .. n + 1 /\ ~(n + 1 <= n) /\ (n + 1) - n = 1
    BY <1>1
  <2>4. \A k \in 1 .. n : k \in 1 .. n + 1 /\ k <= n
    BY <1>1
  <2> QED BY <1>4, <1>5, <2>1, <2>2, <2>3, <2>4
<1>8. \A p, r : Transform(p) = Transform(r) => p = r
  BY DEF Transform
<1>9. \A j, k \in 1 .. n : s[j] = s[k] => j = k
  BY <1>1 DEF IsInjective
<1> QED BY <1>1, <1>2, <1>7, <1>8, <1>9

\* The polynomials are moved there one by one; the scaling vector comes last.
LEMMA SetupData ==
  ASSUME IInv, StreamInv, DataInv,
         AcquireStream \/ UploadPoly \/ ShareZ \/ AllocatePointers \/ AllocateMeta
  PROVE  DataInv'
<1> USE DEF DataInv
<1>1. /\ pc \in Setup /\ queue = <<>> /\ UNCHANGED <<queue, x, scaling, cres>> /\ cres = NoRows
      /\ before = x /\ \A p \in Polys \cap held : dev.x[p] = x[p]
  <2>1. pc \in Setup
    BY DEF AcquireStream, UploadPoly, ShareZ, AllocatePointers, AllocateMeta, Setup
  <2>2. queue = <<>>
    BY <2>1, MoreKernels, SeqOfNothing DEF StreamInv, QueueInv
  <2> QED
    BY <2>1, <2>2 DEF AcquireStream, UploadPoly, ShareZ, AllocatePointers, AllocateMeta, host,
       HostInv, Setup, Returning
<1>2. QueueOrder' /\ Len(queue') = 0
  BY <1>1 DEF QueueOrder
<1>3. ASSUME NEW p \in Polys, held' = held \cup {p}, dev' = [dev EXCEPT !.x[p] = x[p]],
             UNCHANGED before
      PROVE  DataTyped' /\ \A r \in Polys \cap held' : dev'.x[r] = x[r]
  <2>1. DataTyped'
    <3>1. DOMAIN dev' = DOMAIN dev /\ dev'.x = [dev.x EXCEPT ![p] = x[p]] /\ dev'.cres = dev.cres
      BY <1>3 DEF DataTyped
    <3> QED BY <1>1, <1>3, <3>1 DEF DataTyped, FunctionOn
  <2> QED BY <1>1, <1>3, <2>1 DEF DataTyped, FunctionOn
<1>4. CASE AcquireStream \/ UploadPoly \/ ShareZ \/ AllocatePointers
  <2>1. before' = before /\ pc' \in Setup \cup {"unwind"}
    BY <1>4 DEF AcquireStream, UploadPoly, ShareZ, AllocatePointers, Continue, Fail, Setup
  <2>2. \/ UNCHANGED <<held, dev>>
        \/ UNCHANGED dev /\ pc' = "unwind"
        \/ UNCHANGED dev /\ held = Polys
        \/ \E p \in Polys : held' = held \cup {p} /\ dev' = [dev EXCEPT !.x[p] = x[p]]
    BY <1>4 DEF AcquireStream, UploadPoly, ShareZ, AllocatePointers, Fail
  <2>3. DataTyped'
    BY <1>1, <1>3, <2>1, <2>2 DEF DataTyped
  <2>4. pc' # "unwind" => \A p \in Polys \cap held' : dev'.x[p] = x[p]
    BY <1>1, <1>3, <2>1, <2>2
  <2> QED BY <1>1, <1>2, <2>1, <2>3, <2>4 DEF HostInv, Setup, Returning
<1>5. CASE AllocateMeta
  <2>1. pc = "meta" /\ UNCHANGED held
    BY <1>5 DEF AllocateMeta
  <2>2. CASE UNCHANGED <<dev, before>> /\ pc' \in {"meta", "unwind"}
    BY <1>1, <1>2, <2>1, <2>2 DEF DataTyped, HostInv, Setup, Returning
  <2>3. CASE pc' = "gpu.coset" /\ dev' = [dev EXCEPT !.scale = scaling] /\ before' = dev.x
    <3>1. /\ DOMAIN dev' = DOMAIN dev /\ dev'.x = dev.x /\ dev'.cres = dev.cres
          /\ dev'.scale = scaling
      BY <2>3 DEF DataTyped
    <3>2. DataTyped'
      BY <1>1, <2>3, <3>1 DEF DataTyped
    <3> QED BY <1>1, <1>2, <2>3, <3>1, <3>2 DEF HostInv, Setup, Returning
  <2> QED BY <1>5, <2>2, <2>3 DEF AllocateMeta, Continue, Fail
<1> QED BY <1>4, <1>5

\* Nothing on the device changes.
LEMMA OtherData ==
  ASSUME IInv, StreamInv, DataInv, UNCHANGED <<dev, queue, scaling, before>>,
         x' = x \/ \E p \in Polys : x' = [x EXCEPT ![p] = dev.x[p]],
         \/ Returning'
         \/ pc \notin Setup \cup {"gpu.sync"} /\ ~Returning
            /\ pc' \in {"gpu.coset", "gpu.wait", "gpu.cres", "gpu.polys"}
            /\ (pc # "gpu.polys" \/ pc' = "gpu.polys"),
         UNCHANGED cres \/ pc' = "gpu.polys" \/ Returning'
  PROVE  DataInv'
<1>1. FunctionOn(x', Polys)
  BY DEF DataInv, DataTyped, FunctionOn
<1>2. DataTyped'
  BY <1>1 DEF DataInv, DataTyped
<1>3. QueueOrder'
  BY DEF DataInv, QueueOrder
<1>4. HostInv'
  BY DEF DataInv, HostInv, Returning, Setup
<1> QED BY <1>2, <1>3, <1>4 DEF DataInv, Returning

\* The next coset's data go up, and its denominators are launched.
LEMMA IterationData ==
  ASSUME IInv, StreamInv, DataInv, MoveCoset \/ LiftBlinding
  PROVE  DataInv'
<1> USE DEF DataInv
<1>1. /\ pc \in {"gpu.coset", "gpu.lift"} /\ UNCHANGED <<x, before, cres>> /\ cres = NoRows
      /\ before = dev.x /\ dev.scale = scaling
      /\ \A j \in 1 .. Len(queue) : queue[j].op \in {"scatter", "denominators"}
  BY DEF MoveCoset, LiftBlinding, HostInv, Setup, Returning
<1>2. CASE Fail("loop") /\ UNCHANGED <<dev, queue, scaling>>
  BY <1>1, <1>2, OtherData DEF Fail, Returning
<1>3. CASE /\ MoveCoset /\ Continue("gpu.lift")
           /\ dev' = [dev EXCEPT !.coset = coset'] /\ queue' = Append(queue, Denominators)
  <2>1. /\ DOMAIN dev' = DOMAIN dev /\ dev'.x = dev.x /\ dev'.cres = dev.cres
        /\ dev'.scale = dev.scale /\ dev'.coset = coset' /\ UNCHANGED scaling
    BY <1>3 DEF DataTyped, MoveCoset
  <2>2. PICK n \in Nat : /\ n = Len(queue) /\ Len(queue') = n + 1
                        /\ queue'[n + 1] = Denominators
                        /\ \A j \in 1 .. n : queue'[j] = queue[j]
    <3>1. queue \in Seq(Kernels) /\ Denominators \in Kernels
      BY MoreKernels, SeqMonotonic DEF StreamInv, QueueInv
    <3> QED BY <1>3, <3>1, AppendProperties
  <2>3. Denominators.op = "denominators" /\ Denominators # Evaluate
    BY DEF Denominators, Evaluate
  <2>4. ASSUME NEW j \in 1 .. n + 1
        PROVE  /\ queue'[j].op \in {"scatter", "denominators"}
               /\ queue'[j].op = "scatter" => j = 1
               /\ queue'[j] # Evaluate
    <3>1. CASE j = n + 1
      BY <2>2, <2>3, <3>1
    <3>2. CASE j \in 1 .. n
      <4>1. queue'[j] = queue[j] /\ queue[j].op \in {"scatter", "denominators"}
        BY <1>1, <2>2, <3>2
      <4>2. queue[j] # Evaluate
        BY <4>1 DEF Evaluate
      <4> QED BY <2>2, <3>2, <4>1, <4>2 DEF QueueOrder
    <3> QED BY <3>1, <3>2
  <2>5. DataTyped'
    BY <1>1, <2>1 DEF DataTyped
  <2>6. QueueOrder'
    BY <2>2, <2>4 DEF QueueOrder
  <2>7. HostInv'
    BY <1>1, <1>3, <2>1, <2>2, <2>4 DEF HostInv, Continue, Setup, Returning
  <2> QED BY <1>3, <2>5, <2>6, <2>7 DEF Continue
<1>4. CASE LiftBlinding /\ Continue("gpu.kernels")
           /\ dev' = [dev EXCEPT !.bp = bp', !.scale = IF i = 1 THEN scaling' ELSE @,
                                 !.challenges = [coset |-> coset, expo |-> expo]]
           /\ scaling' = Loop!ScalingAt(i)
  <2>1. error = "none"
    BY <1>1 DEF IInv, PcInv, Returning
  <2>2. i # 1 => scaling' = scaling
    BY <1>4, <2>1 DEF Loop!ScalingAt, AbstractScaling, failed
  <2>3. /\ DOMAIN dev' = DOMAIN dev /\ dev'.x = dev.x /\ dev'.cres = dev.cres
        /\ dev'.scale = scaling' /\ dev'.coset = dev.coset /\ dev'.bp = bp'
        /\ dev'.challenges = [coset |-> coset, expo |-> expo]
    BY <1>1, <1>4, <2>2 DEF DataTyped
  <2>4. UNCHANGED <<queue, coset, expo>> /\ pc = "gpu.lift" /\ dev.coset = coset
    BY <1>4 DEF LiftBlinding, HostInv
  <2>5. DataTyped' /\ QueueOrder'
    BY <1>1, <2>3, <2>4 DEF DataTyped, QueueOrder
  <2>6. HostInv'
    BY <1>1, <1>4, <2>3, <2>4 DEF HostInv, Continue, Setup, Returning
  <2> QED BY <1>4, <2>5, <2>6 DEF Continue
<1> QED BY <1>2, <1>3, <1>4 DEF MoveCoset, LiftBlinding

\* The batch goes on the stream behind what is there.
LEMMA LaunchData ==
  ASSUME IInv, StreamInv, DataInv, LaunchIteration
  PROVE  DataInv'
<1> USE DEF DataInv
<1>1. /\ pc = "gpu.kernels" /\ UNCHANGED <<dev, scaling, coset, expo, bp, x, before, cres>>
      /\ before = dev.x /\ dev.scale = scaling /\ dev.coset = coset /\ dev.bp = bp
      /\ cres = NoRows
      /\ dev.challenges = [coset |-> coset, expo |-> expo]
      /\ \A j \in 1 .. Len(queue) : queue[j].op \in {"scatter", "denominators"}
      /\ queue \in Seq(Kernels)
  BY MoreKernels, SeqMonotonic
     DEF LaunchIteration, HostInv, Setup, Returning, StreamInv, QueueInv, host
<1>2. DataTyped'
  BY <1>1 DEF DataTyped
<1>3. PICK m \in Nat :
        /\ Len(Batch) = m + 1 /\ Batch[m + 1] = Evaluate
        /\ \A j \in 1 .. m : \E p \in Polys : Batch[j] = Transform(p)
        /\ \A j, k \in 1 .. m : Batch[j] = Batch[k] => j = k
        /\ \A p \in Polys : \E j \in 1 .. m : Batch[j] = Transform(p)
  BY BatchShape
<1>4. PICK n \in Nat : n = Len(queue)
  BY <1>1
<1>5. /\ Evaluate.op = "evaluate"
      /\ \A p : Transform(p).op = "transform" /\ Transform(p) # Evaluate
      /\ \A j \in 1 .. n : queue[j] # Evaluate /\ queue[j].op # "transform"
      /\ \A j \in 1 .. n : queue[j].op = "scatter" => j = 1
  BY <1>1, <1>4 DEF Evaluate, Transform, QueueOrder
<1>6. \A j \in 1 .. m : Batch[j].op = "transform" /\ Batch[j] # Evaluate
  BY <1>3, <1>5
<1>7. CASE Fail("loop") /\ \E k \in 0 .. Len(Batch) - 1 : queue' = queue \o SubSeq(Batch, 1, k)
  <2>1. PICK k \in 0 .. m : queue' = queue \o SubSeq(Batch, 1, k)
    <3>1. Len(Batch) - 1 = m
      BY <1>3
    <3> QED BY <1>7, <3>1
  <2>2. \A j \in 1 .. k : j \in 1 .. m /\ Batch[j] \in Kernels
    BY <1>3, BatchLemma, ElementOfSeq
  <2> DEFINE s == SubSeq(Batch, 1, k)
  <2>3. s \in Seq(Kernels) /\ Len(s) = k /\ \A j \in 1 .. k : s[j] = Batch[j]
    <3>1. Len(s) = IF 1 <= k THEN k - 1 + 1 ELSE 0
      BY <2>2, SubSeqProperties
    <3>2. s \in Seq(Kernels)
      BY <2>2, SubSeqProperties
    <3>3. ASSUME NEW j \in 1 .. k PROVE s[j] = Batch[j]
      <4>1. j \in 1 .. k - 1 + 1 /\ 1 + j - 1 = j
        BY <3>3
      <4> QED BY <2>2, <4>1, SubSeqProperties
    <3> HIDE DEF s
    <3>4. Len(s) = k
      BY <3>1
    <3> QED BY <3>2, <3>3, <3>4
  <2> HIDE DEF s
  <2>4. /\ Len(queue') = n + k
        /\ \A j \in 1 .. n + k : queue'[j] = IF j <= n THEN queue[j] ELSE s[j - n]
    <3>1. queue' = queue \o s
      BY <2>1 DEF s
    <3> QED BY ZenonT(40), <1>1, <1>4, <2>3, <3>1, ConcatProperties
  <2>5. ASSUME NEW j \in 1 .. n + k
        PROVE  (queue'[j].op = "scatter" => j = 1) /\ queue'[j] # Evaluate
    <3>1. CASE j <= n
      <4>1. j \in 1 .. n
        BY <3>1
      <4> QED BY <1>5, <2>4, <3>1, <4>1
    <3>2. CASE ~(j <= n)
      <4>1. j - n \in 1 .. k
        BY <3>2
      <4> QED BY <1>6, <2>2, <2>3, <2>4, <3>2, <4>1
    <3> QED BY <3>1, <3>2
  <2>6. QueueOrder'
    BY <2>4, <2>5 DEF QueueOrder
  <2> QED BY <1>2, <1>7, <2>6 DEF Fail, HostInv, Setup, Returning
<1>8. CASE Continue("gpu.sync") /\ queue' = queue \o Batch
  <2>1. /\ Len(queue') = n + m + 1
        /\ \A j \in 1 .. n + m + 1 : queue'[j] = IF j <= n THEN queue[j] ELSE Batch[j - n]
    <3>1. n + (m + 1) = n + m + 1
      OBVIOUS
    <3>2. /\ Len(queue') = Len(queue) + Len(Batch)
          /\ \A j \in 1 .. Len(queue) + Len(Batch) :
               queue'[j] = IF j <= Len(queue) THEN queue[j] ELSE Batch[j - Len(queue)]
      BY <1>1, <1>8, BatchLemma, ConcatProperties
    <3> QED BY <1>3, <1>4, <3>1, <3>2
  <2>2. /\ \A j \in 1 .. n : j \in 1 .. n + m + 1 /\ queue'[j] = queue[j]
        /\ \A j \in 1 .. m : n + j \in 1 .. n + m + 1 /\ queue'[n + j] = Batch[j]
        /\ queue'[n + m + 1] = Evaluate
    <3>1. ASSUME NEW j \in 1 .. n PROVE j \in 1 .. n + m + 1 /\ j <= n
      OBVIOUS
    <3>2. ASSUME NEW j \in 1 .. m
          PROVE  n + j \in 1 .. n + m + 1 /\ ~(n + j <= n) /\ (n + j) - n = j
      OBVIOUS
    <3>3. n + m + 1 \in 1 .. n + m + 1 /\ ~(n + m + 1 <= n) /\ (n + m + 1) - n = m + 1
      OBVIOUS
    <3> QED BY <1>3, <2>1, <3>1, <3>2, <3>3
  <2>3. ASSUME NEW j \in 1 .. n + m + 1
        PROVE  j \in 1 .. n \/ j = n + m + 1 \/ \E k \in 1 .. m : j = n + k
    <3>1. ~(j <= n) => j - n \in 1 .. m + 1 /\ j = n + (j - n)
      OBVIOUS
    <3>2. j - n \in 1 .. m + 1 => j - n \in 1 .. m \/ j = n + m + 1
      OBVIOUS
    <3> QED BY <3>1, <3>2
  <2>4. ASSUME NEW j \in 1 .. n + m + 1
        PROVE  /\ queue'[j].op = "scatter" => j = 1
               /\ queue'[j] = Evaluate => j = n + m + 1
               /\ queue'[j].op = "transform" =>
                    \E k \in 1 .. m : j = n + k /\ queue'[j] = Batch[k]
    <3>1. CASE j \in 1 .. n
      BY <1>5, <2>2, <3>1
    <3>2. ASSUME NEW k \in 1 .. m, j = n + k
          PROVE  queue'[j] = Batch[k] /\ queue'[j].op = "transform" /\ queue'[j] # Evaluate
      BY <1>6, <2>2, <3>2
    <3>3. CASE j = n + m + 1
      BY <1>5, <2>2, <3>3
    <3> QED BY <2>3, <3>1, <3>2, <3>3
  <2>5. QueueOrder'
    BY <2>1, <2>4 DEF QueueOrder
  <2>6. HostInv'
    BY <1>1, <1>8 DEF HostInv, Continue, Setup, Returning
  <2>7. BatchInv'
    <3>1. \A p \in Polys : Pending(Transform(p))'
      <4>1. DOMAIN queue' = 1 .. n + m + 1
        BY <1>1, <1>8, <2>1, BatchLemma, ConcatProperties
      <4> QED BY <1>3, <2>2, <4>1 DEF Pending
    <3>2. ASSUME NEW j \in 1 .. n + m + 1, NEW k \in 1 .. n + m + 1,
                 queue'[j] = queue'[k], queue'[j].op = "transform"
          PROVE  j = k
      <4>1. PICK a \in 1 .. m : j = n + a /\ queue'[j] = Batch[a]
        BY <2>4, <3>2
      <4>2. PICK b \in 1 .. m : k = n + b /\ queue'[k] = Batch[b]
        BY <2>4, <3>2
      <4>3. a = b
        BY <1>3, <3>2, <4>1, <4>2
      <4> QED BY <4>1, <4>2, <4>3
    <3>3. queue' # <<>> /\ queue'[Len(queue')] = Evaluate
      <4>1. Len(queue') # 0
        BY <2>1
      <4> QED BY <2>1, <2>2, <4>1
    <3> QED BY <1>1, <2>1, <3>1, <3>2, <3>3 DEF BatchInv
  <2> QED BY <1>2, <2>5, <2>6, <2>7
<1> QED BY <1>7, <1>8 DEF LaunchIteration

\* The batch is done, and the scatter is launched.
LEMMA SyncData ==
  ASSUME IInv, StreamInv, DataInv, SyncAndScatter
  PROVE  DataInv'
<1> USE DEF DataInv
<1>1. pc = "gpu.sync" /\ UNCHANGED <<dev, scaling, x, cres>> /\ dev.scale = scaling
      /\ cres = NoRows
  BY DEF SyncAndScatter, HostInv, Setup, Returning, host
<1>2. CASE Fail("loop") /\ UNCHANGED <<queue, before>>
  BY <1>1, <1>2, OtherData DEF Fail, Returning
<1>3. CASE Continue("gpu.unlift") /\ queue' = <<Scatter(i)>> /\ before' = dev.x
  <2>1. Len(queue') = 1 /\ queue'[1].op = "scatter" /\ queue'[1] # Evaluate
    BY <1>3 DEF Scatter, Evaluate
  <2>2. \A j \in 1 .. 1 : j = 1
    OBVIOUS
  <2>3. DataTyped' /\ QueueOrder'
    BY <1>1, <1>3, <2>1, <2>2 DEF DataTyped, QueueOrder
  <2>4. HostInv'
    BY <1>1, <1>3, <2>1, <2>2 DEF HostInv, Continue, Setup, Returning
  <2> QED BY <1>3, <2>3, <2>4 DEF Continue
<1> QED BY <1>2, <1>3 DEF SyncAndScatter

\* A kernel ends.
LEMMA EndData ==
  ASSUME IInv, StreamInv, DataInv, EndKernel
  PROVE  DataInv'
<1> USE DEF DataInv
<1> DEFINE h == Head(queue)
<1>1. queue \in Seq(Kernels) /\ UNCHANGED <<pc, error, scaling, coset, expo, bp, x, before, held, cres>>
  BY MoreKernels, SeqMonotonic DEF StreamInv, QueueInv, EndKernel, memory, host
<1>2. /\ h \in Kernels /\ dev' = Effect(dev, h)
      /\ \A kernel : kernel # h => (Pending(kernel)' <=> Pending(kernel))
  BY <1>1, StreamMoves
<1>3. PICK n \in Nat :
        /\ Len(queue) = n + 1 /\ Len(queue') = n /\ queue' \in Seq(Kernels)
        /\ queue[1] = h
        /\ \A j \in 1 .. n : queue'[j] = queue[j + 1] /\ j + 1 \in 1 .. n + 1
  BY <1>1, StreamMoves
<1> HIDE DEF h
<1>4. /\ DOMAIN dev' = DOMAIN dev
      /\ dev'.scale = dev.scale /\ dev'.coset = dev.coset /\ dev'.bp = dev.bp
      /\ dev'.challenges = dev.challenges
      /\ dev'.denoms = IF h = Denominators THEN dev.coset ELSE dev.denoms
      /\ dev'.x = [p \in Polys |-> IF h = Transform(p)
                                   THEN Mul(dev.x[p], dev.scale) ELSE dev.x[p]]
      /\ dev'.result = IF h = Evaluate THEN ResultNow ELSE dev.result
      /\ dev'.cres = [k \in Iterations |-> IF h = Scatter(k) THEN dev.result ELSE dev.cres[k]]
  BY <1>2, EffectOf
<1>5. DataTyped'
  BY <1>1, <1>4 DEF DataTyped, FunctionOn
<1>6. QueueOrder'
  <2>1. ASSUME NEW j \in 1 .. n
        PROVE  (queue'[j].op = "scatter" => j = 1) /\ (queue'[j] = Evaluate => j = n)
    <3>1. j + 1 # 1
      OBVIOUS
    <3> QED BY <1>3, <2>1, <3>1 DEF QueueOrder
  <2> QED BY <1>3, <2>1 DEF QueueOrder
<1>7. HostInv'
  <2>1. pc \notin Setup
    <3>1. pc \in Setup => queue = <<>>
      BY MoreKernels, SeqOfNothing DEF StreamInv, QueueInv
    <3> QED BY <3>1 DEF EndKernel
  <2>2. CASE pc \notin {"gpu.sync"} /\ ~Returning
    <3>1. \A j \in 1 .. n + 1 : queue[j].op \in {"scatter", "denominators"}
      BY <1>3, <2>1, <2>2 DEF HostInv
    <3>2. \A j \in 1 .. n : queue'[j].op \in {"scatter", "denominators"}
      BY <1>3, <3>1
    <3>3. h.op # "transform"
      <4>1. 1 \in 1 .. n + 1
        OBVIOUS
      <4> QED BY <1>3, <3>1, <4>1
    <3>4. dev'.x = dev.x
      BY <1>4, <3>3 DEF Transform, DataTyped, FunctionOn
    <3> QED BY <1>1, <1>3, <1>4, <2>1, <2>2, <3>2, <3>4 DEF HostInv, Returning
  <2>3. CASE pc = "gpu.sync" \/ Returning
    BY <1>1, <1>4, <2>1, <2>3 DEF HostInv, Returning, Setup
  <2> QED BY <2>2, <2>3
<1>8. ASSUME pc = "gpu.sync" PROVE BatchInv'
  <2>1. /\ \A p \in Polys : dev.x[p] = IF Pending(Transform(p)) THEN before[p]
                                       ELSE Mul(before[p], dev.scale)
        /\ \A j, k \in 1 .. n + 1 : queue[j] = queue[k] /\ queue[j].op = "transform" => j = k
        /\ queue[n + 1] = Evaluate
    <3>1. queue # <<>>
      BY DEF EndKernel
    <3> QED BY <1>3, <1>8, <3>1 DEF BatchInv
  <2>2. ASSUME NEW p \in Polys
        PROVE  dev'.x[p] = IF Pending(Transform(p))' THEN before[p]
                           ELSE Mul(before[p], dev.scale)
    <3>1. CASE h = Transform(p)
      <4>1. Pending(Transform(p))
        <5>1. DOMAIN queue = 1 .. n + 1 /\ 1 \in 1 .. n + 1
          BY <1>1, <1>3
        <5> QED BY <1>3, <3>1, <5>1 DEF Pending
      <4>2. ~Pending(Transform(p))'
        <5>1. DOMAIN queue' = 1 .. n
          BY <1>3
        <5>2. ASSUME NEW j \in 1 .. n, queue'[j] = Transform(p) PROVE FALSE
          <6>1. queue[j + 1] = queue[1] /\ queue[j + 1].op = "transform"
            BY <1>3, <3>1, <5>2 DEF Transform
          <6>2. j + 1 \in 1 .. n + 1 /\ 1 \in 1 .. n + 1 /\ j + 1 # 1
            OBVIOUS
          <6> QED BY <2>1, <6>1, <6>2
        <5> QED BY <5>1, <5>2 DEF Pending
      <4> QED BY <1>4, <2>1, <2>2, <3>1, <4>1, <4>2
    <3>2. CASE h # Transform(p)
      BY <1>2, <1>4, <2>1, <2>2, <3>2
    <3> QED BY <3>1, <3>2
  <2>3. ASSUME NEW j \in 1 .. n, NEW k \in 1 .. n,
               queue'[j] = queue'[k], queue'[j].op = "transform"
        PROVE  j = k
    <3>1. j + 1 = k + 1
      BY <1>3, <2>1, <2>3
    <3> QED BY <3>1
  <2>4. queue' # <<>> => queue'[n] = Evaluate
    <3>1. n # 0 => n \in 1 .. n
      OBVIOUS
    <3>2. n = 0 => queue' = <<>>
      BY <1>3, EmptySeq
    <3> QED BY <1>3, <2>1, <3>1, <3>2
  <2>5. queue' = <<>> => dev'.result = ResultNow'
    <3> SUFFICES ASSUME queue' = <<>> PROVE dev'.result = ResultNow'
      OBVIOUS
    <3>1. n = 0
      BY <1>3, EmptySeq
    <3>2. h = Evaluate
      BY <1>3, <2>1, <3>1
    <3>3. h # Denominators /\ \A p : h # Transform(p)
      BY <3>2 DEF Evaluate, Denominators, Transform
    <3>4. dev'.x = dev.x /\ dev'.denoms = dev.denoms
      BY <1>4, <3>3 DEF DataTyped, FunctionOn
    <3> QED BY <1>4, <3>2, <3>4 DEF ResultNow
  <2> QED BY <1>1, <1>3, <1>4, <2>2, <2>3, <2>4, <2>5 DEF BatchInv
<1> QED BY <1>1, <1>5, <1>6, <1>7, <1>8

\* All steps together.
LEMMA StepData == IInv /\ StreamInv /\ DataInv /\ [Next]_vars => DataInv'
<1> SUFFICES ASSUME IInv, StreamInv, DataInv, [Next]_vars PROVE DataInv'
  OBVIOUS
<1>1. CASE UnliftBlinding \/ StreamSync \/ DownloadCres \/ DownloadPoly
  BY <1>1, OtherData
     DEF UnliftBlinding, StreamSync, DownloadCres, DownloadPoly, Continue, Fail, host,
         Returning, Setup
<1>2. CASE Unwind
  BY <1>2, OtherData DEF Unwind, host, Returning
<1>3. CASE UNCHANGED vars
  BY <1>3 DEF vars, host, DataInv, DataTyped, HostInv, QueueOrder, BatchInv, Returning, Pending,
     ResultNow
<1> QED
  BY <1>1, <1>2, <1>3, SetupData, IterationData, LaunchData, SyncData, EndData DEF Next

-------------------------------------------------------------------------------
(* The loop in program order.                                              *)

\* What RhoLoop sees of the host, and of the device.
LoopHost   == <<AbstractPc, AbstractI, coset, expo, AbstractScaling, x, bp, fetched>>
LoopDevice == <<AbstractDenoms, AbstractDx, AbstractCres>>

LEMMA Stutter == UNCHANGED <<LoopHost, LoopDevice>> => [Loop!Next]_Loop!vars
BY DEF LoopHost, LoopDevice, Loop!vars, Loop!host

\* The denominators and the rows stay what they are when nothing that they are
\* made of changes.
LEMMA SameRows ==
  ASSUME UNCHANGED cres, dev'.coset = dev.coset, dev'.denoms = dev.denoms,
         dev'.result = dev.result, dev'.cres = dev.cres,
         \A kernel : kernel.op \in {"scatter", "denominators"} =>
                       (Pending(kernel)' <=> Pending(kernel))
  PROVE  UNCHANGED <<AbstractDenoms, AbstractCres>>
<1>1. /\ Denominators.op = "denominators" /\ \A k : Scatter(k).op = "scatter"
  BY DEF Denominators, Scatter
<1>2. /\ Pending(Denominators)' <=> Pending(Denominators)
      /\ \A k : Pending(Scatter(k))' <=> Pending(Scatter(k))
  BY <1>1
<1>3. UNCHANGED AbstractDenoms
  BY <1>2 DEF AbstractDenoms
<1>4. UNCHANGED AbstractCres
  BY <1>2 DEF AbstractCres
<1> QED BY <1>3, <1>4

\* An error return is that of RhoLoop.
LEMMA FailMaps ==
  ASSUME error = "none", NEW phase \in {"upload", "setup", "loop", "download"}, Fail(phase)
  PROVE  AbstractPc' = "cpu" /\ AbstractI' = 0 /\ AbstractScaling' = Loop!G
         /\ AbstractI = i /\ AbstractScaling = scaling
BY DEF Fail, failed, AbstractPc, AbstractI, AbstractScaling, Loop!G, Setup

\* A call that succeeds goes on to the next label.
LEMMA ContinueMaps ==
  ASSUME error = "none", NEW label, Continue(label), label \notin {"unwind", "end"}
  PROVE  /\ AbstractI = i /\ AbstractI' = i' /\ AbstractScaling = scaling
         /\ AbstractScaling' = scaling'
         /\ AbstractPc' = CASE label \in Setup      -> "gpu.setup"
                            [] label = "gpu.sync"   -> "gpu.kernels"
                            [] label = "gpu.wait"   -> "gpu.cres"
                            [] OTHER                -> label
BY DEF Continue, failed, AbstractPc, AbstractI, AbstractScaling, Setup

\* Nothing has happened.
LEMMA InitMaps == Init => Loop!Init
<1> SUFFICES ASSUME Init PROVE Loop!Init
  OBVIOUS
<1>1. /\ pc = "stream" /\ error = "none" /\ Len(queue) = 0 /\ DOMAIN queue = {}
      /\ dev.denoms = One /\ dev.cres = NoRows /\ cres = NoRows
  BY DEF Init
<1>2. AbstractPc = "gpu.setup" /\ AbstractI = 0 /\ AbstractScaling = <<1, 0>>
  BY <1>1 DEF AbstractPc, AbstractI, AbstractScaling, failed, Setup, Init, Loop!G
<1>3. AbstractDenoms = One /\ AbstractDx = before
  BY <1>1 DEF AbstractDenoms, AbstractDx, Pending, Setup
<1>4. AbstractCres = NoRows
  BY <1>1 DEF AbstractCres, Pending, NoRows
<1> QED
  BY <1>1, <1>2, <1>3, <1>4
     DEF Init, Loop!Init, One, Loop!One, Loop!G, Loop!Unlifted, Loop!Iterations, Iterations,
         Loop!Nothing, NoRows, Unwritten

\* All of the setup is one step.
LEMMA SetupMaps ==
  ASSUME IInv, StreamInv, DataInv,
         AcquireStream \/ UploadPoly \/ ShareZ \/ AllocatePointers \/ AllocateMeta
  PROVE  [Loop!Next]_Loop!vars
<1>1. /\ pc \in Setup /\ error = "none" /\ AbstractPc = "gpu.setup"
      /\ UNCHANGED <<queue, coset, expo, bp, x, fetched, cres, i, scaling>>
  <2>1. pc \in Setup
    BY DEF AcquireStream, UploadPoly, ShareZ, AllocatePointers, AllocateMeta, Setup
  <2> QED
    BY <2>1 DEF AcquireStream, UploadPoly, ShareZ, AllocatePointers, AllocateMeta, host,
       AbstractPc, IInv, PcInv, Returning, Setup
<1>2. before = x /\ \A p \in Polys \cap held : dev.x[p] = x[p]
  BY <1>1 DEF DataInv, HostInv
<1>3. /\ dev'.coset = dev.coset /\ dev'.denoms = dev.denoms /\ dev'.result = dev.result
      /\ dev'.cres = dev.cres
  <2>1. \/ UNCHANGED dev
        \/ \E p \in Polys : dev' = [dev EXCEPT !.x[p] = x[p]]
        \/ dev' = [dev EXCEPT !.scale = scaling]
    BY DEF AcquireStream, UploadPoly, ShareZ, AllocatePointers, AllocateMeta
  <2> QED BY <2>1 DEF DataInv, DataTyped
<1>4. UNCHANGED <<AbstractDenoms, AbstractCres>>
  BY <1>1, <1>3, SameRows DEF Pending
<1>5. ASSUME UNCHANGED before,
             \/ \E label \in Setup : Continue(label)
             \/ \E phase \in {"upload", "setup"} : Fail(phase)
      PROVE  [Loop!Next]_Loop!vars
  <2>1. AbstractDx = before /\ AbstractDx' = before
    BY <1>1, <1>5 DEF AbstractDx, Continue, Fail
  <2>2. ASSUME NEW label \in Setup, Continue(label) PROVE UNCHANGED LoopHost
    BY <1>1, <2>2, ContinueMaps DEF LoopHost, Setup
  <2>3. ASSUME NEW phase \in {"upload", "setup"}, Fail(phase) PROVE Loop!GpuSetup
    BY <1>1, <1>4, <2>1, <2>3, FailMaps DEF Loop!GpuSetup, Loop!FallBack, Loop!host
  <2> QED
    BY <1>4, <1>5, <2>1, <2>2, <2>3, Stutter DEF LoopDevice, Loop!Next, Loop!Loop
<1>6. CASE AllocateMeta /\ Continue("gpu.coset") /\ before' = dev.x
  <2>1. held = Entries
    BY <1>6 DEF AllocateMeta, IInv, PcInv, MemInv
  <2>2. dev.x = x
    BY <1>2, <2>1 DEF DataInv, DataTyped, FunctionOn, Entries
  <2>3. dev'.x = dev.x
    BY <1>6 DEF AllocateMeta, DataInv, DataTyped, Continue
  <2>4. AbstractDx' = x
    BY <1>6, <2>2, <2>3 DEF AbstractDx, Continue, Setup
  <2>5. AbstractPc' = "gpu.coset" /\ UNCHANGED <<AbstractI, AbstractScaling>>
    BY <1>1, <1>6, ContinueMaps DEF Setup
  <2>6. Loop!GpuSetup
    BY <1>1, <1>4, <2>4, <2>5 DEF Loop!GpuSetup, Loop!host
  <2> QED BY <2>6 DEF Loop!Next, Loop!Loop
<1>7. \/ /\ UNCHANGED before
         /\ \/ \E label \in Setup : Continue(label)
            \/ \E phase \in {"upload", "setup"} : Fail(phase)
      \/ AllocateMeta /\ Continue("gpu.coset") /\ before' = dev.x
  <2>1. CASE AllocateMeta
    <3>1. \/ \E phase \in {"setup"} : Fail(phase) /\ UNCHANGED before
          \/ /\ Continue(IF Len(owed) - 2 = Len(Meta) THEN "gpu.coset" ELSE "meta")
             /\ IF Len(owed) - 2 = Len(Meta) THEN before' = dev.x ELSE UNCHANGED before
      BY <2>1 DEF AllocateMeta
    <3> QED BY <2>1, <3>1 DEF Setup
  <2>2. CASE AcquireStream \/ UploadPoly \/ ShareZ \/ AllocatePointers
    BY <2>2 DEF AcquireStream, UploadPoly, ShareZ, AllocatePointers, Setup
  <2> QED BY <2>1, <2>2
<1> QED BY <1>5, <1>6, <1>7

\* The shifter moves before the upload and the launch can fail.
LEMMA CosetMaps ==
  ASSUME IInv, StreamInv, DataInv, MoveCoset
  PROVE  [Loop!Next]_Loop!vars
<1>1. /\ pc = "gpu.coset" /\ error = "none" /\ before = dev.x /\ queue \in Seq(Kernels)
      /\ UNCHANGED <<i, scaling, bp, x, fetched, cres, before>>
  BY MoreKernels, SeqMonotonic
     DEF MoveCoset, DataInv, HostInv, Setup, Returning, IInv, PcInv, StreamInv, QueueInv
<1>2. AbstractPc = "gpu.coset" /\ AbstractI = i /\ AbstractScaling = scaling
  BY <1>1 DEF AbstractPc, AbstractI, AbstractScaling, failed, Setup
<1>3. Loop!MoveCoset
  BY <1>2 DEF MoveCoset, Loop!MoveCoset, Mul, Loop!Mul
<1>4. AbstractDx = before
  BY <1>1 DEF AbstractDx
<1>5. CASE Fail("loop") /\ UNCHANGED <<dev, queue>>
  <2>1. UNCHANGED <<AbstractDenoms, AbstractCres>>
    BY <1>1, <1>5, SameRows DEF Pending
  <2>2. AbstractDx' = before
    BY <1>1, <1>5 DEF AbstractDx, Fail
  <2>3. Loop!GpuCoset
    BY <1>1, <1>2, <1>3, <1>4, <1>5, <2>1, <2>2, FailMaps DEF Loop!GpuCoset, Loop!FallBack
  <2> QED BY <2>3 DEF Loop!Next, Loop!Loop
<1>6. CASE /\ Continue("gpu.lift")
           /\ dev' = [dev EXCEPT !.coset = coset'] /\ queue' = Append(queue, Denominators)
  <2>1. /\ dev'.x = dev.x /\ dev'.cres = dev.cres /\ dev'.result = dev.result
        /\ dev'.coset = coset'
    BY <1>6 DEF DataInv, DataTyped
  <2>2. PICK n \in Nat : /\ n = Len(queue) /\ DOMAIN queue = 1 .. n /\ DOMAIN queue' = 1 .. n + 1
                        /\ queue'[n + 1] = Denominators
                        /\ \A j \in 1 .. n : queue'[j] = queue[j]
    <3>1. Denominators \in Kernels
      BY MoreKernels
    <3>2. /\ queue' \in Seq(Kernels) /\ Len(queue') = Len(queue) + 1
          /\ queue'[Len(queue) + 1] = Denominators
          /\ \A j \in 1 .. Len(queue) : queue'[j] = queue[j]
      BY <1>1, <1>6, <3>1, AppendProperties
    <3>3. Len(queue) \in Nat /\ DOMAIN queue = 1 .. Len(queue) /\ DOMAIN queue' = 1 .. Len(queue')
      BY <1>1, <3>2
    <3> QED BY <3>2, <3>3
  <2>3. AbstractDenoms' = coset'
    <3>1. Pending(Denominators)'
      <4>1. n + 1 \in 1 .. n + 1
        OBVIOUS
      <4> QED BY <2>2, <4>1 DEF Pending
    <3> QED BY <2>1, <3>1 DEF AbstractDenoms
  <2>4. UNCHANGED AbstractCres
    <3>1. ASSUME NEW k PROVE Pending(Scatter(k))' <=> Pending(Scatter(k))
      <4>1. Scatter(k) # Denominators
        BY DEF Scatter, Denominators
      <4>2. \A j \in 1 .. n + 1 : j \in 1 .. n \/ j = n + 1
        OBVIOUS
      <4>3. \A j \in 1 .. n : j \in 1 .. n + 1
        OBVIOUS
      <4> QED BY <2>2, <4>1, <4>2, <4>3 DEF Pending
    <3> QED BY <1>1, <2>1, <3>1 DEF AbstractCres
  <2>5. AbstractDx' = before
    BY <1>1, <1>6, <2>1 DEF AbstractDx, Continue, Setup
  <2>6. AbstractPc' = "gpu.lift" /\ AbstractI' = i /\ AbstractScaling' = scaling
    BY <1>1, <1>6, ContinueMaps DEF Setup
  <2>7. Loop!GpuCoset
    BY <1>1, <1>2, <1>3, <1>4, <2>3, <2>4, <2>5, <2>6 DEF Loop!GpuCoset
  <2> QED BY <2>7 DEF Loop!Next, Loop!Loop
<1> QED BY <1>5, <1>6 DEF MoveCoset

\* The blinding polynomials are lifted before the uploads can fail.
LEMMA LiftMaps ==
  ASSUME IInv, StreamInv, DataInv, LiftBlinding
  PROVE  [Loop!Next]_Loop!vars
<1>1. /\ pc = "gpu.lift" /\ error = "none" /\ before = dev.x
      /\ UNCHANGED <<queue, i, coset, expo, x, fetched, cres, before>>
  BY DEF LiftBlinding, DataInv, HostInv, Setup, Returning, IInv, PcInv
<1>2. AbstractPc = "gpu.lift" /\ AbstractI = i /\ AbstractScaling = scaling
  BY <1>1 DEF AbstractPc, AbstractI, AbstractScaling, failed, Setup
<1>3. Loop!LiftBlinding
  BY <1>2 DEF LiftBlinding, Loop!LiftBlinding, Mul, Loop!Mul
<1>4. AbstractDx = before
  BY <1>1 DEF AbstractDx
<1>5. CASE Fail("loop") /\ UNCHANGED <<scaling, dev>>
  <2>1. UNCHANGED <<AbstractDenoms, AbstractCres>>
    BY <1>1, <1>5, SameRows DEF Pending
  <2>2. AbstractDx' = before
    BY <1>1, <1>5 DEF AbstractDx, Fail
  <2>3. Loop!GpuLift
    BY <1>1, <1>2, <1>3, <1>4, <1>5, <2>1, <2>2, FailMaps DEF Loop!GpuLift, Loop!FallBack
  <2> QED BY <2>3 DEF Loop!Next, Loop!Loop
<1>6. CASE /\ Continue("gpu.kernels") /\ scaling' = Loop!ScalingAt(i)
           /\ dev' = [dev EXCEPT !.bp = bp', !.scale = IF i = 1 THEN scaling' ELSE @,
                                 !.challenges = [coset |-> coset, expo |-> expo]]
  <2>1. /\ dev'.x = dev.x /\ dev'.coset = dev.coset /\ dev'.denoms = dev.denoms
        /\ dev'.result = dev.result /\ dev'.cres = dev.cres
    BY <1>6 DEF DataInv, DataTyped
  <2>2. UNCHANGED <<AbstractDenoms, AbstractCres>>
    BY <1>1, <2>1, SameRows DEF Pending
  <2>3. AbstractDx' = before
    BY <1>1, <1>6, <2>1 DEF AbstractDx, Continue, Setup
  <2>4. AbstractPc' = "gpu.kernels" /\ AbstractI' = i /\ AbstractScaling' = scaling'
    BY <1>1, <1>6, ContinueMaps DEF Setup
  <2>5. Loop!GpuLift
    BY <1>1, <1>2, <1>3, <1>4, <1>6, <2>2, <2>3, <2>4 DEF Loop!GpuLift
  <2> QED BY <2>5 DEF Loop!Next, Loop!Loop
<1> QED BY <1>5, <1>6 DEF LiftBlinding

\* The launches do not show yet, unless one fails.
LEMMA LaunchMaps ==
  ASSUME IInv, StreamInv, DataInv, LaunchIteration
  PROVE  [Loop!Next]_Loop!vars
<1>1. /\ pc = "gpu.kernels" /\ error = "none" /\ before = dev.x /\ queue \in Seq(Kernels)
      /\ UNCHANGED <<dev, i, scaling, coset, expo, bp, x, fetched, cres, before>>
  BY MoreKernels, SeqMonotonic
     DEF LaunchIteration, DataInv, HostInv, Setup, Returning, IInv, PcInv, StreamInv, QueueInv,
         host
<1>2. AbstractPc = "gpu.kernels" /\ AbstractI = i /\ AbstractScaling = scaling
  BY <1>1 DEF AbstractPc, AbstractI, AbstractScaling, failed, Setup
<1>3. AbstractDx = before
  BY <1>1 DEF AbstractDx
<1>4. PICK s \in Seq(Kernels) :
        /\ queue' = queue \o s
        /\ \A j \in 1 .. Len(s) : s[j].op \notin {"scatter", "denominators"}
        /\ Continue("gpu.sync") \/ Fail("loop")
  <2>1. \A j \in 1 .. Len(Batch) :
          Batch[j] \in Kernels /\ Batch[j].op \notin {"scatter", "denominators"}
    <3>1. PICK m \in Nat : /\ Len(Batch) = m + 1 /\ Batch[m + 1] = Evaluate
                          /\ \A j \in 1 .. m : \E p \in Polys : Batch[j] = Transform(p)
      BY BatchShape
    <3>2. \A j \in 1 .. m + 1 : j \in 1 .. m \/ j = m + 1
      OBVIOUS
    <3>3. \A j \in 1 .. m + 1 : Batch[j] \in Kernels
      BY <3>1, BatchLemma, ElementOfSeq
    <3>4. /\ Evaluate.op = "evaluate" /\ \A p \in Polys : Transform(p).op = "transform"
      BY DEF Evaluate, Transform
    <3>5. \A j \in 1 .. m + 1 : Batch[j].op \in {"evaluate", "transform"}
      BY <3>1, <3>2, <3>4
    <3> QED BY <3>1, <3>3, <3>5
  <2>2. CASE Fail("loop") /\ \E k \in 0 .. Len(Batch) - 1 : queue' = queue \o SubSeq(Batch, 1, k)
    <3>1. PICK k \in 0 .. Len(Batch) - 1 : queue' = queue \o SubSeq(Batch, 1, k)
      BY <2>2
    <3>2. Len(Batch) \in Nat
      BY BatchLemma
    <3>3. \A j \in 1 .. k : j \in 1 .. Len(Batch)
      BY <3>2
    <3> DEFINE s == SubSeq(Batch, 1, k)
    <3>4. s \in Seq(Kernels)
      BY <2>1, <3>3, SubSeqProperties
    <3>5. \A j \in 1 .. Len(s) : s[j].op \notin {"scatter", "denominators"}
      <4>1. Len(s) = IF 1 <= k THEN k - 1 + 1 ELSE 0
        BY <2>1, <3>3, SubSeqProperties
      <4>2. ASSUME NEW j \in 1 .. k PROVE s[j] = Batch[j]
        <5>1. j \in 1 .. k - 1 + 1 /\ 1 + j - 1 = j
          BY <4>2
        <5> QED BY <2>1, <3>3, <5>1, SubSeqProperties
      <4> HIDE DEF s
      <4>3. \A j \in 1 .. Len(s) : j \in 1 .. k
        BY <4>1
      <4> QED BY <2>1, <3>3, <4>2, <4>3
    <3> HIDE DEF s
    <3> QED BY <2>2, <3>1, <3>4, <3>5 DEF s
  <2> QED BY <2>1, <2>2, BatchLemma DEF LaunchIteration
<1>5. ASSUME NEW kernel, kernel.op \in {"scatter", "denominators"}
      PROVE  Pending(kernel)' <=> Pending(kernel)
  <2>1. /\ Len(queue') = Len(queue) + Len(s)
        /\ \A j \in 1 .. Len(queue) + Len(s) :
             queue'[j] = IF j <= Len(queue) THEN queue[j] ELSE s[j - Len(queue)]
    BY <1>1, <1>4, ConcatProperties
  <2>2. PICK n \in Nat, m \in Nat : n = Len(queue) /\ m = Len(s)
    BY <1>1, <1>4
  <2>3. DOMAIN queue = 1 .. n /\ DOMAIN queue' = 1 .. n + m
    BY <1>1, <1>4, <2>1, <2>2, ConcatProperties
  <2>4. ASSUME NEW j \in 1 .. n PROVE j \in 1 .. n + m /\ queue'[j] = queue[j]
    <3>1. j \in 1 .. n + m /\ j <= n
      OBVIOUS
    <3> QED BY <2>1, <2>2, <3>1
  <2>5. ASSUME NEW j \in 1 .. n + m, j \notin 1 .. n PROVE queue'[j] # kernel
    <3>1. ~(j <= n) /\ j - n \in 1 .. m
      BY <2>5
    <3> QED BY <1>4, <1>5, <2>1, <2>2, <3>1
  <2> QED BY <2>3, <2>4, <2>5 DEF Pending
<1>6. UNCHANGED <<AbstractDenoms, AbstractCres>>
  BY <1>1, <1>5, SameRows
<1>7. AbstractDx' = before
  BY <1>1, <1>4 DEF AbstractDx, Continue, Fail
<1>8. CASE Fail("loop")
  <2>1. Loop!GpuKernels
    BY <1>1, <1>2, <1>3, <1>6, <1>7, <1>8, FailMaps DEF Loop!GpuKernels, Loop!FallBack, Loop!host
  <2> QED BY <2>1 DEF Loop!Next, Loop!Loop
<1>9. CASE Continue("gpu.sync")
  <2>1. AbstractPc' = "gpu.kernels" /\ AbstractI' = i /\ AbstractScaling' = scaling
    BY <1>1, <1>9, ContinueMaps DEF Setup
  <2> QED BY <1>1, <1>2, <1>3, <1>6, <1>7, <2>1, Stutter DEF LoopHost, LoopDevice
<1> QED BY <1>4, <1>8, <1>9

\* The iteration is there when the stream has been waited for: each array has
\* been moved once, and the result is of everything on the new coset.
LEMMA SyncMaps ==
  ASSUME IInv, StreamInv, DataInv, SyncAndScatter
  PROVE  [Loop!Next]_Loop!vars
<1>1. /\ pc = "gpu.sync" /\ error = "none" /\ dev.scale = scaling /\ dev.bp = bp
      /\ dev.challenges = [coset |-> coset, expo |-> expo]
      /\ UNCHANGED <<dev, i, scaling, coset, expo, bp, x, fetched, cres>> /\ cres = NoRows
  BY DEF SyncAndScatter, DataInv, HostInv, Setup, Returning, IInv, PcInv, host
<1>2. AbstractPc = "gpu.kernels" /\ AbstractI = i /\ AbstractScaling = scaling
  BY <1>1 DEF AbstractPc, AbstractI, AbstractScaling, failed, Setup
<1>3. AbstractDx = before
  BY <1>1 DEF AbstractDx
<1>4. CASE Fail("loop") /\ UNCHANGED <<queue, before>>
  <2>1. UNCHANGED <<AbstractDenoms, AbstractCres>>
    BY <1>1, <1>4, SameRows DEF Pending
  <2>2. AbstractDx' = before
    BY <1>1, <1>4 DEF AbstractDx, Fail
  <2>3. Loop!GpuKernels
    BY <1>1, <1>2, <1>3, <1>4, <2>1, <2>2, FailMaps DEF Loop!GpuKernels, Loop!FallBack, Loop!host
  <2> QED BY <2>3 DEF Loop!Next, Loop!Loop
<1>5. CASE /\ queue = <<>> /\ Continue("gpu.unlift") /\ queue' = <<Scatter(i)>>
           /\ before' = dev.x
  <2>1. /\ \A kernel : ~Pending(kernel)
        /\ \A kernel : Pending(kernel)' <=> kernel = Scatter(i)
    <3>1. DOMAIN queue = {} /\ DOMAIN queue' = {1} /\ queue'[1] = Scatter(i)
      BY <1>5
    <3> QED BY <3>1 DEF Pending
  <2>2. /\ Scatter(i) # Denominators
        /\ \A k : Scatter(k) = Scatter(i) <=> k = i
    BY DEF Scatter, Denominators
  <2>3. AbstractDenoms = dev.denoms /\ AbstractDenoms' = dev.denoms
    BY <1>1, <2>1, <2>2 DEF AbstractDenoms
  <2>4. AbstractDx' = Loop!MoveAll(AbstractDx, AbstractScaling)
    <3>1. AbstractDx' = dev.x
      BY <1>1, <1>5 DEF AbstractDx, Continue, Setup
    <3>2. \A p \in Polys : dev.x[p] = Mul(before[p], scaling)
      BY <1>1, <2>1 DEF DataInv, BatchInv
    <3>3. dev.x = [p \in Polys |-> Mul(before[p], scaling)]
      BY <3>2 DEF DataInv, DataTyped, FunctionOn
    <3> QED BY <1>2, <1>3, <3>1, <3>3 DEF Loop!MoveAll, Loop!Mul, Mul
  <2>5. dev.result = Loop!Evaluation(AbstractDx')
    <3>1. dev.result = ResultNow
      BY <1>1, <1>5 DEF DataInv, BatchInv
    <3>2. AbstractDx' = dev.x
      BY <1>1, <1>5 DEF AbstractDx, Continue, Setup
    <3> QED BY <1>1, <2>3, <3>1, <3>2 DEF ResultNow, Loop!Evaluation
  <2>6. AbstractPc' = "gpu.unlift" /\ AbstractI' = i /\ AbstractScaling' = scaling
    BY <1>1, <1>5, ContinueMaps DEF Setup
  <2>7. Loop!GpuKernels
    <3>1. AbstractCres = dev.cres
      BY <1>1, <2>1 DEF AbstractCres, DataInv, DataTyped, FunctionOn
    <3>2. AbstractCres' = [k \in Iterations |-> IF k = i THEN dev.result ELSE dev.cres[k]]
      BY <1>1, <2>1, <2>2 DEF AbstractCres
    <3>3. AbstractCres' = [AbstractCres EXCEPT ![AbstractI] = Loop!Evaluation(AbstractDx')]
      BY <1>2, <2>5, <3>1, <3>2 DEF DataInv, DataTyped, FunctionOn
    <3> QED BY <1>1, <1>2, <2>3, <2>4, <2>6, <3>3 DEF Loop!GpuKernels, Loop!host
  <2> QED BY <2>7 DEF Loop!Next, Loop!Loop
<1> QED BY <1>4, <1>5 DEF SyncAndScatter

\* The iteration ends on the host.
LEMMA UnliftMaps ==
  ASSUME IInv, StreamInv, DataInv, UnliftBlinding
  PROVE  [Loop!Next]_Loop!vars
<1>1. /\ pc = "gpu.unlift" /\ error = "none" /\ before = dev.x
      /\ UNCHANGED <<queue, dev, scaling, coset, x, fetched, cres, before>>
  BY DEF UnliftBlinding, DataInv, HostInv, Setup, Returning, IInv, PcInv
<1>2. AbstractPc = "gpu.unlift" /\ AbstractI = i /\ AbstractScaling = scaling
  BY <1>1 DEF AbstractPc, AbstractI, AbstractScaling, failed, Setup
<1>3. Loop!UnliftBlinding
  BY DEF UnliftBlinding, Loop!UnliftBlinding
<1>4. UNCHANGED <<AbstractDenoms, AbstractCres>>
  BY <1>1, SameRows DEF Pending
<1>5. AbstractDx' = AbstractDx
  BY <1>1 DEF AbstractDx, UnliftBlinding, Continue, Setup
<1>6. /\ AbstractPc' = IF i + 1 = Rho THEN "gpu.cres" ELSE "gpu.coset"
      /\ AbstractI' = i + 1 /\ AbstractScaling' = scaling
  <2> DEFINE label == IF i + 1 = Rho THEN "gpu.wait" ELSE "gpu.coset"
  <2>1. Continue(label) /\ i' = i + 1
    BY DEF UnliftBlinding
  <2>2. label \notin {"unwind", "end"} \cup Setup
    BY DEF Setup
  <2> QED BY <1>1, <2>1, <2>2, ContinueMaps
<1>7. Loop!GpuUnlift
  BY <1>1, <1>2, <1>3, <1>4, <1>5, <1>6 DEF Loop!GpuUnlift
<1> QED BY <1>7 DEF Loop!Next, Loop!Loop

\* The rows were there when the stream had been waited for.
LEMMA DownloadMaps ==
  ASSUME IInv, StreamInv, DataInv, StreamSync \/ DownloadCres
  PROVE  [Loop!Next]_Loop!vars
<1>1. /\ pc \in {"gpu.wait", "gpu.cres"} /\ error = "none" /\ before = dev.x /\ cres = NoRows
      /\ UNCHANGED <<queue, dev, i, scaling, coset, expo, bp, x, fetched, before>>
  BY DEF StreamSync, DownloadCres, DataInv, HostInv, Setup, Returning, IInv, PcInv, host
<1>2. AbstractPc = "gpu.cres" /\ AbstractI = i /\ AbstractScaling = scaling
  BY <1>1 DEF AbstractPc, AbstractI, AbstractScaling, failed, Setup
<1>3. AbstractDx = before /\ AbstractDx' = before
  BY <1>1 DEF AbstractDx, StreamSync, DownloadCres, Continue, Fail, Setup
<1>4. UNCHANGED AbstractDenoms
  BY <1>1 DEF AbstractDenoms, Pending
<1>5. CASE StreamSync
  <2>1. UNCHANGED AbstractCres
    BY <1>1, <1>5 DEF AbstractCres, Pending, StreamSync, host
  <2>2. AbstractPc' = "gpu.cres" /\ AbstractI' = i /\ AbstractScaling' = scaling
    BY <1>1, <1>5, ContinueMaps DEF StreamSync, Setup
  <2> QED BY <1>1, <1>2, <1>3, <1>4, <2>1, <2>2, Stutter DEF LoopHost, LoopDevice
<1>6. CASE DownloadCres
  <2>1. \A kernel : ~Pending(kernel) /\ ~Pending(kernel)'
    <3>1. queue = <<>>
      BY <1>6, MoreKernels, SeqOfNothing DEF DownloadCres, StreamInv, QueueInv
    <3>2. DOMAIN queue = {} /\ DOMAIN queue' = {}
      BY <1>1, <3>1
    <3> QED BY <3>2 DEF Pending
  <2>2. AbstractCres = dev.cres
    BY <1>1, <2>1 DEF AbstractCres, DataInv, DataTyped, FunctionOn
  <2>3. AbstractCres' = dev.cres
    <3>1. cres' = dev.cres \/ cres' = NoRows
      BY <1>1, <1>6 DEF DownloadCres
    <3>2. CASE cres' = NoRows
      BY <1>1, <2>1, <3>2 DEF AbstractCres, DataInv, DataTyped, FunctionOn
    <3>3. CASE cres' = dev.cres /\ cres' # NoRows
      BY <3>3 DEF AbstractCres
    <3> QED BY <3>1, <3>2, <3>3
  <2>4. Loop!GpuDownloadCres
    <3>1. CASE Continue("gpu.polys")
      <4>1. AbstractPc' = "gpu.polys" /\ AbstractI' = i /\ AbstractScaling' = scaling
        BY <1>1, <3>1, ContinueMaps DEF Setup
      <4> QED BY <1>1, <1>2, <1>3, <1>4, <2>2, <2>3, <4>1 DEF Loop!GpuDownloadCres, Loop!host
    <3>2. CASE Fail("download")
      BY <1>1, <1>2, <1>3, <1>4, <2>2, <2>3, <3>2, FailMaps
         DEF Loop!GpuDownloadCres, Loop!FallBack, Loop!host
    <3> QED BY <1>6, <3>1, <3>2 DEF DownloadCres
  <2> QED BY <2>4 DEF Loop!Next, Loop!Loop
<1> QED BY <1>5, <1>6

\* The arrays come down one by one.
LEMMA PolyMaps ==
  ASSUME IInv, StreamInv, DataInv, DownloadPoly
  PROVE  [Loop!Next]_Loop!vars
<1>1. /\ pc = "gpu.polys" /\ error = "none" /\ before = dev.x
      /\ UNCHANGED <<queue, dev, i, scaling, coset, expo, bp, cres, before>>
  BY DEF DownloadPoly, DataInv, HostInv, Setup, Returning, IInv, PcInv, host
<1>2. AbstractPc = "gpu.polys" /\ AbstractI = i /\ AbstractScaling = scaling
  BY <1>1 DEF AbstractPc, AbstractI, AbstractScaling, failed, Setup
<1>3. AbstractDx = before /\ AbstractDx' = before
  BY <1>1 DEF AbstractDx
<1>4. UNCHANGED <<AbstractDenoms, AbstractCres>>
  BY <1>1, SameRows DEF Pending
<1>5. Loop!GpuDownloadPoly
  <2>1. ASSUME NEW p \in Polys \ fetched, x' = [x EXCEPT ![p] = dev.x[p]],
               fetched' = fetched \cup {p}, UNCHANGED <<pc, error>>
        PROVE  Loop!GpuDownloadPoly
    <3>1. UNCHANGED <<AbstractPc, AbstractI, AbstractScaling>>
      BY <1>1, <2>1 DEF AbstractPc, AbstractI, AbstractScaling, failed
    <3>2. x' = [x EXCEPT ![p] = AbstractDx[p]]
      BY <1>1, <1>3, <2>1
    <3> QED
      BY <1>1, <1>2, <1>3, <1>4, <2>1, <3>1, <3>2 DEF Loop!GpuDownloadPoly, Loop!host
  <2>2. CASE fetched # Polys /\ Fail("download") /\ UNCHANGED <<x, fetched>>
    BY <1>1, <1>2, <1>3, <1>4, <2>2, FailMaps DEF Loop!GpuDownloadPoly, Loop!FallBack, Loop!host
  <2>3. CASE fetched = Polys /\ Continue("unwind") /\ UNCHANGED <<x, fetched>>
    <3>1. AbstractPc' = "restore" /\ AbstractI' = i /\ AbstractScaling' = scaling
      BY <1>1, <2>3 DEF Continue, AbstractPc, AbstractI, AbstractScaling, failed, Setup
    <3> QED BY <1>1, <1>2, <1>3, <1>4, <2>3, <3>1 DEF Loop!GpuDownloadPoly, Loop!host
  <2> QED BY <2>1, <2>2, <2>3 DEF DownloadPoly
<1> QED BY <1>5 DEF Loop!Next, Loop!Loop

\* RhoLoop does not see the deferred calls.
LEMMA UnwindMaps ==
  ASSUME Unwind \/ UNCHANGED vars
  PROVE  [Loop!Next]_Loop!vars
<1>1. CASE UNCHANGED vars
  <2>1. UNCHANGED LoopHost
    BY <1>1 DEF vars, host, LoopHost, AbstractPc, AbstractI, AbstractScaling, failed
  <2>2. UNCHANGED LoopDevice
    BY <1>1 DEF vars, host, LoopDevice, AbstractDenoms, AbstractDx, AbstractCres, Pending
  <2> QED BY <2>1, <2>2, Stutter
<1>2. CASE Unwind
  <2>1. /\ pc = "unwind" /\ pc' \in {"unwind", "end"}
        /\ UNCHANGED <<error, queue, dev, i, scaling, coset, expo, bp, x, fetched, cres, before>>
    BY <1>2 DEF Unwind, host
  <2>2. UNCHANGED LoopHost
    BY <2>1 DEF LoopHost, AbstractPc, AbstractI, AbstractScaling, failed, Setup
  <2>3. UNCHANGED LoopDevice
    BY <2>1 DEF LoopDevice, AbstractDenoms, AbstractDx, AbstractCres, Pending
  <2> QED BY <2>2, <2>3, Stutter
<1> QED BY <1>1, <1>2

\* The end of a kernel does not show.  The denominators and the rows were counted
\* as done from their launch on, and the arrays as moved only after the batch; what
\* is behind a scatter on the stream cannot change the result it copies before it.
LEMMA EndMaps ==
  ASSUME IInv, StreamInv, DataInv, EndKernel
  PROVE  [Loop!Next]_Loop!vars
<1> DEFINE h == Head(queue)
<1>1. queue \in Seq(Kernels) /\ pc \notin Setup
      /\ UNCHANGED <<pc, error, i, scaling, coset, expo, bp, x, fetched, cres, before>>
  <2>1. pc \in Setup => queue = <<>>
    BY MoreKernels, SeqOfNothing DEF StreamInv, QueueInv
  <2> QED BY <2>1, MoreKernels, SeqMonotonic DEF StreamInv, QueueInv, EndKernel, memory, host
<1>2. /\ h \in Kernels /\ dev' = Effect(dev, h)
      /\ \A kernel : kernel # h => (Pending(kernel)' <=> Pending(kernel))
  BY <1>1, StreamMoves
<1>3. PICK n \in Nat :
        /\ Len(queue) = n + 1 /\ Len(queue') = n /\ queue' \in Seq(Kernels)
        /\ queue[1] = h
        /\ \A j \in 1 .. n : queue'[j] = queue[j + 1] /\ j + 1 \in 1 .. n + 1
  BY <1>1, StreamMoves
<1> HIDE DEF h
<1>4. /\ dev'.coset = dev.coset
      /\ dev'.denoms = IF h = Denominators THEN dev.coset ELSE dev.denoms
      /\ dev'.x = [p \in Polys |-> IF h = Transform(p)
                                   THEN Mul(dev.x[p], dev.scale) ELSE dev.x[p]]
      /\ dev'.result = IF h = Evaluate THEN ResultNow ELSE dev.result
      /\ dev'.cres = [k \in Iterations |-> IF h = Scatter(k) THEN dev.result ELSE dev.cres[k]]
  BY <1>2, EffectOf DEF DataInv
<1>5. DOMAIN queue = 1 .. n + 1 /\ DOMAIN queue' = 1 .. n /\ 1 \in 1 .. n + 1
  BY <1>1, <1>3
<1>6. Pending(h)
  BY <1>3, <1>5 DEF Pending
<1>7. UNCHANGED LoopHost
  BY <1>1 DEF LoopHost, AbstractPc, AbstractI, AbstractScaling, failed
<1>8. UNCHANGED AbstractDenoms
  BY <1>2, <1>4, <1>6 DEF AbstractDenoms
<1>9. UNCHANGED AbstractDx
  <2>1. CASE pc \in {"gpu.sync", "unwind", "end"}
    BY <1>1, <2>1 DEF AbstractDx
  <2>2. CASE pc \notin {"gpu.sync", "unwind", "end"}
    <3>1. h.op \in {"scatter", "denominators"}
      BY <1>1, <1>3, <1>5, <2>2 DEF DataInv, HostInv, Returning
    <3>2. dev'.x = dev.x
      BY <1>4, <3>1 DEF Transform, DataInv, DataTyped, FunctionOn
    <3> QED BY <1>1, <2>2, <3>2 DEF AbstractDx
  <2> QED BY <2>1, <2>2
<1>10. UNCHANGED AbstractCres
  <2>1. CASE cres # NoRows
    BY <1>1, <2>1 DEF AbstractCres
  <2>2. CASE cres = NoRows
    <3>1. ASSUME NEW k \in Iterations
          PROVE  (IF Pending(Scatter(k))' THEN dev'.result ELSE dev'.cres[k])
                   = IF Pending(Scatter(k)) THEN dev.result ELSE dev.cres[k]
      <4>1. CASE h = Scatter(k)
        <5>1. ~Pending(Scatter(k))'
          <6>1. ASSUME NEW j \in 1 .. n, queue'[j] = Scatter(k) PROVE FALSE
            <7>1. queue[j + 1].op = "scatter" /\ j + 1 # 1
              BY <1>3, <6>1 DEF Scatter
            <7> QED BY <1>3, <7>1 DEF DataInv, QueueOrder
          <6> QED BY <1>5, <6>1 DEF Pending
        <5> QED BY <1>4, <1>6, <4>1, <5>1
      <4>2. CASE h # Scatter(k)
        <5>1. /\ Pending(Scatter(k))' <=> Pending(Scatter(k))
              /\ dev'.cres[k] = dev.cres[k]
          BY <1>2, <1>4, <4>2
        <5>2. ASSUME Pending(Scatter(k)) PROVE dev'.result = dev.result
          <6>1. PICK j \in 1 .. n + 1 : queue[j] = Scatter(k)
            BY <1>5, <5>2 DEF Pending
          <6>2. j = 1
            BY <1>3, <6>1 DEF DataInv, QueueOrder, Scatter
          <6> QED BY <1>3, <4>2, <6>1, <6>2
        <5> QED BY <5>1, <5>2
      <4> QED BY <4>1, <4>2
    <3> QED BY <1>1, <2>2, <3>1 DEF AbstractCres
  <2> QED BY <2>1, <2>2
<1> QED BY <1>7, <1>8, <1>9, <1>10, Stutter DEF LoopDevice

\* Every step is one of RhoLoop's, or none that it sees.
LEMMA StepMaps == IInv /\ StreamInv /\ DataInv /\ [Next]_vars => [Loop!Next]_Loop!vars
BY SetupMaps, CosetMaps, LiftMaps, LaunchMaps, SyncMaps, UnliftMaps, DownloadMaps, PolyMaps,
   UnwindMaps, EndMaps DEF Next

\* What the buffers hold, in every state of every run.
LEMMA DataInvariance == Spec => [](IInv /\ StreamInv /\ DataInv)
<1>1. Init => DataInv
  <2> SUFFICES ASSUME Init PROVE DataInv
    OBVIOUS
  <2>1. /\ pc = "stream" /\ Len(queue) = 0 /\ held = {} /\ cres = NoRows /\ before = x
    BY DEF Init
  <2>2. DataTyped
    BY DEF Init, DataTyped, FunctionOn, NoRows
  <2>3. HostInv
    BY <2>1 DEF HostInv, Setup, Returning
  <2>4. QueueOrder
    BY <2>1 DEF QueueOrder
  <2> QED BY <2>1, <2>2, <2>3, <2>4 DEF DataInv
<1> QED BY <1>1, StepData, StreamInvariance, PTL DEF Spec

\* The loop on the asynchronous device does what RhoLoop's GPU loop does in program
\* order, for every number of cosets, every set of polynomials and every choice of
\* the calls that may fail.
THEOREM RefinementThm == Spec => Refinement
<1>1. Spec => Loop!Init
  BY InitMaps DEF Spec
<1>2. Spec => [][Loop!Next]_Loop!vars
  BY StepMaps, DataInvariance, PTL DEF Spec
<1> QED BY <1>1, <1>2, PTL DEF Refinement
===============================================================================
