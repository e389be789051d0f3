---------------------------- MODULE ProgramsProofs ----------------------------
(***************************************************************************)
(* The programs on their way to the modules, for every set of programs and *)
(* all contents: how the pacer lets the changes out, and what the          *)
(* Conditional Access resource makes of them.                              *)
(***************************************************************************)
EXTENDS CaPmtPacer, ConditionalAccess, FunctionTheorems, FiniteSetTheorems, TLAPS

-----------------------------------------------------------------------------
(* The pacing guarantee of CaPmtPacer for every set of programs, every set *)
(* of intervals and every settle hold. What the queue holds plays no part  *)
(* in it: the argument is about the gate and its stamp only.               *)
(*                                                                         *)
(* That the queue implements ProgramRequests, in turn, is about the queue  *)
(* only: no two changes of a program are queued but a remove and, later, a *)
(* select, so that the first queued change of a program is its withdrawal  *)
(* or all there is, and the last one is what was asked for last.           *)

\* The gate and the clocks keep their types (CaPmtPacer, Gate in pacer.rs).
LEMMA ClockTypes == Spec => []ClockTypeOK
<1> USE TimeAssumption DEF ClockTypeOK, NotReady, Armed, Ready, Older
<1>1. Init => ClockTypeOK
  BY DEF Init
<1>2. ClockTypeOK /\ [Next]_vars => ClockTypeOK'
  <2> SUFFICES ASSUME ClockTypeOK, [Next]_vars
               PROVE  ClockTypeOK'
    OBVIOUS
  <2>1. CASE Elapse
    BY <2>1 DEF Elapse
  <2>2. CASE \E n \in Programs : \E v \in Versions : PushSet(n, v)
    BY <2>2 DEF PushSet
  <2>3. CASE \E n \in Programs : PushRemove(n)
    BY <2>3 DEF PushRemove
  <2>4. CASE \E d \in Intervals : SetInterval(d)
    BY <2>4 DEF SetInterval
  <2>5. CASE ArmApplicationInfo
    BY <2>5 DEF ArmApplicationInfo, Arm
  <2>6. CASE ArmCaInfo
    BY <2>6 DEF ArmCaInfo, Arm
  <2>7. CASE ResetGate
    BY <2>7 DEF ResetGate
  <2>8. CASE TickWithoutDispatch
    BY <2>8 DEF TickWithoutDispatch
  <2>9. CASE Tick
    BY <2>9 DEF Tick, PollCleared
  <2>10. CASE UNCHANGED vars
    BY <2>10 DEF vars
  <2> QED
    BY <2>1, <2>2, <2>3, <2>4, <2>5, <2>6, <2>7, <2>8, <2>9, <2>10 DEF Next
<1> QED
  BY <1>1, <1>2, PTL DEF Spec

\* One step keeps the stamp of an open gate at or after the last release and
\* the last handshake.
LEMMA StampStep == ClockTypeOK /\ StampIsLatest /\ [Next]_vars => StampIsLatest'
<1> USE TimeAssumption DEF ClockTypeOK, StampIsLatest, NotReady, Armed, Ready
<1> SUFFICES ASSUME ClockTypeOK, StampIsLatest, [Next]_vars
             PROVE  StampIsLatest'
  OBVIOUS
<1>1. CASE Elapse
  BY <1>1 DEF Elapse, Older
<1>2. CASE \E n \in Programs : \E v \in Versions : PushSet(n, v)
  BY <1>2 DEF PushSet
<1>3. CASE \E n \in Programs : PushRemove(n)
  BY <1>3 DEF PushRemove
<1>4. CASE \E d \in Intervals : SetInterval(d)
  BY <1>4 DEF SetInterval
<1>5. CASE ArmApplicationInfo \/ ArmCaInfo
  BY <1>5 DEF ArmApplicationInfo, ArmCaInfo, Arm
<1>6. CASE ResetGate
  BY <1>6 DEF ResetGate
<1>7. CASE TickWithoutDispatch
  BY <1>7 DEF TickWithoutDispatch
<1>8. CASE Tick
  BY <1>8 DEF Tick, PollCleared
<1>9. CASE UNCHANGED vars
  BY <1>9 DEF vars
<1> QED
  BY <1>1, <1>2, <1>3, <1>4, <1>5, <1>6, <1>7, <1>8, <1>9 DEF Next

\* The stamp of an open gate is never older than the last release or the
\* last handshake, through every re-arming, reset and interval change.
THEOREM StampIsLatestHolds == Spec => []StampIsLatest
<1>1. Init => StampIsLatest
  BY DEF Init, StampIsLatest, NotReady
<1> QED
  BY <1>1, ClockTypes, StampStep, PTL DEF Spec

\* A step that releases is a tick whose open gate has cleared the interval.
LEMMA OnlyAnOpenGateReleases ==
  ASSUME Next, released' # Nothing
  PROVE  Tick /\ gate.state = "Ready" /\ ~Gated
BY DEF Next, Elapse, PushSet, PushRemove, SetInterval,
       ArmApplicationInfo, ArmCaInfo, Arm, ResetGate, TickWithoutDispatch,
       Tick, PollCleared, NotReady

\* Every release comes more than one interval after the previous release and
\* after the last CAM handshake (poll() in pacer.rs).
THEOREM ReleasesAreSpaced == Spec => SpacedRelease
<1> DEFINE Spaced == released' # Nothing => /\ interval # Overflow
                                            /\ sinceRelease > interval
                                            /\ sinceHandshake > interval
<1>1. ClockTypeOK /\ StampIsLatest /\ [Next]_vars => [Spaced]_vars
  <2> SUFFICES ASSUME ClockTypeOK, StampIsLatest, Next, released' # Nothing
               PROVE  /\ interval # Overflow
                      /\ sinceRelease > interval
                      /\ sinceHandshake > interval
    OBVIOUS
  <2>1. Tick /\ gate.state = "Ready" /\ ~Gated
    BY OnlyAnOpenGateReleases
  <2> QED
    BY <2>1, TimeAssumption DEF Gated, ClockTypeOK, StampIsLatest
<1> QED
  BY <1>1, ClockTypes, StampIsLatestHolds, PTL DEF Spec, SpacedRelease
-----------------------------------------------------------------------------
\* The queue as a value: what retain leaves of it, the changes of a program, the
\* last of them, and that they coalesce.
KeptOf(q, places) ==
    [k \in 1 .. Cardinality(places) |->
        q[CHOOSE i \in places : Cardinality({j \in places : j <= i}) = k]]
QueuedIn(q, n) == {i \in DOMAIN q : q[i].program = n}
LastIn(q, n) == CHOOSE i \in QueuedIn(q, n) : \A j \in QueuedIn(q, n) : j <= i
RemovingIn(q, n) == \E i \in QueuedIn(q, n) : q[i].op = "Remove"
CoalescedIn(q) == \A i, j \in DOMAIN q :
    (i < j /\ q[i].program = q[j].program) => q[i].op = "Remove" /\ q[j].op = "Set"

\* What a sequence t has of q: its entries at some places, all of them, in order.
Picks(q, places, t, place) ==
    /\ place \in [DOMAIN t -> places]
    /\ \A k \in DOMAIN t : t[k] = q[place[k]]
    /\ \A k, l \in DOMAIN t : k < l => place[k] < place[l]
    /\ \A i \in places : \E k \in DOMAIN t : place[k] = i

LEMMA KeptPicks ==
  ASSUME NEW q \in Seq(Change), NEW places \in SUBSET DOMAIN q
  PROVE  /\ KeptOf(q, places) \in Seq(Change)
         /\ \E place : Picks(q, places, KeptOf(q, places), place)
<1> DEFINE size == Cardinality(places)
           UpTo(i) == {j \in places : j <= i}
           rank == [i \in places |-> Cardinality(UpTo(i))]
           place == [k \in 1 .. size |-> CHOOSE i \in places : Cardinality(UpTo(i)) = k]
<1>1. /\ DOMAIN q = 1 .. Len(q) /\ Len(q) \in Nat
      /\ IsFiniteSet(places) /\ size \in Nat
  <2>1. DOMAIN q = 1 .. Len(q) /\ Len(q) \in Nat
    OBVIOUS
  <2>2. IsFiniteSet(1 .. Len(q))
    BY <2>1, FS_Interval
  <2> QED BY <2>1, <2>2, FS_Subset, FS_CardinalityType
<1>2. \A i \in places : i \in Int
  BY <1>1
<1>3. ASSUME NEW i \in places
      PROVE  /\ IsFiniteSet(UpTo(i)) /\ rank[i] \in 1 .. size
  <2>1. UpTo(i) \in SUBSET places /\ i \in UpTo(i)
    BY <1>2
  <2>2. IsFiniteSet(UpTo(i)) /\ Cardinality(UpTo(i)) <= size
    BY <1>1, <2>1, FS_Subset
  <2>3. Cardinality(UpTo(i)) \in Nat /\ Cardinality(UpTo(i)) # 0
    BY <2>1, <2>2, FS_CardinalityType, FS_EmptySet
  <2> QED BY <1>1, <2>2, <2>3
<1>ranks. \A i \in places : rank[i] \in 1 .. size /\ rank[i] \in Int
  <2> HIDE DEF rank, UpTo
  <2> QED BY <1>1, <1>3
<1>4. ASSUME NEW i \in places, NEW j \in places, i < j PROVE rank[i] < rank[j]
  <2>1. UpTo(i) \in SUBSET UpTo(j) /\ j \in UpTo(j) /\ j \notin UpTo(i)
    BY <1>2, <1>4
  <2>2. Cardinality(UpTo(i)) <= Cardinality(UpTo(j))
    BY <1>3, <2>1, FS_Subset
  <2>3. Cardinality(UpTo(i)) # Cardinality(UpTo(j))
    BY <1>3, <2>1, FS_Subset
  <2>4. rank[i] = Cardinality(UpTo(i)) /\ rank[j] = Cardinality(UpTo(j))
    OBVIOUS
  <2> HIDE DEF rank, UpTo
  <2> QED BY <1>ranks, <2>2, <2>3, <2>4
<1>5. rank \in Injection(places, 1 .. size)
  <2>1. rank \in [places -> 1 .. size]
    BY <1>3
  <2>2. \A i, j \in places : rank[i] = rank[j] => i = j
    <3> TAKE i, j \in places
    <3> HIDE DEF rank
    <3> QED BY <1>ranks, <1>2, <1>4
  <2> HIDE DEF rank
  <2> QED BY <2>1, <2>2, Fun_IsInj
<1>6. rank \in Surjection(places, 1 .. size)
  <2>1. IsFiniteSet(1 .. size) /\ Cardinality(1 .. size) = size
    BY <1>1, FS_Interval
  <2> HIDE DEF rank
  <2> QED BY <1>5, <2>1, FS_Injection
<1>7. \A k \in 1 .. size : place[k] \in places /\ rank[place[k]] = k
  <2>1. \A k \in 1 .. size : \E i \in places : rank[i] = k
    <3> HIDE DEF rank
    <3> QED BY <1>6 DEF Surjection
  <2>2. \A i \in places : rank[i] = Cardinality(UpTo(i))
    OBVIOUS
  <2> HIDE DEF rank, UpTo
  <2> QED BY <2>1, <2>2
<1> DEFINE t == KeptOf(q, places)
<1>8. /\ DOMAIN t = 1 .. size
      /\ \A k \in 1 .. size : t[k] = q[place[k]]
  BY DEF KeptOf
<1>9. t \in Seq(Change)
  <2>1. \A k \in 1 .. size : t[k] \in Change
    <3> HIDE DEF t, place, rank
    <3> QED BY <1>1, <1>7, <1>8
  <2>2. t = [k \in 1 .. size |-> t[k]]
    BY DEF KeptOf
  <2> HIDE DEF t
  <2> QED BY <1>1, <2>1, <2>2
<1>10. \A k, l \in 1 .. size : k < l => place[k] < place[l]
  <2> SUFFICES ASSUME NEW k \in 1 .. size, NEW l \in 1 .. size, k < l
               PROVE  place[k] < place[l]
    OBVIOUS
  <2> HIDE DEF place, rank
  <2>1. place[k] \in Int /\ place[l] \in Int
    BY <1>2, <1>7
  <2>2. ~(place[l] < place[k]) /\ place[l] # place[k]
    BY <1>1, <1>4, <1>7
  <2> QED BY <2>1, <2>2
<1>11. \A i \in places : \E k \in 1 .. size : place[k] = i
  <2> TAKE i \in places
  <2>1. rank[i] \in 1 .. size
    BY <1>3
  <2>2. place[rank[i]] \in places /\ rank[place[rank[i]]] = rank[i]
    BY <1>7, <2>1
  <2>3. place[rank[i]] = i
    <3> DEFINE o == place[rank[i]]
    <3>1. o \in places /\ rank[o] = rank[i] /\ o \in Int /\ i \in Int /\ rank[i] \in Int
      BY <1>ranks, <1>2, <2>2
    <3> HIDE DEF o, rank
    <3>2. o = i
      BY <1>4, <3>1
    <3> QED BY <3>2 DEF o
  <2> QED BY <2>1, <2>3
<1>12. place \in [DOMAIN t -> places]
  BY <1>7, <1>8
<1>13. Picks(q, places, t, place)
  <2> HIDE DEF place, rank, t
  <2> QED BY <1>8, <1>10, <1>11, <1>12 DEF Picks
<1> QED BY <1>9, <1>13

\* The last change of a program: there is one, because there are two at most.
LEMMA LastIs ==
  ASSUME NEW q \in Seq(Change), NEW n, NEW i \in QueuedIn(q, n),
         \A j \in QueuedIn(q, n) : j <= i
  PROVE  LastIn(q, n) = i
<1>1. \A j \in QueuedIn(q, n) : j \in Int
  BY DEF QueuedIn
<1> QED BY <1>1 DEF LastIn

LEMMA LastExists ==
  ASSUME NEW q \in Seq(Change), CoalescedIn(q), NEW n, QueuedIn(q, n) # {}
  PROVE  /\ LastIn(q, n) \in QueuedIn(q, n)
         /\ \A j \in QueuedIn(q, n) : j <= LastIn(q, n)
<1>1. \A j \in QueuedIn(q, n) : j \in Int
  BY DEF QueuedIn
<1>2. \E i \in QueuedIn(q, n) : \A j \in QueuedIn(q, n) : j <= i
  <2>1. PICK i \in QueuedIn(q, n) : TRUE
    OBVIOUS
  <2>2. CASE \A j \in QueuedIn(q, n) : j <= i
    BY <2>2
  <2>3. ASSUME NEW j \in QueuedIn(q, n), i < j
        PROVE  \E m \in QueuedIn(q, n) : \A k \in QueuedIn(q, n) : k <= m
    <3> SUFFICES ASSUME NEW k \in QueuedIn(q, n), j < k PROVE FALSE
      BY <1>1
    <3>1. q[j].op = "Set"
      BY <2>1, <2>3 DEF CoalescedIn, QueuedIn
    <3>2. q[j].op = "Remove"
      BY DEF CoalescedIn, QueuedIn
    <3> QED BY <3>1, <3>2
  <2>4. (\A j \in QueuedIn(q, n) : j <= i) \/ (\E j \in QueuedIn(q, n) : i < j)
    BY <1>1
  <2> QED BY <2>2, <2>3, <2>4
<1> QED BY <1>2 DEF LastIn
LEMMA ChangeFields ==
  ASSUME NEW q \in Seq(Change), NEW i \in DOMAIN q
  PROVE  /\ q[i] \in Change /\ q[i].program \in Programs
         /\ q[i].op \in {"Set", "Remove"}
         /\ q[i].op = "Set" => q[i].version \in Versions
         /\ q[i].op = "Remove" => q[i].version = NoProgram
BY DEF Change, Set, Remove

-----------------------------------------------------------------------------
\* A request: some changes of the program leave the queue, and a new one enters.
\* What is queued of other programs is what it was.
Requested(q, dropped, c) == Append(KeptOf(q, DOMAIN q \ dropped), c)

LEMMA RequestCoalesces ==
  ASSUME NEW q \in Seq(Change), CoalescedIn(q), NEW c \in Change,
         NEW dropped \in SUBSET QueuedIn(q, c.program),
         \A i \in QueuedIn(q, c.program) \ dropped : q[i].op = "Remove" /\ c.op = "Set",
         NEW r, r = Requested(q, dropped, c)
  PROVE  /\ r \in Seq(Change) /\ CoalescedIn(r)
         /\ QueuedIn(r, c.program) # {} /\ r[LastIn(r, c.program)] = c
         /\ RemovingIn(r, c.program) <=> \/ c.op = "Remove"
                                         \/ QueuedIn(q, c.program) \ dropped # {}
         /\ \A n : n # c.program =>
               /\ QueuedIn(r, n) = {} <=> QueuedIn(q, n) = {}
               /\ QueuedIn(q, n) # {} => r[LastIn(r, n)] = q[LastIn(q, n)]
               /\ RemovingIn(r, n) <=> RemovingIn(q, n)
<1> DEFINE places == DOMAIN q \ dropped
           t == KeptOf(q, places)
<1>1. t \in Seq(Change) /\ \E place : Picks(q, places, t, place)
  BY KeptPicks
<1>2. PICK place : Picks(q, places, t, place)
  BY <1>1
<1> DEFINE p == c.program
           size == Len(t)
<1> HIDE DEF t
<1>3. /\ size \in Nat /\ DOMAIN t = 1 .. size /\ DOMAIN q = 1 .. Len(q) /\ Len(q) \in Nat
      /\ r \in Seq(Change) /\ DOMAIN r = 1 .. size + 1 /\ r[size + 1] = c
      /\ \A k \in 1 .. size : r[k] = t[k]
  BY <1>1 DEF Requested, t
<1>4. /\ \A k \in 1 .. size : place[k] \in places /\ place[k] \in Int /\ r[k] = q[place[k]]
      /\ \A k, l \in 1 .. size : k < l => place[k] < place[l]
      /\ \A i \in places : \E k \in 1 .. size : place[k] = i
  <2>1. /\ place \in [1 .. size -> places]
        /\ \A k \in 1 .. size : t[k] = q[place[k]]
        /\ \A k, l \in 1 .. size : k < l => place[k] < place[l]
        /\ \A i \in places : \E k \in 1 .. size : place[k] = i
    BY <1>2, <1>3 DEF Picks
  <2>2. \A i \in places : i \in Int
    BY <1>3
  <2> HIDE DEF places, size
  <2> QED BY <1>3, <2>1, <2>2
<1>5. ASSUME NEW i \in DOMAIN r, NEW j \in DOMAIN r, i < j, r[i].program = r[j].program
      PROVE  r[i].op = "Remove" /\ r[j].op = "Set"
  <2>1. CASE j = size + 1
    <3>1. i \in 1 .. size /\ place[i] \in QueuedIn(q, p) \ dropped /\ r[i] = q[place[i]]
      BY <1>3, <1>4, <1>5, <2>1 DEF QueuedIn
    <3> QED BY <1>3, <2>1, <3>1
  <2>2. CASE j # size + 1
    <3>1. i \in 1 .. size /\ j \in 1 .. size
      BY <1>3, <1>5, <2>2
    <3>2. /\ place[i] < place[j] /\ place[i] \in DOMAIN q /\ place[j] \in DOMAIN q
          /\ r[i] = q[place[i]] /\ r[j] = q[place[j]]
      BY <1>4, <1>5, <3>1
    <3> QED BY <1>5, <3>2 DEF CoalescedIn
  <2> QED BY <2>1, <2>2
<1>6. CoalescedIn(r)
  BY <1>5 DEF CoalescedIn
<1>7. size + 1 \in QueuedIn(r, p) /\ LastIn(r, p) = size + 1
  <2>1. size + 1 \in QueuedIn(r, p) /\ \A j \in QueuedIn(r, p) : j <= size + 1
    BY <1>3 DEF QueuedIn
  <2> QED BY <1>3, <2>1, LastIs
<1>8. RemovingIn(r, p) <=> c.op = "Remove" \/ QueuedIn(q, p) \ dropped # {}
  <2>1. ASSUME NEW i \in QueuedIn(r, p), i # size + 1
        PROVE  QueuedIn(q, p) \ dropped # {}
    <3>1. i \in 1 .. size /\ place[i] \in QueuedIn(q, p) \ dropped
      BY <1>3, <1>4, <2>1 DEF QueuedIn
    <3> QED BY <3>1
  <2>2. ASSUME NEW i \in QueuedIn(q, p) \ dropped
        PROVE  RemovingIn(r, p)
    <3>1. PICK k \in 1 .. size : place[k] = i
      BY <1>4 DEF QueuedIn
    <3>2. k \in QueuedIn(r, p) /\ r[k].op = "Remove"
      BY <1>3, <1>4, <3>1 DEF QueuedIn
    <3> QED BY <3>2 DEF RemovingIn
  <2> QED BY <1>3, <1>7, <2>1, <2>2 DEF RemovingIn
<1>9. ASSUME NEW n, n # p
      PROVE  /\ QueuedIn(r, n) = {} <=> QueuedIn(q, n) = {}
             /\ QueuedIn(q, n) # {} => r[LastIn(r, n)] = q[LastIn(q, n)]
             /\ RemovingIn(r, n) <=> RemovingIn(q, n)
  <2>1. \A k \in QueuedIn(r, n) : /\ k \in 1 .. size /\ place[k] \in QueuedIn(q, n)
                                  /\ r[k] = q[place[k]]
    BY <1>3, <1>4, <1>9 DEF QueuedIn
  <2>2. \A i \in QueuedIn(q, n) : \E k \in QueuedIn(r, n) : place[k] = i
    <3> SUFFICES ASSUME NEW i \in QueuedIn(q, n)
                 PROVE  \E k \in QueuedIn(r, n) : place[k] = i
      OBVIOUS
    <3>1. i \in places
      BY <1>9 DEF QueuedIn
    <3>2. PICK k \in 1 .. size : place[k] = i
      BY <1>4, <3>1
    <3>3. r[k] = q[i] /\ k \in DOMAIN r /\ q[i].program = n
      BY <1>3, <1>4, <3>2 DEF QueuedIn
    <3> QED BY <3>2, <3>3 DEF QueuedIn
  <2>3. ASSUME QueuedIn(q, n) # {} PROVE r[LastIn(r, n)] = q[LastIn(q, n)]
    <3> DEFINE i == LastIn(q, n)
    <3>1. i \in QueuedIn(q, n) /\ \A j \in QueuedIn(q, n) : j <= i
      BY <2>3, LastExists
    <3> HIDE DEF i
    <3>2. PICK k \in QueuedIn(r, n) : place[k] = i
      BY <2>2, <3>1
    <3>3. \A j \in QueuedIn(r, n) : j <= k
      <4> SUFFICES ASSUME NEW j \in QueuedIn(r, n), k < j PROVE FALSE
        BY <1>3, <2>1
      <4>1. place[k] < place[j] /\ place[j] <= i /\ i \in Int /\ place[j] \in Int
        BY <1>4, <2>1, <3>1, <3>2
      <4> QED BY <3>2, <4>1
    <3>4. LastIn(r, n) = k
      BY <1>3, <3>3, LastIs
    <3> QED BY <2>1, <3>2, <3>4 DEF i
  <2>4. RemovingIn(r, n) <=> RemovingIn(q, n)
    BY <2>1, <2>2 DEF RemovingIn
  <2> QED BY <2>1, <2>2, <2>3, <2>4
<1> QED BY <1>3, <1>6, <1>7, <1>8, <1>9

\* A release: the first change leaves the queue.  A withdrawal leaves at most a
\* later select behind, a select nothing.
Leaves(q, c, r) ==
  /\ c \in Change /\ r \in Seq(Change) /\ CoalescedIn(r)
  /\ QueuedIn(q, c.program) # {}
  /\ QueuedIn(r, c.program) = {} => q[LastIn(q, c.program)] = c
  /\ QueuedIn(r, c.program) # {} => /\ r[LastIn(r, c.program)].op = "Set"
                                    /\ c.op = "Remove"
  /\ RemovingIn(q, c.program) <=> c.op = "Remove"
  /\ ~RemovingIn(r, c.program)
  /\ \A n : QueuedIn(r, n) # {} => r[LastIn(r, n)] = q[LastIn(q, n)]
  /\ \A n : n # c.program =>
        /\ QueuedIn(r, n) = {} <=> QueuedIn(q, n) = {}
        /\ RemovingIn(r, n) <=> RemovingIn(q, n)

LEMMA ReleaseCoalesces ==
  ASSUME NEW q \in Seq(Change), CoalescedIn(q), q # <<>>,
         NEW c, c = Head(q), NEW r, r = Tail(q)
  PROVE  Leaves(q, c, r)
<1> DEFINE p == c.program
           size == Len(q)
<1>1. /\ size \in Nat \ {0} /\ DOMAIN q = 1 .. size /\ q[1] = c /\ c \in Change
      /\ r \in Seq(Change) /\ DOMAIN r = 1 .. size - 1
      /\ \A k \in 1 .. size - 1 : r[k] = q[k + 1]
  OBVIOUS
<1>2. c.op \in {"Set", "Remove"}
  BY <1>1 DEF Change, Set, Remove
<1>3. CoalescedIn(r)
  BY <1>1 DEF CoalescedIn
<1>4. \A n : \A k \in QueuedIn(r, n) : /\ k \in 1 .. size - 1 /\ k + 1 \in QueuedIn(q, n)
                                       /\ r[k] = q[k + 1]
  BY <1>1 DEF QueuedIn
<1>5. \A n : \A i \in QueuedIn(q, n) : i = 1 \/ i - 1 \in QueuedIn(r, n)
  BY <1>1 DEF QueuedIn
<1>6. 1 \in QueuedIn(q, p) /\ \A n : n # p => 1 \notin QueuedIn(q, n)
  BY <1>1 DEF QueuedIn
<1>7. \A k \in QueuedIn(r, p) : c.op = "Remove" /\ r[k].op = "Set"
  BY <1>1, <1>4 DEF CoalescedIn, QueuedIn
<1>8. ASSUME NEW n, QueuedIn(r, n) # {}
      PROVE  LastIn(r, n) \in QueuedIn(r, n) /\ r[LastIn(r, n)] = q[LastIn(q, n)]
  <2> DEFINE k == LastIn(r, n)
  <2>1. k \in QueuedIn(r, n) /\ \A j \in QueuedIn(r, n) : j <= k
    BY <1>1, <1>3, <1>8, LastExists
  <2> HIDE DEF k
  <2>2. k + 1 \in QueuedIn(q, n) /\ r[k] = q[k + 1] /\ k \in 1 .. size - 1
    BY <1>4, <2>1
  <2>3. \A j \in QueuedIn(q, n) : j <= k + 1
    <3> SUFFICES ASSUME NEW j \in QueuedIn(q, n) PROVE j <= k + 1
      OBVIOUS
    <3>1. CASE j = 1
      BY <2>2, <3>1
    <3>2. CASE j - 1 \in QueuedIn(r, n)
      BY <1>1, <2>1, <2>2, <3>2 DEF QueuedIn
    <3> QED BY <1>5, <3>1, <3>2
  <2>4. LastIn(q, n) = k + 1
    BY <2>2, <2>3, LastIs
  <2> QED BY <2>1, <2>2, <2>4 DEF k
<1>9. QueuedIn(r, p) = {} => q[LastIn(q, p)] = c
  <2> SUFFICES ASSUME QueuedIn(r, p) = {} PROVE q[LastIn(q, p)] = c
    OBVIOUS
  <2>1. \A i \in QueuedIn(q, p) : i <= 1
    BY <1>5
  <2>2. LastIn(q, p) = 1
    BY <1>6, <2>1, LastIs
  <2> QED BY <1>1, <2>2
<1>10. RemovingIn(q, p) <=> c.op = "Remove"
  <2>1. ASSUME NEW i \in QueuedIn(q, p), q[i].op = "Remove" PROVE c.op = "Remove"
    <3>1. CASE i = 1
      BY <1>1, <2>1, <3>1
    <3>2. CASE i - 1 \in QueuedIn(r, p)
      BY <1>7, <3>2
    <3> QED BY <1>5, <3>1, <3>2
  <2> QED BY <1>1, <1>6, <2>1 DEF RemovingIn
<1>11. ~RemovingIn(r, p)
  BY <1>7 DEF RemovingIn
<1>12. ASSUME NEW n, n # p
       PROVE  /\ QueuedIn(r, n) = {} <=> QueuedIn(q, n) = {}
              /\ RemovingIn(r, n) <=> RemovingIn(q, n)
  <2>1. \A i \in QueuedIn(q, n) : i - 1 \in QueuedIn(r, n) /\ q[i] = r[i - 1]
    <3> SUFFICES ASSUME NEW i \in QueuedIn(q, n)
                 PROVE  i - 1 \in QueuedIn(r, n) /\ q[i] = r[i - 1]
      OBVIOUS
    <3>1. i - 1 \in QueuedIn(r, n) /\ i \in Int
      BY <1>1, <1>5, <1>6, <1>12 DEF QueuedIn
    <3> QED BY <1>4, <3>1
  <2> QED BY <1>4, <2>1 DEF RemovingIn
<1> QED BY <1>1, <1>3, <1>6, <1>7, <1>8, <1>9, <1>10, <1>11, <1>12 DEF Leaves
-----------------------------------------------------------------------------
\* The pacer's queue coalesces, and its steps are those of ProgramRequests.
QueueOK == /\ queue \in Seq(Change)
           /\ Coalesced
           /\ programs \in [Programs -> Versions \cup {NoProgram}]

LEMMA QueueAsValue ==
  /\ Coalesced <=> CoalescedIn(queue)
  /\ \A n : /\ Queued(n) = QueuedIn(queue, n)
            /\ LastQueued(n) = LastIn(queue, n)
            /\ (\E i \in Queued(n) : queue[i].op = "Remove") <=> RemovingIn(queue, n)
BY DEF Coalesced, CoalescedIn, Queued, QueuedIn, LastQueued, LastIn, RemovingIn

\* The four kinds of steps, as far as the queue and the registry go.
Still == UNCHANGED <<queue, programs>>
Selects(n, v) == /\ queue' = Requested(queue, Sets(n), Set(n, v))
                 /\ UNCHANGED programs
Withdraws(n) == /\ queue' = Requested(queue, Queued(n), Remove(n))
                /\ UNCHANGED programs
Applies == /\ queue # <<>>
           /\ queue' = Tail(queue)
           /\ programs' = Applied(Head(queue))

LEMMA FourSteps ==
  ASSUME [Next]_vars
  PROVE  \/ Still
         \/ \E n \in Programs, v \in Versions : Selects(n, v)
         \/ \E n \in Programs : Withdraws(n)
         \/ Applies
<1>1. CASE \E n \in Programs : \E v \in Versions : PushSet(n, v)
  BY <1>1 DEF PushSet, Selects, Requested, Kept, KeptOf
<1>2. CASE \E n \in Programs : PushRemove(n)
  BY <1>2 DEF PushRemove, Withdraws, Requested, Kept, KeptOf
<1>3. CASE Tick
  BY <1>3 DEF Tick, PollCleared, Still, Applies
<1>4. CASE \/ Elapse \/ \E d \in Intervals : SetInterval(d)
           \/ ArmApplicationInfo \/ ArmCaInfo \/ ResetGate \/ TickWithoutDispatch
           \/ UNCHANGED vars
  BY <1>4 DEF Elapse, SetInterval, ArmApplicationInfo, ArmCaInfo, Arm, ResetGate,
              TickWithoutDispatch, vars, Still
<1> QED BY <1>1, <1>2, <1>3, <1>4 DEF Next

\* Both requests are of the kind RequestCoalesces is about.
LEMMA SelectDrops ==
  ASSUME QueueOK, NEW n \in Programs, NEW v \in Versions
  PROVE  /\ Set(n, v) \in Change /\ Set(n, v).program = n
         /\ Set(n, v).op = "Set" /\ Set(n, v).version = v
         /\ Sets(n) \in SUBSET QueuedIn(queue, n)
         /\ \A i \in QueuedIn(queue, n) \ Sets(n) : queue[i].op = "Remove"
         /\ QueuedIn(queue, n) \ Sets(n) # {} <=> RemovingIn(queue, n)
<1>1. \A i \in QueuedIn(queue, n) : queue[i].op \in {"Set", "Remove"}
  BY ChangeFields DEF QueueOK, QueuedIn
<1>2. Sets(n) = {i \in QueuedIn(queue, n) : queue[i].op = "Set"}
  BY DEF Sets, Queued, QueuedIn
<1>3. Set(n, v) \in Change /\ Set(n, v).program = n /\ Set(n, v).op = "Set" /\ Set(n, v).version = v
  BY DEF Set, Change
<1> QED BY <1>1, <1>2, <1>3 DEF RemovingIn

LEMMA WithdrawDrops ==
  ASSUME NEW n \in Programs
  PROVE  /\ Remove(n) \in Change /\ Remove(n).program = n
         /\ Remove(n).op = "Remove" /\ Remove(n).version = NoProgram
         /\ Queued(n) = QueuedIn(queue, n)
BY DEF Remove, Change, Queued, QueuedIn

LEMMA QueueStep == ASSUME QueueOK, [Next]_vars PROVE QueueOK'
<1>1. CoalescedIn(queue) /\ (CoalescedIn(queue)' => Coalesced')
  BY QueueAsValue DEF QueueOK, Coalesced, CoalescedIn
<1>2. CASE Still
  BY <1>2 DEF Still, QueueOK, Coalesced
<1>3. ASSUME NEW n \in Programs, NEW v \in Versions, Selects(n, v) PROVE QueueOK'
  BY <1>1, <1>3, SelectDrops, RequestCoalesces DEF Selects, QueueOK
<1>4. ASSUME NEW n \in Programs, Withdraws(n) PROVE QueueOK'
  BY <1>1, <1>4, WithdrawDrops, RequestCoalesces DEF Withdraws, QueueOK
<1>5. CASE Applies
  <2>1. queue' \in Seq(Change) /\ CoalescedIn(queue') /\ Head(queue) \in Change
    BY <1>1, <1>5, ReleaseCoalesces DEF Applies, QueueOK, Leaves
  <2>2. Head(queue).version \in Versions \cup {NoProgram}
    BY <2>1 DEF Change, Set, Remove
  <2> QED BY <1>1, <1>5, <2>1, <2>2 DEF Applies, Applied, QueueOK
<1> QED BY <1>2, <1>3, <1>4, <1>5, FourSteps

LEMMA QueueHolds == Spec => []QueueOK
<1>1. Init => QueueOK
  BY DEF Init, QueueOK, Coalesced
<1> QED BY <1>1, QueueStep, PTL DEF Spec

\* Whatever is requested of however many programs, however often, a program has at
\* most a remove and, behind it, a select in the queue (push_set, push_remove).
THEOREM QueueCoalesces == Spec => []Coalesced
BY QueueHolds, PTL DEF QueueOK

\* Type correctness of the whole pacer: what poll() hands out is a change somebody
\* queued, whatever is pushed, re-armed, reset or re-configured.
THEOREM PacerTypes == Spec => []TypeOK
<1> DEFINE Handed == released \in Change \cup {Nothing}
<1>1. Init => Handed
  BY DEF Init
<1>2. QueueOK /\ Handed /\ [Next]_vars => Handed'
  <2> SUFFICES ASSUME QueueOK, Handed, [Next]_vars PROVE Handed'
    OBVIOUS
  <2>1. CASE Tick
    <3>1. queue # <<>> => Head(queue) \in Change
      BY DEF QueueOK
    <3> QED BY <2>1, <3>1 DEF Tick, PollCleared
  <2>2. CASE UNCHANGED vars
    BY <2>2 DEF vars
  <2> QED
    BY <2>1, <2>2 DEF Next, Elapse, PushSet, PushRemove, SetInterval, Arm,
                      ArmApplicationInfo, ArmCaInfo, ResetGate, TickWithoutDispatch
<1> HIDE DEF Handed
<1>3. Spec => []Handed
  BY <1>1, <1>2, QueueHolds, PTL DEF Spec
<1>4. ClockTypeOK /\ QueueOK /\ Handed => TypeOK
  BY DEF TypeOK, QueueOK, Handed
<1> QED BY <1>3, <1>4, ClockTypes, QueueHolds, PTL

-----------------------------------------------------------------------------
\* What ProgramRequests sees of the pacer.
Wanted == [n \in Programs |-> IF Queued(n) = {} THEN programs[n]
                              ELSE queue[LastQueued(n)].version]
Pending == {n \in Programs : Queued(n) # {}}
Owed == {n \in Programs : \E i \in Queued(n) : queue[i].op = "Remove"}

LEMMA SeenAsValue ==
  /\ Wanted = [n \in Programs |-> IF QueuedIn(queue, n) = {} THEN programs[n]
                                  ELSE queue[LastIn(queue, n)].version]
  /\ Pending = {n \in Programs : QueuedIn(queue, n) # {}}
  /\ Owed = {n \in Programs : RemovingIn(queue, n)}
BY QueueAsValue DEF Wanted, Pending, Owed

LEMMA SeenAsValueNext ==
  /\ Wanted' = [n \in Programs |-> IF QueuedIn(queue', n) = {} THEN programs'[n]
                                   ELSE queue'[LastIn(queue', n)].version]
  /\ Pending' = {n \in Programs : QueuedIn(queue', n) # {}}
  /\ Owed' = {n \in Programs : RemovingIn(queue', n)}
BY DEF Wanted, Pending, Owed, Queued, QueuedIn, LastQueued, LastIn, RemovingIn

LEMMA SelectsIsSelect ==
  ASSUME QueueOK, NEW n \in Programs, NEW v \in Versions, Selects(n, v)
  PROVE  Requests!Select(n, v)
<1> DEFINE q == queue
           r == queue'
<1>1. CoalescedIn(q) /\ q \in Seq(Change) /\ r = Requested(q, Sets(n), Set(n, v))
      /\ programs' = programs
  BY QueueAsValue DEF QueueOK, Selects
<1>2. /\ QueuedIn(r, n) # {} /\ r[LastIn(r, n)] = Set(n, v)
      /\ RemovingIn(r, n) <=> RemovingIn(q, n)
      /\ \A m : m # n => /\ QueuedIn(r, m) = {} <=> QueuedIn(q, m) = {}
                         /\ QueuedIn(q, m) # {} => r[LastIn(r, m)] = q[LastIn(q, m)]
                         /\ RemovingIn(r, m) <=> RemovingIn(q, m)
  BY <1>1, SelectDrops, RequestCoalesces
<1>3. Set(n, v).version = v
  BY SelectDrops
<1> HIDE DEF q, r
<1>4. Wanted' = [Wanted EXCEPT ![n] = v]
  BY <1>1, <1>2, <1>3, SeenAsValue, SeenAsValueNext DEF q, r
<1>5. Pending' = Pending \cup {n} /\ Owed' = Owed
  BY <1>2, SeenAsValue, SeenAsValueNext DEF q, r
<1> QED BY <1>1, <1>4, <1>5 DEF Requests!Select, Wanted, Pending, Owed

LEMMA WithdrawsIsWithdraw ==
  ASSUME QueueOK, NEW n \in Programs, Withdraws(n)
  PROVE  Requests!Withdraw(n)
<1> DEFINE q == queue
           r == queue'
<1>1. CoalescedIn(q) /\ q \in Seq(Change) /\ r = Requested(q, QueuedIn(q, n), Remove(n))
      /\ programs' = programs
  BY QueueAsValue, WithdrawDrops DEF QueueOK, Withdraws
<1>2. /\ QueuedIn(r, n) # {} /\ r[LastIn(r, n)] = Remove(n) /\ RemovingIn(r, n)
      /\ \A m : m # n => /\ QueuedIn(r, m) = {} <=> QueuedIn(q, m) = {}
                         /\ QueuedIn(q, m) # {} => r[LastIn(r, m)] = q[LastIn(q, m)]
                         /\ RemovingIn(r, m) <=> RemovingIn(q, m)
  BY <1>1, WithdrawDrops, RequestCoalesces
<1>3. Remove(n).version = NoProgram
  BY WithdrawDrops
<1> HIDE DEF q, r
<1>4. Wanted' = [Wanted EXCEPT ![n] = NoProgram]
  BY <1>1, <1>2, <1>3, SeenAsValue, SeenAsValueNext DEF q, r
<1>5. Pending' = Pending \cup {n} /\ Owed' = Owed \cup {n}
  BY <1>2, SeenAsValue, SeenAsValueNext DEF q, r
<1> QED BY <1>1, <1>4, <1>5 DEF Requests!Withdraw, Wanted, Pending, Owed

LEMMA AppliesIsApply ==
  ASSUME QueueOK, Applies
  PROVE  \E n \in Programs : Requests!ApplyWithdrawal(n) \/ Requests!ApplySelection(n)
<1> DEFINE q == queue
           r == queue'
           c == Head(queue)
           n == c.program
<1>1. /\ CoalescedIn(q) /\ q \in Seq(Change) /\ q # <<>> /\ r = Tail(q)
      /\ programs' = [programs EXCEPT ![n] = c.version]
      /\ programs \in [Programs -> Versions \cup {NoProgram}]
  BY QueueAsValue DEF QueueOK, Applies, Applied
<1>2. /\ c \in Change /\ r \in Seq(Change) /\ CoalescedIn(r)
      /\ QueuedIn(q, n) # {}
      /\ QueuedIn(r, n) = {} => q[LastIn(q, n)] = c
      /\ QueuedIn(r, n) # {} => r[LastIn(r, n)].op = "Set" /\ c.op = "Remove"
      /\ RemovingIn(q, n) <=> c.op = "Remove"
      /\ ~RemovingIn(r, n)
      /\ \A m : QueuedIn(r, m) # {} => r[LastIn(r, m)] = q[LastIn(q, m)]
      /\ \A m : m # n => /\ QueuedIn(r, m) = {} <=> QueuedIn(q, m) = {}
                         /\ RemovingIn(r, m) <=> RemovingIn(q, m)
  <2>1. c = Head(q)
    OBVIOUS
  <2> HIDE DEF q, r, c
  <2>2. Leaves(q, c, r)
    BY <1>1, <2>1, ReleaseCoalesces
  <2> QED BY <2>2 DEF Leaves
<1>3. /\ n \in Programs /\ c.op \in {"Set", "Remove"}
      /\ c.op = "Remove" => c.version = NoProgram
  BY <1>2 DEF Change, Set, Remove
<1>4. QueuedIn(r, n) # {} => r[LastIn(r, n)].version \in Versions
  <2> SUFFICES ASSUME QueuedIn(r, n) # {} PROVE r[LastIn(r, n)].version \in Versions
    OBVIOUS
  <2>1. LastIn(r, n) \in DOMAIN r
    BY <1>2, LastExists DEF QueuedIn
  <2> QED BY <1>2, <2>1, ChangeFields
<1> HIDE DEF q, r, c, n
<1>5. Wanted' = Wanted
  <2> SUFFICES ASSUME NEW m \in Programs
               PROVE  (IF QueuedIn(r, m) = {} THEN programs'[m] ELSE r[LastIn(r, m)].version)
                      = (IF QueuedIn(q, m) = {} THEN programs[m] ELSE q[LastIn(q, m)].version)
    BY SeenAsValue, SeenAsValueNext DEF q, r
  <2>1. CASE QueuedIn(r, m) # {}
    BY <1>2, <2>1
  <2>2. CASE QueuedIn(r, m) = {} /\ m = n
    BY <1>1, <1>2, <1>3, <2>2
  <2>3. CASE QueuedIn(r, m) = {} /\ m # n
    BY <1>1, <1>2, <1>3, <2>3
  <2> QED BY <2>1, <2>2, <2>3
<1>6. Owed' = Owed \ {n} /\ (n \in Owed <=> c.op = "Remove") /\ n \in Pending
  BY <1>2, <1>3, SeenAsValue, SeenAsValueNext DEF q, r
<1>7. Pending' = IF QueuedIn(r, n) = {} THEN Pending \ {n} ELSE Pending
  BY <1>2, <1>3, SeenAsValue, SeenAsValueNext DEF q, r
<1>8. Wanted[n] = q[LastIn(q, n)].version
  BY <1>2, <1>3, SeenAsValue DEF q
<1>9. CASE c.op = "Remove"
  <2>1. programs' = [programs EXCEPT ![n] = NoProgram]
    BY <1>1, <1>3, <1>9
  <2>2. CASE QueuedIn(r, n) = {}
    <3>1. Wanted[n] = NoProgram
      BY <1>2, <1>3, <1>8, <1>9, <2>2
    <3> QED
      BY <1>3, <1>5, <1>6, <1>7, <1>9, <2>1, <2>2, <3>1
         DEF Requests!ApplyWithdrawal, Wanted, Pending, Owed
  <2>3. CASE QueuedIn(r, n) # {}
    <3>1. Wanted[n] # NoProgram
      BY <1>2, <1>4, <1>8, <2>3, ProgramAssumption
    <3> QED
      BY <1>3, <1>5, <1>6, <1>7, <1>9, <2>1, <2>3, <3>1
         DEF Requests!ApplyWithdrawal, Wanted, Pending, Owed
  <2> QED BY <2>2, <2>3
<1>10. CASE c.op = "Set"
  <2>1. QueuedIn(r, n) = {}
    BY <1>2, <1>10
  <2>2. programs' = [programs EXCEPT ![n] = Wanted[n]]
    BY <1>1, <1>2, <1>8, <2>1
  <2>3. Owed' = Owed /\ n \in Pending \ Owed
    BY <1>6, <1>10
  <2> QED
    BY <1>3, <1>5, <1>7, <2>1, <2>2, <2>3
       DEF Requests!ApplySelection, Wanted, Pending, Owed
<1> QED BY <1>3, <1>9, <1>10

\* Requests coalesce and the last one wins: what the pacer does to the selected
\* programs is what ProgramRequests allows, whatever the gate does in between.
THEOREM PacerServesRequests == Spec => LastRequestWins
<1>1. Init => Requests!Init
  <2> SUFFICES ASSUME Init PROVE Requests!Init
    OBVIOUS
  <2>1. queue = <<>> /\ programs = [n \in Programs |-> NoProgram]
    BY DEF Init
  <2>2. \A n : Queued(n) = {}
    BY <2>1 DEF Queued
  <2> QED BY <2>1, <2>2 DEF Requests!Init
<1>2. QueueOK /\ [Next]_vars => [Requests!Next]_(Requests!vars)
  <2> SUFFICES ASSUME QueueOK, [Next]_vars PROVE [Requests!Next]_(Requests!vars)
    OBVIOUS
  <2>1. CASE Still
    BY <2>1 DEF Still, Requests!vars, Queued, LastQueued
  <2>2. ASSUME NEW n \in Programs, NEW v \in Versions, Selects(n, v)
        PROVE  Requests!Next
    BY <2>2, SelectsIsSelect DEF Requests!Next
  <2>3. ASSUME NEW n \in Programs, Withdraws(n) PROVE Requests!Next
    BY <2>3, WithdrawsIsWithdraw DEF Requests!Next
  <2>4. CASE Applies
    BY <2>4, AppliesIsApply DEF Requests!Next
  <2> QED BY <2>1, <2>2, <2>3, <2>4, FourSteps
<1> QED BY <1>1, <1>2, QueueHolds, PTL DEF Spec, LastRequestWins, Requests!Spec

-----------------------------------------------------------------------------
(* The Conditional Access resource keeps its sessions and the modules in   *)
(* step with the registry, for any programs, contents, CA systems and      *)
(* sessions. The invariants are inductive together with the fact that only *)
(* a live session has CA systems; all of them speak of one session at a    *)
(* time, and so does the argument.                                           *)

\* The programs a session with the CA systems ids has to have selected.
SelectionOf(ds, ids) ==
    [n \in ProgramNumbers |-> IF Matches(ds[n], ids) THEN ds[n] ELSE None]

\* The module's list l is what the selection says, but for what was missed.
Follows(l, sel, ids, ms) ==
    \A n \in ProgramNumbers :
        n \notin ms => l[n] = IF sel[n] = None THEN None ELSE CaPmt(sel[n], ids)

\* What holds of a session's CA systems, selection, list and missed programs.
Faithful(ids, sel, l, ms) ==
    /\ \A n \in ProgramNumbers : sel[n] # None => ids # None /\ Matches(sel[n], ids)
    /\ Follows(l, sel, ids, ms)

\* A selection, or the registry, with another entry for program n.
Changed(f, n, x) == [f EXCEPT ![n] = x]

\* The values the variables take.
Wishes == Contents \cup {None}
Infos == {None} \cup SUBSET Systems
Selections == [ProgramNumbers -> Contents \cup {None}]
Lists == [ProgramNumbers -> Entries]

AccessIInv ==
    /\ AccessTypeOK
    /\ \A s \in Sessions :
          /\ caids[s] # None => s \in open
          /\ caids[s] # None /\ ~cut[s] => selected[s] = SelectionOf(desired, caids[s])
          /\ Faithful(caids[s], selected[s], list[s], missed[s])

\* What the types say of one session.
LEMMA OneSession ==
    ASSUME AccessIInv, NEW s \in Sessions
    PROVE  /\ desired \in Selections
           /\ caids[s] \in {None} \cup SUBSET Systems
           /\ selected[s] \in Selections /\ list[s] \in Lists
           /\ cut[s] \in BOOLEAN /\ missed[s] \in SUBSET ProgramNumbers
           /\ caids[s] # None => s \in open
           /\ caids[s] # None /\ ~cut[s] => selected[s] = SelectionOf(desired, caids[s])
           /\ Faithful(caids[s], selected[s], list[s], missed[s])
  BY DEF AccessIInv, AccessTypeOK, Selections, Lists

\* The invariant is kept when it is kept for every session.
LEMMA EverySession ==
    ASSUME desired' \in Selections, open' \subseteq Sessions,
           caids' = [s \in Sessions |-> caids'[s]],
           selected' = [s \in Sessions |-> selected'[s]],
           list' = [s \in Sessions |-> list'[s]],
           cut' = [s \in Sessions |-> cut'[s]],
           missed' = [s \in Sessions |-> missed'[s]],
           \A s \in Sessions :
              /\ caids'[s] \in {None} \cup SUBSET Systems
              /\ selected'[s] \in Selections /\ list'[s] \in Lists
              /\ cut'[s] \in BOOLEAN /\ missed'[s] \in SUBSET ProgramNumbers
              /\ caids'[s] # None => s \in open'
              /\ caids'[s] # None /\ ~cut'[s]
                    => selected'[s] = SelectionOf(desired', caids'[s])
              /\ Faithful(caids'[s], selected'[s], list'[s], missed'[s])
    PROVE  AccessIInv'
  <1>1. AccessTypeOK'
    BY DEF AccessTypeOK, Selections, Lists
  <1> QED BY <1>1 DEF AccessIInv

\* A CA_PMT is an entry of the module's list and never "not in the list".
LEMMA PmtIsEntry ==
    ASSUME NEW c \in Contents, NEW ids \in SUBSET Systems
    PROVE  CaPmt(c, ids) \in Entries /\ CaPmt(c, ids) # None
  BY AccessAssumption DEF CaPmt, Entries

\* Nothing is selected, kept or missed of a session without CA_INFO.
LEMMA FreshKept ==
    /\ NoPrograms \in Selections /\ NoPrograms \in Lists
    /\ Faithful(None, NoPrograms, NoPrograms, {})
  BY DEF Faithful, Follows, NoPrograms, Selections, Lists, Entries

\* A program sent to a session: whatever the management code, and whether or not
\* the module gets it, only what is missed of the list does not follow.
LEMMA SendKept ==
    ASSUME NEW ds \in Selections, NEW ids \in Infos, ids # None,
           NEW sel \in Selections, NEW l \in Lists, NEW ms \in SUBSET ProgramNumbers,
           Faithful(ids, sel, l, ms),
           NEW n \in ProgramNumbers, NEW c \in Wishes, Matches(c, ids),
           NEW ds2, ds2 = Changed(ds, n, c), NEW sel2, sel2 = Changed(sel, n, c),
           NEW l2, NEW ms2,
           \/ l2 = l /\ ms2 = ms \cup {n}
           \/ /\ l2 = Told(l, Management(sel, n), n, CaPmt(c, ids))
              /\ ms2 = StillMissed(ms, Management(sel, n), n, CaPmt(c, ids))
    PROVE  /\ l2 \in Lists /\ ms2 \in SUBSET ProgramNumbers
           /\ sel2 \in Selections /\ Faithful(ids, sel2, l2, ms2)
           /\ sel = SelectionOf(ds, ids) => sel2 = SelectionOf(ds2, ids)
  <1>0. ids \in SUBSET Systems /\ c \in Contents
    BY DEF Infos, Wishes, Matches
  <1>1. PICK pmt : pmt = CaPmt(c, ids)
    OBVIOUS
  <1>2. pmt \in Entries /\ pmt # None /\ c # None /\ ids # None
    BY <1>0, <1>1, PmtIsEntry, AccessAssumption
  <1>4. /\ sel2 \in Selections /\ sel2[n] = c
        /\ \A m \in ProgramNumbers : m # n => sel2[m] = sel[m]
    BY <1>0 DEF Selections, Changed
  <1>5. /\ \A m \in ProgramNumbers : sel2[m] # None => Matches(sel2[m], ids)
        /\ sel = SelectionOf(ds, ids) => sel2 = SelectionOf(ds2, ids)
    <2>1. \A m \in ProgramNumbers : sel2[m] # None => Matches(sel2[m], ids)
      BY <1>4 DEF Faithful
    <2>2. ASSUME sel = SelectionOf(ds, ids) PROVE sel2 = SelectionOf(ds2, ids)
      BY <2>2 DEF SelectionOf, Selections, Changed
    <2> QED BY <2>1, <2>2
  <1>6. ASSUME NEW m \in ProgramNumbers, m \notin ms
        PROVE  l[m] = IF sel[m] = None THEN None ELSE CaPmt(sel[m], ids)
    BY <1>6 DEF Faithful, Follows
  <1>7. /\ l2 \in Lists /\ ms2 \in SUBSET ProgramNumbers
        /\ Follows(l2, sel2, ids, ms2)
    <2>1. CASE l2 = l /\ ms2 = ms \cup {n}
      BY <2>1, <1>4, <1>6 DEF Follows
    <2>2. CASE /\ l2 = Told(l, Management(sel, n), n, CaPmt(c, ids))
               /\ ms2 = StillMissed(ms, Management(sel, n), n, CaPmt(c, ids))
      <3>1. CASE sel[n] # None
        <4>1. Management(sel, n) = "Update" BY <3>1 DEF Management
        <4>2. l2 = (IF l[n] # None THEN [l EXCEPT ![n] = pmt] ELSE l) /\ ms2 = ms
          BY <1>1, <1>2, <2>2, <4>1 DEF Told, StillMissed
        <4>3. n \notin ms => l[n] # None
          <5>1. sel[n] \in Contents BY <3>1 DEF Selections
          <5> QED BY <1>0, <1>6, <3>1, <5>1, PmtIsEntry
        <4> QED BY <4>2, <4>3, <1>1, <1>2, <1>4, <1>6 DEF Follows, Lists
      <3>2. CASE sel[n] = None /\ sel = NoPrograms
        <4>1. Management(sel, n) = "Only" BY <3>2 DEF Management
        <4>2. l2 = [NoPrograms EXCEPT ![n] = pmt] /\ ms2 = {}
          BY <1>1, <2>2, <4>1 DEF Told, StillMissed
        <4>3. \A m \in ProgramNumbers : sel[m] = None
          BY <3>2 DEF NoPrograms
        <4>4. None \in Entries BY DEF Entries
        <4> QED BY <4>2, <4>3, <4>4, <1>1, <1>2, <1>4 DEF Follows, Lists, NoPrograms
      <3>3. CASE sel[n] = None /\ sel # NoPrograms
        <4>1. Management(sel, n) = "Add" BY <3>3 DEF Management
        <4>2. l2 = [l EXCEPT ![n] = pmt] /\ ms2 = ms \ {n}
          BY <1>1, <2>2, <4>1 DEF Told, StillMissed
        <4> QED BY <4>2, <1>1, <1>2, <1>4, <1>6 DEF Follows, Lists
      <3> QED BY <3>1, <3>2, <3>3
    <2> QED BY <2>1, <2>2
  <1>8. Faithful(ids, sel2, l2, ms2)
    BY <1>2, <1>5, <1>7 DEF Faithful
  <1> QED BY <1>4, <1>5, <1>7, <1>8

\* A program that a session does not get any more: it is withdrawn where it was
\* selected.
LEMMA DropKept ==
    ASSUME NEW ds \in Selections, NEW ids \in Infos,
           NEW sel \in Selections, NEW l \in Lists, NEW ms \in SUBSET ProgramNumbers,
           Faithful(ids, sel, l, ms),
           NEW n \in ProgramNumbers, NEW c \in Wishes,
           ids # None => ~Matches(c, ids),
           NEW ds2, ds2 = Changed(ds, n, c),
           NEW sel2, sel2 = Changed(sel, n, None),
           NEW l2, NEW ms2,
           \/ sel2 = sel /\ l2 = l /\ ms2 = ms
           \/ l2 = l /\ ms2 = ms \cup {n}
           \/ /\ l2 = Told(l, "Update", n, None)
              /\ ms2 = StillMissed(ms, "Update", n, None)
    PROVE  /\ l2 \in Lists /\ ms2 \in SUBSET ProgramNumbers
           /\ sel2 \in Selections /\ Faithful(ids, sel2, l2, ms2)
           /\ ids # None /\ sel = SelectionOf(ds, ids) => sel2 = SelectionOf(ds2, ids)
  <1>2. /\ sel2 \in Selections /\ sel2[n] = None
        /\ \A m \in ProgramNumbers : m # n => sel2[m] = sel[m]
    BY DEF Selections, Changed
  <1>3. \A m \in ProgramNumbers : sel2[m] # None => ids # None /\ Matches(sel2[m], ids)
    BY <1>2 DEF Faithful
  <1>4. ASSUME ids # None, sel = SelectionOf(ds, ids)
        PROVE  sel2 = SelectionOf(ds2, ids)
    BY <1>4 DEF SelectionOf, Selections, Changed
  <1>5. ASSUME NEW m \in ProgramNumbers, m \notin ms
        PROVE  l[m] = IF sel[m] = None THEN None ELSE CaPmt(sel[m], ids)
    BY <1>5 DEF Faithful, Follows
  <1>6. /\ l2 \in Lists /\ ms2 \in SUBSET ProgramNumbers
        /\ Follows(l2, sel2, ids, ms2)
    <2>1. CASE sel2 = sel /\ l2 = l /\ ms2 = ms
      BY <2>1, <1>2, <1>5 DEF Follows
    <2>2. CASE l2 = l /\ ms2 = ms \cup {n}
      BY <2>2, <1>2, <1>5 DEF Follows
    <2>3. CASE /\ l2 = Told(l, "Update", n, None)
               /\ ms2 = StillMissed(ms, "Update", n, None)
      <3>1. l2 = [l EXCEPT ![n] = None] /\ ms2 = ms \ {n}
        BY <2>3 DEF Told, StillMissed, Lists
      <3>2. None \in Entries BY DEF Entries
      <3> QED BY <3>1, <3>2, <1>2, <1>5 DEF Follows, Lists
    <2> QED BY <2>1, <2>2, <2>3
  <1>7. Faithful(ids, sel2, l2, ms2)
    BY <1>3, <1>6 DEF Faithful
  <1> QED BY <1>2, <1>4, <1>6, <1>7

LEMMA InitIInv == AccessInit => AccessIInv
  <1> SUFFICES ASSUME AccessInit PROVE AccessIInv
    OBVIOUS
  <1>1. AccessTypeOK
    BY DEF AccessInit, AccessTypeOK, NoPrograms, Entries
  <1>2. ASSUME NEW s \in Sessions
        PROVE  caids[s] = None /\ Faithful(caids[s], selected[s], list[s], missed[s])
    BY FreshKept DEF AccessInit
  <1> QED BY <1>1, <1>2 DEF AccessIInv

LEMMA RecoveredIInv ==
    ASSUME AccessIInv, Recovered, desired' \in Selections
    PROVE  AccessIInv'
  <1>1. ASSUME NEW s \in Sessions
        PROVE  /\ caids'[s] = None /\ selected'[s] = NoPrograms /\ list'[s] = NoPrograms
               /\ cut'[s] = FALSE /\ missed'[s] = {}
    BY DEF Recovered
  <1>2. ASSUME NEW s \in Sessions
        PROVE  /\ caids'[s] \in {None} \cup SUBSET Systems
               /\ selected'[s] \in Selections /\ list'[s] \in Lists
               /\ cut'[s] \in BOOLEAN /\ missed'[s] \in SUBSET ProgramNumbers
               /\ caids'[s] # None => s \in open'
               /\ caids'[s] # None /\ ~cut'[s]
                     => selected'[s] = SelectionOf(desired', caids'[s])
               /\ Faithful(caids'[s], selected'[s], list'[s], missed'[s])
    BY <1>1, FreshKept
  <1>3. open' \subseteq Sessions
    BY DEF Recovered
  <1>4. /\ caids' = [s \in Sessions |-> caids'[s]]
        /\ selected' = [s \in Sessions |-> selected'[s]]
        /\ list' = [s \in Sessions |-> list'[s]]
        /\ cut' = [s \in Sessions |-> cut'[s]]
        /\ missed' = [s \in Sessions |-> missed'[s]]
    BY DEF Recovered
  <1> QED BY <1>2, <1>3, <1>4, EverySession

\* set_program(): every session that matches is sent the program, the others
\* drop it, and a lost command is missed of that program alone.
LEMMA SetProgramIInv ==
    ASSUME AccessIInv, NEW n \in ProgramNumbers, NEW c \in Contents, SetProgram(n, c)
    PROVE  AccessIInv'
  <1>0. desired \in Selections /\ open \subseteq Sessions
    BY DEF AccessIInv, AccessTypeOK, Selections
  <1>1. desired' = [desired EXCEPT ![n] = c] /\ desired' \in Selections
    BY <1>0 DEF SetProgram, Selections
  <1>2. CASE Recovered
    BY <1>1, <1>2, RecoveredIInv
  <1>3. CASE ~Recovered
    <2> DEFINE sends == {s \in Sessions : caids[s] # None /\ Matches(c, caids[s])}
               told == sends \cup {s \in Sessions : selected[s][n] # None}
               code(s) == IF s \in sends THEN Management(selected[s], n) ELSE "Update"
               pmt(s) == IF s \in sends THEN CaPmt(c, caids[s]) ELSE None
    <2>1. /\ selected' = [s \in Sessions |->
                 [selected[s] EXCEPT ![n] = IF s \in sends THEN c ELSE None]]
          /\ open' = open /\ caids' = caids /\ cut' = cut
          /\ \E lost \in SUBSET (told \cap Lossy) : Commands(told, lost, code, n, pmt)
      BY <1>3 DEF SetProgram
    <2>2. PICK lost \in SUBSET told : Commands(told, lost, code, n, pmt)
      BY <2>1
    <2>3. /\ list' = [s \in Sessions |->
                IF s \in told \ lost THEN Told(list[s], code(s), n, pmt(s)) ELSE list[s]]
          /\ missed' = [s \in Sessions |->
                CASE s \in lost -> missed[s] \cup {n}
                  [] s \in told \ lost -> StillMissed(missed[s], code(s), n, pmt(s))
                  [] OTHER -> missed[s]]
      BY <2>2 DEF Commands
    <2>4. ASSUME NEW s \in Sessions
          PROVE  /\ caids'[s] \in {None} \cup SUBSET Systems
                 /\ selected'[s] \in Selections /\ list'[s] \in Lists
                 /\ cut'[s] \in BOOLEAN /\ missed'[s] \in SUBSET ProgramNumbers
                 /\ caids'[s] # None => s \in open'
                 /\ caids'[s] # None /\ ~cut'[s]
                       => selected'[s] = SelectionOf(desired', caids'[s])
                 /\ Faithful(caids'[s], selected'[s], list'[s], missed'[s])
      <3>1. /\ caids'[s] = caids[s] /\ cut'[s] = cut[s] /\ (s \in open') = (s \in open)
            /\ selected'[s] = [selected[s] EXCEPT ![n] = IF s \in sends THEN c ELSE None]
            /\ list'[s] = IF s \in told \ lost THEN Told(list[s], code(s), n, pmt(s))
                          ELSE list[s]
            /\ missed'[s] = CASE s \in lost -> missed[s] \cup {n}
                              [] s \in told \ lost
                                    -> StillMissed(missed[s], code(s), n, pmt(s))
                              [] OTHER -> missed[s]
        <4> HIDE DEF code, pmt, sends, told
        <4> QED BY <2>1, <2>3
      <3>2. CASE s \in sends
        <4>1. /\ s \in told /\ caids[s] \in SUBSET Systems /\ Matches(c, caids[s])
              /\ code(s) = Management(selected[s], n) /\ pmt(s) = CaPmt(c, caids[s])
          BY <3>2, OneSession
        <4>2. \/ list'[s] = list[s] /\ missed'[s] = missed[s] \cup {n}
              \/ /\ list'[s] = Told(list[s], Management(selected[s], n), n,
                                    CaPmt(c, caids[s]))
                 /\ missed'[s] = StillMissed(missed[s], Management(selected[s], n), n,
                                             CaPmt(c, caids[s]))
          <5> HIDE DEF code, pmt, sends, told
          <5> QED BY <3>1, <4>1
        <4>3. selected'[s] = [selected[s] EXCEPT ![n] = c]
          BY <3>1, <3>2
        <4> HIDE DEF code, pmt, sends, told
        <4>4. PICK ids, sel, l, ms, ds2, sel2, l2, ms2 :
                 /\ ids = caids[s] /\ sel = selected[s]
                 /\ l = list[s] /\ ms = missed[s]
                 /\ l2 = list'[s] /\ ms2 = missed'[s]
                 /\ ds2 = desired' /\ sel2 = selected'[s]
          OBVIOUS
        <4>5. /\ desired \in Selections /\ ids \in Infos
              /\ sel \in Selections /\ l \in Lists
              /\ ms \in SUBSET ProgramNumbers /\ Faithful(ids, sel, l, ms)
          BY OneSession, <4>4 DEF Infos
        <4>6. /\ c \in Wishes /\ ids # None
              /\ Matches(c, ids) /\ ds2 = Changed(desired, n, c)
              /\ sel2 = Changed(sel, n, c)
              /\ \/ l2 = l /\ ms2 = ms \cup {n}
                 \/ /\ l2 = Told(l, Management(sel, n), n, CaPmt(c, ids))
                    /\ ms2 = StillMissed(ms, Management(sel, n), n, CaPmt(c, ids))
          <5>1. caids[s] # None
            BY <4>1, AccessAssumption
          <5>2. c \in Wishes /\ ids # None /\ Matches(c, ids)
            BY <4>1, <4>4, <5>1 DEF Wishes
          <5> QED BY <1>1, <4>2, <4>3, <4>4, <5>2 DEF Changed
        <4>7. /\ l2 \in Lists /\ ms2 \in SUBSET ProgramNumbers
              /\ sel2 \in Selections /\ Faithful(ids, sel2, l2, ms2)
              /\ ids # None /\ sel = SelectionOf(desired, ids) => sel2 = SelectionOf(ds2, ids)
          BY <4>5, <4>6, SendKept
        <4> QED BY OneSession, <1>1, <3>1, <4>3, <4>4, <4>5, <4>7
      <3>3. CASE s \notin sends
        <4>1. /\ caids[s] # None => ~Matches(c, caids[s])
              /\ s \in told <=> selected[s][n] # None
              /\ code(s) = "Update" /\ pmt(s) = None
          BY <3>3
        <4>2. \/ selected[s][n] = None /\ list'[s] = list[s] /\ missed'[s] = missed[s]
              \/ list'[s] = list[s] /\ missed'[s] = missed[s] \cup {n}
              \/ /\ list'[s] = Told(list[s], "Update", n, None)
                 /\ missed'[s] = StillMissed(missed[s], "Update", n, None)
          <5> HIDE DEF code, pmt, sends, told
          <5> QED BY <2>2, <3>1, <4>1
        <4>3. selected'[s] = [selected[s] EXCEPT ![n] = None]
          BY <3>1, <3>3
        <4> HIDE DEF code, pmt, sends, told
        <4>4. PICK ids, sel, l, ms, ds2, sel2, l2, ms2 :
                 /\ ids = caids[s] /\ sel = selected[s]
                 /\ l = list[s] /\ ms = missed[s]
                 /\ l2 = list'[s] /\ ms2 = missed'[s]
                 /\ ds2 = desired' /\ sel2 = selected'[s]
          OBVIOUS
        <4>5. /\ desired \in Selections
              /\ ids \in Infos
              /\ sel \in Selections /\ l \in Lists
              /\ ms \in SUBSET ProgramNumbers /\ Faithful(ids, sel, l, ms)
          BY OneSession, <4>4 DEF Infos
        <4>6. /\ c \in Wishes
              /\ ids # None => ~Matches(c, ids)
              /\ ds2 = Changed(desired, n, c) /\ sel2 = Changed(sel, n, None)
              /\ \/ sel2 = sel /\ l2 = l /\ ms2 = ms
                 \/ l2 = l /\ ms2 = ms \cup {n}
                 \/ /\ l2 = Told(l, "Update", n, None)
                    /\ ms2 = StillMissed(ms, "Update", n, None)
          <5>1. sel[n] = None => sel2 = sel
            BY <4>3, <4>4, <4>5 DEF Selections
          <5> QED BY <1>1, <4>1, <4>2, <4>3, <4>4, <5>1 DEF Changed, Wishes
        <4>7. /\ l2 \in Lists /\ ms2 \in SUBSET ProgramNumbers
              /\ sel2 \in Selections /\ Faithful(ids, sel2, l2, ms2)
              /\ ids # None /\ sel = SelectionOf(desired, ids) => sel2 = SelectionOf(ds2, ids)
          BY <4>5, <4>6, DropKept
        <4> QED BY OneSession, <1>1, <3>1, <4>3, <4>4, <4>5, <4>7
      <3> QED BY <3>2, <3>3
    <2>5. /\ caids' = [s \in Sessions |-> caids'[s]]
          /\ selected' = [s \in Sessions |-> selected'[s]]
          /\ list' = [s \in Sessions |-> list'[s]]
          /\ cut' = [s \in Sessions |-> cut'[s]]
          /\ missed' = [s \in Sessions |-> missed'[s]]
      <3>1. caids = [s \in Sessions |-> caids[s]] /\ cut = [s \in Sessions |-> cut[s]]
        BY DEF AccessIInv, AccessTypeOK
      <3> HIDE DEF code, pmt, sends, told
      <3> QED BY <2>1, <2>3, <3>1
    <2> QED BY <1>0, <1>1, <2>1, <2>4, <2>5, EverySession
  <1> QED BY <1>2, <1>3

\* remove_program() withdraws the program where it is selected.
LEMMA RemoveProgramIInv ==
    ASSUME AccessIInv, NEW n \in ProgramNumbers, RemoveProgram(n)
    PROVE  AccessIInv'
  <1>0. desired \in Selections /\ open \subseteq Sessions
    BY DEF AccessIInv, AccessTypeOK, Selections
  <1>1. desired' = [desired EXCEPT ![n] = None] /\ desired' \in Selections
    BY <1>0 DEF RemoveProgram, Selections
  <1>2. CASE Recovered
    BY <1>1, <1>2, RecoveredIInv
  <1>3. CASE ~Recovered
    <2> DEFINE told == {s \in Sessions : selected[s][n] # None}
               code(s) == "Update"
               pmt(s) == None
    <2>1. /\ selected' = [s \in Sessions |-> [selected[s] EXCEPT ![n] = None]]
          /\ open' = open /\ caids' = caids /\ cut' = cut
          /\ \E lost \in SUBSET (told \cap Lossy) : Commands(told, lost, code, n, pmt)
      BY <1>3 DEF RemoveProgram
    <2>2. PICK lost \in SUBSET told : Commands(told, lost, code, n, pmt)
      BY <2>1
    <2>3. /\ list' = [s \in Sessions |->
                IF s \in told \ lost THEN Told(list[s], "Update", n, None) ELSE list[s]]
          /\ missed' = [s \in Sessions |->
                CASE s \in lost -> missed[s] \cup {n}
                  [] s \in told \ lost -> StillMissed(missed[s], "Update", n, None)
                  [] OTHER -> missed[s]]
      BY <2>2 DEF Commands
    <2>4. ASSUME NEW s \in Sessions
          PROVE  /\ caids'[s] \in {None} \cup SUBSET Systems
                 /\ selected'[s] \in Selections /\ list'[s] \in Lists
                 /\ cut'[s] \in BOOLEAN /\ missed'[s] \in SUBSET ProgramNumbers
                 /\ caids'[s] # None => s \in open'
                 /\ caids'[s] # None /\ ~cut'[s]
                       => selected'[s] = SelectionOf(desired', caids'[s])
                 /\ Faithful(caids'[s], selected'[s], list'[s], missed'[s])
      <3>1. /\ caids'[s] = caids[s] /\ cut'[s] = cut[s] /\ (s \in open') = (s \in open)
            /\ selected'[s] = [selected[s] EXCEPT ![n] = None]
            /\ s \in told <=> selected[s][n] # None
        BY <2>1
      <3>2. \/ selected[s][n] = None /\ list'[s] = list[s] /\ missed'[s] = missed[s]
            \/ list'[s] = list[s] /\ missed'[s] = missed[s] \cup {n}
            \/ /\ list'[s] = Told(list[s], "Update", n, None)
               /\ missed'[s] = StillMissed(missed[s], "Update", n, None)
        <4> HIDE DEF told
        <4> QED BY <2>2, <2>3, <3>1
      <3> HIDE DEF told
      <3>0. PICK c \in Wishes : c = None
        BY DEF Wishes
      <3>3. PICK ids, sel, l, ms, ds2, sel2, l2, ms2 :
               /\ ids = caids[s] /\ sel = selected[s]
               /\ l = list[s] /\ ms = missed[s]
               /\ l2 = list'[s] /\ ms2 = missed'[s]
               /\ ds2 = desired' /\ sel2 = selected'[s]
        OBVIOUS
      <3>4. /\ desired \in Selections
            /\ ids \in Infos
            /\ sel \in Selections /\ l \in Lists
            /\ ms \in SUBSET ProgramNumbers /\ Faithful(ids, sel, l, ms)
        BY OneSession, <3>3 DEF Infos
      <3>5. /\ c \in Wishes
            /\ ids # None => ~Matches(c, ids)
            /\ ds2 = Changed(desired, n, c) /\ sel2 = Changed(sel, n, None)
            /\ \/ sel2 = sel /\ l2 = l /\ ms2 = ms
               \/ l2 = l /\ ms2 = ms \cup {n}
               \/ /\ l2 = Told(l, "Update", n, None)
                  /\ ms2 = StillMissed(ms, "Update", n, None)
        <4>1. sel[n] = None => sel2 = sel
          BY <3>1, <3>3, <3>4 DEF Selections
        <4>2. ~Matches(None, ids)
          BY DEF Matches
        <4> QED BY <1>1, <3>1, <3>2, <3>0, <3>3, <4>1, <4>2 DEF Changed, Wishes
      <3>6. /\ l2 \in Lists /\ ms2 \in SUBSET ProgramNumbers
            /\ sel2 \in Selections /\ Faithful(ids, sel2, l2, ms2)
            /\ ids # None /\ sel = SelectionOf(desired, ids) => sel2 = SelectionOf(ds2, ids)
        BY <3>4, <3>5, DropKept
      <3> QED BY OneSession, <1>1, <3>1, <3>3, <3>4, <3>6
    <2>5. /\ caids' = [s \in Sessions |-> caids'[s]]
          /\ selected' = [s \in Sessions |-> selected'[s]]
          /\ list' = [s \in Sessions |-> list'[s]]
          /\ cut' = [s \in Sessions |-> cut'[s]]
          /\ missed' = [s \in Sessions |-> missed'[s]]
      <3>1. caids = [s \in Sessions |-> caids[s]] /\ cut = [s \in Sessions |-> cut[s]]
        BY DEF AccessIInv, AccessTypeOK
      <3> HIDE DEF told
      <3> QED BY <2>1, <2>3, <3>1
    <2> QED BY <1>0, <1>1, <2>1, <2>4, <2>5, EverySession
  <1> QED BY <1>2, <1>3

\* A step of one session alone: the registry and the other sessions stay as they
\* are.
LEMMA OneSessionIInv ==
    ASSUME AccessIInv, NEW s \in Sessions, NEW live \in BOOLEAN,
           NEW ids \in {None} \cup SUBSET Systems, NEW sel \in Selections,
           NEW l \in Lists, NEW ct \in BOOLEAN, NEW ms \in SUBSET ProgramNumbers,
           ids # None => live, ids # None /\ ~ct => sel = SelectionOf(desired, ids),
           Faithful(ids, sel, l, ms),
           desired' = desired, open' \subseteq Sessions, (s \in open') = live,
           \A t \in Sessions : t # s => (t \in open') = (t \in open),
           caids' = [caids EXCEPT ![s] = ids],
           selected' = [selected EXCEPT ![s] = sel],
           list' = [list EXCEPT ![s] = l],
           cut' = [cut EXCEPT ![s] = ct],
           missed' = [missed EXCEPT ![s] = ms]
    PROVE  AccessIInv'
  <1>1. /\ caids'[s] = ids /\ selected'[s] = sel /\ list'[s] = l /\ cut'[s] = ct
        /\ missed'[s] = ms
    BY DEF AccessIInv, AccessTypeOK
  <1>2. ASSUME NEW t \in Sessions, t # s
        PROVE  /\ caids'[t] = caids[t] /\ selected'[t] = selected[t]
               /\ list'[t] = list[t] /\ cut'[t] = cut[t] /\ missed'[t] = missed[t]
               /\ (t \in open') = (t \in open)
    BY <1>2 DEF AccessIInv, AccessTypeOK
  <1>3. ASSUME NEW t \in Sessions
        PROVE  /\ caids'[t] \in {None} \cup SUBSET Systems
               /\ selected'[t] \in Selections /\ list'[t] \in Lists
               /\ cut'[t] \in BOOLEAN /\ missed'[t] \in SUBSET ProgramNumbers
               /\ caids'[t] # None => t \in open'
               /\ caids'[t] # None /\ ~cut'[t]
                     => selected'[t] = SelectionOf(desired', caids'[t])
               /\ Faithful(caids'[t], selected'[t], list'[t], missed'[t])
    <2>1. CASE t = s
      BY <1>1, <2>1
    <2>2. CASE t # s
      BY <1>2, <2>2, OneSession
    <2> QED BY <2>1, <2>2
  <1>4. /\ caids' = [t \in Sessions |-> caids'[t]]
        /\ selected' = [t \in Sessions |-> selected'[t]]
        /\ list' = [t \in Sessions |-> list'[t]]
        /\ cut' = [t \in Sessions |-> cut'[t]]
        /\ missed' = [t \in Sessions |-> missed'[t]]
    BY DEF AccessIInv, AccessTypeOK
  <1>5. desired' \in Selections
    BY DEF AccessIInv, AccessTypeOK, Selections
  <1> QED BY <1>3, <1>4, <1>5, EverySession

LEMMA OpenIInv ==
    ASSUME AccessIInv, NEW s \in Sessions, Open(s)
    PROVE  AccessIInv'
  <1>1. ASSUME NEW t \in Sessions
        PROVE  /\ caids'[t] # None => t \in open'
               /\ caids'[t] # None /\ ~cut'[t]
                     => selected'[t] = SelectionOf(desired', caids'[t])
               /\ Faithful(caids'[t], selected'[t], list'[t], missed'[t])
    BY OneSession DEF Open
  <1>2. AccessTypeOK'
    BY DEF Open, AccessIInv, AccessTypeOK
  <1> QED BY <1>1, <1>2 DEF AccessIInv

LEMMA CloseIInv ==
    ASSUME AccessIInv, NEW s \in Sessions, Close(s)
    PROVE  AccessIInv'
  <1>1. /\ open' \subseteq Sessions /\ (s \in open') = FALSE
        /\ \A t \in Sessions : t # s => (t \in open') = (t \in open)
    BY DEF Close, AccessIInv, AccessTypeOK
  <1>2. Faithful(None, NoPrograms, NoPrograms, {})
        /\ NoPrograms \in Selections /\ NoPrograms \in Lists
    BY FreshKept
  <1>3. /\ desired' = desired
        /\ caids' = [caids EXCEPT ![s] = None]
        /\ selected' = [selected EXCEPT ![s] = NoPrograms]
        /\ list' = [list EXCEPT ![s] = NoPrograms]
        /\ cut' = [cut EXCEPT ![s] = FALSE]
        /\ missed' = [missed EXCEPT ![s] = {}]
    BY DEF Close
  <1>4. None \in {None} \cup SUBSET Systems /\ {} \in SUBSET ProgramNumbers
        /\ FALSE \in BOOLEAN
    OBVIOUS
  <1> QED BY <1>1, <1>2, <1>3, <1>4, OneSessionIInv

\* The list after an answer to CA_INFO, whichever of its commands arrive: a list
\* of entries; the programs that arrived are on it as they were sent, and without
\* the Only the others are as they were.
LEMMA RestoredIs ==
    ASSUME AccessIInv, NEW s \in Sessions, NEW ids \in SUBSET Systems,
           NEW got \in SUBSET Restores(s, ids),
           NEW chosen, chosen = Selection(ids),
           NEW l, l = Restored(s, ids, got)
    PROVE  /\ chosen \in Selections /\ chosen = SelectionOf(desired, ids)
           /\ \A n \in ProgramNumbers : chosen[n] # None => Matches(chosen[n], ids)
           /\ l \in Lists
           /\ \A n \in ProgramNumbers :
                 /\ n \in got => l[n] = IF chosen[n] = None THEN None
                                        ELSE CaPmt(chosen[n], ids)
                 /\ n \notin got => l[n] = IF OnlyArrives(ids, got) THEN None
                                           ELSE list[s][n]
  <1>1. /\ chosen \in Selections /\ chosen = SelectionOf(desired, ids)
        /\ \A n \in ProgramNumbers : chosen[n] # None => Matches(chosen[n], ids)
    BY DEF Selection, SelectionOf, Selections, AccessIInv, AccessTypeOK
  <1>2. \A n \in ProgramNumbers : chosen[n] # None => CaPmt(chosen[n], ids) \in Entries
    BY <1>1, PmtIsEntry DEF Selections
  <1>3. list[s] \in Lists /\ None \in Entries
    BY OneSession DEF Entries
  <1>4. l = [n \in ProgramNumbers |->
               CASE n \in got /\ chosen[n] # None -> CaPmt(chosen[n], ids)
                 [] n \in got /\ chosen[n] = None -> None
                 [] n \notin got /\ OnlyArrives(ids, got) -> None
                 [] OTHER -> list[s][n]]
    BY DEF Restored
  <1>5. ASSUME NEW n \in ProgramNumbers
        PROVE  /\ l[n] \in Entries
               /\ n \in got => l[n] = IF chosen[n] = None THEN None
                                      ELSE CaPmt(chosen[n], ids)
               /\ n \notin got => l[n] = IF OnlyArrives(ids, got) THEN None
                                         ELSE list[s][n]
    BY <1>2, <1>3, <1>4 DEF Lists
  <1>6. l \in Lists
    BY <1>4, <1>5 DEF Lists
  <1> QED BY <1>1, <1>5, <1>6

\* A complete answer: a program no command of which was lost is kept as it is
\* selected, even when none matches and all that was selected is withdrawn.
LEMMA CaInfoIInv ==
    ASSUME AccessIInv, NEW s \in Sessions, NEW ids \in SUBSET Systems, CaInfo(s, ids)
    PROVE  AccessIInv'
  <1>1. PICK got \in SUBSET Restores(s, ids) :
          /\ list' = [list EXCEPT ![s] = Restored(s, ids, got)]
          /\ missed' = [missed EXCEPT ![s] =
                (IF OnlyArrives(ids, got) THEN Restores(s, ids)
                 ELSE @ \cup Restores(s, ids)
                        \cup {n \in ProgramNumbers : selected[s][n] # None}) \ got]
    BY DEF CaInfo
  <1>2. /\ s \in open /\ desired' = desired /\ open' = open
        /\ caids' = [caids EXCEPT ![s] = ids]
        /\ selected' = [selected EXCEPT ![s] = Selection(ids)]
        /\ cut' = [cut EXCEPT ![s] = FALSE]
    BY DEF CaInfo
  <1>3. PICK chosen, l, ms :
          /\ chosen = Selection(ids)
          /\ l = Restored(s, ids, got)
          /\ ms = (IF OnlyArrives(ids, got) THEN Restores(s, ids)
                   ELSE missed[s] \cup Restores(s, ids)
                          \cup {n \in ProgramNumbers : selected[s][n] # None}) \ got
    OBVIOUS
  <1>4. /\ chosen \in Selections /\ chosen = SelectionOf(desired, ids)
        /\ \A n \in ProgramNumbers : chosen[n] # None => Matches(chosen[n], ids)
        /\ l \in Lists
        /\ \A n \in ProgramNumbers :
              /\ n \in got => l[n] = IF chosen[n] = None THEN None
                                     ELSE CaPmt(chosen[n], ids)
              /\ n \notin got => l[n] = IF OnlyArrives(ids, got) THEN None
                                        ELSE list[s][n]
    BY <1>3, RestoredIs
  <1>5. /\ Restores(s, ids) \in SUBSET ProgramNumbers
        /\ \A n \in ProgramNumbers : chosen[n] # None => n \in Restores(s, ids)
    BY <1>3 DEF Restores, NoPrograms
  <1>6. ms \in SUBSET ProgramNumbers
    BY <1>3, <1>5, OneSession
  <1>7. ASSUME NEW n \in ProgramNumbers, n \notin ms
        PROVE  l[n] = IF chosen[n] = None THEN None ELSE CaPmt(chosen[n], ids)
    <2>1. CASE n \in got
      BY <1>4, <2>1
    <2>2. CASE n \notin got /\ OnlyArrives(ids, got)
      BY <1>3, <1>4, <1>5, <1>7, <2>2
    <2>3. CASE n \notin got /\ ~OnlyArrives(ids, got)
      <3>1. n \notin missed[s] /\ n \notin Restores(s, ids) /\ selected[s][n] = None
        BY <1>3, <1>7, <2>3
      <3>2. list[s][n] = None
        BY <3>1, OneSession DEF Faithful, Follows
      <3> QED BY <1>4, <1>5, <2>3, <3>1, <3>2
    <2> QED BY <2>1, <2>2, <2>3
  <1>8. Faithful(ids, chosen, l, ms)
    <2>1. ids # None
      BY AccessAssumption
    <2> QED BY <1>4, <1>7, <2>1 DEF Faithful, Follows
  <1>9. /\ list' = [list EXCEPT ![s] = l] /\ missed' = [missed EXCEPT ![s] = ms]
        /\ selected' = [selected EXCEPT ![s] = chosen]
    BY <1>1, <1>2, <1>3
  <1>10. /\ open' \subseteq Sessions /\ (s \in open') = TRUE
         /\ \A t \in Sessions : (t \in open') = (t \in open)
    BY <1>2 DEF AccessIInv, AccessTypeOK
  <1> QED BY <1>2, <1>4, <1>6, <1>8, <1>9, <1>10, OneSessionIInv

\* A restore that is cut short promises nothing of the list, only that nothing
\* counts as selected.
LEMMA CaInfoCutIInv ==
    ASSUME AccessIInv, NEW s \in Sessions, NEW ids \in SUBSET Systems, CaInfoCut(s, ids)
    PROVE  AccessIInv'
  <1>1. PICK got \in SUBSET Restores(s, ids) :
          list' = [list EXCEPT ![s] = Restored(s, ids, got)]
    BY DEF CaInfoCut
  <1>2. /\ s \in open /\ desired' = desired /\ open' = open
        /\ caids' = [caids EXCEPT ![s] = ids]
        /\ selected' = [selected EXCEPT ![s] = NoPrograms]
        /\ cut' = [cut EXCEPT ![s] = TRUE]
        /\ missed' = [missed EXCEPT ![s] = ProgramNumbers]
    BY DEF CaInfoCut
  <1>3. PICK l : l = Restored(s, ids, got)
    OBVIOUS
  <1>4. l \in Lists
    BY <1>3, RestoredIs
  <1>5. Faithful(ids, NoPrograms, l, ProgramNumbers)
        /\ NoPrograms \in Selections
    BY DEF Faithful, Follows, NoPrograms, Selections
  <1>6. /\ open' \subseteq Sessions /\ (s \in open') = TRUE
        /\ \A t \in Sessions : (t \in open') = (t \in open)
    BY <1>2 DEF AccessIInv, AccessTypeOK
  <1>7. list' = [list EXCEPT ![s] = l] /\ ProgramNumbers \in SUBSET ProgramNumbers
    BY <1>1, <1>3
  <1> QED BY <1>2, <1>4, <1>5, <1>6, <1>7, OneSessionIInv

LEMMA NextIInv == AccessIInv /\ [AccessNext]_accessVars => AccessIInv'
  <1> SUFFICES ASSUME AccessIInv, [AccessNext]_accessVars PROVE AccessIInv'
    OBVIOUS
  <1>1. ASSUME NEW n \in ProgramNumbers, RemoveProgram(n) PROVE AccessIInv'
    BY <1>1, RemoveProgramIInv
  <1>2. ASSUME NEW n \in ProgramNumbers, NEW c \in Contents, SetProgram(n, c) PROVE AccessIInv'
    BY <1>2, SetProgramIInv
  <1>3. ASSUME NEW s \in Sessions, Open(s) \/ Close(s) PROVE AccessIInv'
    BY <1>3, OpenIInv, CloseIInv
  <1>4. ASSUME NEW s \in Sessions, NEW ids \in SUBSET Systems,
               CaInfo(s, ids) \/ CaInfoCut(s, ids)
        PROVE  AccessIInv'
    BY <1>4, CaInfoIInv, CaInfoCutIInv
  <1>5. CASE LinkFails
    <2>1. Recovered /\ desired' = desired
      BY <1>5 DEF LinkFails
    <2>2. desired' \in Selections
      BY <2>1 DEF AccessIInv, AccessTypeOK, Selections
    <2> QED BY <2>1, <2>2, RecoveredIInv
  <1>6. CASE UNCHANGED accessVars
    BY <1>6 DEF accessVars, AccessIInv, AccessTypeOK, Faithful, SelectionOf
  <1> QED BY <1>1, <1>2, <1>3, <1>4, <1>5, <1>6 DEF AccessNext

LEMMA AccessInvariant == AccessSpec => []AccessIInv
  BY InitIInv, NextIInv, PTL DEF AccessSpec

\* Every variable keeps its type: no list entry and no selection is ever
\* anything but a program or its absence.
THEOREM AccessTypes == AccessSpec => []AccessTypeOK
  <1>1. AccessIInv => AccessTypeOK BY DEF AccessIInv
  <1> QED BY <1>1, AccessInvariant, PTL

\* The internal errors of set_program() and remove_program() cannot occur.
THEOREM NoInternalError == AccessSpec => []SelectedMatches
  <1>1. AccessIInv => SelectedMatches
    BY DEF AccessIInv, Faithful, SelectedMatches
  <1> QED BY <1>1, AccessInvariant, PTL

\* Every session whose restore was not cut short works on exactly the desired
\* programs its CA systems descramble.
THEOREM SessionsComplete == AccessSpec => []SelectionComplete
  <1>1. AccessIInv => SelectionComplete
    <2> SUFFICES ASSUME AccessIInv, NEW s \in Sessions, caids[s] # None, ~cut[s]
                 PROVE  selected[s] = Selection(caids[s])
      BY DEF SelectionComplete
    <2>1. cut[s] = FALSE
      BY OneSession
    <2> QED BY <2>1, OneSession DEF SelectionOf, Selection
  <1> QED BY <1>1, AccessInvariant, PTL

\* The modules keep of every program what the host believes they keep, but for
\* the programs whose CA_PMT was dropped on the way and not made up for.
THEOREM ModulesFollow == AccessSpec => []ModuleFollows
  <1>1. AccessIInv => ModuleFollows
    BY DEF AccessIInv, Faithful, Follows, ModuleFollows
  <1> QED BY <1>1, AccessInvariant, PTL
=============================================================================
