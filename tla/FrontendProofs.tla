--------------------------- MODULE FrontendProofs ---------------------------
(***************************************************************************)
(* Proofs about a frontend.                                                *)
(*                                                                         *)
(* A drain of the event queue that runs to its end leaves none of the      *)
(* events it found, for a queue of any size and any number of arrivals     *)
(* meanwhile. The argument is a count of reads: the events still to be     *)
(* taken, and the overflow that has to be reported before the next of      *)
(* them, never exceed the reads that are left. An arrival at a full queue  *)
(* sets the overflow, but only by dropping one of those events.            *)
(*                                                                         *)
(* A better level is never shown as a worse one: the percent are products  *)
(* divided twice, and each division keeps the order, for any unit and any  *)
(* full mark, also where the marks of a scale are crossed.                 *)
(*                                                                         *)
(* A tune after a clear acts on exactly what its request says, for any     *)
(* requests. The argument is the layout of the sequence of properties:     *)
(* each name is at one place of it, and DTV_TUNE at the last, so that      *)
(* nothing of a request is overwritten or comes too late, and what it does *)
(* not name still has the default. The search for a root PLS code takes    *)
(* the least place at which the register holds the code, and every code    *)
(* has one.                                                                *)
(*                                                                         *)
(* A sequence on the cable to the LNB talks only while the cable is silent *)
(* and selects what was asked for, for any transponder, LNB, configuration *)
(* and raw sequence, and wherever earlier sequences broke off. The         *)
(* argument is what the cable carries when a command's turn comes: each    *)
(* sequence sets all of it itself before the command that talks, so it     *)
(* does not matter what the cable carried before, and a step only moves a  *)
(* command from what is left into what has been done.                      *)
(***************************************************************************)
EXTENDS Frontend, FrontendSec, SequenceTheorems, WellFoundedInduction, TLAPS

Counts == old \in Nat /\ new \in Nat /\ old + new <= FeMaxEvent
Flags == /\ overflow \in BOOLEAN
         /\ swept \in BOOLEAN

Drain == [call : {"Drain"}, left : Nat, nonblock : BOOLEAN]
Tasks == task \in {Idle} \cup Drain

Enough(reads) == old <= reads
EnoughForAll(reads) == old + 1 <= reads

ReadsSuffice == task.call = "Drain" /\ old > 0 => Enough(task.left)
OverflowToo == task.call = "Drain" /\ old > 0 /\ overflow => EnoughForAll(task.left)
SweptIsEmpty == task.call # "Drain" /\ swept => old = 0
Blocking == /\ task.call # "Drain" => nonblock = FALSE
            /\ task.call = "Drain" => task.nonblock = FALSE

DrainInv == /\ Counts /\ Flags /\ Tasks /\ ReadsSuffice /\ OverflowToo
            /\ SweptIsEmpty /\ Blocking

(* The queue has room for an event; a drain makes a positive number of reads. *)
LEMMA Bounds == FeMaxEvent \in Nat /\ FeMaxEvent > 0 /\ DrainReads = FeMaxEvent + 1
BY FrontendAssumption DEF DrainReads

LEMMA FeMaxEventIsNat == FeMaxEvent \in Nat
BY Bounds

(* A part of a sum is no more than the whole. *)
LEMMA LeftOfSum ==
    ASSUME NEW a \in Nat, NEW b \in Nat, NEW c \in Nat, a + b <= c
    PROVE  a <= c
OBVIOUS

LEMMA OneMoreFits ==
    ASSUME NEW a \in Nat, NEW b \in Nat, NEW c, a <= b, c = b + 1
    PROVE  a <= c /\ a + 1 <= c
OBVIOUS

(* An event that arrives leaves the counts in their bounds, and finds no new *)
(* work for the drain.                                                       *)
LEMMA ArrivalCounts ==
    ASSUME Counts, Queued
    PROVE  Counts' /\ (old = 0 => old' = 0) /\ (old' > 0 => old > 0)
<1>1. CASE HasRoom
  BY <1>1, Bounds DEF Counts, HasRoom
<1>2. CASE DropsOld
  BY <1>2, Bounds DEF Counts, DropsOld
<1>3. CASE DropsNew
  BY <1>3, Bounds DEF Counts, DropsNew
<1>4. QED
  BY <1>1, <1>2, <1>3 DEF Queued

(* If it sets the overflow, it has dropped an event the drain was to take. *)
LEMMA ArrivalIsPaidFor ==
    ASSUME Counts, Queued, NEW reads \in Nat, old' > 0,
           Enough(reads), overflow => EnoughForAll(reads)
    PROVE  Enough(reads)' /\ (overflow' => EnoughForAll(reads)')
<1>1. CASE HasRoom
  <2>1. old' = old /\ (overflow' <=> overflow)
    BY <1>1 DEF HasRoom
  <2>2. QED
    BY <2>1 DEF Enough, EnoughForAll
<1>2. CASE DropsOld
  <2>1. old' = old - 1
    BY <1>2 DEF DropsOld
  <2>2. Enough(reads)' /\ EnoughForAll(reads)'
    BY <2>1 DEF Enough, EnoughForAll, Counts
  <2>3. QED
    BY <2>2
<1>3. CASE DropsNew
  BY <1>3 DEF DropsNew, Counts
<1>4. QED
  BY <1>1, <1>2, <1>3 DEF Queued

LEMMA ArrivalFlags == ASSUME Flags, Queued PROVE overflow' \in BOOLEAN
BY DEF Flags, Queued, HasRoom, DropsOld, DropsNew

(* A read keeps the bounds. *)
LEMMA ReadCounts ==
    ASSUME Counts, Dequeue
    PROVE  Counts' /\ (old = 0 => old' = 0) /\ (old' > 0 => old > 0)
<1>1. CASE TakesOverflow
  BY <1>1, Bounds DEF Counts, TakesOverflow
<1>2. CASE TakesOld
  BY <1>2, Bounds DEF Counts, TakesOld
<1>3. CASE TakesNew
  BY <1>3, Bounds DEF Counts, TakesNew
<1>4. QED
  BY <1>1, <1>2, <1>3 DEF Dequeue

(* It takes the overflow or an event the drain was to take. *)
LEMMA ReadTakesOne ==
    ASSUME Counts, Dequeue, NEW reads \in Nat, reads > 0, old' > 0,
           Enough(reads), overflow => EnoughForAll(reads)
    PROVE  old' <= reads - 1 /\ ~overflow'
<1>1. CASE TakesOverflow
  <2>1. overflow /\ ~overflow' /\ old' = old
    BY <1>1 DEF TakesOverflow
  <2>2. EnoughForAll(reads)
    BY <2>1
  <2>3. old' <= reads - 1
    BY <2>1, <2>2 DEF EnoughForAll, Counts
  <2>4. QED
    BY <2>1, <2>3
<1>2. CASE TakesOld
  <2>1. ~overflow /\ (overflow' <=> overflow) /\ old' = old - 1
    BY <1>2 DEF TakesOld
  <2>2. old' <= reads - 1
    BY <2>1 DEF Enough, Counts
  <2>3. QED
    BY <2>1, <2>2
<1>3. CASE TakesNew
  BY <1>3 DEF TakesNew, Counts
<1>4. QED
  BY <1>1, <1>2, <1>3 DEF Dequeue

LEMMA ReadFlags == ASSUME Flags, Dequeue PROVE overflow' \in BOOLEAN
BY DEF Flags, Dequeue, TakesOverflow, TakesOld, TakesNew

(* Initially no drain has run. *)
LEMMA DrainInvHolds == Init => DrainInv
<1>1. SUFFICES ASSUME Init PROVE DrainInv
  OBVIOUS
<1>2. Counts
  BY <1>1, Bounds DEF Init, Counts
<1>3. Flags
  BY <1>1 DEF Init, Flags
<1>4. Tasks /\ ReadsSuffice /\ OverflowToo /\ SweptIsEmpty /\ Blocking
  BY <1>1 DEF Init, Tasks, ReadsSuffice, OverflowToo, SweptIsEmpty, Blocking, Idle
<1>5. QED
  BY <1>2, <1>3, <1>4 DEF DrainInv

(* Starting a drain, or failing to, keeps the invariant. *)
LEMMA StartKeeps ==
    ASSUME DrainInv, task = Idle, StartDrain(DrainReads), overflow' = overflow
    PROVE  DrainInv'
<1>1. CASE /\ task' = [call |-> "Drain", left |-> DrainReads, nonblock |-> nonblock]
           /\ nonblock' = TRUE
           /\ old' = old + new /\ new' = 0
           /\ swept' = FALSE
  <2>1. Counts'
    BY <1>1, Bounds DEF DrainInv, Counts
  <2>2. Flags'
    BY <1>1 DEF DrainInv, Flags
  <2>3. nonblock = FALSE
    BY DEF DrainInv, Blocking, Idle
  <2>4. /\ task'.call = "Drain" /\ task'.left = DrainReads /\ task'.nonblock = FALSE
        /\ task' \in Drain
    <3>1. task' = [call |-> "Drain", left |-> DrainReads, nonblock |-> FALSE]
      BY <1>1, <2>3
    <3>2. DrainReads \in Nat
      BY Bounds
    <3>3. QED
      BY <3>1, <3>2 DEF Drain
  <2>5. Tasks' /\ Blocking' /\ SweptIsEmpty'
    BY <2>4 DEF Tasks, Blocking, SweptIsEmpty
  <2>6. old' <= DrainReads /\ old' + 1 <= DrainReads
    <3>1. old' \in Nat /\ new' \in Nat /\ old' + new' <= FeMaxEvent
      BY <2>1 DEF Counts
    <3>2. old' <= FeMaxEvent
      BY <3>1, FeMaxEventIsNat, LeftOfSum
    <3>3. FeMaxEvent \in Nat /\ DrainReads = FeMaxEvent + 1
      BY Bounds
    <3>4. QED
      BY <3>1, <3>2, <3>3, OneMoreFits
  <2>7. ReadsSuffice' /\ OverflowToo'
    BY <2>4, <2>6 DEF ReadsSuffice, OverflowToo, Enough, EnoughForAll
  <2>8. QED
    BY <2>1, <2>2, <2>5, <2>7 DEF DrainInv
<1>2. CASE task' = Idle /\ swept' = FALSE /\ UNCHANGED <<old, new, nonblock>>
  <2>1. Counts' /\ Flags'
    BY <1>2 DEF DrainInv, Counts, Flags
  <2>2. Tasks' /\ Blocking' /\ SweptIsEmpty' /\ ReadsSuffice' /\ OverflowToo'
    BY <1>2 DEF DrainInv, Tasks, Blocking, SweptIsEmpty, ReadsSuffice, OverflowToo, Idle
  <2>3. QED
    BY <2>1, <2>2 DEF DrainInv
<1>3. QED
  BY <1>1, <1>2 DEF StartDrain

(* An event that arrives, whatever the thread is doing. *)
LEMMA QueuedKeeps ==
    ASSUME DrainInv, Queued, UNCHANGED <<task, drainVars>>
    PROVE  DrainInv'
<1>1. Counts' /\ (old = 0 => old' = 0) /\ (old' > 0 => old > 0)
  BY ArrivalCounts DEF DrainInv
<1>2. overflow' \in BOOLEAN
  BY ArrivalFlags DEF DrainInv
<1>3. Flags' /\ Tasks' /\ Blocking'
  BY <1>2 DEF DrainInv, Flags, Tasks, Blocking, drainVars
<1>4. SweptIsEmpty'
  BY <1>1 DEF DrainInv, SweptIsEmpty, drainVars
<1>5. ASSUME task.call = "Drain", old' > 0
      PROVE  Enough(task.left)' /\ (overflow' => EnoughForAll(task.left)')
  <2>1. Enough(task.left) /\ (overflow => EnoughForAll(task.left))
    BY <1>1, <1>5 DEF DrainInv, ReadsSuffice, OverflowToo
  <2>2. task.left \in Nat /\ task' = task
    BY <1>5 DEF DrainInv, Tasks, Idle, Drain
  <2>3. QED
    BY <1>5, <2>1, <2>2, ArrivalIsPaidFor DEF DrainInv, Enough, EnoughForAll
<1>6. ReadsSuffice' /\ OverflowToo'
  BY <1>5 DEF ReadsSuffice, OverflowToo, Enough, EnoughForAll
<1>7. QED
  BY <1>1, <1>3, <1>4, <1>6 DEF DrainInv

(* A read inside the drain. *)
LEMMA DrainReadKeeps == ASSUME DrainInv, DrainRead PROVE DrainInv'
<1>1. Counts' /\ (old' > 0 => old > 0)
  BY ReadCounts DEF DrainInv, DrainRead
<1>2. overflow' \in BOOLEAN
  BY ReadFlags DEF DrainInv, DrainRead
<1>3. /\ task \in Drain /\ task.left > 0
      /\ task' = [task EXCEPT !.left = @ - 1]
      /\ UNCHANGED drainVars
  BY DEF DrainInv, DrainRead, Tasks, Idle
<1>4. task' \in Drain /\ task'.left = task.left - 1 /\ task'.nonblock = task.nonblock
  BY <1>3 DEF Drain
<1>5. task.call = "Drain" /\ task'.call = "Drain" /\ task.left \in Nat
  BY <1>3, <1>4 DEF Drain
<1>6. Flags' /\ Tasks' /\ SweptIsEmpty'
  BY <1>2, <1>3, <1>4, <1>5 DEF DrainInv, Flags, Tasks, SweptIsEmpty, drainVars
<1>7. Blocking'
  BY <1>4, <1>5 DEF DrainInv, Blocking
<1>8. ASSUME old' > 0 PROVE old' <= task'.left /\ ~overflow'
  <2>1. Enough(task.left) /\ (overflow => EnoughForAll(task.left))
    BY <1>1, <1>5, <1>8 DEF DrainInv, ReadsSuffice, OverflowToo
  <2>2. old' <= task.left - 1 /\ ~overflow'
    BY <1>3, <1>5, <1>8, <2>1, ReadTakesOne DEF DrainInv, DrainRead
  <2>3. QED
    BY <1>4, <2>2
<1>9. ReadsSuffice' /\ OverflowToo'
  BY <1>8 DEF ReadsSuffice, OverflowToo, Enough
<1>10. QED
  BY <1>1, <1>6, <1>7, <1>9 DEF DrainInv

(* The end of a drain that ran to its end, and of one that broke off. *)
LEMMA EndKeeps ==
    ASSUME DrainInv, task.call = "Drain", NEW complete \in BOOLEAN, EndDrain(complete),
           UNCHANGED queueVars, complete => old = 0
    PROVE  DrainInv'
<1>1. Counts' /\ Flags'
  BY DEF DrainInv, Counts, Flags, EndDrain, queueVars
<1>2. task' = Idle /\ nonblock' = FALSE /\ old' = old /\ swept' = complete
  BY DEF DrainInv, Blocking, EndDrain, queueVars
<1>3. Tasks' /\ ReadsSuffice' /\ OverflowToo' /\ SweptIsEmpty' /\ Blocking'
  BY <1>2 DEF Tasks, ReadsSuffice, OverflowToo, SweptIsEmpty, Blocking, Idle
<1>4. QED
  BY <1>1, <1>3 DEF DrainInv

(* Every step keeps the invariant. *)
LEMMA DrainInvIsKept == DrainInv /\ [Next]_vars => DrainInv'
<1>1. SUFFICES ASSUME DrainInv, [Next]_vars PROVE DrainInv'
  OBVIOUS
<1>2. ASSUME UNCHANGED <<task, queueVars, drainVars>> PROVE DrainInv'
  BY <1>1, <1>2 DEF DrainInv, Counts, Flags, Tasks, ReadsSuffice, OverflowToo, Enough,
     EnoughForAll, SweptIsEmpty, Blocking, queueVars, drainVars
<1>3. CASE Tune \/ Monitor \/ UNCHANGED vars
  BY <1>2, <1>3 DEF Tune, Monitor, ReadStatus, GetProperties, Fallback, StatsReturn, vars
<1>4. CASE GetEvent
  <2>1. Counts' /\ (old = 0 => old' = 0) /\ overflow' \in BOOLEAN
    BY <1>1, <1>4, ReadCounts, ReadFlags DEF GetEvent, DrainInv
  <2>2. task = Idle /\ UNCHANGED <<task, drainVars>>
    BY <1>4 DEF GetEvent
  <2>3. Flags' /\ Tasks' /\ Blocking' /\ SweptIsEmpty' /\ ReadsSuffice' /\ OverflowToo'
    BY <1>1, <2>1, <2>2 DEF DrainInv, Flags, Tasks, Blocking, SweptIsEmpty, ReadsSuffice,
       OverflowToo, Idle, drainVars
  <2>4. QED
    BY <2>1, <2>3 DEF DrainInv
<1>5. CASE Kernel
  BY <1>1, <1>5, QueuedKeeps DEF Kernel, Locks, Loses, Flickers
<1>6. CASE DrainEvents \/ Clear
  BY <1>1, <1>6, StartKeeps DEF DrainEvents, Clear
<1>7. CASE DrainRead
  BY <1>1, <1>7, DrainReadKeeps
<1>8. CASE DrainEnds
  <2>1. task.call = "Drain" /\ EndDrain(TRUE) /\ UNCHANGED queueVars
    BY <1>8 DEF DrainEnds
  <2>2. task.left = 0 \/ (~overflow /\ old + new = 0)
    BY <1>8 DEF DrainEnds
  <2>3. old = 0
    BY <1>1, <2>1, <2>2 DEF DrainInv, Counts, ReadsSuffice, Enough
  <2>4. QED
    BY <1>1, <2>1, <2>3, EndKeeps
<1>9. CASE DrainBreaks
  BY <1>1, <1>9, EndKeeps DEF DrainBreaks
<1>10. QED
  BY <1>1, <1>3, <1>4, <1>5, <1>6, <1>7, <1>8, <1>9 DEF Next, Application

(* src/src/fe/mod.rs:184-210: after a drain that ran to its end none of the *)
(* events it found is left, and after any drain the device blocks again.    *)
THEOREM DrainIsComplete == Spec => []DrainLeavesNoTrace
<1>1. DrainInv => DrainLeavesNoTrace
  BY DEF DrainInv, DrainLeavesNoTrace, SweptIsEmpty, Blocking
<1>2. QED
  BY <1>1, DrainInvHolds, DrainInvIsKept, PTL DEF Spec

-----------------------------------------------------------------------------
(* What a driver reports, in percent.                                       *)

(* What is divided rises, and so does the quotient.                         *)
LEMMA QuotientRises ==
    ASSUME NEW a \in Nat, NEW b \in Nat, a <= b, NEW d \in Nat \ {0}
    PROVE  /\ a \div d \in Nat /\ b \div d \in Nat
           /\ a \div d <= b \div d
<1> DEFINE p == a \div d
           q == b \div d
<1>1. /\ p \in Int /\ d * p <= a /\ a < d * p + d
  OBVIOUS
<1>2. /\ q \in Int /\ d * q <= b /\ b < d * q + d
  OBVIOUS
<1> HIDE DEF p, q
<1>3. p >= 0 /\ q >= 0
  <2>1. \A n \in Int : 0 < d * n + d => n >= 0
    <3> TAKE n \in Int
    <3>1. CASE n < 0
      <4>1. n + 1 <= 0
        BY <3>1
      <4>2. d * (n + 1) <= 0
        BY <4>1
      <4> QED
        BY <4>2
    <3> QED
      BY <3>1
  <2> QED
    BY <1>1, <1>2, <2>1
<1>4. p <= q
  <2> SUFFICES ASSUME p > q PROVE FALSE
    BY <1>1, <1>2
  <2>1. p >= q + 1
    BY <1>1, <1>2
  <2>2. d * p >= d * (q + 1)
    BY <1>1, <1>2, <2>1
  <2>3. d * (q + 1) = d * q + d
    BY <1>2
  <2> QED
    BY <1>1, <1>2, <2>2, <2>3
<1> QED
  BY <1>1, <1>2, <1>3, <1>4 DEF p, q

(* A part of c out of d parts is no more than c.                            *)
LEMMA QuotientBounded ==
    ASSUME NEW d \in Nat \ {0}, NEW c \in Nat, NEW k \in Nat, k <= d
    PROVE  (c * k) \div d \in 0 .. c
<1> DEFINE q == (c * k) \div d
<1>1. /\ c * k \in Nat /\ c * k <= c * d
  OBVIOUS
<1>2. /\ q \in Nat /\ d * q <= c * k
  <2>1. q \in Nat
    BY <1>1, QuotientRises
  <2> QED
    BY <1>1, <2>1
<1> HIDE DEF q
<1>3. q <= c
  <2> SUFFICES ASSUME q >= c + 1 PROVE FALSE
    BY <1>2
  <2>1. d * q >= d * (c + 1)
    BY <1>2
  <2>2. d * (c + 1) = c * d + d
    OBVIOUS
  <2> QED
    BY <1>1, <1>2, <2>1, <2>2
<1> QED
  BY <1>2, <1>3 DEF q

(* A level between its clamps is in bounds and rises with what it is read   *)
(* from, for any marks, also when they are crossed.                         *)
LEMMA ScaledRises ==
    ASSUME NEW v \in Int, NEW w \in Int, v <= w, NEW lo \in Int, NEW hi \in Int
    PROVE  /\ Scaled(v, lo, hi) \in 0 .. Full /\ Scaled(w, lo, hi) \in 0 .. Full
           /\ Scaled(v, lo, hi) <= Scaled(w, lo, hi)
<1>0. Full \in Nat
  BY LevelsAssumption
<1> DEFINE d == hi - lo
<1>1. ASSUME NEW x \in Int, ~(x >= hi), ~(x <= lo)
      PROVE  /\ d \in Nat \ {0} /\ x - lo \in Nat /\ x - lo <= d
             /\ Scaled(x, lo, hi) = (Full * (x - lo)) \div d
             /\ Scaled(x, lo, hi) \in 0 .. Full
  <2>1. d \in Nat \ {0} /\ x - lo \in Nat /\ x - lo <= d
    BY <1>1
  <2>2. Scaled(x, lo, hi) = (Full * (x - lo)) \div d
    BY <1>1 DEF Scaled
  <2> HIDE DEF d
  <2> DEFINE k == x - lo
  <2>3. k \in Nat /\ k <= d
    BY <2>1
  <2> HIDE DEF k
  <2>4. (Full * k) \div d \in 0 .. Full
    BY <1>0, <2>1, <2>3, QuotientBounded
  <2> QED
    BY <2>1, <2>2, <2>4 DEF k
<1>2. \A x \in Int : Scaled(x, lo, hi) \in 0 .. Full
  <2> TAKE x \in Int
  <2>1. CASE x >= hi \/ x <= lo
    BY <1>0, <2>1 DEF Scaled
  <2> QED
    BY <1>1, <2>1
<1>3. Scaled(v, lo, hi) <= Scaled(w, lo, hi)
  <2>1. CASE w >= hi
    BY <1>0, <1>2, <2>1 DEF Scaled
  <2>2. CASE v <= lo /\ ~(w >= hi)
    <3>1. Scaled(v, lo, hi) = 0
      BY <2>2 DEF Scaled
    <3> QED
      BY <1>2, <3>1, <1>0
  <2>3. CASE ~(w >= hi) /\ ~(v <= lo)
    <3>1. /\ d \in Nat \ {0} /\ v - lo \in Nat /\ w - lo \in Nat /\ v - lo <= w - lo
          /\ Scaled(v, lo, hi) = (Full * (v - lo)) \div d
          /\ Scaled(w, lo, hi) = (Full * (w - lo)) \div d
      BY <1>1, <2>3
    <3> DEFINE a == Full * (v - lo)
               b == Full * (w - lo)
    <3>2. a \in Nat /\ b \in Nat /\ a <= b
      BY <1>0, <3>1
    <3> HIDE DEF a, b, d
    <3>3. a \div d <= b \div d
      BY <3>1, <3>2, QuotientRises
    <3> QED
      BY <3>1, <3>3 DEF a, b
  <2> QED
    BY <2>1, <2>2, <2>3
<1> QED
  BY <1>2, <1>3

(* The percent of a full scale are percent, and rise with it.               *)
LEMMA PercentRises ==
    ASSUME NEW v \in 0 .. Full, NEW w \in 0 .. Full, v <= w
    PROVE  /\ InPercent(v) \in 0 .. 100 /\ InPercent(w) \in 0 .. 100
           /\ InPercent(v) <= InPercent(w)
<1>0. Full \in Nat \ {0}
  BY LevelsAssumption
<1>1. \A x \in 0 .. Full : InPercent(x) \in 0 .. 100
  <2> TAKE x \in 0 .. Full
  <2>1. x \in Nat /\ x <= Full /\ x * 100 = 100 * x
    BY <1>0
  <2>2. (100 * x) \div Full \in 0 .. 100
    BY <1>0, <2>1, QuotientBounded
  <2> QED
    BY <2>1, <2>2 DEF InPercent
<1>2. InPercent(v) <= InPercent(w)
  <2> DEFINE a == v * 100
             b == w * 100
  <2>1. a \in Nat /\ b \in Nat /\ a <= b
    BY <1>0
  <2> HIDE DEF a, b
  <2>2. a \div Full <= b \div Full
    BY <1>0, <2>1, QuotientRises
  <2> QED
    BY <2>2 DEF a, b, InPercent
<1> QED
  BY <1>1, <1>2

(* A driver that reports one value reports it on its own scale only.        *)
LEMMA OneReported ==
    ASSUME NEW v
    PROVE  /\ Reported(<<[scale |-> "Decibel", value |-> v]>>, "Decibel") = v
           /\ Reported(<<[scale |-> "Decibel", value |-> v]>>, "Relative") = Missing
<1> DEFINE stats == <<[scale |-> "Decibel", value |-> v]>>
<1>1. /\ {i \in DOMAIN stats : stats[i].scale = "Decibel"} = {1}
      /\ {i \in DOMAIN stats : stats[i].scale = "Relative"} = {}
      /\ stats[1].value = v
  OBVIOUS
<1>2. (CHOOSE i \in {1} : \A j \in {1} : j <= i) = 1
  OBVIOUS
<1> QED
  BY <1>1, <1>2 DEF Reported

(* The full marks of a delivery system, where they are known, are a number. *)
LEMMA FullMarks ==
    ASSUME NEW system, CnrHi(system, "Qpsk") # Missing
    PROVE  CnrHi(system, "Qpsk") \in Int
<1>1. DbUnit \in Nat \ {0}
  BY LevelsAssumption
<1>2. /\ 15000 \div DbUnit \in Int /\ 28000 \div DbUnit \in Int /\ 19000 \div DbUnit \in Int
  BY <1>1
<1> QED
  BY <1>2 DEF CnrHi

(* The relative level rises with the decibels a driver reports.             *)
LEMMA LevelsRise == ASSUME Decibels \subseteq Int PROVE RelativeLevels
<1> DEFINE report(v) == <<[scale |-> "Decibel", value |-> v]>>
           status == reading.status
           system == reading.system
           signal == [v \in Decibels |-> SignalRelative(status, report(v))]
           cnr == [v \in Decibels |-> CnrRelative(status, system, "Qpsk", report(v))]
<1>0. Missing \notin Int /\ DbUnit \in Nat \ {0}
  BY LevelsAssumption
<1>1. ASSUME NEW lo \in Int, NEW hi \in Int, NEW shown,
             shown = [v \in Decibels |-> InPercent(Scaled(v, lo, hi))]
      PROVE  Rises(shown)
  <2>1. DOMAIN shown = Decibels
    BY <1>1
  <2>2. ASSUME NEW v \in Decibels, NEW w \in Decibels, v <= w
        PROVE  InPercent(Scaled(v, lo, hi)) \in 0 .. 100 /\
               InPercent(Scaled(v, lo, hi)) <= InPercent(Scaled(w, lo, hi))
    <3>1. /\ Scaled(v, lo, hi) \in 0 .. Full /\ Scaled(w, lo, hi) \in 0 .. Full
          /\ Scaled(v, lo, hi) <= Scaled(w, lo, hi)
      BY <2>2, ScaledRises
    <3> QED
      BY <3>1, PercentRises
  <2>3. \A v \in Decibels : v <= v
    OBVIOUS
  <2>4. \A v \in Decibels : InPercent(Scaled(v, lo, hi)) \in 0 .. 100
    BY <2>2, <2>3
  <2>5. \A v \in Decibels : shown[v] = InPercent(Scaled(v, lo, hi))
    BY <1>1
  <2>6. \A v, w \in Decibels : w >= v =>
            InPercent(Scaled(v, lo, hi)) <= InPercent(Scaled(w, lo, hi))
    BY <2>2
  <2>7. \A v, w \in Decibels : w >= v => shown[w] >= shown[v]
    <3> TAKE v, w \in Decibels
    <3>1. HAVE w >= v
    <3>2. /\ shown[v] \in 0 .. 100 /\ shown[w] \in 0 .. 100 /\ shown[v] <= shown[w]
      BY <2>4, <2>5, <2>6, <3>1
    <3> QED
      BY <3>2
  <2> QED
    BY <2>1, <2>4, <2>5, <2>7 DEF Rises
<1>2. ASSUME Flag("Signal") \in status
      PROVE  Rises(signal)
  <2>1. SignalLo \in Int /\ SignalHi \in Int
    BY <1>0 DEF SignalLo, SignalHi
  <2>2. \A v \in Decibels :
            SignalRelative(status, report(v)) = InPercent(Scaled(v, SignalLo, SignalHi))
    BY <1>0, <1>2, OneReported DEF SignalRelative
  <2>3. signal = [v \in Decibels |-> InPercent(Scaled(v, SignalLo, SignalHi))]
    BY <2>2
  <2> QED
    BY <1>1, <2>1, <2>3
<1>3. ASSUME Flag("Cnr") \in status, CnrHi(system, "Qpsk") # Missing
      PROVE  Rises(cnr)
  <2>1. PICK hi : hi = CnrHi(system, "Qpsk")
    OBVIOUS
  <2>2. hi \in Int /\ hi # Missing
    BY <1>3, <2>1, FullMarks
  <2>3. \A v \in Decibels :
            CnrRelative(status, system, "Qpsk", report(v)) = InPercent(Scaled(v, 0, hi))
    BY <1>0, <1>3, <2>1, OneReported DEF CnrRelative
  <2>4. cnr = [v \in Decibels |-> InPercent(Scaled(v, 0, hi))]
    BY <2>3
  <2>5. PICK lo : lo = 0
    OBVIOUS
  <2>6. lo \in Int /\ cnr = [v \in Decibels |-> InPercent(Scaled(v, lo, hi))]
    BY <2>4, <2>5
  <2> QED
    BY <1>1, <2>2, <2>6
<1> QED
  BY <1>2, <1>3 DEF RelativeLevels

(* src/src/fe/stats.rs:234-349: the percent of signal strength and of        *)
(* carrier-to-noise ratio are percent and never fall while the decibels      *)
(* rise, for every value of an i64 and every delivery system with full marks.*)
THEOREM LevelsAreRelative == Spec => []RelativeLevels
<1>1. RelativeLevels
  BY LevelsRise, FrontendAssumption
<1> QED
  BY <1>1, PTL

-----------------------------------------------------------------------------
(* A set of numbers has a least one. *)
LEMMA LeastOf ==
    ASSUME NEW T \in SUBSET Nat, T # {}
    PROVE  \E x \in T : \A y \in T : x <= y
<1> DEFINE R == {p \in Nat \X Nat : p[1] < p[2]}
<1>1. R = OpToRel(<, Nat)
  BY DEF OpToRel
<1>2. IsWellFoundedOn(R, Nat)
  BY <1>1, NatLessThanWellFounded
<1>3. PICK x \in T : \A y \in T : ~ (<<y, x>> \in R)
  <2> HIDE DEF R
  <2> QED BY <1>2, WFMin
<1>4. ASSUME NEW y \in T PROVE x <= y
  <2>1. x \in Nat /\ y \in Nat
    OBVIOUS
  <2>2. <<y, x>> \in Nat \X Nat /\ <<y, x>>[1] = y /\ <<y, x>>[2] = x
    BY <2>1
  <2>3. ~(y < x)
    BY <1>3, <2>2
  <2> QED BY <2>1, <2>3
<1> QED BY <1>4

(* Mis::pls_code(): the search finds the place at which the register holds  *)
(* the code, for a register of any width.                                   *)
LEMMA RootFound ==
    ASSUME NEW code \in 1 .. PlsCodeMask
    PROVE  RootIndex(code) \in Nat /\ PlsState[RootIndex(code)] = code
<1> DEFINE found == {g \in Searched : PlsState[g] = code}
<1>1. found # {}
  BY RegisterAssumption
<1>2. found \in SUBSET Nat
  BY DEF Searched
<1>3. \E g \in found : \A h \in found : g <= h
  <2> HIDE DEF found
  <2> QED BY <1>1, <1>2, LeastOf
<1>4. RootIndex(code) = CHOOSE g \in found : \A h \in found : g <= h
  BY <1>1 DEF RootIndex
<1>5. RootIndex(code) \in found
  <2> HIDE DEF found
  <2> QED BY <1>3, <1>4
<1> QED BY <1>2, <1>5

LEMMA MaskedIn == ASSUME NEW code \in Nat PROVE Masked(code) \in 0 .. PlsCodeMask
<1>1. PICK m \in Nat : m = PlsCodeMask
  BY RegisterAssumption
<1>2. code % (m + 1) \in 0 .. m
  OBVIOUS
<1> QED BY <1>1, <1>2 DEF Masked

(* Mis::pls_code(): the low bits of a code, nothing for root code 0, and the *)
(* place of any other root code.                                             *)
LEMMA PlsCodeIs ==
    ASSUME NEW mis, mis.code \in Nat
    PROVE  /\ mis.mode # "Root" => PlsCode(mis) = Masked(mis.code) /\ PlsCode(mis) # Unset
           /\ mis.mode = "Root" /\ Masked(mis.code) = 0 => PlsCode(mis) = Unset
           /\ mis.mode = "Root" /\ Masked(mis.code) # 0 =>
                 /\ PlsCode(mis) # Unset /\ PlsCode(mis) # Default
                 /\ PlsState[PlsCode(mis)] = Masked(mis.code)
<1> DEFINE code == Masked(mis.code)
<1>1. code \in 0 .. PlsCodeMask /\ code \in Nat
  BY MaskedIn, RegisterAssumption
<1>2. PlsCode(mis) = CASE mis.mode # "Root" -> code
                       [] mis.mode = "Root" /\ code = 0 -> Unset
                       [] OTHER -> RootIndex(code)
  BY DEF PlsCode
<1> HIDE DEF code
<1>3. CASE mis.mode # "Root"
  <2>1. PlsCode(mis) = code
    BY <1>2, <1>3
  <2> QED BY <1>1, <1>3, <2>1, RegisterAssumption DEF code
<1>4. CASE mis.mode = "Root" /\ code = 0
  <2>1. PlsCode(mis) = Unset
    BY <1>2, <1>4
  <2> QED BY <1>4, <2>1 DEF code
<1>5. CASE mis.mode = "Root" /\ code # 0
  <2>1. PlsCode(mis) = RootIndex(code)
    BY <1>2, <1>5
  <2>2. code \in 1 .. PlsCodeMask
    BY <1>1, <1>5, RegisterAssumption
  <2> QED BY <1>5, <2>1, <2>2, RootFound, RegisterAssumption, RequestAssumption DEF code
<1> QED BY <1>3, <1>4, <1>5 DEF code

(* The sequence a request becomes, by places: m parameters are copied, k     *)
(* properties choose the stream.                                             *)
RequestKinds == {"DvbS", "DvbS2", "DvbC", "DvbT", "DvbT2", "Atsc", "IsdbT"}
Singles == {"DeliverySystem", "Frequency", "StreamId", "ScramblingSequenceIndex", "Tune"}

CopiesNamed(kind, m) ==
    /\ m \in Nat /\ DOMAIN Copied(kind) = 1 .. m
    /\ \A i \in 1 .. m : Copied(kind)[i] \in Named[kind]
    /\ \A n \in Named[kind] : \E i \in 1 .. m : Copied(kind)[i] = n
    /\ \A i, j \in 1 .. m : Copied(kind)[i] = Copied(kind)[j] => i = j
    /\ Named[kind] \subseteq Names \ Singles

LEMMA EachKindCopies ==
    ASSUME NEW kind \in RequestKinds
    PROVE  \E m \in Nat : CopiesNamed(kind, m)
<1> USE DEF CopiesNamed, Named, Names, Singles
<1>1. CASE kind = "DvbS"
  <2>1. Copied(kind) = <<"Modulation", "Inversion", "SymbolRate", "InnerFec">>
    BY <1>1 DEF Copied
  <2>2. CopiesNamed(kind, 4)
    BY <1>1, <2>1
  <2> QED BY <2>2
<1>2. CASE kind = "DvbS2"
  <2>1. Copied(kind) = <<"Modulation", "Inversion", "SymbolRate", "InnerFec", "Pilot",
                         "Rolloff">>
    BY <1>2 DEF Copied
  <2>2. CopiesNamed(kind, 6)
    BY <1>2, <2>1
  <2> QED BY <2>2
<1>3. CASE kind = "DvbC"
  <2>1. Copied(kind) = <<"Modulation", "Inversion", "SymbolRate", "InnerFec">>
    BY <1>3 DEF Copied
  <2>2. CopiesNamed(kind, 4)
    BY <1>3, <2>1
  <2> QED BY <2>2
<1>4. CASE kind = "DvbT"
  <2>1. Copied(kind) = <<"Modulation", "BandwidthHz", "Inversion", "CodeRateHp",
                         "CodeRateLp", "GuardInterval", "TransmissionMode", "Hierarchy">>
    BY <1>4 DEF Copied
  <2>2. CopiesNamed(kind, 8)
    BY <1>4, <2>1
  <2> QED BY <2>2
<1>5. CASE kind = "DvbT2"
  <2>1. Copied(kind) = <<"Modulation", "BandwidthHz", "Inversion", "CodeRateHp",
                         "GuardInterval", "TransmissionMode">>
    BY <1>5 DEF Copied
  <2>2. CopiesNamed(kind, 6)
    BY <1>5, <2>1
  <2> QED BY <2>2
<1>6. CASE kind = "Atsc"
  <2>1. Copied(kind) = <<"Modulation", "Inversion">>
    BY <1>6 DEF Copied
  <2>2. CopiesNamed(kind, 2)
    BY <1>6, <2>1
  <2> QED BY <2>2
<1>7. CASE kind = "IsdbT"
  <2>1. Copied(kind) = <<"BandwidthHz", "Inversion">>
    BY <1>7 DEF Copied
  <2>2. CopiesNamed(kind, 2)
    BY <1>7, <2>1
  <2> QED BY <2>2
<1> QED BY <1>1, <1>2, <1>3, <1>4, <1>5, <1>6, <1>7 DEF RequestKinds

(* No property, the stream, or the stream and the index choose it. *)
StreamOf(r) == IF r.mis # Unset THEN r.mis.stream ELSE r.stream
Chosen(r, chosen, k) ==
    /\ k \in 0 .. 2 /\ DOMAIN chosen = 1 .. k
    /\ chosen \in Seq({chosen[i] : i \in 1 .. k})
    /\ k = 0 <=> r.mis = Unset /\ r.stream = Unset
    /\ k = 2 <=> r.mis # Unset /\ PlsCode(r.mis) # Unset
    /\ k > 0 => chosen[1] = Property("StreamId", StreamOf(r))
    /\ k = 2 => chosen[2] = Property("ScramblingSequenceIndex", PlsCode(r.mis))

LEMMA TwoInOne == ASSUME NEW x, NEW y PROVE <<x>> \o <<y>> = <<x, y>>
<1> DEFINE S == {x, y}
           xy == <<x>> \o <<y>>
<1>1. <<x>> \in Seq(S) /\ <<y>> \in Seq(S) /\ <<x, y>> \in Seq(S)
  OBVIOUS
<1>2. /\ xy \in Seq(S) /\ Len(xy) = 2 /\ xy[1] = x /\ xy[2] = y
  BY <1>1
<1> HIDE DEF xy, S
<1>3. \A i \in 1 .. 2 : xy[i] = <<x, y>>[i]
  BY <1>2
<1> QED BY <1>1, <1>2, <1>3, SeqEqual DEF xy

LEMMA EachRequestChooses ==
    ASSUME NEW r \in Requests
    PROVE  \E k \in Nat : Chosen(r, StreamProperties(r), k)
<1>1. /\ r.mis # Unset => r.kind = "DvbS2"
      /\ r.stream # Unset => r.kind = "DvbT2"
  BY RequestAssumption
<1> DEFINE stream == Property("StreamId", StreamOf(r))
           index == Property("ScramblingSequenceIndex", PlsCode(r.mis))
<1> HIDE DEF stream, index
<1>2. CASE r.mis # Unset /\ PlsCode(r.mis) # Unset
  <2>1. StreamProperties(r) = <<stream>> \o <<index>>
    BY <1>1, <1>2 DEF StreamProperties, stream, index, StreamOf
  <2>2. StreamProperties(r) = <<stream, index>>
    BY <2>1, TwoInOne
  <2>3. Chosen(r, <<stream, index>>, 2)
    BY <1>2 DEF Chosen, stream, index
  <2> QED BY <2>2, <2>3
<1>3. CASE r.mis # Unset /\ PlsCode(r.mis) = Unset
  <2>1. StreamProperties(r) = <<stream>> \o <<>>
    BY <1>1, <1>3 DEF StreamProperties, stream, StreamOf
  <2>2. StreamProperties(r) = <<stream>>
    BY <2>1
  <2>3. Chosen(r, <<stream>>, 1)
    BY <1>3 DEF Chosen, stream
  <2> QED BY <2>2, <2>3
<1>4. CASE r.mis = Unset /\ r.stream # Unset
  <2>1. StreamProperties(r) = <<stream>>
    BY <1>1, <1>4 DEF StreamProperties, stream, StreamOf
  <2>2. Chosen(r, <<stream>>, 1)
    BY <1>4 DEF Chosen, stream
  <2> QED BY <2>1, <2>2
<1>5. CASE r.mis = Unset /\ r.stream = Unset
  <2>1. StreamProperties(r) = <<>>
    BY <1>5 DEF StreamProperties
  <2>2. Chosen(r, <<>>, 0)
    BY <1>5 DEF Chosen
  <2> QED BY <2>1, <2>2
<1> QED BY <1>2, <1>3, <1>4, <1>5

(* The parts of a sequence made of several. *)
LEMMA TwoParts ==
    ASSUME NEW S, NEW a \in Seq(S), NEW b \in Seq(S),
           NEW la \in Nat, la = Len(a), NEW lb \in Nat, lb = Len(b)
    PROVE  /\ a \o b \in Seq(S) /\ Len(a \o b) = la + lb
           /\ \A i \in 1 .. la : (a \o b)[i] = a[i]
           /\ \A i \in 1 .. lb : (a \o b)[la + i] = b[i]
OBVIOUS

(* The four parts of a sequence, each of a known length, in their places. *)
InPlace(all, a, la, b, lb, c, lc, d, ld) ==
    /\ DOMAIN all = 1 .. la + lb + lc + ld
    /\ \A i \in 1 .. la : all[i] = a[i]
    /\ \A i \in 1 .. lb : all[la + i] = b[i]
    /\ \A i \in 1 .. lc : all[la + lb + i] = c[i]
    /\ \A i \in 1 .. ld : all[la + lb + lc + i] = d[i]

LEMMA FourParts ==
    ASSUME NEW S, NEW a \in Seq(S), NEW b \in Seq(S), NEW c \in Seq(S), NEW d \in Seq(S),
           NEW la \in Nat, la = Len(a), NEW lb \in Nat, lb = Len(b),
           NEW lc \in Nat, lc = Len(c), NEW ld \in Nat, ld = Len(d),
           NEW all, all = ((a \o b) \o c) \o d
    PROVE  InPlace(all, a, la, b, lb, c, lc, d, ld)
<1>1. PICK lab \in Nat : lab = la + lb
  OBVIOUS
<1>2. PICK labc \in Nat : labc = lab + lc
  OBVIOUS
<1> DEFINE ab == a \o b
           abc == ab \o c
<1>3. /\ ab \in Seq(S) /\ lab = Len(ab)
      /\ \A i \in 1 .. la : ab[i] = a[i]
      /\ \A i \in 1 .. lb : ab[la + i] = b[i]
  BY <1>1, TwoParts
<1> HIDE DEF ab
<1>4. /\ abc \in Seq(S) /\ labc = Len(abc)
      /\ \A i \in 1 .. lab : abc[i] = ab[i]
      /\ \A i \in 1 .. lc : abc[lab + i] = c[i]
  <2> SUFFICES ASSUME NEW y, y = ab
               PROVE  /\ y \o c \in Seq(S) /\ labc = Len(y \o c)
                      /\ \A i \in 1 .. lab : (y \o c)[i] = y[i]
                      /\ \A i \in 1 .. lc : (y \o c)[lab + i] = c[i]
    OBVIOUS
  <2>1. y \in Seq(S) /\ lab = Len(y)
    BY <1>3
  <2> QED BY <1>2, <2>1, TwoParts
<1> HIDE DEF abc
<1>5. /\ abc \o d \in Seq(S) /\ Len(abc \o d) = labc + ld
      /\ \A i \in 1 .. labc : (abc \o d)[i] = abc[i]
      /\ \A i \in 1 .. ld : (abc \o d)[labc + i] = d[i]
  <2> SUFFICES ASSUME NEW y, y = abc
               PROVE  /\ y \o d \in Seq(S) /\ Len(y \o d) = labc + ld
                      /\ \A i \in 1 .. labc : (y \o d)[i] = y[i]
                      /\ \A i \in 1 .. ld : (y \o d)[labc + i] = d[i]
    OBVIOUS
  <2>1. y \in Seq(S) /\ labc = Len(y)
    BY <1>4
  <2> QED BY <2>1, TwoParts
<1>6. all = abc \o d
  BY DEF ab, abc
<1>7. /\ all \in Seq(S) /\ Len(all) = labc + ld
      /\ \A i \in 1 .. labc : all[i] = abc[i]
      /\ \A i \in 1 .. ld : all[labc + i] = d[i]
  BY <1>5, <1>6
<1>8. DOMAIN all = 1 .. labc + ld
  BY <1>7
<1>9. ASSUME NEW i \in 1 .. la PROVE all[i] = a[i]
  <2>1. i \in 1 .. lab /\ i \in 1 .. labc
    BY <1>1, <1>2
  <2> QED BY <1>3, <1>4, <1>7, <2>1
<1>10. ASSUME NEW i \in 1 .. lb PROVE all[la + i] = b[i]
  <2>1. la + i \in 1 .. lab /\ la + i \in 1 .. labc
    BY <1>1, <1>2
  <2> QED BY <1>3, <1>4, <1>7, <2>1
<1>11. ASSUME NEW i \in 1 .. lc PROVE all[lab + i] = c[i]
  <2>1. lab + i \in 1 .. labc
    BY <1>1, <1>2
  <2> QED BY <1>4, <1>7, <2>1
<1> QED BY <1>1, <1>2, <1>7, <1>8, <1>9, <1>10, <1>11 DEF InPlace

(* The whole sequence: m parameters from place 3 on, then k properties that *)
(* choose the stream, and DTV_TUNE.                                         *)
Layout(r, frequency, all, m, k) ==
    /\ DOMAIN all = 1 .. m + k + 3
    /\ all[1] = Property("DeliverySystem", System(r))
    /\ all[2] = Property("Frequency", frequency)
    /\ \A i \in 1 .. m : all[2 + i] = Property(Copied(r.kind)[i], r.id)
    /\ \A i \in 1 .. k : all[2 + m + i] = StreamProperties(r)[i]
    /\ all[m + k + 3] = TuneProperty

LEMMA LaidOut ==
    ASSUME NEW r \in Requests, NEW frequency, NEW m \in Nat, CopiesNamed(r.kind, m),
           NEW k \in Nat, Chosen(r, StreamProperties(r), k)
    PROVE  Layout(r, frequency, Properties(r, frequency), m, k)
<1>1. PICK a : a = << Property("DeliverySystem", System(r)),
                      Property("Frequency", frequency) >>
  OBVIOUS
<1>2. PICK b : b = [i \in DOMAIN Copied(r.kind) |-> Property(Copied(r.kind)[i], r.id)]
  OBVIOUS
<1>3. PICK c : c = StreamProperties(r)
  OBVIOUS
<1>4. PICK d : d = <<TuneProperty>>
  OBVIOUS
<1>5. PICK S : S = {a[1], a[2], d[1]} \cup {b[i] : i \in 1 .. m} \cup {c[i] : i \in 1 .. k}
  OBVIOUS
<1>6. PICK all : all = ((a \o b) \o c) \o d
  OBVIOUS
<1>7. all = Properties(r, frequency)
  BY <1>1, <1>2, <1>3, <1>4, <1>6 DEF Properties, Parameters
<1>8. PICK two \in Nat : two = 2
  OBVIOUS
<1>9. PICK one \in Nat : one = 1
  OBVIOUS
<1>10. /\ a \in Seq(S) /\ two = Len(a)
       /\ a[1] = Property("DeliverySystem", System(r))
       /\ a[2] = Property("Frequency", frequency)
  BY <1>1, <1>5, <1>8
<1>11. /\ b \in Seq(S) /\ m = Len(b)
       /\ \A i \in 1 .. m : b[i] = Property(Copied(r.kind)[i], r.id)
  BY <1>2, <1>5 DEF CopiesNamed
<1>12. c \in Seq(S) /\ k = Len(c)
  <2>1. PICK cs : cs = {c[i] : i \in 1 .. k}
    OBVIOUS
  <2>2. c \in Seq(cs) /\ DOMAIN c = 1 .. k
    BY <1>3, <2>1 DEF Chosen
  <2>3. cs \subseteq S
    BY <1>5, <2>1
  <2> QED BY <2>2, <2>3
<1>13. d \in Seq(S) /\ one = Len(d) /\ d[1] = TuneProperty
  BY <1>4, <1>5, <1>9
<1>14. /\ DOMAIN all = 1 .. two + m + k + one
       /\ \A i \in 1 .. two : all[i] = a[i]
       /\ \A i \in 1 .. m : all[two + i] = b[i]
       /\ \A i \in 1 .. k : all[two + m + i] = c[i]
       /\ \A i \in 1 .. one : all[two + m + k + i] = d[i]
  <2>1. /\ a \in Seq(S) /\ b \in Seq(S) /\ c \in Seq(S) /\ d \in Seq(S)
        /\ two = Len(a) /\ m = Len(b) /\ k = Len(c) /\ one = Len(d)
    BY <1>10, <1>11, <1>12, <1>13
  <2>2. all = ((a \o b) \o c) \o d
    BY <1>6
  <2>3. InPlace(all, a, two, b, m, c, k, d, one)
    BY <2>1, <2>2, FourParts, Zenon
  <2> QED BY <2>3 DEF InPlace
<1>15. /\ two + m + k + one = m + k + 3 /\ 1 \in 1 .. two /\ 2 \in 1 .. two
       /\ 1 \in 1 .. one /\ two + m + k + 1 = m + k + 3
  BY <1>8, <1>9
<1>16. all[m + k + 3] = d[1]
  BY <1>14, <1>15
<1>17. \A i \in 1 .. m : all[2 + i] = Property(Copied(r.kind)[i], r.id)
  BY <1>8, <1>11, <1>14
<1>18. \A i \in 1 .. k : all[2 + m + i] = StreamProperties(r)[i]
  BY <1>3, <1>8, <1>14
<1>19. Layout(r, frequency, all, m, k)
  BY <1>10, <1>13, <1>14, <1>15, <1>16, <1>17, <1>18 DEF Layout
<1> QED BY <1>7, <1>19

LEMMA Places ==
    ASSUME NEW m \in Nat, NEW k \in Nat, NEW j \in 1 .. m + k + 3
    PROVE  \/ j = 1 \/ j = 2 \/ j = m + k + 3
           \/ \E i \in 1 .. m : j = 2 + i
           \/ \E i \in 1 .. k : j = 2 + m + i
<1>1. CASE j > 2 /\ j <= m + 2
  <2>1. j - 2 \in 1 .. m /\ j = 2 + (j - 2)
    BY <1>1
  <2> QED BY <2>1
<1>2. CASE j > m + 2 /\ j <= m + k + 2
  <2>1. j - (2 + m) \in 1 .. k /\ j = 2 + m + (j - (2 + m))
    BY <1>2
  <2> QED BY <2>1
<1>3. j = 1 \/ j = 2 \/ j = m + k + 3 \/ (j > 2 /\ j <= m + 2)
      \/ (j > m + 2 /\ j <= m + k + 2)
  OBVIOUS
<1> QED BY <1>1, <1>2, <1>3

(* A name is at one place only. *)
OncePlaced(r, all, m, k, j) ==
    /\ all[j].name = "DeliverySystem" => j = 1
    /\ all[j].name = "Frequency" => j = 2
    /\ all[j].name = "StreamId" => k > 0 /\ j = 2 + m + 1
    /\ all[j].name = "ScramblingSequenceIndex" => k = 2 /\ j = 2 + m + 2
    /\ all[j].name = "Tune" => j = m + k + 3
    /\ \A i \in 1 .. m : all[j].name = Copied(r.kind)[i] => j = 2 + i
    /\ all[j].name \in Singles \cup Named[r.kind]

LEMMA EachOnce ==
    ASSUME NEW r \in Requests, NEW frequency, NEW all, NEW m \in Nat, NEW k \in Nat,
           CopiesNamed(r.kind, m), Chosen(r, StreamProperties(r), k),
           Layout(r, frequency, all, m, k), NEW j \in 1 .. m + k + 3
    PROVE  OncePlaced(r, all, m, k, j)
<1>1. \A i \in 1 .. m : /\ Copied(r.kind)[i] \in Named[r.kind]
                        /\ Copied(r.kind)[i] \notin Singles
  BY DEF CopiesNamed
<1>2. CASE j = 1
  <2>1. all[j].name = "DeliverySystem"
    BY <1>2 DEF Layout, Property
  <2> QED BY <1>1, <1>2, <2>1 DEF OncePlaced, Singles
<1>3. CASE j = 2
  <2>1. all[j].name = "Frequency"
    BY <1>3 DEF Layout, Property
  <2> QED BY <1>1, <1>3, <2>1 DEF OncePlaced, Singles
<1>4. CASE j = m + k + 3
  <2>1. all[j].name = "Tune"
    BY <1>4 DEF Layout, Property, TuneProperty
  <2> QED BY <1>1, <1>4, <2>1 DEF OncePlaced, Singles
<1>5. ASSUME NEW i \in 1 .. m, j = 2 + i PROVE OncePlaced(r, all, m, k, j)
  <2>1. all[j].name = Copied(r.kind)[i]
    <3>1. all[2 + i] = Property(Copied(r.kind)[i], r.id)
      BY DEF Layout
    <3>2. all[j] = Property(Copied(r.kind)[i], r.id)
      BY <1>5, <3>1
    <3> QED BY <3>2 DEF Property
  <2>2. all[j].name \in Named[r.kind] /\ all[j].name \notin Singles
    BY <1>1, <2>1
  <2>3. \A h \in 1 .. m : all[j].name = Copied(r.kind)[h] => h = i
    BY <2>1 DEF CopiesNamed
  <2> QED BY <1>5, <2>2, <2>3 DEF OncePlaced, Singles
<1>6. ASSUME NEW i \in 1 .. k, j = 2 + m + i PROVE OncePlaced(r, all, m, k, j)
  <2>1. all[j] = StreamProperties(r)[i]
    BY <1>6 DEF Layout
  <2>2. i = 1 \/ (i = 2 /\ k = 2)
    BY <1>6 DEF Chosen
  <2>3. CASE i = 1
    <3>1. all[j].name = "StreamId" /\ k > 0
      BY <2>1, <2>3 DEF Chosen, Property
    <3> QED BY <1>1, <1>6, <2>3, <3>1 DEF OncePlaced, Singles
  <2>4. CASE i = 2 /\ k = 2
    <3>1. all[j].name = "ScramblingSequenceIndex"
      BY <2>1, <2>4 DEF Chosen, Property
    <3> QED BY <1>1, <1>6, <2>4, <3>1 DEF OncePlaced, Singles
  <2> QED BY <2>2, <2>3, <2>4
<1> QED BY <1>2, <1>3, <1>4, <1>5, <1>6, Places

(* src/src/fe/tune.rs: DTV_TUNE is at the end of the sequence. *)
LEMMA TuneComesLast ==
    ASSUME NEW r \in Requests, NEW frequency, NEW all, NEW m \in Nat, NEW k \in Nat,
           CopiesNamed(r.kind, m), Chosen(r, StreamProperties(r), k),
           Layout(r, frequency, all, m, k)
    PROVE  (CHOOSE i \in DOMAIN all : all[i].name = "Tune") = m + k + 3
<1>1. PICK last \in Nat : last = m + k + 3
  OBVIOUS
<1>2. last \in DOMAIN all /\ all[last].name = "Tune"
  BY <1>1 DEF Layout, Property, TuneProperty
<1>3. \A j \in DOMAIN all : all[j].name = "Tune" => j = last
  <2> SUFFICES ASSUME NEW j \in DOMAIN all, all[j].name = "Tune" PROVE j = last
    OBVIOUS
  <2>1. j \in 1 .. m + k + 3
    BY DEF Layout
  <2>2. OncePlaced(r, all, m, k, j)
    BY <2>1, EachOnce, Zenon
  <2> QED BY <1>1, <2>2 DEF OncePlaced
<1>4. (CHOOSE i \in DOMAIN all : all[i].name = "Tune") = last
  BY <1>2, <1>3
<1> QED BY <1>1, <1>4

(* The cache after a sequence. *)
LEMMA CachedAt ==
    ASSUME NEW all, NEW n \in Nat, NEW i \in 1 .. n, NEW name \in Names,
           all[i].name = name, Known(name), \A j \in 1 .. n : all[j].name = name => j = i
    PROVE  Cached(all, n)[name] = all[i].value
<1> DEFINE with == {j \in 1 .. n : all[j].name = name /\ Known(name)}
<1>1. with = {i}
  OBVIOUS
<1>2. Cached(all, n)[name] = IF with = {} THEN cache[name]
                             ELSE all[CHOOSE j \in with : \A h \in with : h <= j].value
  BY DEF Cached
<1> HIDE DEF with
<1>3. (CHOOSE j \in with : \A h \in with : h <= j) = i
  BY <1>1
<1> QED BY <1>1, <1>2, <1>3

LEMMA CachedElse ==
    ASSUME NEW all, NEW n \in Nat, NEW name \in Names,
           ~Known(name) \/ \A j \in 1 .. n : all[j].name # name
    PROVE  Cached(all, n)[name] = cache[name]
<1> DEFINE with == {j \in 1 .. n : all[j].name = name /\ Known(name)}
<1>1. with = {}
  OBVIOUS
<1>2. Cached(all, n)[name] = IF with = {} THEN cache[name]
                             ELSE all[CHOOSE j \in with : \A h \in with : h <= j].value
  BY DEF Cached
<1> QED BY <1>1, <1>2

(* What TunedExactly asks of one tune. *)
Exactly(r, is) ==
    /\ is["DeliverySystem"] = System(r) /\ is["Frequency"] = r.id
    /\ \A n \in Named[r.kind] : is[n] = r.id
    /\ is["StreamId"] = IF r.mis # Unset THEN r.mis.stream
                        ELSE IF r.stream # Unset THEN r.stream ELSE Default
    /\ Scrambled(r, is["ScramblingSequenceIndex"])
    /\ \A n \in Names \ (Named[r.kind] \cup {"DeliverySystem", "Frequency",
                              "StreamId", "ScramblingSequenceIndex"}) :
          is[n] = Default

(* src/src/fe/mod.rs:278-298 and src/src/fe/tune.rs:84-108: from a cleared   *)
(* cache, DTV_TUNE finds what the request says and nothing else.             *)
LEMMA ActsExactly ==
    ASSUME NEW r \in Requests, cache = Fresh
    PROVE  Exactly(r, Cached(Properties(r, r.id),
                       CHOOSE i \in DOMAIN Properties(r, r.id) :
                           Properties(r, r.id)[i].name = "Tune"))
<1>1. r.kind \in RequestKinds
  BY RequestAssumption DEF RequestKinds
<1>2. PICK m \in Nat : CopiesNamed(r.kind, m)
  BY <1>1, EachKindCopies
<1>3. PICK k \in Nat : Chosen(r, StreamProperties(r), k)
  BY EachRequestChooses
<1>4. PICK all : all = Properties(r, r.id)
  OBVIOUS
<1>5. Layout(r, r.id, all, m, k)
  BY <1>2, <1>3, <1>4, LaidOut
<1>6. PICK n \in Nat : n = m + k + 3
  OBVIOUS
<1>7. (CHOOSE i \in DOMAIN all : all[i].name = "Tune") = n
  BY <1>2, <1>3, <1>5, <1>6, TuneComesLast
<1>8. PICK is : is = Cached(all, n)
  OBVIOUS
<1>9. \A j \in 1 .. n : OncePlaced(r, all, m, k, j)
  BY <1>2, <1>3, <1>5, <1>6, EachOnce
<1>10. \A name \in Names : /\ cache[name] = Default
                           /\ name # "ScramblingSequenceIndex" => Known(name)
  BY DEF Fresh, Known
<1>11. is["DeliverySystem"] = System(r)
  <2>1. 1 \in 1 .. n /\ all[1].name = "DeliverySystem" /\ all[1].value = System(r)
    BY <1>5, <1>6 DEF Layout, Property
  <2>2. \A j \in 1 .. n : all[j].name = "DeliverySystem" => j = 1
    BY <1>9 DEF OncePlaced
  <2>3. "DeliverySystem" \in Names
    BY DEF Names
  <2> QED BY <1>8, <1>10, <2>1, <2>2, <2>3, CachedAt
<1>12. is["Frequency"] = r.id
  <2>1. 2 \in 1 .. n /\ all[2].name = "Frequency" /\ all[2].value = r.id
    BY <1>5, <1>6 DEF Layout, Property
  <2>2. \A j \in 1 .. n : all[j].name = "Frequency" => j = 2
    BY <1>9 DEF OncePlaced
  <2>3. "Frequency" \in Names
    BY DEF Names
  <2> QED BY <1>8, <1>10, <2>1, <2>2, <2>3, CachedAt
<1>13. ASSUME NEW name \in Named[r.kind] PROVE is[name] = r.id
  <2>1. PICK i \in 1 .. m : Copied(r.kind)[i] = name
    BY <1>2 DEF CopiesNamed
  <2>2. PICK j \in 1 .. n : j = 2 + i
    BY <1>6
  <2>3. all[j] = Property(name, r.id)
    BY <1>5, <2>1, <2>2 DEF Layout
  <2>4. all[j].name = name /\ all[j].value = r.id
    BY <2>3 DEF Property
  <2>5. \A h \in 1 .. n : all[h].name = name => h = j
    BY <1>9, <2>1, <2>2 DEF OncePlaced
  <2>6. name \in Names /\ name \notin Singles
    BY <1>2 DEF CopiesNamed
  <2>7. Known(name)
    BY <1>10, <2>6 DEF Singles
  <2> QED BY <1>8, <2>4, <2>5, <2>6, <2>7, CachedAt
<1>14. is["StreamId"] = IF r.mis # Unset THEN r.mis.stream
                       ELSE IF r.stream # Unset THEN r.stream ELSE Default
  <2>1. "StreamId" \in Names /\ Known("StreamId") /\ cache["StreamId"] = Default
    BY <1>10 DEF Names
  <2>2. CASE k > 0
    <3>1. PICK j \in 1 .. n : j = 2 + m + 1
      BY <1>6, <2>2
    <3>2. 1 \in 1 .. k
      BY <2>2
    <3>3. all[2 + m + 1] = StreamProperties(r)[1]
      BY <1>5, <3>2 DEF Layout
    <3>4. all[j] = Property("StreamId", StreamOf(r))
      BY <1>3, <2>2, <3>1, <3>3 DEF Chosen
    <3>5. all[j].name = "StreamId" /\ all[j].value = StreamOf(r)
      BY <3>4 DEF Property
    <3>6. \A h \in 1 .. n : all[h].name = "StreamId" => h = j
      BY <1>9, <3>1 DEF OncePlaced
    <3>7. is["StreamId"] = StreamOf(r)
      BY <1>8, <2>1, <3>5, <3>6, CachedAt
    <3>8. r.mis # Unset \/ r.stream # Unset
      BY <1>3, <2>2 DEF Chosen
    <3> QED BY <3>7, <3>8 DEF StreamOf
  <2>3. CASE k = 0
    <3>1. \A h \in 1 .. n : all[h].name # "StreamId"
      BY <1>9, <2>3 DEF OncePlaced
    <3>2. is["StreamId"] = Default
      BY <1>8, <2>1, <3>1, CachedElse
    <3>3. r.mis = Unset /\ r.stream = Unset
      BY <1>3, <2>3 DEF Chosen
    <3> QED BY <3>2, <3>3
  <2> QED BY <2>2, <2>3
<1>15. Scrambled(r, is["ScramblingSequenceIndex"])
  <2> DEFINE name == "ScramblingSequenceIndex"
  <2>1. name \in Names /\ cache[name] = Default /\ (Known(name) <=> ~Older(api, Api_5_11))
    BY <1>10 DEF Names, Known
  <2>2. CASE k = 2 /\ Known(name)
    <3>1. PICK j \in 1 .. n : j = 2 + m + 2
      BY <1>6, <2>2
    <3>2. 2 \in 1 .. k
      BY <2>2
    <3>3. all[2 + m + 2] = StreamProperties(r)[2]
      BY <1>5, <3>2 DEF Layout
    <3>4. all[j] = Property(name, PlsCode(r.mis))
      BY <1>3, <2>2, <3>1, <3>3 DEF Chosen
    <3>5. all[j].name = name /\ all[j].value = PlsCode(r.mis)
      BY <3>4 DEF Property
    <3>6. \A h \in 1 .. n : all[h].name = name => h = j
      BY <1>9, <3>1 DEF OncePlaced
    <3>7. is[name] = PlsCode(r.mis)
      BY <1>8, <2>1, <2>2, <3>5, <3>6, CachedAt
    <3>8. r.mis # Unset /\ PlsCode(r.mis) # Unset
      BY <1>3, <2>2 DEF Chosen
    <3>9. r.kind = "DvbS2" /\ r.mis.code \in Nat
      BY <3>8, RequestAssumption
    <3> QED BY <2>1, <2>2, <3>7, <3>8, <3>9, PlsCodeIs DEF Scrambled
  <2>3. CASE ~(k = 2 /\ Known(name))
    <3>1. is[name] = Default
      <4>1. ~Known(name) \/ \A h \in 1 .. n : all[h].name # name
        BY <1>9, <2>3 DEF OncePlaced
      <4> QED BY <1>8, <2>1, <4>1, CachedElse
    <3>2. CASE r.kind # "DvbS2" \/ r.mis = Unset \/ Older(api, Api_5_11)
      BY <3>1, <3>2 DEF Scrambled
    <3>3. CASE ~(r.kind # "DvbS2" \/ r.mis = Unset \/ Older(api, Api_5_11))
      <4>1. r.mis # Unset /\ PlsCode(r.mis) = Unset /\ r.mis.code \in Nat
        BY <1>3, <2>1, <2>3, <3>3, RequestAssumption DEF Chosen
      <4>2. r.mis.mode = "Root" /\ Masked(r.mis.code) = 0
        BY <4>1, PlsCodeIs
      <4> QED BY <3>1, <3>3, <4>2 DEF Scrambled
    <3> QED BY <3>2, <3>3
  <2> QED BY <2>2, <2>3
<1>16. ASSUME NEW name \in Names \ (Named[r.kind] \cup {"DeliverySystem", "Frequency",
                                      "StreamId", "ScramblingSequenceIndex"})
       PROVE  is[name] = Default
  <2>1. name \in Names /\ cache[name] = Default
    BY <1>10
  <2>2. name \notin Singles \cup Named[r.kind]
    BY DEF Names, Singles
  <2>3. \A h \in 1 .. n : all[h].name # name
    BY <1>9, <2>2 DEF OncePlaced
  <2> QED BY <1>8, <2>1, <2>3, CachedElse
<1>17. Exactly(r, is)
  BY <1>11, <1>12, <1>13, <1>14, <1>15, <1>16 DEF Exactly
<1> QED BY <1>4, <1>7, <1>8, <1>17

(* No FE_SET_PROPERTY since the cache was cleared: it still holds the defaults. *)
TunedInv == sets \in Nat /\ (sets = 0 => cache = Fresh) /\ TunedExactly

LEMMA ExactlyTuned == TunedExactly <=> (tuned # None /\ tuned.cleared =>
                                            Exactly(tuned.of, tuned.properties))
BY DEF TunedExactly, Exactly

(* Another tune keeps this, and so do a clear and everything else. *)
LEMMA TuneTunes ==
    ASSUME TunedInv, NEW r \in Requests, SetProperties(r, Properties(r, r.id)),
           UNCHANGED api
    PROVE  TunedInv'
<1>1. PICK ps : ps = Properties(r, r.id)
  OBVIOUS
<1>2. sets \in Nat /\ sets' = sets + 1
  BY DEF TunedInv, SetProperties
<1>3. sets' \in Nat /\ sets' # 0
  BY <1>2
<1>4. CASE tuned' = [of |-> r, cleared |-> sets = 0,
                     properties |-> Cached(ps, CHOOSE i \in DOMAIN ps : ps[i].name = "Tune")]
  <2>1. PICK is : is = Cached(ps, CHOOSE i \in DOMAIN ps : ps[i].name = "Tune")
    OBVIOUS
  <2>2. tuned'.of = r /\ tuned'.properties = is /\ (tuned'.cleared <=> sets = 0)
    BY <1>4, <2>1
  <2>3. sets = 0 => Exactly(r, is)
    BY <1>1, <2>1, ActsExactly DEF TunedInv
  <2>4. Exactly(r, is) => Exactly(r, is)'
    BY DEF Exactly, Scrambled
  <2>5. TunedExactly'
    BY <2>2, <2>3, <2>4 DEF TunedExactly, Exactly
  <2> QED BY <1>3, <2>5 DEF TunedInv
<1>5. CASE UNCHANGED tuned
  <2>1. TunedExactly'
    BY <1>5 DEF TunedInv, TunedExactly, Scrambled
  <2> QED BY <1>3, <2>1 DEF TunedInv
<1> QED BY <1>1, <1>4, <1>5 DEF SetProperties

LEMMA OthersDoNotTune ==
    ASSUME TunedInv, UNCHANGED <<api, tuned>>,
           UNCHANGED <<cache, sets>> \/ (cache' = Fresh /\ sets' = 0)
    PROVE  TunedInv'
<1>1. TunedExactly'
  BY DEF TunedInv, TunedExactly, Scrambled
<1>2. sets' \in Nat /\ (sets' = 0 => cache' = Fresh)
  BY DEF TunedInv
<1>3. Fresh' = Fresh
  BY DEF Fresh
<1> QED BY <1>1, <1>2, <1>3 DEF TunedInv

(* src/src/fe/mod.rs:307-309: a tune after a clear acts on exactly what its  *)
(* request says and on the defaults for the rest, whatever was tuned before. *)
THEOREM TunesAsAsked == Spec => []TunedExactly
<1>1. Init => TunedInv
  BY DEF Init, TunedInv, TunedExactly
<1>2. ASSUME TunedInv, [Next]_vars PROVE TunedInv'
  <2>1. CASE Tune
    BY <1>2, <2>1, TuneTunes DEF Tune
  <2>2. CASE Clear
    BY <1>2, <2>2, OthersDoNotTune DEF Clear
  <2>3. CASE GetEvent \/ DrainEvents \/ DrainRead \/ DrainEnds \/ DrainBreaks
    BY <1>2, <2>3, OthersDoNotTune
       DEF GetEvent, DrainEvents, DrainRead, DrainEnds, DrainBreaks, propertyVars
  <2>4. CASE Kernel
    BY <1>2, <2>4, OthersDoNotTune DEF Kernel, Locks, Loses, Flickers, propertyVars
  <2>5. CASE Monitor
    BY <1>2, <2>5, OthersDoNotTune
       DEF Monitor, ReadStatus, GetProperties, Fallback, StatsReturn, propertyVars
  <2>6. CASE UNCHANGED vars
    BY <1>2, <2>6, OthersDoNotTune DEF vars, propertyVars
  <2>7. QED
    BY <1>2, <2>1, <2>2, <2>3, <2>4, <2>5, <2>6 DEF Next, Application
<1>3. TunedInv => TunedExactly
  BY DEF TunedInv
<1>4. QED
  BY <1>1, <1>2, <1>3, PTL DEF Spec

-----------------------------------------------------------------------------
(* The cable to the LNB.                                                    *)
Talks == {"SendBurst", "SendMaster"}
Sets == {"SetTone", "SetVoltage"}
Kinds == {"SetTone", "SetVoltage", "Wait", "SendBurst", "SendMaster"}

(* What a parameter of the cable is once the commands before the i-th have  *)
(* run, if it is `now' before the first of them.                            *)
Stands(do, with, now, left, i) ==
    \/ now = with /\ \A j \in 1 .. i - 1 : left[j].do # do
    \/ \E j \in 1 .. i - 1 : /\ left[j].do = do /\ left[j].with = with
                             /\ \A k \in j + 1 .. i - 1 : left[k].do # do

Settles(settled, left, i) ==
    \/ settled /\ \A j \in 1 .. i - 1 : left[j].do \notin Sets
    \/ \E j \in 1 .. i - 1 : /\ left[j].do = "Wait"
                             /\ \A k \in j + 1 .. i - 1 : left[k].do \notin Sets

(* The first command runs: what will stand later is the same, and what      *)
(* stands before the first command is what the cable carries.               *)
LEMMA TailAt ==
    ASSUME NEW S, NEW left \in Seq(S), left # <<>>
    PROVE  /\ Tail(left) \in Seq(S) /\ Len(left) \in Nat /\ Len(Tail(left)) = Len(left) - 1
           /\ Len(left) > 0
           /\ Head(left) = left[1] /\ Head(left) \in S
           /\ \A i \in 1 .. Len(left) - 1 : Tail(left)[i] = left[i + 1]
BY HeadTailProperties

LEMMA StandsOn ==
    ASSUME NEW S, NEW left \in Seq(S), left # <<>>, NEW i \in 1 .. Len(left),
           NEW do, NEW with, NEW now, NEW next, Stands(do, with, now, left, i + 1),
           next = IF Head(left).do = do THEN Head(left).with ELSE now
    PROVE  Stands(do, with, next, Tail(left), i)
<1>1. /\ Len(left) \in Nat /\ Head(left) = left[1]
      /\ \A k \in 1 .. Len(left) - 1 : Tail(left)[k] = left[k + 1]
  BY TailAt
<1> HIDE DEF Stands
<1>a. CASE now = with /\ \A j \in 1 .. i : left[j].do # do
  <2>1. \A j \in 1 .. i - 1 : Tail(left)[j].do # do
    BY <1>1, <1>a
  <2>2. left[1].do # do
    BY <1>a
  <2> QED
    BY <1>1, <1>a, <2>1, <2>2 DEF Stands
<1>b. ASSUME NEW j \in 1 .. i, left[j].do = do, left[j].with = with,
             \A k \in j + 1 .. i : left[k].do # do
      PROVE  Stands(do, with, next, Tail(left), i)
  <2>1. CASE j = 1
    <3>1. \A k \in 1 .. i - 1 : Tail(left)[k].do # do
      BY <1>1, <1>b, <2>1
    <3> QED
      BY <1>1, <1>b, <2>1, <3>1 DEF Stands
  <2>2. CASE j # 1
    <3>1. j - 1 \in 1 .. i - 1 /\ Tail(left)[j - 1] = left[j]
      BY <1>1, <2>2
    <3>2. \A k \in (j - 1) + 1 .. i - 1 : Tail(left)[k].do # do
      BY <1>1, <1>b, <2>2
    <3> QED
      BY <1>b, <3>1, <3>2 DEF Stands
  <2> QED
    BY <2>1, <2>2
<1>c. i + 1 - 1 = i
  OBVIOUS
<1> QED
  BY <1>a, <1>b, <1>c DEF Stands

LEMMA StandsNow ==
    ASSUME NEW left, NEW do, NEW with, NEW now, Stands(do, with, now, left, 1)
    PROVE  now = with
BY DEF Stands

LEMMA SettlesOn ==
    ASSUME NEW S, NEW left \in Seq(S), left # <<>>, NEW i \in 1 .. Len(left),
           NEW now \in BOOLEAN, NEW next \in BOOLEAN, Settles(now, left, i + 1),
           next = IF Head(left).do = "Wait" THEN TRUE
                  ELSE IF Head(left).do \in Sets THEN FALSE ELSE now
    PROVE  Settles(next, Tail(left), i)
<1>1. /\ Len(left) \in Nat /\ Head(left) = left[1]
      /\ \A k \in 1 .. Len(left) - 1 : Tail(left)[k] = left[k + 1]
  BY TailAt
<1>a. CASE now /\ \A j \in 1 .. i : left[j].do \notin Sets
  <2>1. \A j \in 1 .. i - 1 : Tail(left)[j].do \notin Sets
    BY <1>1, <1>a
  <2>2. left[1].do \notin Sets
    BY <1>a
  <2> QED
    BY <1>1, <1>a, <2>1, <2>2 DEF Settles
<1>b. ASSUME NEW j \in 1 .. i, left[j].do = "Wait",
             \A k \in j + 1 .. i : left[k].do \notin Sets
      PROVE  Settles(next, Tail(left), i)
  <2>1. CASE j = 1
    <3>1. \A k \in 1 .. i - 1 : Tail(left)[k].do \notin Sets
      BY <1>1, <1>b, <2>1
    <3> QED
      BY <1>1, <1>b, <2>1, <3>1 DEF Settles
  <2>2. CASE j # 1
    <3>1. j - 1 \in 1 .. i - 1 /\ Tail(left)[j - 1] = left[j]
      BY <1>1, <2>2
    <3>2. \A k \in (j - 1) + 1 .. i - 1 : Tail(left)[k].do \notin Sets
      BY <1>1, <1>b, <2>2
    <3> QED
      BY <1>b, <3>1, <3>2 DEF Settles
  <2> QED
    BY <2>1, <2>2
<1>c. i + 1 - 1 = i
  OBVIOUS
<1> QED
  BY <1>a, <1>b, <1>c DEF Settles

LEMMA SettlesNow ==
    ASSUME NEW left, NEW now \in BOOLEAN, Settles(now, left, 1)
    PROVE  now
BY DEF Settles

(* A generated sequence, whatever the cable carries before it: the only     *)
(* command that talks is the p-th; before it the tone has been switched off *)
(* and the voltage set, and the cable has settled; and after the last       *)
(* command the tone and the voltage are the ones the transponder needs.     *)
Quiet(left, p, voltage) ==
    \A tone, volts, settled :
        /\ Stands("SetTone", "Off", tone, left, p)
        /\ Stands("SetVoltage", voltage, volts, left, p)
        /\ Settles(settled, left, p)

Leaves(left, tone, voltage) ==
    \A before, volts :
        /\ Stands("SetTone", tone, before, left, Len(left) + 1)
        /\ Stands("SetVoltage", voltage, volts, left, Len(left) + 1)

Listed(left) == /\ \E S : left \in Seq(S)
                /\ \A i \in 1 .. Len(left) : left[i].do \in Kinds

(* A list is a sequence of what is in it.                                 *)
LEMMA ListIn ==
    ASSUME NEW list, IsList(list)
    PROVE  /\ Len(list) \in Nat /\ DOMAIN list = 1 .. Len(list)
           /\ list \in Seq({list[i] : i \in 1 .. Len(list)})
<1> DEFINE S == {list[i] : i \in 1 .. Len(list)}
           n == Len(list)
<1>1. n \in Nat /\ list = [i \in 1 .. n |-> list[i]]
  BY DEF IsList
<1>2. DOMAIN list = 1 .. n
  BY <1>1
<1>3. \A i \in 1 .. n : list[i] \in S
  OBVIOUS
<1> HIDE DEF S, n
<1>4. list \in [1 .. n -> S]
  BY <1>1, <1>3
<1>5. list \in Seq(S)
  BY <1>1, <1>4, SeqDef
<1> QED
  BY <1>1, <1>2, <1>5 DEF S, n

(* A parsed DSL string is a sequence of commands.                          *)
LEMMA ParsedSequence ==
    ASSUME NEW tokens, IsList(tokens), Parse(tokens) # Error
    PROVE  Listed(Parse(tokens))
<1> DEFINE left == Parse(tokens)
           n == Len(tokens)
           command(token) == CASE token[1] = "W" -> Wait(token[2])
                               [] token[1] = "[" -> SendMaster(token[2])
                               [] OTHER -> Letters[token[1]]
           S == {left[i] : i \in 1 .. n}
<1>1. n \in Nat /\ DOMAIN tokens = 1 .. n
  BY ListIn
<1>2. /\ \A i \in 1 .. n : TokenOk(tokens[i])
      /\ left = [i \in 1 .. n |-> command(tokens[i])]
  BY <1>1 DEF Parse
<1>3. \A token : TokenOk(token) => command(token).do \in Kinds
  BY DEF TokenOk, Letters, Wait, SendMaster, SetTone,
         SetVoltage, SendBurst, Kinds
<1> HIDE DEF command
<1>4. \A i \in 1 .. n : left[i].do \in Kinds
  BY <1>2, <1>3
<1> HIDE DEF left, n
<1>5. left \in [1 .. n -> S]
  BY <1>2
<1> HIDE DEF S
<1>6. left \in Seq(S)
  BY <1>1, <1>5, SeqDef
<1>7. Len(left) = n
  BY <1>1, <1>5, <1>6
<1> QED
  BY <1>4, <1>6, <1>7 DEF Listed, left, n, S

LEMMA PlainSequence ==
    ASSUME NEW mhz, NEW config, NEW tone
    PROVE  LET left == LnbSequence(mhz, config, tone).commands IN
           /\ Listed(left)
           /\ \A i \in 1 .. Len(left) : left[i].do \notin Talks
           /\ Leaves(left, tone, config.voltage)
<1> DEFINE left == << [do |-> "SetTone", with |-> "Off"],
                      [do |-> "SetVoltage", with |-> config.voltage],
                      [do |-> "Wait", with |-> "lnb_settle"],
                      [do |-> "SetTone", with |-> tone],
                      [do |-> "Wait", with |-> "lnb_settle"] >>
<1>1. LnbSequence(mhz, config, tone).commands = left
  BY DEF LnbSequence, Setup, SetTone, SetVoltage, Wait
<1>2. Len(left) = 5
  OBVIOUS
<1>3. \A i \in 1 .. 5 : left[i].do \in Kinds \ Talks
  BY DEF Talks, Kinds
<1>4. Leaves(left, tone, config.voltage)
  BY <1>2 DEF Leaves, Stands
<1>5. left \in Seq({left[i] : i \in 1 .. 5})
  OBVIOUS
<1> QED
  BY <1>1, <1>2, <1>3, <1>4, <1>5 DEF Listed

LEMMA ReleasedSequence ==
    ASSUME NEW mhz
    PROVE  LET left == SharedSequence(mhz).commands IN
           /\ Listed(left)
           /\ \A i \in 1 .. Len(left) : left[i].do \notin Talks
           /\ Leaves(left, "Off", "Off")
<1> DEFINE left == << [do |-> "SetTone", with |-> "Off"],
                      [do |-> "SetVoltage", with |-> "Off"] >>
<1>1. SharedSequence(mhz).commands = left
  BY DEF SharedSequence, Setup, SetTone, SetVoltage
<1>2. Len(left) = 2
  OBVIOUS
<1>3. \A i \in 1 .. 2 : left[i].do \in Kinds \ Talks
  BY DEF Talks, Kinds
<1>4. Leaves(left, "Off", "Off")
  BY <1>2 DEF Leaves, Stands
<1>5. left \in Seq({left[i] : i \in 1 .. 2})
  OBVIOUS
<1> QED
  BY <1>1, <1>2, <1>3, <1>4, <1>5 DEF Listed

(* One command of a sequence talks: the p-th, which sends `sent'.           *)
TalksOnce(left, p, sent) ==
    /\ p \in 1 .. Len(left)
    /\ left[p].do \in Talks /\ left[p].with = sent
    /\ \A i \in 1 .. Len(left) : left[i].do \in Talks => i = p

LEMMA SwitchSequence ==
    ASSUME NEW voltage, NEW tone, NEW message
    PROVE  LET left == ControlledMaster(voltage, tone, message) IN
           /\ Listed(left)
           /\ TalksOnce(left, 4, message)
           /\ Quiet(left, 4, voltage)
           /\ Leaves(left, tone, voltage)
<1> DEFINE left == << [do |-> "SetTone", with |-> "Off"],
                      [do |-> "SetVoltage", with |-> voltage],
                      [do |-> "Wait", with |-> "switch_settle"],
                      [do |-> "SendMaster", with |-> message],
                      [do |-> "Wait", with |-> "message_gap"],
                      [do |-> "SetTone", with |-> tone] >>
<1>1. ControlledMaster(voltage, tone, message) = left
  BY DEF ControlledMaster, SetTone, SetVoltage, Wait, SendMaster
<1>2. Len(left) = 6
  OBVIOUS
<1>3. TalksOnce(left, 4, message)
  BY <1>2 DEF TalksOnce, Talks
<1>4. Leaves(left, tone, voltage)
  BY <1>2 DEF Leaves, Stands
<1>5. Quiet(left, 4, voltage)
  BY <1>2 DEF Quiet, Stands, Settles, Sets
<1>6. left \in Seq({left[i] : i \in 1 .. 6})
  OBVIOUS
<1>k. \A i \in 1 .. 6 : left[i].do \in Kinds
  BY DEF Kinds
<1> QED
  BY <1>1, <1>2, <1>3, <1>4, <1>5, <1>6, <1>k DEF Listed

LEMMA BurstSequence ==
    ASSUME NEW mhz, NEW config, NEW tone
    PROVE  LET left == ToneburstSequence(mhz, config, tone).commands IN
           /\ Listed(left)
           /\ TalksOnce(left, 4, config.burst)
           /\ Quiet(left, 4, config.voltage)
           /\ Leaves(left, tone, config.voltage)
<1> DEFINE left == << [do |-> "SetTone", with |-> "Off"],
                      [do |-> "SetVoltage", with |-> config.voltage],
                      [do |-> "Wait", with |-> "message_gap"],
                      [do |-> "SendBurst", with |-> config.burst],
                      [do |-> "Wait", with |-> "message_gap"],
                      [do |-> "SetTone", with |-> tone] >>
<1>1. ToneburstSequence(mhz, config, tone).commands = left
  BY DEF ToneburstSequence, Setup, SetTone, SetVoltage, Wait,
         SendBurst
<1>2. Len(left) = 6
  OBVIOUS
<1>3. TalksOnce(left, 4, config.burst)
  BY <1>2 DEF TalksOnce, Talks
<1>4. Leaves(left, tone, config.voltage)
  BY <1>2 DEF Leaves, Stands
<1>5. Quiet(left, 4, config.voltage)
  BY <1>2 DEF Quiet, Stands, Settles, Sets
<1>6. left \in Seq({left[i] : i \in 1 .. 6})
  OBVIOUS
<1>k. \A i \in 1 .. 6 : left[i].do \in Kinds
  BY DEF Kinds
<1> QED
  BY <1>1, <1>2, <1>3, <1>4, <1>5, <1>6, <1>k DEF Listed

LEMMA UnicableSequence ==
    ASSUME NEW mhz, NEW message
    PROVE  LET left == UnicableTune(mhz, message).commands IN
           /\ Listed(left)
           /\ TalksOnce(left, 6, message)
           /\ Quiet(left, 6, "V18")
           /\ Leaves(left, "Off", "V13")
<1> DEFINE left == << [do |-> "SetVoltage", with |-> "V13"],
                      [do |-> "SetTone", with |-> "Off"],
                      [do |-> "Wait", with |-> "unicable_settle"],
                      [do |-> "SetVoltage", with |-> "V18"],
                      [do |-> "Wait", with |-> "message_gap"],
                      [do |-> "SendMaster", with |-> message],
                      [do |-> "Wait", with |-> "unicable_hold"],
                      [do |-> "SetVoltage", with |-> "V13"] >>
<1>1. UnicableTune(mhz, message).commands = left
  BY DEF UnicableTune, Setup, SetTone, SetVoltage, Wait,
         SendMaster
<1>2. Len(left) = 8
  OBVIOUS
<1>3. TalksOnce(left, 6, message)
  BY <1>2 DEF TalksOnce, Talks
<1>4. Leaves(left, "Off", "V13")
  BY <1>2 DEF Leaves, Stands
<1>5. Quiet(left, 6, "V18")
  BY <1>2 DEF Quiet, Stands, Settles, Sets
<1>6. left \in Seq({left[i] : i \in 1 .. 8})
  OBVIOUS
<1>k. \A i \in 1 .. 8 : left[i].do \in Kinds
  BY DEF Kinds
<1> QED
  BY <1>1, <1>2, <1>3, <1>4, <1>5, <1>6, <1>k DEF Listed

(***************************************************************************)
(* What setup_sec() makes of its arguments.                                *)
(***************************************************************************)
Argument(setup) ==
    setup.mhz \in MHz /\ IsLnb(setup.lnb) /\ IsConfig(setup.config)

Accepted(setup) == Argument(setup) /\ Sequence(setup) # Error

Switches == {"Switch1_0", "Switch1_1"}
Addressed == Switches \cup {"Toneburst"} \cup Unicables

At(setup) == Intermediate(setup.lnb, setup.mhz)
Band(setup) == BandOf(setup.lnb, setup.mhz)
Commands(setup) == Sequence(setup).commands
Place(setup) == IF setup.config.kind \in Unicables THEN 6 ELSE 4
EndTone(setup) ==
    IF setup.config.kind \in Unicables \cup {"Shared"} THEN "Off" ELSE Band(setup)
EndVoltage(setup) ==
    IF setup.config.kind \in Unicables THEN "V13"
    ELSE IF setup.config.kind = "Shared" THEN "Off" ELSE setup.config.voltage
EndAt(setup) ==
    IF setup.config.kind \in Unicables THEN setup.config.mhz ELSE At(setup)

(* The message to the equipment: its bytes, or the burst.                  *)
High(setup, weight) == IF setup.config.voltage = "V18" THEN weight ELSE 0
On(setup, weight) == IF Band(setup) = "On" THEN weight ELSE 0

SwitchByte(port, voltage, tone) == 240 + (port - 1) * 4 + voltage + tone
PortByte(port) == 240 + port - 1
BandByte(slot, position, voltage, tone, x) ==
    (slot - 1) * 32 + position * 16 + voltage + tone + x \div 256
SlotByte(slot, x) == (slot - 1) * 8 + x \div 256
PlaceByte(position, voltage, tone) == position * 4 + voltage + tone

(* The frequency words of the two Unicable protocols.                      *)
Word1(setup) == (At(setup) + setup.config.mhz + 2) \div 4 - 350
Word2(setup) == At(setup) - 100

MessageFor(setup) ==
    LET config == setup.config
    IN  CASE config.kind = "Switch1_0" ->
               << 224, 16, 56, SwitchByte(config.port, High(setup, 2), On(setup, 1)) >>
          [] config.kind = "Switch1_1" -> << 224, 16, 57, PortByte(config.port) >>
          [] config.kind = "Toneburst" -> config.burst
          [] config.kind = "Unicable1" ->
               << 224, 16, 90, BandByte(config.slot, config.position, High(setup, 8),
                                        On(setup, 4), Word1(setup)),
                  Word1(setup) % 256 >>
          [] config.kind = "Unicable2" ->
               << IF config.pin # <<>> THEN 113 ELSE 112,
                  SlotByte(config.slot, Word2(setup)), Word2(setup) % 256,
                  PlaceByte(config.position, High(setup, 2), On(setup, 1)) >> \o config.pin

(* The ranges in which the fields of a message fit.                        *)
Fits(setup) ==
    /\ At(setup) # Error
    /\ setup.config.kind = "Switch1_0" => setup.config.port \in 1 .. 4
    /\ setup.config.kind = "Switch1_1" => setup.config.port \in 1 .. 16
    /\ setup.config.kind = "Unicable1" =>
          /\ setup.config.slot \in 1 .. 8 /\ setup.config.position <= 1
          /\ Word1(setup) \in 0 .. 1023
    /\ setup.config.kind = "Unicable2" =>
          /\ setup.config.slot \in 1 .. 32 /\ setup.config.position <= 63
          /\ Word2(setup) \in 0 .. 2047

Planned(setup) ==
    /\ Listed(Commands(setup))
    /\ Leaves(Commands(setup), EndTone(setup), EndVoltage(setup))
    /\ setup.config.kind \in Addressed =>
          /\ TalksOnce(Commands(setup), Place(setup), MessageFor(setup))
          /\ Quiet(Commands(setup), Place(setup), Feeding(setup.config))
    /\ setup.config.kind \notin Addressed =>
          \A i \in 1 .. Len(Commands(setup)) : Commands(setup)[i].do \notin Talks

LEMMA UnicableTypes ==
    ASSUME NEW config, IsConfig(config), config.kind \in Unicables
    PROVE  /\ config.slot \in 0 .. 255 /\ config.position \in 0 .. 255
           /\ config.mhz \in MHz
           /\ config.pin \in {<<>>} \cup {<<pin>> : pin \in Bytes}
<1>1. /\ {config.slot, config.position} \subseteq Bytes
      /\ config.mhz \in MHz
      /\ config.pin \in {<<>>} \cup {<<pin>> : pin \in Bytes}
  BY DEF IsConfig, Unicables
<1> QED
  BY <1>1 DEF Bytes

(* The intermediate frequency is a number, and the one the LNB delivers the *)
(* transponder at under the band tone.                                      *)
LEMMA AtDelivered ==
    ASSUME NEW setup, Argument(setup), At(setup) # Error
    PROVE  /\ At(setup) \in Nat
           /\ At(setup) = Delivered(setup.lnb, Band(setup), setup.mhz)
           /\ RightBand(setup.lnb, Band(setup), setup.mhz)
           /\ Band(setup) \in {"On", "Off"}
<1> DEFINE lnb == setup.lnb
           mhz == setup.mhz
<1>1. mhz \in Nat /\ IsLnb(lnb)
  BY DEF Argument, MHz
<1>2. \A a, b \in Int : LnbOffset(a, b) # Error =>
          LnbOffset(a, b) \in Nat /\ LnbOffset(a, b) = a - b
  BY DEF LnbOffset
<1>p. CASE lnb.kind = "Passthrough"
  <2>1. At(setup) = mhz /\ Band(setup) = "Off"
    BY <1>p DEF At, Band, Intermediate, BandOf
  <2> QED
    BY <1>1, <1>p, <2>1 DEF Delivered, RightBand
<1>s. CASE lnb.kind = "Single"
  <2>1. At(setup) = LnbOffset(mhz, lnb.lof) /\ Band(setup) = "Off"
    BY <1>s DEF At, Band, Intermediate, BandOf
  <2>2. lnb.lof \in Int
    BY <1>1, <1>s DEF IsLnb, MHz
  <2>3. At(setup) \in Nat /\ At(setup) = mhz - lnb.lof
    BY <1>1, <1>2, <2>1, <2>2
  <2> QED
    BY <1>s, <2>1, <2>3 DEF Delivered, RightBand
<1>c. CASE lnb.kind = "CBand"
  <2>1. At(setup) = LnbOffset(lnb.lof, mhz) /\ Band(setup) = "Off"
    BY <1>c DEF At, Band, Intermediate, BandOf
  <2>2. lnb.lof \in Int
    BY <1>1, <1>c DEF IsLnb, MHz
  <2>3. At(setup) \in Nat /\ At(setup) = lnb.lof - mhz
    BY <1>1, <1>2, <2>1, <2>2
  <2> QED
    BY <1>c, <2>1, <2>3 DEF Delivered, RightBand
<1>u. CASE lnb.kind = "Universal"
  <2>1. {lnb.low, lnb.high, lnb.switch} \subseteq MHz
    BY <1>1, <1>u DEF IsLnb
  <2>2. lnb.low \in Int /\ lnb.high \in Int /\ lnb.switch \in Int
    BY <2>1 DEF MHz
  <2>3. Band(setup) = (IF mhz > lnb.switch - 1 THEN "On" ELSE "Off")
    BY <1>1, <1>u, <2>2 DEF Band, BandOf
  <2>4. At(setup) = LnbOffset(mhz, IF Band(setup) = "On" THEN lnb.high ELSE lnb.low)
    BY <1>u DEF At, Band, Intermediate
  <2>5. /\ At(setup) \in Nat
        /\ At(setup) = mhz - (IF Band(setup) = "On" THEN lnb.high ELSE lnb.low)
    BY <1>1, <1>2, <2>2, <2>4
  <2> QED
    BY <1>u, <2>3, <2>5 DEF Delivered, RightBand
<1> QED
  BY <1>1, <1>p, <1>s, <1>c, <1>u DEF IsLnb

(* A sequence that is not refused is planned, its fields fit, and it       *)
(* returns the frequency the frontend gets.                                *)
LEMMA AcceptedPlan ==
    ASSUME NEW setup, Accepted(setup)
    PROVE  /\ Fits(setup)
           /\ Listed(Commands(setup))
           /\ Sequence(setup).khz = (EndAt(setup) * 1000) % Word
           /\ setup.config.kind # "Dsl" => Planned(setup)
<1> DEFINE config == setup.config
           kind == config.kind
           f == At(setup)
           band == Band(setup)
<1>1. /\ f # Error
      /\ Sequence(setup) = Sequenced(f, config, band)
      /\ Sequenced(f, config, band) # Error
  BY DEF Accepted, Sequence, SecSequence, At, Band
<1>2. /\ kind \in {"Lnb", "Shared", "Dsl"} \cup Addressed
      /\ setup.mhz \in MHz
  BY DEF Accepted, Argument, IsConfig, Addressed, Switches, Unicables
<1>3. Argument(setup) /\ f \in Nat
  BY <1>1, AtDelivered DEF Accepted
<1>4. IsConfig(config)
  BY <1>3 DEF Argument
<1>l. CASE kind = "Lnb"
  <2>1. Sequence(setup) = LnbSequence(f, config, band)
    BY <1>1, <1>l DEF Sequenced
  <2>2. kind \notin Addressed \cup Unicables
    BY <1>l DEF Addressed, Switches, Unicables
  <2>3. Planned(setup)
    BY <2>1, <2>2, <1>l, PlainSequence DEF Planned, Commands, EndTone, EndVoltage
  <2>4. Sequence(setup).khz = (EndAt(setup) * 1000) % Word
    BY <2>1, <2>2 DEF LnbSequence, Setup, EndAt
  <2> QED
    BY <1>1, <1>l, <2>3, <2>4 DEF Fits, Planned
<1>s. CASE kind = "Shared"
  <2>1. Sequence(setup) = SharedSequence(f)
    BY <1>1, <1>s DEF Sequenced
  <2>2. kind \notin Addressed \cup Unicables
    BY <1>s DEF Addressed, Switches, Unicables
  <2>3. Planned(setup)
    BY <2>1, <2>2, <1>s, ReleasedSequence DEF Planned, Commands, EndTone, EndVoltage
  <2>4. Sequence(setup).khz = (EndAt(setup) * 1000) % Word
    BY <2>1, <2>2 DEF SharedSequence, Setup, EndAt
  <2> QED
    BY <1>1, <1>s, <2>3, <2>4 DEF Fits, Planned
<1>d. CASE kind = "Dsl"
  <2>1. Sequence(setup) = Setup(f, Parse(config.tokens))
    BY <1>1, <1>d DEF Sequenced, DslSequence
  <2>2. kind \notin Unicables
    BY <1>d DEF Unicables
  <2>3. IsList(config.tokens)
    BY <1>4, <1>d DEF IsConfig
  <2>4. Parse(config.tokens) # Error
    BY <1>1, <1>d DEF Sequenced, DslSequence
  <2>5. Listed(Commands(setup))
    BY <2>1, <2>3, <2>4, ParsedSequence DEF Commands, Setup
  <2> QED
    BY <1>1, <1>d, <2>1, <2>2, <2>5 DEF Setup, EndAt, Fits
<1>t. CASE kind = "Toneburst"
  <2>1. Sequence(setup) = ToneburstSequence(f, config, band)
    BY <1>1, <1>t DEF Sequenced
  <2>2. kind \in Addressed /\ kind \notin Unicables /\ kind # "Shared"
    BY <1>t DEF Addressed, Switches, Unicables
  <2>3. MessageFor(setup) = config.burst
    BY <1>t DEF MessageFor
  <2>4. Planned(setup)
    BY <2>1, <2>2, <2>3, BurstSequence
    DEF Planned, Commands, EndTone, EndVoltage, Place, Feeding
  <2>5. Sequence(setup).khz = (EndAt(setup) * 1000) % Word
    BY <2>1, <2>2 DEF ToneburstSequence, Setup, EndAt
  <2> QED
    BY <1>1, <1>t, <2>4, <2>5 DEF Fits, Planned
<1>w. CASE kind \in Switches
  <2> DEFINE message == MessageFor(setup)
  <2>1. /\ Sequence(setup) =
              Setup(f, ControlledMaster(config.voltage, band, message))
        /\ kind = "Switch1_0" => config.port \in 1 .. 4
        /\ kind = "Switch1_1" => config.port \in 1 .. 16
    <3>1. CASE kind = "Switch1_0"
      <4>1. Sequence(setup) = Diseqc10Sequence(f, config, band)
        BY <1>1, <3>1 DEF Sequenced
      <4>2. MessageFor(setup) = << 224, 16, 56, SwitchByte(config.port, High(setup, 2), On(setup, 1)) >>
        BY <3>1 DEF MessageFor
      <4> QED
        BY <1>1, <3>1, <4>1, <4>2 DEF Diseqc10Sequence, SwitchByte, High, On, Bit
    <3>2. CASE kind = "Switch1_1"
      <4>1. Sequence(setup) = Diseqc11Sequence(f, config, band)
        BY <1>1, <3>2 DEF Sequenced
      <4>2. MessageFor(setup) = << 224, 16, 57, PortByte(config.port) >>
        BY <3>2 DEF MessageFor
      <4> QED
        BY <1>1, <3>2, <4>1, <4>2 DEF Diseqc11Sequence, PortByte
    <3> QED
      BY <1>w, <3>1, <3>2 DEF Switches
  <2>2. kind \in Addressed /\ kind \notin Unicables /\ kind # "Shared"
    BY <1>w DEF Addressed, Switches, Unicables
  <2>3. Commands(setup) = ControlledMaster(config.voltage, band, message)
    BY <2>1 DEF Commands, Setup
  <2>4. Planned(setup)
    BY <2>2, <2>3, SwitchSequence
    DEF Planned, EndTone, EndVoltage, Place, Feeding
  <2>5. Sequence(setup).khz = (EndAt(setup) * 1000) % Word
    BY <2>1, <2>2 DEF Setup, EndAt
  <2> QED
    BY <1>1, <1>w, <2>1, <2>4, <2>5 DEF Fits, Planned, Switches
<1>u. CASE kind \in Unicables
  <2> DEFINE message == MessageFor(setup)
  <2>a. config.position \in 0 .. 255 /\ config.mhz \in MHz
    BY <1>4, <1>u, UnicableTypes
  <2>0. config.position \in Nat /\ config.mhz \in Int
    BY <2>a DEF MHz
  <2>1. /\ Sequence(setup) = UnicableTune(config.mhz, message)
        /\ Fits(setup)
    <3>1. CASE kind = "Unicable1"
      <4>1. Sequence(setup) = Unicable1Sequence(f, config, band)
        BY <1>1, <3>1 DEF Sequenced
      <4> DEFINE x == Word1(setup)
                 b1 == BandByte(config.slot, config.position, High(setup, 8), On(setup, 4), x)
      <4>2. MessageFor(setup) = << 224, 16, 90, b1, x % 256 >>
        BY <3>1 DEF MessageFor
      <4>3. config.position \in Nat /\ config.mhz \in Int
        BY <2>0
      <4>4. Unicable1Word(f, config.mhz) = x
        BY DEF Unicable1Word, Word1
      <4>5. b1 = (config.slot - 1) * 32 + config.position * 16
                 + Bit(config.voltage = "V18", 8) + Bit(band = "On", 4) + x \div 256
        BY DEF BandByte, High, On, Bit
      <4> HIDE DEF x
      <4>6. Unicable1Sequence(f, config, band) =
              IF \/ config.slot \notin 1 .. 8
                 \/ config.position > 1
                 \/ f + config.mhz + 2 >= Word
                 \/ x \notin 0 .. 1023
              THEN Error
              ELSE UnicableTune(config.mhz, << 224, 16, 90, b1, x % 256 >>)
        BY <4>4, <4>5 DEF Unicable1Sequence
      <4> HIDE DEF b1
      <4>7. /\ config.slot \in 1 .. 8 /\ ~(config.position > 1) /\ x \in 0 .. 1023
            /\ Sequence(setup) =
                  UnicableTune(config.mhz, << 224, 16, 90, b1, x % 256 >>)
        BY <1>1, <4>1, <4>6
      <4>8. config.position <= 1
        BY <4>3, <4>7
      <4>9. Fits(setup)
        BY <1>1, <3>1, <4>7, <4>8 DEF Fits, x
      <4> QED
        BY <4>2, <4>7, <4>9
    <3>2. CASE kind = "Unicable2"
      <4>1. Sequence(setup) = Unicable2Sequence(f, config, band)
        BY <1>1, <3>2 DEF Sequenced
      <4> DEFINE x == Word2(setup)
                 bytes == << IF config.pin # <<>> THEN 113 ELSE 112, SlotByte(config.slot, x),
                             x % 256, PlaceByte(config.position, High(setup, 2), On(setup, 1)) >>
      <4>2. MessageFor(setup) = bytes \o config.pin
        BY <3>2 DEF MessageFor
      <4>3. config.position \in Nat /\ config.mhz \in Int
        BY <2>0
      <4>4. /\ config.slot \in 1 .. 32 /\ ~(config.position > 63)
            /\ x \in 0 .. 2047
            /\ Sequence(setup) = UnicableTune(config.mhz, bytes \o config.pin)
        BY <1>1, <1>3, <4>1, <4>3
        DEF Unicable2Sequence, Word2, SlotByte, PlaceByte, High, On, Bit
      <4> HIDE DEF bytes
      <4>5. Fits(setup)
        BY <1>1, <1>3, <3>2, <4>3, <4>4 DEF Fits
      <4> QED
        BY <4>2, <4>4, <4>5
    <3> QED
      BY <1>u, <3>1, <3>2 DEF Unicables
  <2>2. kind \in Addressed
    BY <1>u DEF Addressed
  <2>3. Planned(setup)
    BY <1>u, <2>1, <2>2, UnicableSequence
    DEF Planned, Commands, EndTone, EndVoltage, Place, Feeding
  <2>4. Sequence(setup).khz = (EndAt(setup) * 1000) % Word
    BY <1>u, <2>1 DEF UnicableTune, Setup, EndAt
  <2>5. kind # "Dsl"
    BY <1>u DEF Unicables
  <2> QED
    BY <2>1, <2>3, <2>4, <2>5 DEF Planned
<1> QED
  BY <1>2, <1>l, <1>s, <1>d, <1>t, <1>w, <1>u DEF Addressed

Words1 == 0 .. 1023
Words2 == 0 .. 2047

(* Bytes put together from their fields, and taken apart again.            *)
LEMMA SwitchFields ==
    ASSUME NEW p \in 1 .. 4, NEW a \in {0, 2}, NEW b \in {0, 1}
    PROVE  LET d == SwitchByte(p, a, b) IN
           /\ d \div 16 = 15
           /\ ((d \div 4) % 4) + 1 = p
           /\ (d \div 2) % 2 = a \div 2
           /\ d % 2 = b
BY DEF SwitchByte

LEMMA PortField ==
    ASSUME NEW p \in 1 .. 16
    PROVE  PortByte(p) \div 16 = 15 /\ (PortByte(p) % 16) + 1 = p
BY DEF PortByte

ReadsBand(d, s, p, a, b, x) ==
    /\ (d \div 32) + 1 = s
    /\ (d \div 16) % 2 = p
    /\ (d \div 8) % 2 = a \div 8
    /\ (d \div 4) % 2 = b \div 4
    /\ (d % 4) * 256 + (x % 256) = x

LEMMA BandFields ==
    ASSUME NEW s \in 1 .. 8, NEW p \in 0 .. 1, NEW a \in {0, 8}, NEW b \in {0, 4},
           NEW x \in Words1
    PROVE  ReadsBand(BandByte(s, p, a, b, x), s, p, a, b, x)
<1> DEFINE h == x \div 256
           d == BandByte(s, p, a, b, x)
<1>1. h \in 0 .. 3 /\ h * 256 + (x % 256) = x
  BY DEF Words1
<1>2. /\ (d \div 32) + 1 = s
      /\ (d \div 16) % 2 = p
      /\ (d \div 8) % 2 = a \div 8
      /\ (d \div 4) % 2 = b \div 4
      /\ d % 4 = h
  <2>1. d = (s - 1) * 32 + p * 16 + a + b + h
    BY DEF BandByte
  <2> HIDE DEF h, d
  <2> QED
    BY <1>1, <2>1
<1> QED
  BY <1>1, <1>2 DEF ReadsBand

ReadsSlot(d, s, x) == (d \div 8) + 1 = s /\ (d % 8) * 256 + (x % 256) = x

LEMMA SlotFields ==
    ASSUME NEW s \in 1 .. 32, NEW x \in Words2
    PROVE  ReadsSlot(SlotByte(s, x), s, x)
<1> DEFINE h == x \div 256
           d == SlotByte(s, x)
<1>1. h \in 0 .. 7 /\ h * 256 + (x % 256) = x
  BY DEF Words2
<1>2. (d \div 8) + 1 = s /\ d % 8 = h
  <2>1. d = (s - 1) * 8 + h
    BY DEF SlotByte
  <2> HIDE DEF h, d
  <2> QED
    BY <1>1, <2>1
<1> QED
  BY <1>1, <1>2 DEF ReadsSlot

ReadsPlace(e, p, a, b) == e \div 4 = p /\ (e \div 2) % 2 = a \div 2 /\ e % 2 = b

LEMMA PlaceFields ==
    ASSUME NEW p \in 0 .. 63, NEW a \in {0, 2}, NEW b \in {0, 1}
    PROVE  ReadsPlace(PlaceByte(p, a, b), p, a, b)
BY DEF PlaceByte, ReadsPlace

LEMMA FirstThree ==
    ASSUME NEW a, NEW b, NEW c, NEW d, NEW sent, sent = <<a, b, c, d>>
    PROVE  SubSeq(sent, 1, 3) = <<a, b, c>>
<1> DEFINE S == {a, b, c, d}
           three == <<a, b, c>>
<1>1. \A i \in 1 .. 3 : sent[i] = three[i] /\ sent[i] \in S
  OBVIOUS
<1>2. three \in Seq(S) /\ Len(three) = 3
  OBVIOUS
<1> HIDE DEF S, three
<1>3. /\ SubSeq(sent, 1, 3) \in Seq(S)
      /\ Len(SubSeq(sent, 1, 3)) = 3
      /\ \A i \in 1 .. 3 : SubSeq(sent, 1, 3)[i] = sent[1 + i - 1]
  BY <1>1, SubSeqProperties
<1>4. SubSeq(sent, 1, 3) = three
  BY <1>1, <1>2, <1>3, SeqEqual
<1> QED
  BY <1>4 DEF three

LEMMA FirstThreeOfFive ==
    ASSUME NEW a, NEW b, NEW c, NEW d, NEW e, NEW sent, sent = <<a, b, c, d, e>>
    PROVE  SubSeq(sent, 1, 3) = <<a, b, c>>
<1> DEFINE S == {a, b, c, d, e}
           three == <<a, b, c>>
<1>1. \A i \in 1 .. 3 : sent[i] = three[i] /\ sent[i] \in S
  OBVIOUS
<1>2. three \in Seq(S) /\ Len(three) = 3
  OBVIOUS
<1> HIDE DEF S, three
<1>3. /\ SubSeq(sent, 1, 3) \in Seq(S)
      /\ Len(SubSeq(sent, 1, 3)) = 3
      /\ \A i \in 1 .. 3 : SubSeq(sent, 1, 3)[i] = sent[1 + i - 1]
  BY <1>1, SubSeqProperties
<1>4. SubSeq(sent, 1, 3) = three
  BY <1>1, <1>2, <1>3, SeqEqual
<1> QED
  BY <1>4 DEF three

KeepsPin(sent, a, b, c, d, pin) ==
    /\ SubSeq(sent, 5, Len(sent)) = pin
    /\ sent[1] = a /\ sent[2] = b /\ sent[3] = c /\ sent[4] = d
    /\ Len(pin) = IF pin # <<>> THEN 1 ELSE 0

IsPin(pin) == pin \in {<<>>} \cup {<<x>> : x \in Bytes}

LEMMA PinKept ==
    ASSUME NEW a, NEW b, NEW c, NEW d, NEW pin, IsPin(pin)
    PROVE  KeepsPin(<<a, b, c, d>> \o pin, a, b, c, d, pin)
<1> DEFINE bytes == Bytes
           sent == <<a, b, c, d>> \o pin
<1> HIDE DEF bytes
<1> DEFINE S == {a, b, c, d} \cup bytes
           n == Len(pin)
<1>1. pin \in Seq(S) /\ Len(pin) = (IF pin # <<>> THEN 1 ELSE 0)
  <2>0. pin = <<>> \/ \E x \in bytes : pin = <<x>>
    BY DEF IsPin, bytes
  <2>1. CASE pin = <<>>
    BY <2>1
  <2>2. ASSUME NEW x \in bytes, pin = <<x>>
        PROVE  pin \in Seq(S) /\ Len(pin) = (IF pin # <<>> THEN 1 ELSE 0)
    BY <2>2
  <2> QED
    BY <2>0, <2>1, <2>2
<1> DEFINE four == <<a, b, c, d>>
<1>2. /\ four \in Seq(S) /\ Len(four) = 4
      /\ four[1] = a /\ four[2] = b /\ four[3] = c /\ four[4] = d
  OBVIOUS
<1> HIDE DEF four, S
<1>a. n \in Nat
  BY <1>1
<1>b. /\ four \o pin \in Seq(S) /\ Len(four \o pin) = Len(four) + Len(pin)
      /\ \A i \in 1 .. Len(four) + Len(pin) :
            (four \o pin)[i] = IF i <= Len(four) THEN four[i] ELSE pin[i - Len(four)]
  BY <1>1, <1>2, ConcatProperties
<1>c. sent = four \o pin
  BY DEF four
<1> HIDE DEF sent
<1>3. /\ sent \in Seq(S) /\ Len(sent) = 4 + n
      /\ \A i \in 1 .. 4 + n : sent[i] = IF i <= 4 THEN four[i] ELSE pin[i - 4]
  BY <1>1, <1>2, <1>b, <1>c
<1>4. /\ sent[1] = a /\ sent[2] = b /\ sent[3] = c /\ sent[4] = d
  BY <1>a, <1>2, <1>3
<1>5. /\ SubSeq(sent, 5, Len(sent)) \in Seq(S)
      /\ Len(SubSeq(sent, 5, Len(sent))) = n
      /\ \A i \in 1 .. n : SubSeq(sent, 5, Len(sent))[i] = sent[5 + i - 1]
  <2>1. \A i \in 5 .. 4 + n : sent[i] \in S
    BY <1>a, <1>1, <1>3
  <2> QED
    BY <1>a, <1>3, <2>1, SubSeqProperties
<1>6. SubSeq(sent, 5, Len(sent)) = pin
  <2>1. \A i \in 1 .. n : SubSeq(sent, 5, Len(sent))[i] = pin[i]
    BY <1>a, <1>3, <1>5
  <2> QED
    BY <1>1, <1>5, <2>1, SeqEqual
<1> QED
  BY <1>1, <1>4, <1>6 DEF KeepsPin, sent

(* What the equipment makes of the message is what was asked for.          *)
LEMMA MessageSelects ==
    ASSUME NEW setup, Accepted(setup),
           setup.config.kind \in Switches \cup Unicables,
           heard.by = setup, heard.sent = MessageFor(setup),
           setup.config.kind \in Switches => line.tone = Band(setup)
    PROVE  Selected(setup, At(setup))
<1> DEFINE config == setup.config
           kind == config.kind
           f == At(setup)
           band == Band(setup)
           sent == heard.sent
           volts(bit) == Polarisation(bit)
           u == Understood(kind, sent, config, f)
<1>1. Fits(setup) /\ Argument(setup)
  BY AcceptedPlan DEF Accepted
<1>2. /\ f \in Nat /\ RightBand(setup.lnb, band, setup.mhz)
      /\ band \in {"On", "Off"}
  BY <1>1, AtDelivered DEF Fits
<1>3. IsConfig(config)
  BY <1>1 DEF Argument
<1>4. config.voltage \in {"V13", "V18", "Off"}
  BY <1>3 DEF IsConfig, Voltage, Switches, Unicables
<1>5. /\ High(setup, 2) \in {0, 2} /\ High(setup, 8) \in {0, 8}
      /\ config.voltage # "Off" => /\ volts(High(setup, 2) \div 2) = config.voltage
                                   /\ volts(High(setup, 8) \div 8) = config.voltage
  BY <1>4 DEF High, Polarisation
<1>6. /\ On(setup, 1) \in {0, 1} /\ On(setup, 4) \in {0, 4}
      /\ ToneOf(On(setup, 1)) = band /\ ToneOf(On(setup, 4) \div 4) = band
  BY <1>2 DEF On, ToneOf
<1>a. CASE kind = "Switch1_0"
  <2> DEFINE d == SwitchByte(config.port, High(setup, 2), On(setup, 1))
  <2>1. sent = << 224, 16, 56, d >> /\ config.port \in 1 .. 4
    BY <1>1, <1>a DEF MessageFor, Fits
  <2>2. /\ d \div 16 = 15
        /\ ((d \div 4) % 4) + 1 = config.port
        /\ (d \div 2) % 2 = High(setup, 2) \div 2
        /\ d % 2 = On(setup, 1)
    BY <1>5, <1>6, <2>1, SwitchFields
  <2> HIDE DEF d
  <2>3. SubSeq(sent, 1, 3) = << 224, 16, 56 >> /\ sent[4] = d
    BY <2>1, FirstThree
  <2>4. u = << config.port, 0, volts((d \div 2) % 2), ToneOf(d % 2), f, f >>
    BY <1>a, <2>2, <2>3 DEF Understood
  <2>5. kind \notin Unicables
    BY <1>a DEF Unicables
  <2>6. /\ u # <<>> /\ u[1] = config.port /\ (config.voltage # "Off" => u[3] = config.voltage)
        /\ u[4] = band /\ u[5] = f /\ u[6] = f
    BY <1>5, <1>6, <2>2, <2>4
  <2> QED
    BY <1>2, <2>5, <2>6 DEF Selected
<1>b. CASE kind = "Switch1_1"
  <2> DEFINE d == PortByte(config.port)
  <2>1. sent = << 224, 16, 57, d >> /\ config.port \in 1 .. 16
    BY <1>1, <1>b DEF MessageFor, Fits
  <2>2. d \div 16 = 15 /\ (d % 16) + 1 = config.port
    BY <2>1, PortField
  <2> HIDE DEF d
  <2>3. SubSeq(sent, 1, 3) = << 224, 16, 57 >> /\ sent[4] = d
    BY <2>1, FirstThree
  <2>4. u = << config.port, 0, config.voltage, line.tone, f, f >>
    BY <1>b, <2>2, <2>3 DEF Understood
  <2>5. kind \notin Unicables /\ line.tone = band
    BY <1>b DEF Unicables, Switches
  <2>6. /\ u # <<>> /\ u[1] = config.port /\ u[3] = config.voltage
        /\ u[4] = band /\ u[5] = f /\ u[6] = f
    BY <2>4, <2>5
  <2> QED
    BY <1>2, <2>5, <2>6 DEF Selected
<1>u. CASE kind \in Unicables
  <2>1. config.position \in 0 .. 255
    BY <1>3, <1>u, UnicableTypes
  <2>m. config.mhz \in MHz
    BY <1>3, <1>u, UnicableTypes
  <2>2. config.mhz \in Int
    BY <2>m DEF MHz
  <2>p. IsPin(config.pin)
    BY <1>3, <1>u, UnicableTypes DEF IsPin
  <2>a. CASE kind = "Unicable1"
    <3>x. PICK x : x = Word1(setup)
      OBVIOUS
    <3> DEFINE d == BandByte(config.slot, config.position, High(setup, 8), On(setup, 4), x)
    <3>a. sent = << 224, 16, 90, d, x % 256 >>
      BY <3>x, <2>a DEF MessageFor
    <3>b. /\ config.slot \in 1 .. 8 /\ config.position <= 1 /\ x \in 0 .. 1023
      BY <3>x, <1>1, <2>a DEF Fits
    <3>c. config.position \in 0 .. 1
      <4> QED
        BY <2>1, <3>b
    <3>1. ReadsBand(d, config.slot, config.position, High(setup, 8), On(setup, 4), x)
      <4>1. High(setup, 8) \in {0, 8} /\ On(setup, 4) \in {0, 4}
        BY <1>5, <1>6
      <4>2. x \in Words1
        BY <3>b DEF Words1
      <4> QED
        BY <3>b, <3>c, <4>1, <4>2, BandFields
    <3>3. 4 * (x + 350) - config.mhz \in f - 1 .. f + 2
      BY <3>x, <1>2, <2>2 DEF Word1
    <3> HIDE DEF d
    <3>2. /\ (d \div 32) + 1 = config.slot
          /\ (d \div 16) % 2 = config.position
          /\ (d \div 8) % 2 = High(setup, 8) \div 8
          /\ (d \div 4) % 2 = On(setup, 4) \div 4
          /\ (d % 4) * 256 + (x % 256) = x
      BY <3>1 DEF ReadsBand
    <3>4. /\ SubSeq(sent, 1, 3) = << 224, 16, 90 >> /\ sent[4] = d /\ sent[5] = x % 256
      BY <3>a, FirstThreeOfFive
    <3> DEFINE m == 4 * ((d % 4) * 256 + (x % 256) + 350) - config.mhz
    <3>5. u = << (d \div 32) + 1, (d \div 16) % 2, volts((d \div 8) % 2),
                 ToneOf((d \div 4) % 2), m - 2, m + 1 >>
      BY <2>a, <3>4 DEF Understood
    <3>6. m = 4 * (x + 350) - config.mhz
      BY <3>2
    <3> HIDE DEF m
    <3>7. f \in m - 2 .. m + 1
      BY <1>2, <3>3, <3>6
    <3>8. /\ u # <<>> /\ u[1] = config.slot /\ u[2] = config.position
          /\ (config.voltage # "Off" => u[3] = config.voltage)
          /\ u[4] = band /\ u[5] = m - 2 /\ u[6] = m + 1
      BY <1>5, <1>6, <3>2, <3>5
    <3> QED
      BY <1>2, <1>u, <3>7, <3>8 DEF Selected
  <2>b. CASE kind = "Unicable2"
    <3>x. PICK x : x = Word2(setup)
      OBVIOUS
    <3> DEFINE first == IF config.pin # <<>> THEN 113 ELSE 112
               d == SlotByte(config.slot, x)
               e == PlaceByte(config.position, High(setup, 2), On(setup, 1))
    <3>a. sent = << first, d, x % 256, e >> \o config.pin
      BY <3>x, <2>b DEF MessageFor
    <3>b. /\ config.slot \in 1 .. 32 /\ config.position <= 63 /\ x \in 0 .. 2047
      BY <3>x, <1>1, <2>b DEF Fits
    <3>c. config.position \in 0 .. 63
      <4> QED
        BY <2>1, <3>b
    <3>1. /\ ReadsSlot(d, config.slot, x)
          /\ ReadsPlace(e, config.position, High(setup, 2), On(setup, 1))
      <4>1. High(setup, 2) \in {0, 2} /\ On(setup, 1) \in {0, 1}
        BY <1>5, <1>6
      <4>2. ReadsSlot(d, config.slot, x)
        <5>1. x \in Words2
          BY <3>b DEF Words2
        <5> QED
          BY <3>b, <5>1, SlotFields
      <4>3. ReadsPlace(e, config.position, High(setup, 2), On(setup, 1))
        BY <3>c, <4>1, PlaceFields
      <4> QED
        BY <4>2, <4>3
    <3>4. x + 100 = f
      BY <3>x, <1>2 DEF Word2
    <3> HIDE DEF d, e, first
    <3>2. /\ (d \div 8) + 1 = config.slot
          /\ (d % 8) * 256 + (x % 256) = x
      BY <3>1 DEF ReadsSlot
    <3>3. /\ e \div 4 = config.position
          /\ (e \div 2) % 2 = High(setup, 2) \div 2
          /\ e % 2 = On(setup, 1)
      BY <3>1 DEF ReadsPlace
    <3>5. /\ SubSeq(sent, 5, Len(sent)) = config.pin
          /\ sent[1] = first /\ sent[2] = d /\ sent[3] = x % 256 /\ sent[4] = e
          /\ Len(config.pin) = IF config.pin # <<>> THEN 1 ELSE 0
      <4>1. KeepsPin(<< first, d, x % 256, e >> \o config.pin, first, d, x % 256, e, config.pin)
        BY <2>p, PinKept
      <4> QED
        BY <3>a, <4>1 DEF KeepsPin
    <3>6. sent[1] = 112 + Len(config.pin)
      BY <3>5 DEF first
    <3> DEFINE m == (d % 8) * 256 + (x % 256) + 100
    <3>7. u = << (d \div 8) + 1, e \div 4, volts((e \div 2) % 2),
                 ToneOf(e % 2), m, m >>
      BY <2>b, <3>5, <3>6 DEF Understood
    <3>8. m = f
      BY <3>2, <3>4
    <3> HIDE DEF m
    <3>9. /\ u # <<>> /\ u[1] = config.slot /\ u[2] = config.position
          /\ (config.voltage # "Off" => u[3] = config.voltage)
          /\ u[4] = band /\ u[5] = f /\ u[6] = f
      BY <1>5, <1>6, <3>2, <3>3, <3>7, <3>8
    <3> QED
      BY <1>2, <1>u, <3>9 DEF Selected
  <2> QED
    BY <1>u, <2>a, <2>b DEF Unicables
<1> QED
  BY <1>a, <1>b, <1>u DEF Switches

(***************************************************************************)
(* A call on its way: what is left of a generated sequence still does what *)
(* the whole sequence does, from what the cable carries now.               *)
(***************************************************************************)
Told(setup, ear) == ear.by = setup /\ ear.sent = MessageFor(setup)

Ready(left, setup, now, ear) ==
    /\ Stands("SetTone", EndTone(setup), now.tone, left, Len(left) + 1)
    /\ Stands("SetVoltage", EndVoltage(setup), now.voltage, left, Len(left) + 1)
    /\ \A i \in 1 .. Len(left) :
          left[i].do \in Talks =>
             /\ left[i].with = MessageFor(setup)
             /\ Stands("SetTone", "Off", now.tone, left, i)
             /\ Stands("SetVoltage", Feeding(setup.config), now.voltage, left, i)
             /\ Settles(now.settled, left, i)
    /\ setup.config.kind \in Addressed =>
          \/ Told(setup, ear)
          \/ \E i \in 1 .. Len(left) : left[i].do \in Talks

Carries == /\ line = [tone |-> line.tone, voltage |-> line.voltage,
                      settled |-> line.settled]
           /\ line.settled \in BOOLEAN

Calls ==
    \/ sec = SecIdle
    \/ /\ sec = [call |-> "Sec", left |-> sec.left, setup |-> sec.setup]
       /\ Listed(sec.left)
       /\ khz = Nothing
       /\ sec.setup # Nothing =>
             /\ Accepted(sec.setup)
             /\ sec.setup.config.kind # "Dsl" => Ready(sec.left, sec.setup, line, heard)

Serves ==
    khz # Nothing =>
        /\ Accepted(want)
        /\ khz = Sequence(want).khz
        /\ want.config.kind # "Dsl" =>
              /\ line.tone = EndTone(want) /\ line.voltage = EndVoltage(want)
              /\ want.config.kind \in Addressed => Told(want, heard)

CableInv == Carries /\ Calls /\ Serves /\ SilentWhileTalking

(* Nothing of a sequence that is not refused has run yet.                   *)
LEMMA ReadyFirst ==
    ASSUME NEW setup, Accepted(setup), setup.config.kind # "Dsl", NEW now, NEW ear
    PROVE  Ready(Commands(setup), setup, now, ear)
<1> DEFINE left == Commands(setup)
<1>1. Planned(setup)
  BY AcceptedPlan
<1>2. /\ Stands("SetTone", EndTone(setup), now.tone, left, Len(left) + 1)
      /\ Stands("SetVoltage", EndVoltage(setup), now.voltage, left, Len(left) + 1)
  BY <1>1 DEF Planned, Leaves
<1>3. CASE setup.config.kind \in Addressed
  <2>1. /\ TalksOnce(left, Place(setup), MessageFor(setup))
        /\ Quiet(left, Place(setup), Feeding(setup.config))
    BY <1>1, <1>3 DEF Planned
  <2> QED
    BY <1>2, <2>1 DEF Ready, TalksOnce, Quiet
<1>4. CASE setup.config.kind \notin Addressed
  <2>1. \A i \in 1 .. Len(left) : left[i].do \notin Talks
    BY <1>1, <1>4 DEF Planned
  <2> QED
    BY <1>2, <1>4, <2>1 DEF Ready
<1> QED
  BY <1>3, <1>4

(* What a command does to the cable, and to what has been heard.           *)
Turned(command, now, next) ==
    /\ next.tone = IF command.do = "SetTone" THEN command.with ELSE now.tone
    /\ next.voltage = IF command.do = "SetVoltage" THEN command.with ELSE now.voltage
    /\ next.settled = IF command.do = "Wait" THEN TRUE
                      ELSE IF command.do \in Sets THEN FALSE ELSE now.settled

Spoken(command, setup, now, ear, hears) ==
    hears = IF command.do \in Talks
            THEN [sent |-> command.with, by |-> setup, line |-> now] ELSE ear

(* The next command runs.                                                   *)
LEMMA CommandRuns ==
    ASSUME Carries, sec.left # <<>>, Listed(sec.left), Performs(Head(sec.left))
    PROVE  /\ Carries'
           /\ Turned(Head(sec.left), line, line')
           /\ Spoken(Head(sec.left), sec.setup, line, heard, heard')
<1> DEFINE command == Head(sec.left)
<1>1. command.do \in Kinds
  BY TailAt DEF Listed
<1> HIDE DEF command
<1>2. Performs(command)
  BY DEF command
<1>a. CASE command.do = "SetTone"
  <2>1. line' = [line EXCEPT !.tone = command.with, !.settled = FALSE] /\ heard' = heard
    BY <1>2, <1>a DEF Performs
  <2> QED
    BY <1>a, <2>1 DEF Turned, Spoken, Carries, command, Talks, Sets
<1>b. CASE command.do = "SetVoltage"
  <2>1. line' = [line EXCEPT !.voltage = command.with, !.settled = FALSE] /\ heard' = heard
    BY <1>2, <1>b DEF Performs
  <2> QED
    BY <1>b, <2>1 DEF Turned, Spoken, Carries, command, Talks, Sets
<1>c. CASE command.do = "Wait"
  <2>1. line' = [line EXCEPT !.settled = TRUE] /\ heard' = heard
    BY <1>2, <1>c DEF Performs
  <2> QED
    BY <1>c, <2>1 DEF Turned, Spoken, Carries, command, Talks, Sets
<1>d. CASE command.do \in Talks
  <2>1. heard' = [sent |-> command.with, by |-> sec.setup, line |-> line] /\ line' = line
    BY <1>2, <1>d DEF Performs, Message, Talks
  <2> QED
    BY <1>d, <2>1 DEF Turned, Spoken, Carries, command, Talks, Sets
<1> QED
  BY <1>1, <1>a, <1>b, <1>c, <1>d DEF Kinds, Talks

(* What is left is a sequence of commands.                                  *)
LEMMA ListedTail ==
    ASSUME NEW left, Listed(left), left # <<>>
    PROVE  Listed(Tail(left))
BY TailAt DEF Listed

(* After the next command, what is left does what it did before with it.    *)
LEMMA ReadyOn ==
    ASSUME NEW left, Listed(left), left # <<>>, NEW setup, NEW now, NEW ear,
           NEW next, NEW hears, now.settled \in BOOLEAN, Ready(left, setup, now, ear),
           Turned(Head(left), now, next), Spoken(Head(left), setup, now, ear, hears)
    PROVE  Ready(Tail(left), setup, next, hears)
<1> DEFINE rest == Tail(left)
           n == Len(left)
<1>0. PICK S : left \in Seq(S)
  BY DEF Listed
<1>1. /\ rest \in Seq(S) /\ n \in Nat /\ Len(rest) = n - 1 /\ n > 0
      /\ Head(left) = left[1]
      /\ \A i \in 1 .. n - 1 : rest[i] = left[i + 1]
  BY <1>0, TailAt
<1>2. n \in 1 .. n /\ Len(rest) + 1 = n
  BY <1>1
<1>3. /\ Stands("SetTone", EndTone(setup), now.tone, left, n + 1)
      /\ Stands("SetVoltage", EndVoltage(setup), now.voltage, left, n + 1)
  BY DEF Ready
<1>b. /\ next.settled \in BOOLEAN
      /\ next.tone = IF Head(left).do = "SetTone" THEN Head(left).with ELSE now.tone
      /\ next.voltage = IF Head(left).do = "SetVoltage" THEN Head(left).with ELSE now.voltage
      /\ next.settled = IF Head(left).do = "Wait" THEN TRUE
                        ELSE IF Head(left).do \in Sets THEN FALSE ELSE now.settled
  BY DEF Turned
<1> HIDE DEF n, rest
<1>4. Stands("SetTone", EndTone(setup), next.tone, rest, n)
  BY <1>0, <1>2, <1>3, <1>b, StandsOn DEF rest, n
<1>5. Stands("SetVoltage", EndVoltage(setup), next.voltage, rest, n)
  BY <1>0, <1>2, <1>3, <1>b, StandsOn DEF rest, n
<1>6. ASSUME NEW i \in 1 .. n - 1, rest[i].do \in Talks
      PROVE  /\ rest[i].with = MessageFor(setup)
             /\ Stands("SetTone", "Off", next.tone, rest, i)
             /\ Stands("SetVoltage", Feeding(setup.config), next.voltage, rest, i)
             /\ Settles(next.settled, rest, i)
  <2>1. /\ rest[i] = left[i + 1] /\ i + 1 \in 1 .. n /\ i \in 1 .. n
    BY <1>1, <1>6
  <2>2. /\ left[i + 1].with = MessageFor(setup)
        /\ Stands("SetTone", "Off", now.tone, left, i + 1)
        /\ Stands("SetVoltage", Feeding(setup.config), now.voltage, left, i + 1)
        /\ Settles(now.settled, left, i + 1)
    BY <1>6, <2>1 DEF Ready, n
  <2>3. Stands("SetTone", "Off", next.tone, rest, i)
    BY <1>0, <1>b, <2>1, <2>2, StandsOn DEF rest, n
  <2>4. Stands("SetVoltage", Feeding(setup.config), next.voltage, rest, i)
    BY <1>0, <1>b, <2>1, <2>2, StandsOn DEF rest, n
  <2>5. Settles(next.settled, rest, i)
    BY <1>0, <1>b, <2>1, <2>2, SettlesOn DEF rest, n
  <2> QED
    BY <2>1, <2>2, <2>3, <2>4, <2>5
<1>7. ASSUME setup.config.kind \in Addressed
      PROVE  Told(setup, hears) \/ \E i \in 1 .. n - 1 : rest[i].do \in Talks
  <2>1. CASE Head(left).do \in Talks
    <3>1. Head(left).with = MessageFor(setup)
      BY <1>1, <1>2, <2>1 DEF Ready, n
    <3>2. hears = [sent |-> Head(left).with, by |-> setup, line |-> now]
      BY <2>1 DEF Spoken
    <3> QED
      BY <3>1, <3>2 DEF Told
  <2>2. CASE Head(left).do \notin Talks
    <3>1. hears = ear
      BY <2>2 DEF Spoken
    <3>2. Told(setup, ear) \/ \E i \in 1 .. n : left[i].do \in Talks
      BY <1>7 DEF Ready, n
    <3>3. ASSUME NEW i \in 1 .. n, left[i].do \in Talks
          PROVE  \E k \in 1 .. n - 1 : rest[k].do \in Talks
      <4>1. i # 1
        BY <1>1, <2>2, <3>3
      <4>2. i - 1 \in 1 .. n - 1 /\ rest[i - 1] = left[(i - 1) + 1]
        BY <1>1, <4>1
      <4>3. (i - 1) + 1 = i
        BY <1>1
      <4> QED
        BY <3>3, <4>2, <4>3
    <3> QED
      BY <3>1, <3>2, <3>3
  <2> QED
    BY <2>1, <2>2
<1> QED
  BY <1>1, <1>2, <1>4, <1>5, <1>6, <1>7 DEF Ready, rest

(* The cable as the program finds it; every step of it; and so always.      *)
LEMMA CableStart == SecInit => CableInv
<1> SUFFICES ASSUME SecInit PROVE CableInv
  OBVIOUS
<1>1. Carries
  BY DEF SecInit, Carries
<1>2. sec = SecIdle /\ khz = Nothing /\ heard.by = Nothing
  BY DEF SecInit, Silence
<1> QED
  BY <1>1, <1>2 DEF CableInv, Calls, Serves, SilentWhileTalking

LEMMA CableHolds ==
    ASSUME Typed, CableInv, SecNext \/ UNCHANGED secVars
    PROVE  CableInv'
<1>0. Carries /\ Calls /\ Serves /\ SilentWhileTalking
  BY DEF CableInv
<1>i. SecIdle.call = "None"
  BY DEF SecIdle
<1>k. ASSUME NEW commands, NEW setup, Listed(commands), Runs(commands, setup),
             setup # Nothing => Accepted(setup) /\ commands = Commands(setup),
             UNCHANGED <<line, heard>>
      PROVE  CableInv'
  <2>1. /\ sec' = [call |-> "Sec", left |-> commands, setup |-> setup]
        /\ khz' = Nothing
    BY <1>k DEF Runs
  <2>2. setup # Nothing =>
          /\ Accepted(setup)
          /\ setup.config.kind # "Dsl" => Ready(commands, setup, line, heard)
    BY <1>k, ReadyFirst
  <2>3. Calls'
    BY <1>k, <2>1, <2>2 DEF Calls
  <2> QED
    BY <1>0, <1>k, <2>1, <2>3
    DEF CableInv, Carries, Serves, SilentWhileTalking
<1>a. CASE SetupSec
  <2>1. PICK setup \in Setups :
          IF Sequence(setup) = Error
          THEN want' = Nothing /\ khz' = Nothing /\ UNCHANGED sec
          ELSE Runs(Sequence(setup).commands, setup)
    BY <1>a DEF SetupSec
  <2>2. UNCHANGED <<line, heard>> /\ sec = SecIdle
    BY <1>a DEF SetupSec
  <2>3. CASE Sequence(setup) = Error
    BY <1>0, <2>1, <2>2, <2>3
    DEF CableInv, Carries, Calls, Serves, SilentWhileTalking
  <2>4. CASE Sequence(setup) # Error
    <3>1. Accepted(setup)
      BY <2>4 DEF Accepted, Argument, Typed
    <3>2. Listed(Commands(setup))
      BY <3>1, AcceptedPlan
    <3>3. Runs(Commands(setup), setup)
      BY <2>1, <2>4 DEF Commands
    <3> QED
      BY <1>k, <2>2, <3>1, <3>2, <3>3
  <2> QED
    BY <2>3, <2>4
<1>b. CASE RunSecSequence
  <2>1. PICK commands \in RawSequences : Runs(commands, Nothing)
    BY <1>b DEF RunSecSequence
  <2>2. IsSequence(commands)
    BY <2>1 DEF Typed
  <2>3. Listed(commands)
    <3>1. IsList(commands)
      BY <2>2 DEF IsSequence
    <3>2. /\ commands \in Seq({commands[i] : i \in 1 .. Len(commands)})
          /\ DOMAIN commands = 1 .. Len(commands)
      BY <3>1, ListIn
    <3>3. \A i \in 1 .. Len(commands) : commands[i].do \in Kinds
      BY <2>2, <3>2 DEF IsSequence, Kinds
    <3> QED
      BY <3>2, <3>3 DEF Listed
  <2>4. UNCHANGED <<line, heard>>
    BY <1>b DEF RunSecSequence
  <2> QED
    BY <1>k, <2>1, <2>3, <2>4
<1>s. ASSUME sec.call = "Sec"
      PROVE  /\ sec = [call |-> "Sec", left |-> sec.left, setup |-> sec.setup]
             /\ Listed(sec.left)
             /\ khz = Nothing
             /\ sec.setup # Nothing =>
                   /\ Accepted(sec.setup)
                   /\ sec.setup.config.kind # "Dsl" =>
                         Ready(sec.left, sec.setup, line, heard)
  BY <1>0, <1>i, <1>s DEF Calls
<1>c. CASE RunCommand
  <2> DEFINE command == Head(sec.left)
  <2>1. /\ sec.call = "Sec" /\ sec.left # <<>>
        /\ Performs(command)
        /\ sec' = [sec EXCEPT !.left = Tail(@)]
        /\ khz' = khz /\ want' = want
    BY <1>c DEF RunCommand
  <2>2. /\ sec'.left = Tail(sec.left) /\ sec'.setup = sec.setup
        /\ sec' = [call |-> "Sec", left |-> sec'.left, setup |-> sec'.setup]
    BY <1>s, <2>1
  <2>3. /\ Carries'
        /\ Turned(command, line, line')
        /\ Spoken(command, sec.setup, line, heard, heard')
    BY <1>0, <1>s, <2>1, CommandRuns
  <2>4. ASSUME sec.setup # Nothing, sec.setup.config.kind # "Dsl"
        PROVE  Ready(sec'.left, sec'.setup, line', heard')
    <3>1. line.settled \in BOOLEAN
      BY <1>0 DEF Carries
    <3>2. Ready(sec.left, sec.setup, line, heard) /\ Listed(sec.left)
      BY <1>s, <2>1, <2>4
    <3>3. Ready(Tail(sec.left), sec.setup, line', heard')
      BY <2>1, <2>3, <3>1, <3>2, ReadyOn
    <3> QED
      BY <2>2, <3>3
  <2>5. Calls'
    <3>1. Listed(sec'.left)
      BY <1>s, <2>1, <2>2, ListedTail
    <3> QED
      BY <1>s, <2>1, <2>2, <2>4, <3>1 DEF Calls
  <2>6. SilentWhileTalking'
    <3>1. CASE command.do \notin Talks
      BY <1>0, <2>3, <3>1 DEF Spoken, SilentWhileTalking
    <3>2. ASSUME command.do \in Talks, sec.setup # Nothing, sec.setup.config.kind # "Dsl"
          PROVE  /\ line.tone = "Off" /\ line.settled
                 /\ line.voltage = Feeding(sec.setup.config)
      <4>1. Ready(sec.left, sec.setup, line, heard) /\ Listed(sec.left)
        BY <1>s, <2>1, <3>2
      <4>2. 1 \in 1 .. Len(sec.left) /\ sec.left[1] = command
        BY <2>1, <4>1, TailAt DEF Listed
      <4>3. /\ Stands("SetTone", "Off", line.tone, sec.left, 1)
            /\ Stands("SetVoltage", Feeding(sec.setup.config), line.voltage, sec.left, 1)
            /\ Settles(line.settled, sec.left, 1)
        BY <3>2, <4>1, <4>2 DEF Ready
      <4>4. line.settled \in BOOLEAN
        BY <1>0 DEF Carries
      <4> QED
        BY <4>3, <4>4, StandsNow, SettlesNow
    <3>3. CASE command.do \in Talks
      <4>1. /\ heard'.by = sec.setup /\ heard'.line = line
        BY <2>3, <3>3 DEF Spoken
      <4> QED
        BY <3>2, <3>3, <4>1 DEF SilentWhileTalking
    <3> QED
      BY <3>1, <3>3
  <2> QED
    BY <1>s, <2>1, <2>3, <2>5, <2>6 DEF CableInv, Serves
<1>d. CASE CommandFails
  <2>1. /\ sec' = SecIdle /\ UNCHANGED <<line, heard, want, khz>>
    BY <1>d DEF CommandFails
  <2> QED
    BY <1>0, <2>1 DEF CableInv, Carries, Calls, Serves, SilentWhileTalking
<1>e. CASE SecReturns
  <2>1. /\ sec.call = "Sec" /\ sec.left = <<>> /\ sec' = SecIdle
        /\ want' = sec.setup
        /\ khz' = IF sec.setup = Nothing THEN Nothing ELSE Sequence(sec.setup).khz
        /\ UNCHANGED <<line, heard>>
    BY <1>e DEF SecReturns
  <2>2. Serves'
    <3> SUFFICES ASSUME khz' # Nothing PROVE Serves'
      BY DEF Serves
    <3>1. sec.setup # Nothing /\ Accepted(sec.setup) /\ khz' = Sequence(sec.setup).khz
      BY <1>s, <2>1
    <3>2. ASSUME sec.setup.config.kind # "Dsl"
          PROVE  /\ line.tone = EndTone(sec.setup) /\ line.voltage = EndVoltage(sec.setup)
                 /\ sec.setup.config.kind \in Addressed => Told(sec.setup, heard)
      <4>1. Ready(<<>>, sec.setup, line, heard)
        BY <1>s, <2>1, <3>1, <3>2
      <4>2. Len(<<>>) = 0
        OBVIOUS
      <4>3. /\ Stands("SetTone", EndTone(sec.setup), line.tone, <<>>, 1)
            /\ Stands("SetVoltage", EndVoltage(sec.setup), line.voltage, <<>>, 1)
            /\ sec.setup.config.kind \in Addressed => Told(sec.setup, heard)
        BY <4>1, <4>2 DEF Ready
      <4> QED
        BY <4>3, StandsNow
    <3> QED
      BY <2>1, <3>1, <3>2 DEF Serves
  <2> QED
    BY <1>0, <2>1, <2>2 DEF CableInv, Carries, Calls, SilentWhileTalking
<1>f. CASE UNCHANGED secVars
  BY <1>0, <1>f DEF CableInv, Carries, Calls, Serves, SilentWhileTalking, secVars
<1> QED
  BY <1>a, <1>b, <1>c, <1>d, <1>e, <1>f DEF SecNext

LEMMA CableAlways == SecSpec => []CableInv
<1>1. CableInv /\ [SecNext]_secVars => CableInv'
  BY CableHolds, SetupsAssumption
<1>2. SecInit => CableInv
  BY CableStart
<1> QED
  BY <1>1, <1>2, PTL DEF SecSpec

(* src/src/fe/mod.rs:580-584: whatever the cable carried before and wherever *)
(* earlier sequences broke off, a generated sequence sends its burst or its *)
(* message with the tone off, the cable settled and the voltage that powers *)
(* the equipment.                                                           *)
THEOREM NobodyTalksOverTheTone == SecSpec => []SilentWhileTalking
<1>1. CableInv => SilentWhileTalking
  BY DEF CableInv
<1> QED
  BY <1>1, CableAlways, PTL

(* A call that has returned a frequency has put the transponder in front.   *)
LEMMA ServesTune ==
    ASSUME Word \in Nat, Serves
    PROVE  LineServesTune
<1> SUFFICES ASSUME khz # Nothing PROVE LineServesTune
  BY DEF LineServesTune
<1> DEFINE config == want.config
           kind == config.kind
           direct == kind \in {"Lnb", "Switch1_0", "Switch1_1", "Toneburst"}
           tone == IF direct THEN line.tone ELSE BandOf(want.lnb, want.mhz)
           mhz == Delivered(want.lnb, tone, want.mhz)
           at == IF kind \in Unicables THEN config.mhz ELSE mhz
<1>1. /\ Accepted(want) /\ khz = Sequence(want).khz
      /\ kind # "Dsl" =>
            /\ line.tone = EndTone(want) /\ line.voltage = EndVoltage(want)
            /\ kind \in Addressed => Told(want, heard)
  BY DEF Serves
<1>2. /\ Fits(want) /\ Argument(want)
      /\ khz = (EndAt(want) * 1000) % Word
  BY <1>1, AcceptedPlan DEF Accepted
<1>3. /\ At(want) \in Nat /\ At(want) = Delivered(want.lnb, Band(want), want.mhz)
      /\ RightBand(want.lnb, Band(want), want.mhz)
  BY <1>2, AtDelivered DEF Fits
<1>4. direct => kind # "Dsl" /\ EndTone(want) = Band(want) /\ EndVoltage(want) = config.voltage
  BY DEF EndTone, EndVoltage, Unicables
<1>5. tone = Band(want)
  BY <1>1, <1>4 DEF Band
<1>6. mhz = At(want) /\ RightBand(want.lnb, tone, want.mhz)
  BY <1>3, <1>5
<1>7. at = EndAt(want) /\ at \in Nat
  <2>1. CASE kind \in Unicables
    <3>1. config.mhz \in MHz
      BY <1>2, <2>1, UnicableTypes DEF Argument
    <3> QED
      BY <2>1, <3>1 DEF EndAt, MHz
  <2>2. CASE kind \notin Unicables
    BY <1>3, <1>6, <2>2 DEF EndAt
  <2> QED
    BY <2>1, <2>2
<1>8. at < Word \div 1000 => khz = at * 1000
  <2>1. \A n \in Nat : n < Word \div 1000 => (n * 1000) % Word = n * 1000
    <3> TAKE n \in Nat
    <3>1. HAVE n < Word \div 1000
    <3>2. 0 <= n * 1000 /\ n * 1000 < Word
      BY <3>1
    <3> QED
      BY <3>2
  <2> QED
    BY <1>2, <1>7, <2>1
<1>9. kind = "Shared" => line.voltage = "Off" /\ line.tone = "Off"
  BY <1>1 DEF EndTone, EndVoltage, Unicables
<1>10. kind \in Unicables => line.voltage = "V13" /\ line.tone = "Off"
  BY <1>1 DEF EndTone, EndVoltage, Unicables
<1>11. kind = "Toneburst" => heard.by = want /\ heard.sent = config.burst
  BY <1>1 DEF Told, MessageFor, Addressed
<1>12. ASSUME kind \in Switches \cup Unicables
       PROVE  Selected(want, mhz)
  <2>1. kind \in Addressed /\ kind # "Dsl"
    BY <1>12 DEF Addressed, Switches, Unicables
  <2>2. heard.by = want /\ heard.sent = MessageFor(want)
    BY <1>1, <2>1 DEF Told
  <2>3. kind \in Switches => line.tone = Band(want)
    BY <1>1, <1>4, <2>1 DEF Switches
  <2>4. Selected(want, At(want))
    BY <1>1, <1>12, <2>2, <2>3, MessageSelects
  <2> QED
    BY <1>6, <2>4
<1>13. kind \in {"Switch1_0", "Switch1_1", "Unicable1", "Unicable2"} =>
          kind \in Switches \cup Unicables
  BY DEF Switches, Unicables
<1> QED
  BY <1>1, <1>4, <1>6, <1>8, <1>9, <1>10, <1>11, <1>12, <1>13 DEF LineServesTune

(* src/src/fe/mod.rs:576-599 and src/src/fe/sec.rs:242-508: when setup_sec() *)
(* returns a frequency, the tone, the voltage and the message the equipment *)
(* has heard last select the transponder that was asked for, and the        *)
(* frequency is the one it arrives at.                                      *)
THEOREM CableServes == SecSpec => []LineServesTune
<1>1. CableInv => LineServesTune
  BY ServesTune, WordAssumption DEF CableInv
<1> QED
  BY <1>1, CableAlways, PTL
=============================================================================
