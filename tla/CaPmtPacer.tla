------------------------------ MODULE CaPmtPacer ------------------------------
(***************************************************************************)
(* The CA_PMT pacer of src/ca/pacer.rs, driven the way the controller  *)
(* drives it: set_program / remove_program push changes at any time, a     *)
(* CAM handshake arms the gate, a recovery closes it, and tick() polls it  *)
(* and applies the released change to the program registry.                *)
(*                                                                         *)
(* Instants appear only through their distance from the present: an age is *)
(* the time that has passed since an instant, negative while the instant   *)
(* is in the future (the settle hold), and counting stops at Cap, which is *)
(* above every finite interval.                                            *)
(***************************************************************************)
EXTENDS Integers, Sequences, FiniteSets

CONSTANTS Programs,     \* program numbers
          Versions,     \* contents of a program map section
          Intervals,    \* the pacing intervals that may be configured
          Settle,       \* ca_pmt_settle
          Cap,          \* ages stop counting here
          Overflow,     \* a duration no Instant can be advanced by
          NoProgram,    \* "not in the registry"
          Nothing       \* poll() returned None; no tick yet

ASSUME TimeAssumption ==
    /\ Cap \in Nat
    /\ Intervals \subseteq (0 .. Cap - 1) \cup {Overflow}
    /\ Settle \in Nat \cup {Overflow}
    /\ Overflow \notin Int
    /\ Nothing \notin Int

ASSUME ProgramAssumption == NoProgram \notin Versions

VARIABLES interval,       \* the pacing interval in force
          gate,           \* readiness gate: its state and the age of its stamp
          queue,          \* queued changes, oldest first
          sinceTick,      \* age of Controller.last_tick
          programs,       \* the registry of desired programs
          released,       \* what the last step's poll() returned
          sinceRelease,   \* age of the last release (observer)
          sinceHandshake  \* age of the last arming handshake (observer)

vars == <<interval, gate, queue, sinceTick, programs, released,
          sinceRelease, sinceHandshake>>

Set(n, v) == [op |-> "Set", program |-> n, version |-> v]
Remove(n) == [op |-> "Remove", program |-> n, version |-> NoProgram]
Change == { Set(n, v) : n \in Programs, v \in Versions }
              \cup { Remove(n) : n \in Programs }

NotReady == [state |-> "NotReady", age |-> 0]
Armed(age) == [state |-> "Armed", age |-> age]
Ready(age) == [state |-> "Ready", age |-> age]

Older(age) == IF age < Cap THEN age + 1 ELSE age

-----------------------------------------------------------------------------
Init == /\ interval \in Intervals
        /\ gate = NotReady
        /\ queue = <<>>
        /\ sinceTick = Nothing
        /\ programs = [n \in Programs |-> NoProgram]
        /\ released = Nothing
        /\ sinceRelease = Cap
        /\ sinceHandshake = Cap

\* Time passes between two calls.
Elapse ==
    /\ gate' = IF gate = NotReady THEN gate ELSE [gate EXCEPT !.age = Older(@)]
    /\ sinceTick' = IF sinceTick = Nothing THEN Nothing ELSE Older(sinceTick)
    /\ sinceRelease' = Older(sinceRelease)
    /\ sinceHandshake' = Older(sinceHandshake)
    /\ released' = Nothing
    /\ UNCHANGED <<interval, queue, programs>>

\* VecDeque::retain: the changes at these places of the queue, in their order.
Kept(places) ==
    [k \in 1 .. Cardinality(places) |->
        queue[CHOOSE i \in places : Cardinality({j \in places : j <= i}) = k]]

Queued(n) == { i \in DOMAIN queue : queue[i].program = n }
Sets(n) == { i \in Queued(n) : queue[i].op = "Set" }

\* Seeded faults: the remove is dropped too; the newest change jumps the queue.
PushSetDropsRemove(n, v) ==
    /\ queue' = Append(Kept(DOMAIN queue \ Queued(n)), Set(n, v))
    /\ released' = Nothing
    /\ UNCHANGED <<interval, gate, sinceTick, programs, sinceRelease,
                   sinceHandshake>>

PushSetFront(n, v) ==
    /\ queue' = <<Set(n, v)>> \o Kept(DOMAIN queue \ Sets(n))
    /\ released' = Nothing
    /\ UNCHANGED <<interval, gate, sinceTick, programs, sinceRelease,
                   sinceHandshake>>

\* Drops the queued selects of the program and queues the new one; a queued
\* remove stays ahead of it.
PushSet(n, v) ==
    /\ queue' = Append(Kept(DOMAIN queue \ Sets(n)), Set(n, v))
    /\ released' = Nothing
    /\ UNCHANGED <<interval, gate, sinceTick, programs, sinceRelease,
                   sinceHandshake>>

\* Drops every queued change of the program and queues the remove.
PushRemove(n) ==
    /\ queue' = Append(Kept(DOMAIN queue \ Queued(n)), Remove(n))
    /\ released' = Nothing
    /\ UNCHANGED <<interval, gate, sinceTick, programs, sinceRelease,
                   sinceHandshake>>

SetInterval(d) ==
    /\ interval' = d
    /\ released' = Nothing
    /\ UNCHANGED <<gate, queue, sinceTick, programs, sinceRelease,
                   sinceHandshake>>

\* A handshake event arms the gate with the time of the last tick, the only
\* clock the event loop has; before the first tick nothing is armed.
Arm(g) ==
    /\ sinceTick # Nothing
    /\ gate' = g
    /\ sinceHandshake' = 0
    /\ released' = Nothing
    /\ UNCHANGED <<interval, queue, sinceTick, programs, sinceRelease>>

\* APPLICATION_INFO: the stamp lies Settle ahead, or at the tick itself when
\* that instant is not representable.
ArmApplicationInfo ==
    Arm(Armed(IF Settle = Overflow THEN sinceTick ELSE sinceTick - Settle))

\* A non-empty CA_INFO.
ArmCaInfo == Arm(Armed(sinceTick))

\* A global recovery or reset(): queued changes are kept.
ResetGate ==
    /\ gate' = NotReady
    /\ released' = Nothing
    /\ UNCHANGED <<interval, queue, sinceTick, programs, sinceRelease,
                   sinceHandshake>>

\* A tick that returns before the dispatch: a suspended link, a failed slot.
TickWithoutDispatch ==
    /\ sinceTick' = 0
    /\ released' = Nothing
    /\ UNCHANGED <<interval, gate, queue, programs, sinceRelease,
                   sinceHandshake>>

\* `now` is within one interval of the stamp, or the deadline overflows.
Gated == interval = Overflow \/ gate.age <= interval

\* The registry after set_program() / remove_program().
Applied(c) == [programs EXCEPT ![c.program] = c.version]

\* Seeded fault: the transition pass releases too.
PollClearedFromArmed ==
    /\ gate' = Ready(0)
    /\ IF queue # <<>>
       THEN /\ released' = Head(queue)
            /\ queue' = Tail(queue)
            /\ programs' = Applied(Head(queue))
            /\ sinceRelease' = 0
       ELSE /\ released' = Nothing
            /\ UNCHANGED <<queue, programs, sinceRelease>>

\* poll() on a pass that clears the gate: the stamp advances, and only an
\* already open gate releases a change.
PollCleared ==
    /\ gate' = Ready(0)
    /\ IF gate.state = "Ready" /\ queue # <<>>
       THEN /\ released' = Head(queue)
            /\ queue' = Tail(queue)
            /\ programs' = Applied(Head(queue))
            /\ sinceRelease' = 0
       ELSE /\ released' = Nothing
            /\ UNCHANGED <<queue, programs, sinceRelease>>

\* tick() up to dispatch_ca_pmt().
Tick ==
    /\ sinceTick' = 0
    /\ IF gate = NotReady \/ Gated
       THEN released' = Nothing /\ UNCHANGED <<gate, queue, programs, sinceRelease>>
       ELSE PollCleared
    /\ UNCHANGED <<interval, sinceHandshake>>

Next == \/ Elapse
        \/ \E n \in Programs : \E v \in Versions : PushSet(n, v)
        \/ \E n \in Programs : PushRemove(n)
        \/ \E d \in Intervals : SetInterval(d)
        \/ ArmApplicationInfo
        \/ ArmCaInfo
        \/ ResetGate
        \/ TickWithoutDispatch
        \/ Tick

Spec == Init /\ [][Next]_vars

\* Time does not stop and the caller keeps ticking; nothing obliges a caller
\* to push, the CAM to answer or the link to fail.
FairSpec == Spec /\ WF_vars(Elapse) /\ WF_vars(Tick)

-----------------------------------------------------------------------------
ClockTypeOK == /\ interval \in Intervals
               /\ gate \in [state : {"NotReady", "Armed", "Ready"}, age : Int]
               /\ gate.age <= Cap
               /\ sinceTick \in (0 .. Cap) \cup {Nothing}
               /\ sinceRelease \in 0 .. Cap
               /\ sinceHandshake \in 0 .. Cap

TypeOK == /\ ClockTypeOK
          /\ queue \in Seq(Change)
          /\ programs \in [Programs -> Versions \cup {NoProgram}]
          /\ released \in Change \cup {Nothing}

\* The queue is bounded by the programs, not by the requests: each program
\* has at most one remove and one set queued, the remove ahead of the set
\* (push_set, push_remove).
Coalesced ==
    \A i, j \in DOMAIN queue :
        (i < j /\ queue[i].program = queue[j].program)
            => queue[i].op = "Remove" /\ queue[j].op = "Set"

\* An open gate's stamp is never older than the last release or the last
\* handshake: the invariant the spacing of releases rests on.
StampIsLatest ==
    gate.state = "Ready" => /\ gate.age <= sinceRelease
                            /\ gate.age <= sinceHandshake
                            /\ gate.age >= 0

\* A change goes out only when one full interval has passed since the
\* previous release and since the CAM handshake, whatever was re-armed,
\* re-configured or reset in between (the module comment of pacer.rs).
SpacedRelease ==
    [][released' # Nothing => /\ interval # Overflow
                              /\ sinceRelease > interval
                              /\ sinceHandshake > interval]_vars

\* Requests coalesce and the last one wins: the queue implements
\* ProgramRequests. What is wanted of a program is its last queued change.
LastQueued(n) == CHOOSE i \in Queued(n) : \A j \in Queued(n) : j <= i

Requests == INSTANCE ProgramRequests WITH
    wanted  <- [n \in Programs |-> IF Queued(n) = {} THEN programs[n]
                                   ELSE queue[LastQueued(n)].version],
    pending <- { n \in Programs : Queued(n) # {} },
    owed    <- { n \in Programs : \E i \in Queued(n) : queue[i].op = "Remove" }

LastRequestWins == Requests!Spec

\* A queued change is not starved by changes of other programs: it leaves the
\* queue unless it is itself re-requested forever, the gate keeps closing, or
\* the interval is unrepresentable (poll(): the stamp always advances).
QueueDrains ==
    \A n \in Programs :
        \/ []<>(Queued(n) = {})
        \/ []<><< PushRemove(n) \/ \E v \in Versions : PushSet(n, v) >>_queue
        \/ []<>(gate.state # "Ready")
        \/ []<>(interval = Overflow)
=============================================================================
