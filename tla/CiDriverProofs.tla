---------------------------- MODULE CiDriverProofs ----------------------------
(* Safety of the driver's loop, for any batch, any intervals and any bounds.  *)
EXTENDS CiDriver, TLAPS

(* The types, the flags apart from everything else.                           *)
Flags == /\ suspended \in BOOLEAN
         /\ edge \in BOOLEAN /\ readiness \in BOOLEAN /\ fresh \in BOOLEAN
         /\ watch \in BOOLEAN /\ drained \in BOOLEAN

Controller == /\ gate \in {"NotReady", "Armed", "Ready"}
              /\ recoveryAt \in Times(RetryInterval)
              /\ queued \in 0 .. MaxEvents

Loop == /\ pc \in {"Start", "Select", "Drain", "Publish", "Stopped"}
        /\ pass \in {"Tick", "Read", "Command", "ResetTick"}
        /\ batch \in 0 .. DrainBatch
        /\ frames \in 0 .. MaxFrames
        /\ nextTick \in 0 .. TickPeriod
        /\ resetRetryAt \in Times(RetryInterval)
        /\ commands \in Seq(Commands)

LEMMA TypeParts == TypeOK <=> Flags /\ Controller /\ Loop
  BY DEF TypeOK, Flags, Controller, Loop

LEMMA Bounds ==
    /\ DrainBatch \in Nat /\ TickPeriod \in Nat /\ RetryInterval \in Nat
    /\ MaxFrames \in Nat /\ MaxEvents \in Nat /\ None \notin Nat
    /\ 0 < DrainBatch
  BY DriverAssumption

LEMMA LessTimes ==
    ASSUME NEW n \in Nat, NEW t \in Times(n)
    PROVE  Less(t) \in Times(n) /\ (t # None => Less(t) # None)
  BY Bounds DEF Less, Times

-----------------------------------------------------------------------------
\* Every step keeps the flags.
LEMMA FlagsStep == Flags /\ [Next]_vars => Flags'
<1> SUFFICES ASSUME Flags, [Next]_vars PROVE Flags'
  OBVIOUS
<1> USE DEF Flags, controllerVars, linkVars, passVars
<1>0. (frames > 0) \in BOOLEAN /\ (pc # "Start") \in BOOLEAN
      /\ (gate = "Ready") \in BOOLEAN /\ (~suspended) \in BOOLEAN
  OBVIOUS
<1>1. CASE Start
  BY <1>0, <1>1, Zenon DEF Start, Stops, ControllerTick, Recovers, DrainsFor
<1>2. CASE TakeCommand
  BY <1>2, Zenon DEF TakeCommand, Apply, ResetAndTick, ResetFails, Recovers, Stops,
              DrainsFor
<1>3. CASE TickDue \/ Resume \/ Readable
  BY <1>3, Zenon DEF TickDue, Resume, Readable, ControllerTick, Recovers, DrainsFor
<1>4. CASE RetryReset
  BY <1>4, Zenon DEF RetryReset, ResetAndTick, ResetFails, Recovers, DrainsFor
<1>5. CASE Forward \/ ReadQuiet \/ ReadEvent \/ ReadFails
  BY <1>5, Zenon DEF Forward, ReadQuiet, ReadEvent, ReadFails, Recovers, Polled
<1>6. CASE DrainEmpty \/ BatchFull
  BY <1>0, <1>6, Zenon DEF DrainEmpty, BatchFull, LinkDrained, Ends
<1>7. CASE Publish
  BY <1>0, <1>7, Zenon DEF Publish, Published, DrainsFor
<1>8. CASE ReadinessFails
  BY <1>8, Zenon DEF ReadinessFails, Stops
<1>9. CASE Arrive \/ Deliver
  BY <1>0, <1>9, Zenon DEF Arrive, Deliver
<1>10. CASE Elapse \/ \E c \in Commands : Send(c)
  BY <1>10, Zenon DEF Elapse, Send
<1>11. CASE UNCHANGED vars
  BY <1>11, Zenon DEF vars
<1> QED
  BY <1>1, <1>2, <1>3, <1>4, <1>5, <1>6, <1>7, <1>8, <1>9, <1>10, <1>11, Zenon
     DEF Next, Work, Drain

-----------------------------------------------------------------------------
\* What the calls of the controller leave behind.
LEMMA Calls ==
    ASSUME Controller,
           \/ ControllerTick \/ ResetAndTick \/ ResetFails
           \/ QueuesEvents /\ Recovers(0 .. RetryInterval)
           \/ QueuesEvents /\ UNCHANGED <<gate, recoveryAt>>
           \/ UNCHANGED <<gate, recoveryAt, queued>>
    PROVE  Controller'
<1>1. queued' \in 0 .. MaxEvents
  BY Bounds DEF Controller, ControllerTick, ResetAndTick, ResetFails, QueuesEvents
<1>2. gate' \in {"NotReady", "Armed", "Ready"}
  BY Zenon DEF Controller, ControllerTick, ResetAndTick, ResetFails, Recovers
<1>3. recoveryAt' \in Times(RetryInterval)
  <2>1. {RetryInterval, None} \cup (0 .. RetryInterval) \subseteq Times(RetryInterval)
    BY Bounds DEF Times
  <2> QED BY <2>1, Zenon
        DEF Controller, ControllerTick, ResetAndTick, ResetFails, Recovers
<1> QED BY <1>1, <1>2, <1>3 DEF Controller

LEMMA ControllerStep == Controller /\ [Next]_vars => Controller'
<1> SUFFICES ASSUME Controller, [Next]_vars PROVE Controller'
  OBVIOUS
<1>1. CASE Start \/ TickDue \/ Resume \/ RetryReset \/ ReadFails \/ Stops
  BY <1>1, Calls, Zenon
     DEF Start, TickDue, Resume, RetryReset, ReadFails, Stops, controllerVars
<1>2. CASE TakeCommand
  BY <1>2, Calls, Zenon DEF TakeCommand, Apply, Stops, controllerVars
<1>3. CASE Forward
  BY <1>3, Bounds DEF Forward, Draining, Controller
<1>4. CASE ReadEvent
  BY <1>4 DEF ReadEvent, Controller
<1>5. CASE Elapse
  BY <1>5, LessTimes, Bounds DEF Elapse, Controller
<1>6. CASE \/ Readable \/ ReadQuiet \/ DrainEmpty \/ BatchFull \/ Publish
           \/ ReadinessFails \/ Arrive \/ Deliver \/ (\E c \in Commands : Send(c))
           \/ UNCHANGED vars
  BY <1>6, Calls, Zenon
     DEF Readable, ReadQuiet, DrainEmpty, BatchFull, Ends, Publish, ReadinessFails,
         Stops, Arrive, Deliver, Send, vars, controllerVars
<1> QED BY <1>1, <1>2, <1>3, <1>4, <1>5, <1>6, Zenon DEF Next, Work, Drain

-----------------------------------------------------------------------------
\* Every step keeps the rest of the loop's state in range.
LEMMA LoopStep == Loop /\ [Next]_vars => Loop'
<1> SUFFICES ASSUME Loop, [Next]_vars PROVE Loop'
  OBVIOUS
<1> USE Bounds DEF Loop, linkVars, passVars
<1>1. CASE Start
  BY <1>1 DEF Start, Stops, DrainsFor
<1>2. CASE TakeCommand
  <2>1. commands' \in Seq(Commands)
    BY <1>2 DEF TakeCommand
  <2> QED BY <1>2, <2>1 DEF TakeCommand, Apply, Stops, DrainsFor
<1>3. CASE TickDue \/ Resume \/ Readable
  BY <1>3 DEF TickDue, Resume, Readable, DrainsFor
<1>4. CASE RetryReset
  BY <1>4 DEF RetryReset, Loops, Scheduled, DrainsFor, Times
<1>5. CASE Forward \/ ReadQuiet \/ ReadEvent \/ ReadFails
  BY <1>5 DEF Forward, ReadQuiet, ReadEvent, ReadFails, Reading, Draining, Polled
<1>6. CASE DrainEmpty \/ BatchFull
  BY <1>6 DEF DrainEmpty, BatchFull, Ends
<1>7. CASE Publish
  BY <1>7 DEF Publish, Loops, Scheduled, DrainsFor, Times
<1>8. CASE ReadinessFails
  BY <1>8 DEF ReadinessFails, Stops
<1>9. CASE Arrive \/ Deliver
  BY <1>9 DEF Arrive, Deliver
<1>10. CASE Elapse
  <2>1. nextTick' \in 0 .. TickPeriod
    BY <1>10 DEF Elapse, Less
  <2>2. resetRetryAt' \in Times(RetryInterval)
    BY <1>10, LessTimes DEF Elapse
  <2> QED BY <1>10, <2>1, <2>2 DEF Elapse
<1>11. CASE \E c \in Commands : Send(c)
  BY <1>11 DEF Send
<1>12. CASE UNCHANGED vars
  BY <1>12 DEF vars
<1> QED
  BY <1>1, <1>2, <1>3, <1>4, <1>5, <1>6, <1>7, <1>8, <1>9, <1>10, <1>11, <1>12,
     Zenon DEF Next, Work, Drain

\* Type correctness of the driver's loop.
THEOREM DriverTypes == Spec => []TypeOK
<1>1. Init => Flags /\ Controller /\ Loop
  <2> SUFFICES ASSUME Init PROVE Flags /\ Controller /\ Loop
    OBVIOUS
  <2>1. Flags
    BY Zenon DEF Init, Flags
  <2>2. Controller
    BY DEF Init, Controller
  <2>3. Loop
    BY Bounds DEF Init, Loop, Times
  <2> QED BY <2>1, <2>2, <2>3
<1>2. (Flags /\ Controller /\ Loop) /\ [Next]_vars => (Flags /\ Controller /\ Loop)'
  BY FlagsStep, ControllerStep, LoopStep, Zenon
<1> QED BY <1>1, <1>2, TypeParts, PTL DEF Spec

-----------------------------------------------------------------------------
\* Whenever the loop waits, the readiness watch says what the gate says, and it
\* says FALSE before the first pass and after any return.
THEOREM WatchIsTrue == Spec => []WatchTellsGate
<1>1. Init => WatchTellsGate
  BY DEF Init, WatchTellsGate
<1>2. WatchTellsGate /\ [Next]_vars => WatchTellsGate'
  <2> SUFFICES ASSUME WatchTellsGate, [Next]_vars PROVE WatchTellsGate'
    OBVIOUS
  <2>1. CASE Start \/ ReadinessFails
    BY <2>1 DEF Start, ReadinessFails, Stops, DrainsFor, WatchTellsGate
  <2>2. CASE TakeCommand
    BY <2>2 DEF TakeCommand, Apply, Stops, DrainsFor, WatchTellsGate
  <2>3. CASE TickDue \/ Resume \/ Readable
    BY <2>3 DEF TickDue, Resume, Readable, DrainsFor, WatchTellsGate
  <2>4. CASE RetryReset
    BY <2>4 DEF RetryReset, ResetFails, Recovers, Loops, DrainsFor, WatchTellsGate
  <2>5. CASE Drain
    BY <2>5 DEF Drain, Forward, ReadQuiet, ReadEvent, ReadFails, DrainEmpty,
                BatchFull, Reading, Draining, Polled, Ends, WatchTellsGate
  <2>6. CASE Publish
    <3>1. pc' = "Select" \/ pc' = "Drain"
      BY <2>6, Zenon DEF Publish, Loops, DrainsFor
    <3>2. watch' = (gate' = "Ready")
      BY <2>6, Zenon DEF Publish, Published, controllerVars
    <3>3. pc' \notin {"Start", "Stopped"}
      BY <3>1
    <3> QED BY <3>2, <3>3, Zenon DEF WatchTellsGate
  <2>7. CASE Arrive \/ Deliver \/ Elapse \/ \E c \in Commands : Send(c)
    BY <2>7 DEF Arrive, Deliver, Elapse, Send, WatchTellsGate, controllerVars
  <2>8. CASE UNCHANGED vars
    BY <2>8 DEF vars, WatchTellsGate, controllerVars
  <2> QED BY <2>1, <2>2, <2>3, <2>4, <2>5, <2>6, <2>7, <2>8 DEF Next, Work
<1> QED BY <1>1, <1>2, PTL DEF Spec

-----------------------------------------------------------------------------
(* NoStrandedFrame is not inductive: whether clearing readiness is safe is     *)
(* decided when the buffer was found empty, a step earlier. In between frames  *)
(* may arrive, and then an edge later than the guard tells of them.            *)
Announced ==
    /\ NoStrandedFrame
    /\ pc = "Publish" /\ pass = "Read" /\ drained /\ frames > 0 => fresh \/ edge
    /\ fresh => readiness

LEMMA AnnouncedStep == TypeOK /\ Announced /\ [Next]_vars => Announced'
<1> SUFFICES ASSUME TypeOK, Announced, [Next]_vars PROVE Announced'
  OBVIOUS
<1> USE DEF Announced, NoStrandedFrame
<1>0. frames \in Nat /\ edge \in BOOLEAN /\ fresh \in BOOLEAN /\ readiness \in BOOLEAN
  BY Bounds DEF TypeOK
<1>1. CASE Start
  <2>1. CASE Stops
    BY <2>1, Zenon DEF Stops, linkVars
  <2>2. CASE edge' = (frames > 0) /\ DrainsFor("Tick") /\ UNCHANGED <<frames, readiness, fresh>>
    <3>1. frames' > 0 => edge'
      BY <2>2
    <3>2. pc' # "Publish"
      BY <2>2 DEF DrainsFor
    <3> QED BY <2>2, <3>1, <3>2, Zenon
  <2> QED BY <1>1, <2>1, <2>2 DEF Start
<1>2. CASE ReadinessFails
  BY <1>0, <1>2 DEF ReadinessFails, Stops, linkVars
<1>3. CASE TakeCommand
  BY <1>0, <1>3 DEF TakeCommand, Apply, Stops, DrainsFor, linkVars
<1>4. CASE TickDue \/ Resume
  BY <1>0, <1>4 DEF TickDue, Resume, DrainsFor, linkVars
<1>5. CASE Readable
  BY <1>0, <1>5 DEF Readable, DrainsFor
<1>6. CASE RetryReset
  BY <1>0, <1>6 DEF RetryReset, Loops, DrainsFor, linkVars
<1>7. CASE Forward \/ ReadQuiet \/ ReadEvent \/ ReadFails
  BY <1>0, <1>7 DEF Forward, ReadQuiet, ReadEvent, ReadFails, Reading, Draining,
                    Polled, passVars
<1>8. CASE DrainEmpty \/ BatchFull
  BY <1>0, <1>8 DEF DrainEmpty, BatchFull, LinkDrained, Draining, Ends, linkVars
<1>9. CASE Publish
  BY <1>0, <1>9 DEF Publish, Loops, DrainsFor
<1>10. CASE Arrive
  BY <1>0, <1>10 DEF Arrive, passVars
<1>11. CASE Deliver
  BY <1>0, <1>11 DEF Deliver, passVars
<1>12. CASE Elapse \/ \E c \in Commands : Send(c)
  BY <1>0, <1>12 DEF Elapse, Send, linkVars, passVars
<1>13. CASE UNCHANGED vars
  BY <1>13 DEF vars, linkVars, passVars
<1> QED
  BY <1>1, <1>2, <1>3, <1>4, <1>5, <1>6, <1>7, <1>8, <1>9, <1>10, <1>11, <1>12,
     <1>13 DEF Next, Work, Drain

\* No frame waits in the device without a wake-up on its way, however the
\* clearing of readiness, late frames, full batches and suspensions meet.
THEOREM FramesAreAnnounced == Spec => []NoStrandedFrame
<1>1. Init => Announced
  BY DEF Init, Announced, NoStrandedFrame
<1>2. Announced => NoStrandedFrame
  BY DEF Announced
<1> QED BY <1>1, <1>2, AnnouncedStep, DriverTypes, PTL DEF Spec
=============================================================================
