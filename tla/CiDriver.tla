------------------------------- MODULE CiDriver -------------------------------
(***************************************************************************)
(* The async driver of src/ca/driver.rs: the select loop that owns the     *)
(* controller, over a descriptor whose readiness tokio announces once per  *)
(* edge. Between two waits the task runs alone, but frames arrive, edges   *)
(* are delivered, commands are queued and time passes at any moment, so a  *)
(* pass of drain_events() is a step per poll_event().                      *)
(*                                                                         *)
(* Of the controller (CiController.tla) only what the driver looks at is   *)
(* left: its gate, its suspension with the time to resume, and how many    *)
(* events it has queued. Each call has every outcome it can have. Times    *)
(* are the time left. The event channel is output only and left out.       *)
(***************************************************************************)
EXTENDS Integers, Sequences

CONSTANTS DrainBatch,     \* DRAIN_BATCH
          TickPeriod,     \* tick_period()
          RetryInterval,  \* CiControllerConfig::retry_interval
          MaxFrames,      \* frames the device keeps (a bound)
          MaxEvents,      \* events the controller keeps (a bound)
          MaxCommands,    \* commands queued before another is sent (a bound)
          None

ASSUME DriverAssumption ==
    /\ {DrainBatch, TickPeriod, RetryInterval} \subseteq Nat \ {0}
    /\ {MaxFrames, MaxEvents, MaxCommands} \subseteq Nat
    /\ None \notin Nat

VARIABLES gate, suspended, recoveryAt,  \* the controller
          queued,        \* events in its queue
          frames,        \* frames in the device's buffer
          edge,          \* an edge the reactor has not looked at
          readiness,     \* the AsyncFd is marked readable
          fresh,         \* ... by an edge later than the guard in use
          commands,      \* queue of commands; "Gone" when all handles are dropped
          watch,         \* value of the readiness watch
          nextTick, resetRetryAt,
          pc, pass,      \* where the task is, and on whose behalf it drains
          batch,         \* polls of this drain_events()
          drained        \* what drain_events() returns

controllerVars == <<gate, suspended, recoveryAt, queued>>
linkVars == <<frames, edge, readiness, fresh>>
passVars == <<pass, batch, drained>>
vars == <<controllerVars, linkVars, commands, watch, nextTick, resetRetryAt, pc,
          passVars>>

Times(limit) == (0 .. limit) \cup {None}
Commands == {"Program", "Slot", "Reset", "Shutdown", "Gone"}

\* CiDriver::new() takes a controller that may have been used before.
Init == /\ gate \in {"NotReady", "Armed", "Ready"}
        /\ suspended \in BOOLEAN
        /\ recoveryAt \in Times(RetryInterval)
        /\ suspended => gate = "NotReady"
        /\ ~suspended => recoveryAt = None
        /\ queued \in 0 .. MaxEvents
        /\ frames \in 0 .. MaxFrames
        /\ edge = FALSE /\ readiness = FALSE /\ fresh = FALSE
        /\ commands = <<>>
        /\ watch = FALSE
        /\ nextTick = 0 /\ resetRetryAt = None
        /\ pc = "Start" /\ pass = "Tick" /\ batch = 0 /\ drained = FALSE

-----------------------------------------------------------------------------
(* What the controller's calls may do.                                       *)
QueuesEvents == queued' \in queued .. MaxEvents

\* recover_all(): resumes after one of `left`, or never if CA_RESET failed.
Recovers(left) == /\ gate' = "NotReady"
                  /\ suspended' = TRUE
                  /\ recoveryAt' \in left \cup {None}

Runs == ~suspended \/ recoveryAt = 0

\* tick(): a suspended link is left alone until its time has come; the pass
\* may open an armed gate; any failure of the link ends in recover_all().
ControllerTick ==
    /\ QueuesEvents
    /\ \/ /\ ~Runs
          /\ UNCHANGED <<gate, suspended, recoveryAt>>
       \/ /\ Runs
          /\ suspended' = FALSE
          /\ recoveryAt' = None
          /\ gate' \in {gate} \cup (IF gate = "Armed" THEN {"Ready"} ELSE {})
       \/ Runs /\ Recovers({RetryInterval})

\* reset() that succeeds, and the tick() that follows it at once.
ResetAndTick ==
    /\ QueuesEvents
    /\ gate' = "NotReady"
    /\ \/ suspended' = FALSE /\ recoveryAt' = None
       \/ suspended' = TRUE /\ recoveryAt' \in {RetryInterval, None}

ResetFails == QueuesEvents /\ Recovers({})

-----------------------------------------------------------------------------
(* The loop.                                                                 *)
\* Seeded fault: only a retry schedules the next one.
ScheduledByRetry(r) == IF suspended' THEN r ELSE None

\* reset_retry_at at the top of the loop, r being its value before.
Scheduled(r) ==
    IF ~suspended' THEN None
    ELSE IF recoveryAt' = None /\ r = None THEN RetryInterval
    ELSE r

Loops(r) == /\ pc' = "Select"
            /\ resetRetryAt' = Scheduled(r)

DrainsFor(p) == /\ pc' = "Drain"
                /\ pass' = p
                /\ batch' = 0
                /\ drained' = FALSE

\* run() publishes FALSE on every return; the controller is dropped.
Stops == /\ pc' = "Stopped"
         /\ watch' = FALSE
         /\ UNCHANGED <<controllerVars, linkVars, nextTick, resetRetryAt, passVars>>

\* The descriptor is registered, which reports data already there as an edge;
\* then the first tick.
Start ==
    /\ pc = "Start"
    /\ \/ /\ edge' = (frames > 0)
          /\ ControllerTick
          /\ DrainsFor("Tick")
          /\ UNCHANGED <<frames, readiness, fresh, commands, watch, nextTick,
                         resetRetryAt>>
       \/ Stops /\ UNCHANGED commands

\* Seeded fault: readability is looked at before the tick.
ArmReadFirst == CASE commands # <<>> -> "Command"
                  [] commands = <<>> /\ readiness -> "Read"
                  [] commands = <<>> /\ ~readiness /\ nextTick = 0 -> "Tick"
                  [] OTHER -> "None"

\* The arm the select takes when the link is not suspended.
Arm == CASE commands # <<>> -> "Command"
         [] commands = <<>> /\ nextTick = 0 -> "Tick"
         [] commands = <<>> /\ nextTick # 0 /\ readiness -> "Read"
         [] OTHER -> "None"

\* apply(). Commands about programs change nothing the driver looks at; those
\* for a slot may meet a failure of the link, but not on a suspended one.
Apply(c) ==
    \/ /\ c = "Program"
       /\ UNCHANGED controllerVars
       /\ DrainsFor("Command")
    \/ /\ c = "Slot"
       /\ \/ UNCHANGED <<gate, suspended, recoveryAt>>
          \/ ~suspended /\ Recovers(0 .. RetryInterval)
       /\ QueuesEvents
       /\ DrainsFor("Command")
    \/ c = "Reset" /\ ResetAndTick /\ DrainsFor("ResetTick")
    \/ c = "Reset" /\ ResetFails /\ DrainsFor("Command")

TakeCommand ==
    /\ pc = "Select"
    /\ commands # <<>>
    /\ commands' = Tail(commands)
    /\ \/ /\ Apply(Head(commands))
          /\ UNCHANGED <<linkVars, watch, nextTick, resetRetryAt>>
       \/ Head(commands) \in {"Shutdown", "Gone"} /\ Stops

TickDue ==
    /\ pc = "Select" /\ ~suspended /\ Arm = "Tick"
    /\ ControllerTick
    /\ DrainsFor("Tick")
    /\ UNCHANGED <<linkVars, commands, watch, nextTick, resetRetryAt>>

Readable ==
    /\ pc = "Select" /\ ~suspended /\ Arm = "Read"
    /\ DrainsFor("Read")
    /\ fresh' = FALSE
    /\ UNCHANGED <<controllerVars, frames, edge, readiness, commands, watch,
                   nextTick, resetRetryAt>>

ReadinessFails == /\ pc = "Select" /\ ~suspended /\ Arm \in {"Read", "None"}
                  /\ Stops
                  /\ UNCHANGED commands

\* The recovery the controller scheduled.
Resume ==
    /\ pc = "Select" /\ suspended /\ commands = <<>>
    /\ recoveryAt = 0
    /\ ControllerTick
    /\ DrainsFor("Tick")
    /\ UNCHANGED <<linkVars, commands, watch, nextTick, resetRetryAt>>

\* retry_reset(), at the internal deadline, when nothing is scheduled.
RetryReset ==
    /\ pc = "Select" /\ suspended /\ commands = <<>>
    /\ recoveryAt = None /\ resetRetryAt = 0
    /\ \/ /\ ResetAndTick
          /\ resetRetryAt' = None
          /\ DrainsFor("Tick")
          /\ UNCHANGED <<watch, nextTick>>
       \/ /\ ResetFails
          /\ Loops(RetryInterval)
          /\ watch' = FALSE
          /\ nextTick' = TickPeriod
          /\ UNCHANGED passVars
    /\ UNCHANGED <<linkVars, commands>>

-----------------------------------------------------------------------------
(* drain_events(), one poll_event() a step.                                  *)
Draining == pc = "Drain" /\ batch < DrainBatch
Reading == Draining /\ queued = 0 /\ ~suspended

Polled == /\ batch' = batch + 1
          /\ UNCHANGED <<edge, readiness, fresh, commands, watch, nextTick,
                         resetRetryAt, pc, pass, drained>>

Forward == /\ Draining /\ queued > 0
           /\ queued' = queued - 1
           /\ Polled
           /\ UNCHANGED <<gate, suspended, recoveryAt, frames>>

\* A frame without an event: poll_event() reads the next one.
ReadQuiet == /\ Reading /\ frames > 0
             /\ frames' = frames - 1
             /\ UNCHANGED <<controllerVars, edge, readiness, fresh, commands,
                            watch, nextTick, resetRetryAt, pc, passVars>>

\* A frame with events, the first of which is forwarded; information of the
\* module arms the gate.
ReadEvent == /\ Reading /\ frames > 0
             /\ frames' = frames - 1
             /\ gate' \in {gate, "Armed"}
             /\ queued' \in 0 .. MaxEvents
             /\ Polled
             /\ UNCHANGED <<suspended, recoveryAt>>

\* A failed read, or a failed answer to a frame. The time to resume counts from
\* the last tick, so some of it may have passed.
ReadFails == /\ Reading
             /\ frames' \in {frames} \cup (IF frames > 0 THEN {frames - 1} ELSE {})
             /\ Recovers(0 .. RetryInterval)
             /\ QueuesEvents
             /\ Polled

Ends(result) ==
    /\ pc' = "Publish"
    /\ drained' = result
    /\ UNCHANGED <<controllerVars, linkVars, commands, watch, nextTick,
                   resetRetryAt, pass, batch>>

\* Seeded fault: "nothing to read" is taken for an empty buffer.
LinkDrainedAlways == TRUE

LinkDrained == ~suspended

DrainEmpty == /\ Draining /\ queued = 0
              /\ suspended \/ frames = 0
              /\ Ends(LinkDrained)

BatchFull == /\ pc = "Drain" /\ batch = DrainBatch
             /\ Ends(FALSE)

\* Seeded fault: the gate is published only when the link was drained.
PublishedWhenDrained == IF drained THEN gate = "Ready" ELSE watch

Published == gate = "Ready"

\* publish_ready(), and what the caller of drain_events() does next. Readiness
\* is cleared unless an edge came after the guard was taken.
Publish ==
    /\ pc = "Publish"
    /\ UNCHANGED <<controllerVars, frames, edge, fresh, commands>>
    /\ watch' = Published
    /\ \/ /\ pass = "Tick"
          /\ nextTick' = TickPeriod
          /\ Loops(resetRetryAt)
          /\ UNCHANGED <<readiness, passVars>>
       \/ /\ pass = "Read"
          /\ readiness' = IF drained THEN fresh ELSE readiness
          /\ Loops(resetRetryAt)
          /\ UNCHANGED <<nextTick, passVars>>
       \/ /\ pass = "Command"
          /\ Loops(resetRetryAt)
          /\ UNCHANGED <<nextTick, readiness, passVars>>
       \/ /\ pass = "ResetTick"
          /\ DrainsFor("Command")
          /\ UNCHANGED <<nextTick, readiness, resetRetryAt>>

Drain == Forward \/ ReadQuiet \/ ReadEvent \/ ReadFails \/ DrainEmpty \/ BatchFull

-----------------------------------------------------------------------------
(* Modules, the reactor, the owners of handles and time.                     *)
Arrive == /\ pc # "Stopped" /\ frames < MaxFrames
          /\ frames' = frames + 1
          /\ edge' = (pc # "Start")
          /\ UNCHANGED <<controllerVars, readiness, fresh, commands, watch,
                         nextTick, resetRetryAt, pc, passVars>>

Deliver == /\ edge
           /\ edge' = FALSE /\ readiness' = TRUE /\ fresh' = TRUE
           /\ UNCHANGED <<controllerVars, frames, commands, watch, nextTick,
                          resetRetryAt, pc, passVars>>

Send(c) == /\ pc # "Stopped" /\ Len(commands) < MaxCommands
           /\ \A i \in 1 .. Len(commands) : commands[i] # "Gone"
           /\ commands' = Append(commands, c)
           /\ UNCHANGED <<controllerVars, linkVars, watch, nextTick,
                          resetRetryAt, pc, passVars>>

Less(t) == IF t \in {0, None} THEN t ELSE t - 1

Elapse == /\ nextTick' = Less(nextTick)
          /\ recoveryAt' = Less(recoveryAt)
          /\ resetRetryAt' = Less(resetRetryAt)
          /\ UNCHANGED <<gate, suspended, queued, linkVars, commands, watch, pc,
                         passVars>>

\* What the task does by itself; it may stop for an error, but need not.
Work == \/ TakeCommand \/ TickDue \/ Readable \/ Resume \/ RetryReset
        \/ Drain \/ Publish

Next == \/ Start \/ Work \/ ReadinessFails
        \/ Arrive \/ Deliver \/ Elapse
        \/ \E c \in Commands : Send(c)

Spec == Init /\ [][Next]_vars

\* The runtime polls the task, the reactor delivers edges, time passes.
FairSpec == /\ Spec
            /\ WF_vars(Start) /\ WF_vars(Work)
            /\ WF_vars(Deliver) /\ WF_vars(Elapse)

-----------------------------------------------------------------------------
TypeOK ==
    /\ gate \in {"NotReady", "Armed", "Ready"}
    /\ suspended \in BOOLEAN
    /\ recoveryAt \in Times(RetryInterval)
    /\ queued \in 0 .. MaxEvents /\ frames \in 0 .. MaxFrames
    /\ edge \in BOOLEAN /\ readiness \in BOOLEAN /\ fresh \in BOOLEAN
    /\ commands \in Seq(Commands)
    /\ watch \in BOOLEAN
    /\ nextTick \in 0 .. TickPeriod
    /\ resetRetryAt \in Times(RetryInterval)
    /\ pc \in {"Start", "Select", "Drain", "Publish", "Stopped"}
    /\ pass \in {"Tick", "Read", "Command", "ResetTick"}
    /\ batch \in 0 .. DrainBatch
    /\ drained \in BOOLEAN

\* Whenever the loop waits, the watch says what the gate says, whatever opened
\* or closed it: a quiet tick, a frame, a command, a recovery in the middle of
\* a batch. After any return it says FALSE.
WatchTellsGate ==
    /\ pc \in {"Start", "Stopped"} => ~watch
    /\ pc = "Select" => watch = (gate = "Ready")

\* No frame waits without a wake-up, for a buffered frame raises no new edge:
\* readiness is not cleared over frames that arrive late, are left by a full
\* batch, or stay behind when the link is suspended in the middle of a drain.
NoStrandedFrame ==
    pc \notin {"Start", "Stopped"} /\ frames > 0 => readiness \/ edge

\* The tick comes again and again, however many events a module raises. It may
\* be kept away by commands without end, by frames without end that raise no
\* event, and by a link that stays suspended.
Ticks == TickDue \/ Resume \/ (RetryReset /\ pc' = "Drain")

TicksGoOn == \/ []<><<Ticks>>_vars
             \/ <>(pc = "Stopped") \/ <>[]suspended
             \/ []<><<TakeCommand>>_vars \/ []<><<ReadQuiet>>_vars

\* A failed CA_RESET is retried until one succeeds: a link that stays suspended
\* with nothing scheduled is reset again and again, whoever's CA_RESET failed.
ResetsRetried ==
    <>[](suspended /\ recoveryAt = None /\ pc # "Stopped")
        => []<><<RetryReset>>_vars \/ []<><<TakeCommand>>_vars
=============================================================================
