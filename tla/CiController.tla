----------------------------- MODULE CiController -----------------------------
(***************************************************************************)
(* The slot manager of src/ca/controller.rs: physical slots, transport     *)
(* connections, timeouts and global recovery, over modules that may send   *)
(* any frame at any time and a link whose writes may be refused or fail.   *)
(*                                                                         *)
(* Every instant the controller stores is the time of a tick, so ages and  *)
(* remaining times are kept relative to the last tick. tick() is the       *)
(* sequence Tick, Refresh, Resources, Drive (once per slot), Dispatch: the *)
(* caller holds the controller until it is back at "Idle".                 *)
(*                                                                         *)
(* An SPDU is one frame (CiTransport.tla cuts and reassembles them). Of    *)
(* the sessions of a slot the manager looks at Application Information and *)
(* Conditional Access only; one of each stands for all. The pacer's clock  *)
(* is left open (CaPmtPacer.tla): a due pass is a choice here. The event   *)
(* queue is left out: draining it changes nothing else.                    *)
(***************************************************************************)
EXTENDS TransportSlot

CONSTANTS SlotsNum,         \* slots of the CA device
          ResponseTimeout,  \* CiControllerConfig, in units of the tick
          CreateTimeout,
          PollInterval,
          RetryInterval,
          StatusInterval,
          MaxStep,          \* longest time between two ticks
          MaxQueue,         \* frames queued on a slot that is given more (a bound)
          MaxRestore,       \* most CA_PMTs one CA_INFO restores
          Infos,            \* what CA_GET_SLOT_INFO may answer
          Kinds,            \* sessions the modules open: "ai", "ca"
          None

ASSUME ConfigAssumption ==
    /\ SlotsNum \in 1 .. 255
    /\ {ResponseTimeout, CreateTimeout, PollInterval, RetryInterval,
        StatusInterval, MaxStep, MaxQueue, MaxRestore} \subseteq Nat
    /\ Infos \subseteq [present : BOOLEAN, ready : BOOLEAN, link : BOOLEAN]
    /\ Kinds \subseteq {"ai", "ca"}
    /\ None \notin Int

Slots == 0 .. SlotsNum - 1

VARIABLES slots,       \* ControllerSlot of each slot
          transport,   \* TransportSlot of each slot
          sessions,    \* state of the two resource sessions of each slot
          gate,        \* CaPmtPacer's readiness gate
          ticked,      \* last_tick is set
          suspended,   \* link_suspended
          recoveryAt,  \* time left until recovery_at
          nextCheck,   \* time left until next_status_check
          deferred,    \* deferred_link_failure
          pc, at,      \* where tick() is, and at which slot
          resetFailed, \* the last CA_RESET failed (observer)
          swallowed    \* a short write was reported as Malformed (observer)

linkVars == <<ticked, suspended, recoveryAt, nextCheck, deferred, resetFailed>>
vars == <<slots, transport, sessions, gate, linkVars, pc, at, swallowed>>

NewSlot == [status |-> "Absent", camStatus |-> "None", present |-> FALSE,
            ready |-> FALSE, createSince |-> None, commandSince |-> None,
            receivePending |-> FALSE, nextPoll |-> None, retryAt |-> None]

NoSessions == [ai |-> "Closed", ca |-> "Closed"]

Init == /\ slots = [s \in Slots |-> NewSlot]
        /\ transport = [s \in Slots |-> EmptySlot]
        /\ sessions = [s \in Slots |-> NoSessions]
        /\ gate = "NotReady"
        /\ ticked = FALSE
        /\ suspended = FALSE
        /\ recoveryAt = None
        /\ nextCheck = None
        /\ deferred = FALSE
        /\ pc = "Idle"
        /\ at = 0
        /\ resetFailed = FALSE
        /\ swallowed = [s \in Slots |-> FALSE]

-----------------------------------------------------------------------------
(* Time. An age stops at the timeout it is compared with. *)
\* Seeded faults: an age that stands still, a deadline that does.
OlderStuck(age, d, limit) == age
SoonerStuck(left, d) == left

Older(age, d, limit) ==
    IF age = None THEN None ELSE IF age + d < limit THEN age + d ELSE limit

Sooner(left, d) ==
    IF left = None THEN None ELSE IF left > d THEN left - d ELSE 0

Started(age) == IF age = None THEN 0 ELSE age

Due(left) == left # None => left = 0

Later(cs, d) ==
    [cs EXCEPT !.createSince = Older(@, d, CreateTimeout),
               !.commandSince = Older(@, d, ResponseTimeout),
               !.nextPoll = Sooner(@, d),
               !.retryAt = Sooner(@, d)]

\* Seeded fault: a pending RCV outlives its connection.
ClearTimersKeepsPending(cs) ==
    [cs EXCEPT !.createSince = None, !.commandSince = None,
               !.nextPoll = None, !.retryAt = None]

ClearTimers(cs) ==
    [cs EXCEPT !.createSince = None, !.commandSince = None,
               !.receivePending = FALSE, !.nextPoll = None, !.retryAt = None]

(* The transport. Frames and a flush that does not fail: the head of the    *)
(* queue is refused, or it goes out and the slot is busy.                   *)
Sent(t, frames, out) ==
    LET q == [t EXCEPT !.queue = @ \o frames]
    IN IF out /\ CanWrite(q) THEN Written(q) ELSE q

\* The same can meet a failing write.
MayBreak(t, frames) == ~t.busy /\ t.queue \o frames # <<>>

HasRoom(t) == Len(t.queue) < MaxQueue

\* Seeded fault: a CREATE_TC that was not written yet has no timer.
MarkedWhenBusy(cs, t) ==
    IF cs.status = "CreatingTc" /\ t.busy /\ cs.createSince = None
    THEN [cs EXCEPT !.createSince = 0, !.commandSince = None]
    ELSE IF cs.status = "Active" /\ t.busy
         THEN [cs EXCEPT !.commandSince = Started(@)]
         ELSE cs

\* mark_outstanding().
Marked(cs, t) ==
    IF cs.status = "CreatingTc" /\ t.busy /\ cs.createSince = None
    THEN [cs EXCEPT !.createSince = 0, !.commandSince = None]
    ELSE IF \/ cs.status = "CreatingTc" /\ t.queue # <<>>
            \/ cs.status = "Active" /\ (t.busy \/ t.queue # <<>>)
         THEN [cs EXCEPT !.commandSince = Started(@)]
         ELSE cs

\* flush_receive_pending(): one RCV, and only once the slot is idle.
\* Seeded fault: not before the CAM is ready.
CanAskReady(cs, t) ==
    /\ cs.status = "Active" /\ cs.receivePending /\ cs.camStatus = "Ready"
    /\ ~t.busy /\ t.queue = <<>>

CanAsk(cs, t) ==
    /\ cs.status = "Active" /\ cs.receivePending
    /\ ~t.busy /\ t.queue = <<>>

\* recompute_cam_status().
CamStatus(status, sess) ==
    IF status # "Active" THEN "None"
    ELSE CASE sess.ai = "Confirmed" /\ sess.ca = "Confirmed" -> "Ready"
           [] sess.ai = "Confirmed" /\ sess.ca # "Confirmed" -> "ApplicationInfo"
           [] sess.ai # "Confirmed" /\ sess.ca = "Confirmed" -> "CaInfo"
           [] OTHER -> "None"

-----------------------------------------------------------------------------
(* recover_all(): one CA_RESET for all slots, whatever failed. *)
DropAll ==
    /\ transport' = [s \in Slots |-> EmptySlot]
    /\ sessions' = [s \in Slots |-> NoSessions]
    /\ gate' = "NotReady"
    /\ deferred' = FALSE
    /\ swallowed' = [s \in Slots |-> FALSE]

Failed(cs, retry) ==
    [ClearTimers(cs) EXCEPT !.ready = FALSE,
                            !.camStatus = "None",
                            !.retryAt = retry,
                            !.status = IF cs.present THEN "Failed" ELSE "Absent"]

Recover ==
    \E ok \in BOOLEAN :
        LET retry == IF ok THEN RetryInterval ELSE None
        IN /\ DropAll
           /\ slots' = [s \in Slots |-> Failed(slots[s], retry)]
           /\ suspended' = TRUE
           /\ recoveryAt' = retry
           /\ nextCheck' = retry
           /\ resetFailed' = ~ok
           /\ ticked' = TRUE
           /\ pc' = "Idle"
           /\ UNCHANGED <<at>>

\* reset() by the application. A failed one leaves `ready` as it is.
Reset ==
    /\ pc = "Idle"
    /\ DropAll
    /\ recoveryAt' = None
    /\ \/ /\ slots' = [s \in Slots |->
                [ClearTimers(slots[s]) EXCEPT
                    !.ready = FALSE,
                    !.camStatus = "None",
                    !.status = IF slots[s].present THEN "Present" ELSE "Absent"]]
          /\ nextCheck' = None
          /\ suspended' = FALSE
          /\ resetFailed' = FALSE
       \/ /\ slots' = [s \in Slots |->
                [ClearTimers(slots[s]) EXCEPT
                    !.camStatus = IF sessions[s] = NoSessions THEN @ ELSE "None",
                    !.status = IF slots[s].present THEN "Failed" ELSE @]]
          /\ suspended' = TRUE
          /\ resetFailed' = TRUE
          /\ UNCHANGED nextCheck
    /\ UNCHANGED <<ticked, pc, at>>

-----------------------------------------------------------------------------
(* tick(now), now being d after the last tick. *)
Tick(d) ==
    LET waiting == suspended /\ (recoveryAt = None \/ Sooner(recoveryAt, d) > 0)
    IN /\ pc = "Idle"
       /\ ~deferred
       /\ ticked' = TRUE
       /\ slots' = [s \in Slots |-> Later(slots[s], d)]
       /\ nextCheck' = Sooner(nextCheck, d)
       /\ IF waiting
          THEN /\ recoveryAt' = Sooner(recoveryAt, d)
               /\ UNCHANGED <<suspended, pc>>
          ELSE /\ recoveryAt' = None
               /\ suspended' = FALSE
               /\ pc' = IF Due(nextCheck') THEN "Refresh" ELSE "Resources"
       /\ UNCHANGED <<transport, sessions, gate, deferred, at, resetFailed, swallowed>>

\* A link failure met before the first tick.
TickDeferred == pc = "Idle" /\ deferred /\ Recover

\* refresh_slot_info(): all slots are read before any is looked at.
Inserted(i) == i.present \/ i.ready

Disconnects(cs, i) ==
    \/ ~Inserted(i) /\ cs.status # "Absent"
    \/ Inserted(i) /\ ~i.link /\ (cs.status # "Failed" \/ cs.retryAt # None)
    \/ Inserted(i) /\ i.link /\ ~i.ready /\ cs.status \in {"CreatingTc", "Active"}

StatusAfter(cs, i) ==
    CASE ~Inserted(i) -> "Absent"
      [] Inserted(i) /\ ~i.link -> "Failed"
      [] Inserted(i) /\ i.link ->
            IF cs.status = "Absent" \/ Disconnects(cs, i) THEN "Present"
            ELSE cs.status

\* Seeded fault: the CAM status outlives the module.
AppliedKeepsCam(cs, i) ==
    LET kept == IF Disconnects(cs, i) THEN ClearTimers(cs) ELSE cs
    IN [kept EXCEPT !.present = Inserted(i), !.ready = i.ready,
                    !.status = StatusAfter(cs, i)]

Applied(cs, i) ==
    LET kept == IF Disconnects(cs, i)
                THEN [ClearTimers(cs) EXCEPT !.camStatus = "None"] ELSE cs
    IN [kept EXCEPT !.present = Inserted(i), !.ready = i.ready,
                    !.status = StatusAfter(cs, i)]

Refresh ==
    /\ pc = "Refresh"
    /\ \E info \in [Slots -> Infos] :
          LET kept(s) == ~Disconnects(slots[s], info[s])
          IN /\ slots' = [s \in Slots |-> Applied(slots[s], info[s])]
             /\ transport' = [s \in Slots |->
                                 IF kept(s) THEN transport[s] ELSE EmptySlot]
             /\ sessions' = [s \in Slots |->
                                 IF kept(s) THEN sessions[s] ELSE NoSessions]
             /\ swallowed' = [s \in Slots |-> kept(s) /\ swallowed[s]]
    /\ nextCheck' = StatusInterval
    /\ pc' = "Resources"
    /\ UNCHANGED <<gate, ticked, suspended, recoveryAt, deferred, at,
                   resetFailed>>

RefreshFails == pc = "Refresh" /\ Recover

\* One SPDU for every slot of S; on the slots of out the link takes a frame.
Commanded(S, out) ==
    [s \in Slots |-> IF s \in S THEN Sent(transport[s], <<"Spdu">>, s \in out)
                     ELSE transport[s]]

MayCommand(S) == \A s \in S : HasRoom(transport[s])
MayBreakAny(S) == \E s \in S : MayBreak(transport[s], <<"Spdu">>)

\* session.tick_at(): periodic DATE_TIME objects; any active slot may have the
\* session they belong to.
Resources ==
    /\ pc = "Resources"
    /\ \E S \in SUBSET {s \in Slots : slots[s].status = "Active"} :
          /\ MayCommand(S)
          /\ \/ /\ \E out \in SUBSET S : transport' = Commanded(S, out)
                /\ pc' = "Drive"
                /\ at' = 0
                /\ UNCHANGED <<slots, sessions, gate, linkVars,
                               swallowed>>
             \/ MayBreakAny(S) /\ Recover

-----------------------------------------------------------------------------
(* drive_slot() *)
DriveNext ==
    /\ at' = (at + 1) % SlotsNum
    /\ pc' = IF at' = 0 THEN "Dispatch" ELSE "Drive"
    /\ UNCHANGED <<sessions, gate, linkVars, swallowed>>

Driven(cs, t) ==
    /\ slots' = [slots EXCEPT ![at] = cs]
    /\ transport' = [transport EXCEPT ![at] = t]
    /\ DriveNext

\* A failed connection is retried once its time has come.
Retried(cs) == IF cs.status = "Failed" /\ cs.retryAt = 0
               THEN [cs EXCEPT !.retryAt = None, !.status = "Present"]
               ELSE cs

DriveIdle(cs) ==
    /\ \/ cs.status \in {"Absent", "Failed"}
       \/ cs.status = "Present" /\ ~cs.ready
    /\ Driven(cs, transport[at])

DriveConnect(cs) ==
    /\ cs.status = "Present" /\ cs.ready
    /\ \/ \E out \in BOOLEAN :
             LET t == Sent(transport[at], <<"CreateTc">>, out)
             IN Driven(Marked([cs EXCEPT !.receivePending = FALSE,
                                         !.status = "CreatingTc"], t), t)
       \/ MayBreak(transport[at], <<"CreateTc">>) /\ Recover

\* Seeded fault: an accepted CREATE_TC is waited for without a limit.
DriveCreatingPatient(cs) ==
    /\ cs.status = "CreatingTc"
    /\ \/ \E out \in BOOLEAN :
             LET t == Sent(transport[at], <<>>, out)
                 m == Marked(cs, t)
             IN IF m.createSince = None /\ m.commandSince = ResponseTimeout
                THEN Recover ELSE Driven(m, t)
       \/ MayBreak(transport[at], <<>>) /\ Recover

DriveCreating(cs) ==
    /\ cs.status = "CreatingTc"
    /\ \/ \E out \in BOOLEAN :
             LET t == Sent(transport[at], <<>>, out)
                 m == Marked(cs, t)
                 late == \/ /\ m.createSince = None
                            /\ m.commandSince = ResponseTimeout
                         \/ m.createSince = CreateTimeout
             IN IF late THEN Recover ELSE Driven(m, t)
       \/ MayBreak(transport[at], <<>>) /\ Recover

\* The slot is idle: a pending RCV goes first, then the poll when it is due.
DriveCommand(cs, t) ==
    \/ /\ CanAsk(cs, t)
       /\ \/ \E out \in BOOLEAN :
                LET u == Sent(t, <<"Rcv">>, out)
                IN Driven(Marked([cs EXCEPT !.receivePending = FALSE], u), u)
          \/ Recover
    \/ /\ ~CanAsk(cs, t) /\ Due(cs.nextPoll)
       /\ \/ \E out \in BOOLEAN :
                Driven([cs EXCEPT !.commandSince = 0, !.nextPoll = PollInterval],
                       Sent(t, <<"Poll">>, out))
          \/ Recover
    \/ /\ ~CanAsk(cs, t) /\ ~Due(cs.nextPoll)
       /\ Driven(cs, t)

DriveActive(cs) ==
    /\ cs.status = "Active"
    /\ \/ \E out \in BOOLEAN :
             LET t == Sent(transport[at], <<>>, out)
                 waiting == [cs EXCEPT !.commandSince = Started(@)]
             IN IF t.busy \/ t.queue # <<>>
                THEN IF waiting.commandSince = ResponseTimeout
                     THEN Recover
                     ELSE Driven(waiting, t)
                ELSE DriveCommand([cs EXCEPT !.commandSince = None], t)
       \/ MayBreak(transport[at], <<>>) /\ Recover

Drive ==
    /\ pc = "Drive"
    /\ LET cs == Retried(slots[at])
       IN DriveIdle(cs) \/ DriveConnect(cs) \/ DriveCreating(cs) \/ DriveActive(cs)

-----------------------------------------------------------------------------
(* dispatch_ca_pmt(): a pass may be due or not, and releases a change only  *)
(* when the gate was open; the change goes to slots with a confirmed CA     *)
(* session. A failure costs all slots their connection.                     *)
Release(S) ==
    /\ MayCommand(S)
    /\ \/ /\ \E out \in SUBSET S :
             /\ transport' = Commanded(S, out)
             /\ slots' = [s \in Slots |-> IF s \in S
                                         THEN Marked(slots[s], transport'[s])
                                         ELSE slots[s]]
          /\ pc' = "Idle"
          /\ UNCHANGED <<sessions, gate, linkVars, at, swallowed>>
       \/ MayBreakAny(S) /\ Recover

Dispatch ==
    /\ pc = "Dispatch"
    /\ \/ /\ gate' \in {gate} \cup (IF gate = "Armed" THEN {"Ready"} ELSE {})
          /\ pc' = "Idle"
          /\ UNCHANGED <<slots, transport, sessions, linkVars, at,
                         swallowed>>
       \/ /\ gate = "Ready"
          /\ \E S \in SUBSET {s \in Slots : sessions[s].ca = "Confirmed"} :
                 Release(S)

-----------------------------------------------------------------------------
(* poll_event(): one frame of slot s. *)
Reading == pc = "Idle" /\ ~suspended

\* The rest of the pass after the dispatch, the flush and the collection of
\* events have left slot s in state cs and t with sessions sess: a DATA_INDICATOR
\* is remembered, and RCV goes out once the slot is idle.
Settle(s, cs, t, sess, g, short) ==
    LET asked == [cs EXCEPT !.receivePending =
                      @ \/ (t.dataPending /\ cs.status = "Active")]
        heard == [t EXCEPT !.dataPending = FALSE]
        rcv == CanAsk(asked, heard)
    IN \/ /\ \E out \in BOOLEAN :
                LET u == IF rcv THEN Sent(heard, <<"Rcv">>, out) ELSE heard
                    c == IF rcv THEN [asked EXCEPT !.receivePending = FALSE]
                         ELSE asked
                IN /\ slots' = [slots EXCEPT ![s] = Marked(c, u)]
                   /\ transport' = [transport EXCEPT ![s] = u]
          /\ sessions' = [sessions EXCEPT ![s] = sess]
          /\ gate' = g
          /\ swallowed' = [swallowed EXCEPT ![s] = short]
          /\ UNCHANGED <<linkVars, pc, at>>
       \/ rcv /\ Recover

\* An answer to an active slot stops its command timer.
Quiet(cs) == IF cs.status = "Active" THEN [cs EXCEPT !.commandSince = None]
             ELSE cs

\* TransportReady, in collect_session_events().
Connected(cs) ==
    IF cs.status = "CreatingTc"
    THEN [cs EXCEPT !.createSince = None, !.commandSince = None,
                    !.nextPoll = None, !.status = "Active"]
    ELSE cs

\* A frame that does not reach the sessions; only the flush follows.
ReadPlain(s, cs, heard) ==
    \/ \E out \in BOOLEAN :
          Settle(s, cs, Sent(heard, <<>>, out), sessions[s], gate, swallowed[s])
    \/ MayBreak(heard, <<>>) /\ Recover

ReadStatus(s) ==
    /\ Reading
    /\ \/ ReadPlain(s, Quiet(slots[s]), Heard(transport[s]))
       \/ \E di \in BOOLEAN :
             ReadPlain(s, Quiet(slots[s]), HeardWell(transport[s], di))

ReadCtcReply(s) ==
    /\ Reading
    /\ \E di \in BOOLEAN :
          ReadPlain(s, Connected(Quiet(slots[s])), HeardWell(transport[s], di))

\* A failed or unattributable read.
ReadError ==
    /\ Reading
    /\ \/ ticked /\ Recover
       \/ /\ ~ticked
          /\ deferred' = TRUE
          /\ UNCHANGED <<slots, transport, sessions, gate, ticked, suspended,
                         recoveryAt, nextCheck, resetFailed, pc, at,
                         swallowed>>

(* An SPDU of an active slot: the answers `frames` are queued, those from    *)
(* the index `callback` on by a resource. A short write there loses the      *)
(* rest of the answer and the event, and nothing else happens; every other   *)
(* failure ends in recover_all().                                            *)
Shortened(t, frames, i) ==
    WriteFailed([t EXCEPT !.queue = @ \o SubSeq(frames, 1, i)])

Dispatched(s, sess, cam, g, frames, callback) ==
    LET cs == Quiet(slots[s])
    IN /\ HasRoom(transport[s])
       /\ \E di \in BOOLEAN :
             LET heard == HeardWell(transport[s], di)
             IN \/ \E out \in BOOLEAN :
                      Settle(s, [cs EXCEPT !.camStatus = cam],
                             Sent(heard, frames, out), sess, g, swallowed[s])
                \/ \E out \in BOOLEAN, i \in callback .. Len(frames) :
                      Settle(s, cs, Sent(Shortened(heard, frames, i), <<>>, out),
                             sess, gate, TRUE)
                \/ MayBreak(heard, frames) /\ Recover

Dispatches(s) == Reading /\ slots[s].status = "Active"

Spdus(n) == [i \in 1 .. n |-> "Spdu"]
With(s, r, state) == [sessions[s] EXCEPT ![r] = state]

\* open_session(): the response, then the resource's enquiry.
OpenSession(s, r) ==
    /\ Dispatches(s)
    /\ LET sess == With(s, r, IF sessions[s][r] = "Closed" THEN "Open"
                              ELSE sessions[s][r])
       IN Dispatched(s, sess, slots[s].camStatus, gate, Spdus(2), 2)

\* close_session(): the response, then the session is freed.
CloseSession(s, r) ==
    /\ Dispatches(s)
    /\ sessions[s][r] # "Closed"
    /\ LET sess == With(s, r, "Closed")
       IN Dispatched(s, sess, CamStatus("Active", sess), gate, Spdus(1), 2)

\* APPLICATION_INFO arms the gate.
ApplicationInfo(s) ==
    /\ Dispatches(s)
    /\ sessions[s].ai # "Closed"
    /\ LET sess == With(s, "ai", "Confirmed")
       IN Dispatched(s, sess, CamStatus("Active", sess), "Armed", <<>>, 1)

\* CA_INFO: the session is confirmed, selected programs are restored or
\* withdrawn, and a list with a CA system arms the gate.
CaInfo(s) ==
    /\ Dispatches(s)
    /\ sessions[s].ca # "Closed"
    /\ LET sess == With(s, "ca", "Confirmed")
       IN \E n \in 0 .. MaxRestore, g \in {"Armed", gate} :
              Dispatched(s, sess, CamStatus("Active", sess), g, Spdus(n), 1)

\* Any other object or resource, with or without an answer.
OtherObject(s) ==
    /\ Dispatches(s)
    /\ \E n \in 0 .. 1 :
          Dispatched(s, sessions[s], slots[s].camStatus, gate, Spdus(n), 1)

-----------------------------------------------------------------------------
(* enter_menu(), the MMI commands and ask_release(): the session they need    *)
(* may be any of an active slot.                                             *)
UserCommand(s) ==
    /\ pc = "Idle"
    /\ slots[s].status = "Active"
    /\ HasRoom(transport[s])
    /\ \/ \E out \in BOOLEAN :
             LET t == Sent(transport[s], <<"Spdu">>, out)
             IN /\ transport' = [transport EXCEPT ![s] = t]
                /\ slots' = [slots EXCEPT ![s] = Marked(@, t)]
                /\ UNCHANGED <<sessions, gate, linkVars, pc, at,
                               swallowed>>
       \/ MayBreak(transport[s], <<"Spdu">>) /\ Recover

TickStep == Refresh \/ RefreshFails \/ Resources \/ Drive \/ Dispatch

Read(s) == \/ ReadStatus(s) \/ ReadCtcReply(s)
           \/ \E r \in Kinds : OpenSession(s, r) \/ CloseSession(s, r)
           \/ ApplicationInfo(s) \/ CaInfo(s) \/ OtherObject(s)

Next == \/ \E d \in 0 .. MaxStep : Tick(d)
        \/ TickDeferred
        \/ TickStep
        \/ ReadError
        \/ \E s \in Slots : Read(s) \/ UserCommand(s)
        \/ Reset

Spec == Init /\ [][Next]_vars

\* The event loop keeps ticking and its clock does not stand still (strong,
\* for a tick is not enabled while another runs); a tick() that began runs to
\* its end; modules, writes and the application owe nothing.
FairSpec == /\ Spec
            /\ SF_vars(\E d \in 1 .. MaxStep : Tick(d))
            /\ WF_vars(TickDeferred)
            /\ WF_vars(TickStep)

-----------------------------------------------------------------------------
Timers(limit) == (0 .. limit) \cup {None}
Frames == {"CreateTc", "Rcv", "Poll", "Spdu"}

ControllerSlot ==
    [status : {"Absent", "Present", "CreatingTc", "Active", "Failed"},
     camStatus : {"None", "ApplicationInfo", "CaInfo", "Ready"},
     present : BOOLEAN, ready : BOOLEAN,
     createSince : Timers(CreateTimeout), commandSince : Timers(ResponseTimeout),
     receivePending : BOOLEAN,
     nextPoll : Timers(PollInterval), retryAt : Timers(RetryInterval)]

SessionStates == {"Closed", "Open", "Confirmed"}

TypeOK ==
    /\ slots \in [Slots -> ControllerSlot]
    /\ transport \in [Slots -> [busy : BOOLEAN, queue : Seq(Frames),
                                rx : {<<>>}, dataPending : BOOLEAN]]
    /\ sessions \in [Slots -> [ai : SessionStates, ca : SessionStates]]
    /\ gate \in {"NotReady", "Armed", "Ready"}
    /\ ticked \in BOOLEAN /\ suspended \in BOOLEAN /\ deferred \in BOOLEAN
    /\ recoveryAt \in Timers(RetryInterval)
    /\ nextCheck \in Nat \cup {None}
    /\ pc \in {"Idle", "Refresh", "Resources", "Drive", "Dispatch"}
    /\ at \in Slots
    /\ resetFailed \in BOOLEAN
    /\ swallowed \in [Slots -> BOOLEAN]

\* No command is waited for without a clock: whenever the caller gets the
\* controller back, an active slot with a command in flight or queued has its
\* command timer running, and a slot waiting for its connection has the timer
\* of the phase it is in, whatever answers, refusals and resource replies
\* came between (mark_outstanding).
Outstanding(t) == t.busy \/ t.queue # <<>>

TimersRunning ==
    pc = "Idle" => \A s \in Slots :
        /\ slots[s].status = "Active" /\ Outstanding(transport[s])
              => slots[s].commandSince # None
        /\ slots[s].status = "CreatingTc"
              => \/ slots[s].createSince # None
                 \/ slots[s].commandSince # None /\ transport[s].queue # <<>>

\* A slot without a connection is silent: nothing queued, nothing in flight,
\* no session, no timer of a connection, no CAM status. Refresh, recovery,
\* reset() and the reads that still arrive all keep to it.
Silent(s) == /\ transport[s] = EmptySlot
             /\ sessions[s] = NoSessions
             /\ slots[s].camStatus = "None"
             /\ slots[s].createSince = None /\ slots[s].commandSince = None
             /\ slots[s].nextPoll = None /\ ~slots[s].receivePending

SilentUnlessConnected ==
    \A s \in Slots :
        slots[s].status \in {"Absent", "Present", "Failed"} => Silent(s)

\* While the connection is being created only CREATE_TC is ever queued, and
\* no session exists.
OnlyCreateTc ==
    \A s \in Slots : slots[s].status = "CreatingTc" =>
        transport[s].queue \in {<<>>, <<"CreateTc">>} /\ sessions[s] = NoSessions

\* RCV and the poll never queue up behind other commands or behind each other.
PollsAtHead ==
    \A s \in Slots : \A i \in 2 .. Len(transport[s].queue) :
        transport[s].queue[i] = "Spdu"

\* The link is suspended only after a CA_RESET for every slot: nothing is
\* connected, the CA_PMT gate is closed, and only a failed CA_RESET leaves the
\* controller without a time to resume.
SuspendedIsReset ==
    suspended => /\ \A s \in Slots : slots[s].status \notin {"CreatingTc", "Active"}
                 /\ gate = "NotReady"
                 /\ recoveryAt = None <=> resetFailed

\* Refresh, recovery, reset() and the reads that still arrive leave every slot
\* in order: silent without a connection, alone with CREATE_TC while one is made,
\* with RCV and the poll only at the head, and reset while the link is suspended.
SlotsOrderly ==
    SilentUnlessConnected /\ OnlyCreateTc /\ PollsAtHead /\ SuspendedIsReset

\* The CAM status is what the live sessions confirmed, except after a short
\* write that was passed off as a malformed object.
CamStatusTrue ==
    \A s \in Slots : ~swallowed[s] =>
        slots[s].camStatus = CamStatus(slots[s].status, sessions[s])

\* A module that falls silent is not waited for: an active slot does not keep a
\* command in flight or queued for good unless the module keeps answering.
SilenceEnds ==
    \A s \in Slots :
        <>[](slots[s].status = "Active" /\ Outstanding(transport[s]))
            => []<><<Read(s)>>_vars

\* A slot leaves the wait for its connection, and a suspended link resumes
\* unless the CA_RESET failed.
ConnectionDecided ==
    \A s \in Slots :
        slots[s].status = "CreatingTc" ~> slots[s].status # "CreatingTc"

LinkResumes == suspended ~> ~suspended \/ resetFailed

\* Data the module announced is asked for: RCV is put off for good only by
\* reads that leave the slot occupied and by commands and objects queued for it
\* for good; the controller's own polls do not.
Occupied(s) == /\ Outstanding(transport'[s])
               /\ \/ Read(s)
                  \/ pc # "Drive" /\ transport'[s] # transport[s]

DataIsAskedFor ==
    \A s \in Slots :
        <>[]slots[s].receivePending => []<><<Occupied(s)>>_vars
=============================================================================
