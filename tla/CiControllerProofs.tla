-------------------------- MODULE CiControllerProofs --------------------------
(***************************************************************************)
(* The slot manager keeps its slots, for any number of them and any        *)
(* configuration: a slot without a connection is silent, a connection in   *)
(* the making has sent CREATE_TC and nothing else, polls do not pile up,   *)
(* the CAM status is what the sessions confirmed, a suspended link has     *)
(* been reset, and a slot that waits has a clock.                          *)
(*                                                                         *)
(* What holds of one slot is Good: a step that changes one slot is shown   *)
(* to keep it good, and a step for all slots slot by slot.                 *)
(***************************************************************************)
EXTENDS CiController, TLAPS

TransportType == [busy : BOOLEAN, queue : Seq(Frames), rx : {<<>>},
                  dataPending : BOOLEAN]
SessionsType == [ai : SessionStates, ca : SessionStates]
Gates == {"NotReady", "Armed", "Ready"}

PollsFirst(q) == \A i \in 2 .. Len(q) : q[i] = "Spdu"

Resting == {"Absent", "Present", "Failed"}

Quiescent(cs, t, sess) ==
    /\ t = EmptySlot /\ sess = NoSessions
    /\ cs.camStatus = "None"
    /\ cs.createSince = None /\ cs.commandSince = None
    /\ cs.nextPoll = None /\ ~cs.receivePending

Good(cs, t, sess, short) ==
    /\ cs \in ControllerSlot /\ t \in TransportType
    /\ sess \in SessionsType /\ short \in BOOLEAN
    /\ cs.status \in Resting => Quiescent(cs, t, sess)
    /\ cs.status = "CreatingTc" => /\ t.queue \in {<<>>, <<"CreateTc">>}
                                   /\ sess = NoSessions
    /\ PollsFirst(t.queue)
    /\ sess = NoSessions => cs.camStatus = "None"
    /\ ~short => cs.camStatus = CamStatus(cs.status, sess)
    /\ ~cs.present => cs.status = "Absent"

Slotwise == \A s \in Slots :
                Good(slots[s], transport[s], sessions[s], swallowed[s])

\* No step of tick() runs while the link is suspended.
StopsSuspended == suspended => pc = "Idle"

SlotTypes == /\ slots \in [Slots -> ControllerSlot]
             /\ transport \in [Slots -> TransportType]
             /\ sessions \in [Slots -> SessionsType]
             /\ swallowed \in [Slots -> BOOLEAN]

GlobalTypes ==
    /\ gate \in Gates
    /\ ticked \in BOOLEAN /\ suspended \in BOOLEAN /\ deferred \in BOOLEAN
    /\ recoveryAt \in Timers(RetryInterval)
    /\ nextCheck \in Nat \cup {None}
    /\ pc \in {"Idle", "Refresh", "Resources", "Drive", "Dispatch"}
    /\ at \in Slots
    /\ resetFailed \in BOOLEAN

IInv == SlotTypes /\ GlobalTypes /\ Slotwise /\ SuspendedIsReset /\ StopsSuspended

-----------------------------------------------------------------------------
(* One transport slot. *)
LEMMA EmptyType == EmptySlot \in TransportType
  BY DEF EmptySlot, TransportType

LEMMA SentType ==
    ASSUME NEW t \in TransportType, NEW frames \in Seq(Frames), NEW out \in BOOLEAN
    PROVE  /\ Sent(t, frames, out) \in TransportType
           /\ Sent(t, frames, out).dataPending = t.dataPending
  <1> DEFINE q == [t EXCEPT !.queue = @ \o frames]
  <1>1. q \in TransportType /\ q.dataPending = t.dataPending
    <2>1. t.queue \o frames \in Seq(Frames) BY DEF TransportType
    <2> QED BY <2>1 DEF TransportType
  <1>2. ASSUME CanWrite(q)
        PROVE  Written(q) \in TransportType /\ Written(q).dataPending = t.dataPending
    <2>1. q.queue # <<>> /\ q.queue \in Seq(Frames)
      BY <1>1, <1>2 DEF CanWrite, TransportType
    <2>2. Tail(q.queue) \in Seq(Frames) BY <2>1
    <2> HIDE DEF q
    <2> QED BY <1>1, <2>2 DEF Written, TransportType
  <1>3. Sent(t, frames, out) = IF out /\ CanWrite(q) THEN Written(q) ELSE q
    BY DEF Sent
  <1> HIDE DEF q
  <1> QED BY <1>1, <1>2, <1>3

\* What a flush leaves in the queue.
LEMMA SentQueue ==
    ASSUME NEW t \in TransportType, NEW frames \in Seq(Frames), NEW out \in BOOLEAN
    PROVE  Sent(t, frames, out).queue \in
               {t.queue \o frames}
                 \cup {r \in Seq(Frames) : t.queue \o frames # <<>> /\ r = Tail(t.queue \o frames)}
  <1> DEFINE q == [t EXCEPT !.queue = @ \o frames]
  <1>1. q.queue = t.queue \o frames /\ t.queue \o frames \in Seq(Frames)
    BY DEF TransportType
  <1>2. q.queue # <<>> => Tail(q.queue) \in Seq(Frames) BY <1>1
  <1>3. ASSUME CanWrite(q) PROVE Written(q).queue = Tail(q.queue) /\ q.queue # <<>>
    BY <1>3 DEF Written, CanWrite, TransportType
  <1>4. Sent(t, frames, out) = IF out /\ CanWrite(q) THEN Written(q) ELSE q
    BY DEF Sent
  <1> HIDE DEF q
  <1> QED BY <1>1, <1>2, <1>3, <1>4

LEMMA PollsTail ==
    ASSUME NEW q \in Seq(Frames), PollsFirst(q), q # <<>>
    PROVE  PollsFirst(Tail(q))
  BY DEF PollsFirst

LEMMA PollsAppended ==
    ASSUME NEW q \in Seq(Frames), PollsFirst(q), NEW r \in Seq({"Spdu"})
    PROVE  q \o r \in Seq(Frames) /\ PollsFirst(q \o r)
  BY DEF PollsFirst, Frames

LEMMA PollsShort ==
    ASSUME NEW q \in Seq(Frames), Len(q) <= 1
    PROVE  PollsFirst(q)
  BY DEF PollsFirst

\* SPDUs may queue up, a poll only goes to an empty queue.
LEMMA SentPolls ==
    ASSUME NEW t \in TransportType, NEW frames \in Seq(Frames), NEW out \in BOOLEAN,
           PollsFirst(t.queue),
           \/ frames \in Seq({"Spdu"})
           \/ t.queue = <<>> /\ Len(frames) <= 1
    PROVE  PollsFirst(Sent(t, frames, out).queue)
  <1>1. t.queue \in Seq(Frames) BY DEF TransportType
  <1>2. t.queue \o frames \in Seq(Frames) /\ PollsFirst(t.queue \o frames)
    <2>1. CASE frames \in Seq({"Spdu"}) BY <1>1, <2>1, PollsAppended
    <2>2. CASE t.queue = <<>> /\ Len(frames) <= 1
      <3>1. t.queue \o frames \in Seq(Frames) /\ Len(t.queue \o frames) <= 1
        BY <2>2, <1>1
      <3> QED BY <3>1, PollsShort
    <2> QED BY <2>1, <2>2
  <1>3. t.queue \o frames # <<>> => PollsFirst(Tail(t.queue \o frames))
    BY <1>2, PollsTail
  <1> QED BY <1>2, <1>3, SentQueue

\* Nothing is queued on an empty slot, so nothing is written.
LEMMA SentNothing ==
    ASSUME NEW t \in TransportType, t.queue = <<>>, NEW out \in BOOLEAN
    PROVE  Sent(t, <<>>, out) = t
  <1>1. [t EXCEPT !.queue = @ \o <<>>] = t
    <2>1. t.queue \o <<>> = t.queue BY DEF TransportType
    <2> QED BY <2>1 DEF TransportType
  <1> QED BY <1>1 DEF Sent, CanWrite

-----------------------------------------------------------------------------
(* One controller slot. *)
LEMMA Config ==
    /\ SlotsNum \in Nat \ {0}
    /\ ResponseTimeout \in Nat /\ CreateTimeout \in Nat /\ PollInterval \in Nat
    /\ RetryInterval \in Nat /\ StatusInterval \in Nat /\ MaxStep \in Nat
    /\ \A i \in Int : i # None
  BY ConfigAssumption

LEMMA MarkedSlot ==
    ASSUME NEW cs \in ControllerSlot, NEW t
    PROVE  /\ Marked(cs, t) \in ControllerSlot
           /\ Marked(cs, t).status = cs.status
           /\ Marked(cs, t).camStatus = cs.camStatus
           /\ Marked(cs, t).present = cs.present
           /\ cs.status \in Resting => Marked(cs, t) = cs
  <1>1. /\ 0 \in Timers(CreateTimeout) /\ 0 \in Timers(ResponseTimeout)
        /\ None \in Timers(ResponseTimeout)
    BY Config DEF Timers
  <1>2. cs.commandSince \in Timers(ResponseTimeout) BY DEF ControllerSlot
  <1>3. Started(cs.commandSince) \in Timers(ResponseTimeout)
    BY <1>1, <1>2 DEF Started
  <1>4. \/ Marked(cs, t) = cs
        \/ /\ Marked(cs, t) = [cs EXCEPT !.createSince = 0, !.commandSince = None]
           /\ cs.status = "CreatingTc"
        \/ /\ Marked(cs, t) = [cs EXCEPT !.commandSince = Started(@)]
           /\ cs.status \in {"CreatingTc", "Active"}
    BY DEF Marked
  <1>5. cs.status \in {"CreatingTc", "Active"} => cs.status \notin Resting
    BY DEF Resting
  <1> QED BY <1>1, <1>3, <1>4, <1>5 DEF ControllerSlot

LEMMA ClearedSlot ==
    ASSUME NEW cs \in ControllerSlot
    PROVE  /\ ClearTimers(cs) \in ControllerSlot
           /\ ClearTimers(cs).status = cs.status
           /\ ClearTimers(cs).camStatus = cs.camStatus
           /\ ClearTimers(cs).present = cs.present
           /\ ClearTimers(cs).ready = cs.ready
           /\ ClearTimers(cs).createSince = None
           /\ ClearTimers(cs).commandSince = None
           /\ ClearTimers(cs).nextPoll = None
           /\ ~ClearTimers(cs).receivePending
  BY DEF ClearTimers, ControllerSlot, Timers

LEMMA QuietSlot ==
    ASSUME NEW cs \in ControllerSlot
    PROVE  /\ Quiet(cs) \in ControllerSlot
           /\ Quiet(cs).status = cs.status
           /\ Quiet(cs).camStatus = cs.camStatus
           /\ Quiet(cs).present = cs.present
           /\ cs.status \in Resting => Quiet(cs) = cs
  BY DEF Quiet, ControllerSlot, Timers, Resting

\* The CAM status of a slot that is not active.
LEMMA CamUnlessActive ==
    ASSUME NEW status, NEW sess, status # "Active"
    PROVE  CamStatus(status, sess) = "None"
  BY DEF CamStatus

LEMMA NoSessionsType == NoSessions \in SessionsType
  BY DEF NoSessions, SessionsType, SessionStates

\* What a reset leaves of a slot is good, whatever its failure.
LEMMA FailedGood ==
    ASSUME NEW cs \in ControllerSlot, NEW retry \in Timers(RetryInterval)
    PROVE  Good(Failed(cs, retry), EmptySlot, NoSessions, FALSE)
  <1>1. /\ Failed(cs, retry) \in ControllerSlot
        /\ Failed(cs, retry).status = IF cs.present THEN "Failed" ELSE "Absent"
        /\ Failed(cs, retry).camStatus = "None"
        /\ Failed(cs, retry).present = cs.present
        /\ Failed(cs, retry).createSince = None
        /\ Failed(cs, retry).commandSince = None
        /\ Failed(cs, retry).nextPoll = None
        /\ ~Failed(cs, retry).receivePending
    BY ClearedSlot DEF Failed, ControllerSlot
  <1>2. PollsFirst(EmptySlot.queue) BY DEF EmptySlot, PollsFirst
  <1>3. CamStatus(Failed(cs, retry).status, NoSessions) = "None"
    BY <1>1, CamUnlessActive
  <1> QED BY <1>1, <1>2, <1>3, EmptyType, NoSessionsType
          DEF Good, Quiescent, Resting

\* A slot stays good while its own state is only timed or marked.
LEMMA RetimedGood ==
    ASSUME NEW cs, NEW t, NEW sess, NEW short, Good(cs, t, sess, short),
           NEW d \in ControllerSlot,
           d.status = cs.status, d.camStatus = cs.camStatus,
           d.present = cs.present,
           cs.status \in Resting =>
               /\ d.createSince = None /\ d.commandSince = None
               /\ d.nextPoll = None /\ ~d.receivePending
    PROVE  Good(d, t, sess, short)
  BY DEF Good, Quiescent

LEMMA MarkedGood ==
    ASSUME NEW cs, NEW t, NEW sess, NEW short, Good(cs, t, sess, short), NEW u
    PROVE  Good(Marked(cs, u), t, sess, short)
  <1>1. cs \in ControllerSlot BY DEF Good
  <1>2. cs.status \in Resting =>
            /\ Marked(cs, u).createSince = None
            /\ Marked(cs, u).commandSince = None
            /\ Marked(cs, u).nextPoll = None /\ ~Marked(cs, u).receivePending
    BY <1>1, MarkedSlot DEF Good, Quiescent
  <1> QED BY <1>1, <1>2, MarkedSlot, RetimedGood

\* On an active slot only the order of the queue, the CAM status and the
\* presence of the module matter.
LEMMA ActiveGood ==
    ASSUME NEW cs \in ControllerSlot, NEW t \in TransportType,
           NEW sess \in SessionsType, NEW short \in BOOLEAN,
           cs.status = "Active", cs.present, PollsFirst(t.queue),
           sess = NoSessions => cs.camStatus = "None",
           ~short => cs.camStatus = CamStatus("Active", sess)
    PROVE  Good(cs, t, sess, short)
  BY DEF Good, Resting

\* A flush, with SPDUs queued before it on an active slot and nothing on any
\* other, keeps a slot good.
LEMMA SentGood ==
    ASSUME NEW cs, NEW t, NEW sess, NEW short, Good(cs, t, sess, short),
           NEW frames \in Seq({"Spdu"}), frames = <<>> \/ cs.status = "Active",
           NEW out \in BOOLEAN
    PROVE  Good(cs, Sent(t, frames, out), sess, short)
  <1> DEFINE u == Sent(t, frames, out)
  <1> SUFFICES Good(cs, u, sess, short)
    OBVIOUS
  <1>1. /\ t \in TransportType /\ cs \in ControllerSlot /\ PollsFirst(t.queue)
        /\ frames \in Seq(Frames)
    BY DEF Good, Frames
  <1>2. u \in TransportType /\ PollsFirst(u.queue)
    BY <1>1, SentType, SentPolls
  <1>3. CASE cs.status = "Active"
    <2> HIDE DEF u
    <2> QED BY <1>2, <1>3 DEF Good, Resting
  <1>4. CASE cs.status \in Resting
    <2>1. frames = <<>> /\ t.queue = <<>>
      BY <1>4 DEF Good, Quiescent, EmptySlot, Resting
    <2>2. u = t BY <1>1, <2>1, SentNothing
    <2> QED BY <2>2
  <1>5. CASE cs.status = "CreatingTc"
    <2>1. frames = <<>> /\ t.queue \in {<<>>, <<"CreateTc">>}
      BY <1>5 DEF Good
    <2>2. u.queue \in {<<>>, <<"CreateTc">>}
      <3>1. t.queue \o frames = t.queue BY <2>1, <1>1
      <3>2. Tail(<<"CreateTc">>) = <<>> OBVIOUS
      <3> QED BY <1>1, <2>1, <3>1, <3>2, SentQueue
    <2> HIDE DEF u
    <2> QED BY <1>2, <1>5, <2>2 DEF Good, Resting
  <1> QED BY <1>1, <1>3, <1>4, <1>5 DEF ControllerSlot, Resting

-----------------------------------------------------------------------------
(* What arrives on a slot. *)
LEMMA SentUndisturbed ==
    ASSUME NEW t \in TransportType, NEW frames \in Seq(Frames), NEW out \in BOOLEAN
    PROVE  [Sent(t, frames, out) EXCEPT !.dataPending = FALSE]
               = Sent([t EXCEPT !.dataPending = FALSE], frames, out)
  BY DEF Sent, CanWrite, Written, TransportType

LEMMA HeardGood ==
    ASSUME NEW cs, NEW t, NEW sess, NEW short, Good(cs, t, sess, short),
           NEW u, u = Heard(t) \/ \E di \in BOOLEAN : u = HeardWell(t, di)
    PROVE  /\ u \in TransportType /\ u.queue = t.queue
           /\ Good(cs, [u EXCEPT !.dataPending = FALSE], sess, short)
  <1> DEFINE v == [u EXCEPT !.dataPending = FALSE]
  <1> SUFFICES u \in TransportType /\ u.queue = t.queue /\ Good(cs, v, sess, short)
    OBVIOUS
  <1>1. t \in TransportType BY DEF Good
  <1>2. u \in TransportType /\ u.queue = t.queue
    BY <1>1 DEF Heard, HeardWell, TransportType
  <1>3. v \in TransportType /\ v.queue = t.queue
    BY <1>1, <1>2 DEF TransportType
  <1>4. ASSUME t = EmptySlot PROVE v = EmptySlot
    <2>1. CASE u = Heard(t)
      BY <2>1, <1>4 DEF Heard, EmptySlot
    <2>2. CASE \E di \in BOOLEAN : u = HeardWell(t, di)
      <3>1. PICK di \in BOOLEAN : u = HeardWell(t, di) BY <2>2
      <3>2. u = [busy |-> FALSE, queue |-> <<>>, rx |-> <<>>, dataPending |-> di]
        BY <3>1, <1>4 DEF Heard, HeardWell, EmptySlot
      <3>3. /\ v.busy = FALSE /\ v.queue = <<>> /\ v.rx = <<>>
            /\ v.dataPending = FALSE
        BY <3>2
      <3>4. EmptySlot \in TransportType /\ EmptySlot.busy = FALSE
              /\ EmptySlot.queue = <<>> /\ EmptySlot.rx = <<>>
              /\ EmptySlot.dataPending = FALSE
        BY EmptyType DEF EmptySlot
      <3> HIDE DEF v
      <3> QED BY <1>3, <3>3, <3>4 DEF TransportType
    <2> QED BY <2>1, <2>2
  <1> HIDE DEF v
  <1> QED BY <1>2, <1>3, <1>4 DEF Good, Quiescent

LEMMA QuietGood ==
    ASSUME NEW cs, NEW t, NEW sess, NEW short, Good(cs, t, sess, short)
    PROVE  Good(Quiet(cs), t, sess, short)
  <1>1. cs \in ControllerSlot BY DEF Good
  <1>2. cs.status \in Resting =>
            /\ Quiet(cs).createSince = None /\ Quiet(cs).commandSince = None
            /\ Quiet(cs).nextPoll = None /\ ~Quiet(cs).receivePending
    BY <1>1, QuietSlot DEF Good, Quiescent
  <1> QED BY <1>1, <1>2, QuietSlot, RetimedGood

\* The answer to CREATE_TC.
LEMMA ConnectedGood ==
    ASSUME NEW cs, NEW t, NEW sess, NEW short, Good(cs, t, sess, short)
    PROVE  Good(Connected(cs), t, sess, short)
  <1>1. CASE cs.status = "CreatingTc"
    <2>1. /\ cs \in ControllerSlot /\ t \in TransportType /\ sess = NoSessions
          /\ sess \in SessionsType /\ short \in BOOLEAN
          /\ cs.present /\ cs.camStatus = "None" /\ PollsFirst(t.queue)
      BY <1>1 DEF Good, ControllerSlot
    <2>2. /\ Connected(cs) \in ControllerSlot
          /\ Connected(cs).status = "Active" /\ Connected(cs).present
          /\ Connected(cs).camStatus = "None"
      BY <2>1, <1>1 DEF Connected, ControllerSlot, Timers
    <2>3. CamStatus("Active", sess) = "None"
      BY <2>1 DEF CamStatus, NoSessions
    <2> QED BY <2>1, <2>2, <2>3, ActiveGood
  <1>2. CASE cs.status # "CreatingTc"
    BY <1>2 DEF Connected
  <1> QED BY <1>1, <1>2

-----------------------------------------------------------------------------
(* From slots to states. *)
LEMMA OneSlot ==
    ASSUME IInv, NEW s \in Slots, NEW c, NEW t, NEW sess, NEW short,
           Good(c, t, sess, short),
           slots' = [slots EXCEPT ![s] = c],
           transport' = [transport EXCEPT ![s] = t],
           sessions' = [sessions EXCEPT ![s] = sess],
           swallowed' = [swallowed EXCEPT ![s] = short]
    PROVE  SlotTypes' /\ Slotwise'
  <1>1. SlotTypes'
    BY DEF IInv, SlotTypes, Good
  <1>2. ASSUME NEW r \in Slots
        PROVE  Good(slots'[r], transport'[r], sessions'[r], swallowed'[r])
    <2>1. CASE r = s BY <2>1 DEF IInv, SlotTypes
    <2>2. CASE r # s
      <3>1. /\ slots'[r] = slots[r] /\ transport'[r] = transport[r]
            /\ sessions'[r] = sessions[r] /\ swallowed'[r] = swallowed[r]
        BY <2>2 DEF IInv, SlotTypes
      <3> QED BY <3>1 DEF IInv, Slotwise
    <2> QED BY <2>1, <2>2
  <1> QED BY <1>1, <1>2 DEF Slotwise

LEMMA RecoverIInv ==
    ASSUME IInv, Recover
    PROVE  IInv'
  <1>1. PICK ok \in BOOLEAN :
          /\ DropAll
          /\ slots' = [s \in Slots |->
                Failed(slots[s], IF ok THEN RetryInterval ELSE None)]
          /\ suspended' = TRUE
          /\ recoveryAt' = IF ok THEN RetryInterval ELSE None
          /\ nextCheck' = IF ok THEN RetryInterval ELSE None
          /\ resetFailed' = ~ok
          /\ ticked' = TRUE
          /\ pc' = "Idle"
          /\ UNCHANGED <<at>>
    BY DEF Recover
  <1> DEFINE retry == IF ok THEN RetryInterval ELSE None
  <1>2. retry \in Timers(RetryInterval) /\ retry \in Nat \cup {None}
        /\ (retry = None <=> ~ok)
    BY Config DEF Timers
  <1>3. ASSUME NEW s \in Slots
        PROVE  /\ slots'[s] = Failed(slots[s], retry)
               /\ transport'[s] = EmptySlot /\ sessions'[s] = NoSessions
               /\ swallowed'[s] = FALSE
               /\ slots[s] \in ControllerSlot
    BY <1>1 DEF DropAll, IInv, SlotTypes
  <1>4. Slotwise'
    <2> HIDE DEF retry
    <2> QED BY <1>2, <1>3, FailedGood DEF Slotwise
  <1>5. SlotTypes'
    <2>1. \A s \in Slots : slots'[s] \in ControllerSlot
      BY <1>4 DEF Slotwise, Good
    <2>2. slots' = [s \in Slots |-> slots'[s]] BY <1>1
    <2> QED BY <1>1, <2>1, <2>2, EmptyType, NoSessionsType DEF DropAll, SlotTypes
  <1>6. GlobalTypes'
    BY <1>1, <1>2 DEF DropAll, IInv, GlobalTypes, Gates
  <1>7. SuspendedIsReset'
    <2>1. ASSUME NEW s \in Slots
          PROVE  slots'[s].status \notin {"CreatingTc", "Active"}
      BY <1>3 DEF Failed, ClearTimers, ControllerSlot
    <2> QED BY <1>1, <1>2, <2>1 DEF DropAll, SuspendedIsReset
  <1>8. StopsSuspended'
    BY <1>1 DEF StopsSuspended
  <1> QED BY <1>4, <1>5, <1>6, <1>7, <1>8 DEF IInv

\* An action that leaves the link running.
LEMMA Running ==
    ASSUME IInv, SlotTypes', Slotwise', gate' \in Gates,
           ~suspended, UNCHANGED <<linkVars>>,
           pc' \in {"Idle", "Refresh", "Resources", "Drive", "Dispatch"},
           at' \in Slots
    PROVE  IInv'
  BY DEF IInv, GlobalTypes, linkVars, SuspendedIsReset, StopsSuspended

-----------------------------------------------------------------------------
(* poll_event() *)
LEMMA SettleIInv ==
    ASSUME IInv, Reading, NEW s \in Slots, NEW cs, NEW t \in TransportType,
           NEW sess, NEW g \in Gates, NEW short,
           Good(cs, [t EXCEPT !.dataPending = FALSE], sess, short),
           Settle(s, cs, t, sess, g, short)
    PROVE  IInv'
  <1> DEFINE asked == [cs EXCEPT !.receivePending =
                           @ \/ (t.dataPending /\ cs.status = "Active")]
             heard == [t EXCEPT !.dataPending = FALSE]
             rcv == CanAsk(asked, heard)
             u(out) == IF rcv THEN Sent(heard, <<"Rcv">>, out) ELSE heard
             c == IF rcv THEN [asked EXCEPT !.receivePending = FALSE] ELSE asked
  <1>1. CASE Recover BY <1>1, RecoverIInv
  <1>2. CASE ~Recover
    <2>1. PICK out \in BOOLEAN :
             /\ slots' = [slots EXCEPT ![s] = Marked(c, u(out))]
             /\ transport' = [transport EXCEPT ![s] = u(out)]
      BY <1>2 DEF Settle
    <2>2. /\ sessions' = [sessions EXCEPT ![s] = sess]
          /\ gate' = g
          /\ swallowed' = [swallowed EXCEPT ![s] = short]
          /\ UNCHANGED <<linkVars, pc, at>>
      BY <1>2 DEF Settle
    <2>3. /\ cs \in ControllerSlot /\ t.dataPending \in BOOLEAN
          /\ heard \in TransportType
      BY DEF Good, TransportType
    <2>4. /\ asked \in ControllerSlot /\ asked.status = cs.status
          /\ asked.camStatus = cs.camStatus /\ asked.present = cs.present
          /\ asked.createSince = cs.createSince
          /\ asked.commandSince = cs.commandSince
          /\ asked.nextPoll = cs.nextPoll
          /\ cs.status \in Resting => asked.receivePending = cs.receivePending
      BY <2>3 DEF ControllerSlot, Resting
    <2>5. Good(asked, heard, sess, short)
      <3>1. cs.status \in Resting =>
               /\ asked.createSince = None /\ asked.commandSince = None
               /\ asked.nextPoll = None /\ ~asked.receivePending
        BY <2>4 DEF Good, Quiescent
      <3> HIDE DEF asked, heard
      <3> QED BY <2>4, <3>1, RetimedGood DEF heard
    <2>6. Good(c, u(out), sess, short)
      <3>1. CASE rcv
        <4> DEFINE w == Sent(heard, <<"Rcv">>, out)
        <4>1. asked.status = "Active" /\ heard.queue = <<>>
          BY <3>1 DEF CanAsk
        <4>2. <<"Rcv">> \in Seq(Frames) /\ Len(<<"Rcv">>) = 1 BY DEF Frames
        <4>3. PollsFirst(heard.queue) BY <4>1 DEF PollsFirst
        <4>4. w \in TransportType /\ PollsFirst(w.queue)
          <5> HIDE DEF heard
          <5>1. w \in TransportType BY <2>3, <4>2, SentType
          <5>2. Len(<<"Rcv">>) <= 1 BY <4>2
          <5>3. PollsFirst(Sent(heard, <<"Rcv">>, out).queue)
            BY <2>3, <4>1, <4>2, <4>3, <5>2, SentPolls
          <5> QED BY <5>1, <5>3
        <4>5. /\ c \in ControllerSlot /\ c.status = "Active"
              /\ c.present = asked.present /\ c.camStatus = asked.camStatus
          <5> HIDE DEF asked
          <5> QED BY <2>4, <3>1, <4>1 DEF ControllerSlot
        <4>6. Good(c, w, sess, short)
          <5> HIDE DEF asked, heard, w, c
          <5> QED BY <2>5, <4>1, <4>4, <4>5, ActiveGood DEF Good
        <4> QED BY <4>6, <3>1
      <3>2. CASE ~rcv
        <4> HIDE DEF asked, heard
        <4> QED BY <2>5, <3>2
      <3> QED BY <3>1, <3>2
    <2>7. Good(Marked(c, u(out)), u(out), sess, short)
      <3> HIDE DEF c, u
      <3> QED BY <2>6, MarkedGood
    <2>8. SlotTypes' /\ Slotwise'
      <3> HIDE DEF c, u
      <3> QED BY <2>1, <2>2, <2>7, OneSlot
    <2> QED BY <2>2, <2>8, Running DEF Reading, IInv, GlobalTypes
  <1> QED BY <1>1, <1>2

LEMMA ReadPlainIInv ==
    ASSUME IInv, Reading, NEW s \in Slots, NEW cs, NEW t \in TransportType,
           Good(cs, [t EXCEPT !.dataPending = FALSE], sessions[s], swallowed[s]),
           ReadPlain(s, cs, t)
    PROVE  IInv'
  <1>1. CASE Recover BY <1>1, RecoverIInv
  <1>2. CASE ~Recover
    <2>1. PICK out \in BOOLEAN :
             Settle(s, cs, Sent(t, <<>>, out), sessions[s], gate, swallowed[s])
      BY <1>2 DEF ReadPlain
    <2>2. <<>> \in Seq(Frames) /\ <<>> \in Seq({"Spdu"}) OBVIOUS
    <2>3. Sent(t, <<>>, out) \in TransportType BY <2>2, SentType
    <2>4. Good(cs, Sent([t EXCEPT !.dataPending = FALSE], <<>>, out),
               sessions[s], swallowed[s])
      BY <2>2, SentGood
    <2>5. gate \in Gates BY DEF IInv, GlobalTypes
    <2>6. Good(cs, [Sent(t, <<>>, out) EXCEPT !.dataPending = FALSE],
               sessions[s], swallowed[s])
      BY <2>2, <2>4, SentUndisturbed
    <2> QED BY <2>1, <2>3, <2>5, <2>6, SettleIInv
  <1> QED BY <1>1, <1>2

LEMMA HeardReadIInv ==
    ASSUME IInv, Reading, NEW s \in Slots, NEW cs, NEW u,
           Good(cs, transport[s], sessions[s], swallowed[s]),
           u = Heard(transport[s]) \/ \E di \in BOOLEAN : u = HeardWell(transport[s], di),
           ReadPlain(s, cs, u)
    PROVE  IInv'
  <1>1. /\ u \in TransportType
        /\ Good(cs, [u EXCEPT !.dataPending = FALSE], sessions[s], swallowed[s])
    BY HeardGood
  <1> QED BY <1>1, ReadPlainIInv

LEMMA ReadStatusIInv ==
    ASSUME IInv, NEW s \in Slots, ReadStatus(s) \/ ReadCtcReply(s)
    PROVE  IInv'
  <1>1. Good(Quiet(slots[s]), transport[s], sessions[s], swallowed[s])
    BY QuietGood DEF IInv, Slotwise
  <1>2. Good(Connected(Quiet(slots[s])), transport[s], sessions[s], swallowed[s])
    BY <1>1, ConnectedGood
  <1>3. ASSUME ReadPlain(s, Quiet(slots[s]), Heard(transport[s])) PROVE Reading => IInv'
    BY <1>1, <1>3, HeardReadIInv
  <1>4. ASSUME NEW di \in BOOLEAN,
               \/ ReadPlain(s, Quiet(slots[s]), HeardWell(transport[s], di))
               \/ ReadPlain(s, Connected(Quiet(slots[s])), HeardWell(transport[s], di))
        PROVE  Reading => IInv'
    BY <1>1, <1>2, <1>4, HeardReadIInv
  <1> QED BY <1>3, <1>4 DEF ReadStatus, ReadCtcReply

LEMMA ReadErrorIInv == ASSUME IInv, ReadError PROVE IInv'
  <1>1. CASE Recover BY <1>1, RecoverIInv
  <1>2. CASE ~Recover
    <2>1. /\ ~suspended /\ deferred' = TRUE
          /\ UNCHANGED <<slots, transport, sessions, gate, ticked, suspended,
                         recoveryAt, nextCheck, resetFailed, pc, at,
                         swallowed>>
      BY <1>2 DEF ReadError, Reading
    <2> QED BY <2>1 DEF IInv, SlotTypes, GlobalTypes, Slotwise, SuspendedIsReset,
                        StopsSuspended
  <1> QED BY <1>1, <1>2

\* An SPDU of an active slot, with the answers `frames`.
LEMMA ShortenedGood ==
    ASSUME NEW cs, NEW t, NEW sess, NEW short, Good(cs, t, sess, short),
           cs.status = "Active",
           NEW frames \in Seq({"Spdu"}), NEW i \in 1 .. Len(frames)
    PROVE  /\ Shortened(t, frames, i) \in TransportType
           /\ PollsFirst(Shortened(t, frames, i).queue)
           /\ Shortened(t, frames, i).dataPending = t.dataPending
  <1> DEFINE r == SubSeq(frames, 1, i)
             q == t.queue \o r
  <1>1. t \in TransportType /\ t.queue \in Seq(Frames) /\ PollsFirst(t.queue)
    BY DEF Good, TransportType
  <1>2. r \in Seq({"Spdu"}) /\ Len(r) = i OBVIOUS
  <1>3. r \in Seq(Frames) BY <1>2 DEF Frames
  <1>4. q \in Seq(Frames) /\ q # <<>>
    <2> HIDE DEF r
    <2> QED BY <1>1, <1>2, <1>3
  <1>5. PollsFirst(q)
    <2> HIDE DEF r
    <2> QED BY <1>1, <1>2, PollsAppended
  <1>6. Tail(q) \in Seq(Frames) /\ PollsFirst(Tail(q))
    <2> HIDE DEF q
    <2> QED BY <1>4, <1>5, PollsTail
  <1>7. Shortened(t, frames, i) = [t EXCEPT !.queue = Tail(q)]
    BY <1>1 DEF Shortened, WriteFailed, TransportType
  <1> HIDE DEF q
  <1> QED BY <1>1, <1>6, <1>7 DEF TransportType

LEMMA DispatchedIInv ==
    ASSUME IInv, NEW s \in Slots, Reading, slots[s].status = "Active",
           NEW sess \in SessionsType, NEW g \in Gates,
           NEW cam \in {"None", "ApplicationInfo", "CaInfo", "Ready"},
           NEW frames \in Seq({"Spdu"}), NEW callback \in Nat \ {0},
           sess = NoSessions => cam = "None",
           ~swallowed[s] => cam = CamStatus("Active", sess),
           callback <= Len(frames) /\ sess = NoSessions =>
               slots[s].camStatus = "None",
           Dispatched(s, sess, cam, g, frames, callback)
    PROVE  IInv'
  <1> DEFINE cs == Quiet(slots[s])
             told == [cs EXCEPT !.camStatus = cam]
  <1>1. CASE Recover BY <1>1, RecoverIInv
  <1>2. CASE ~Recover
    <2>1. PICK di \in BOOLEAN :
             LET heard == HeardWell(transport[s], di)
             IN \/ \E out \in BOOLEAN :
                      Settle(s, told, Sent(heard, frames, out), sess, g, swallowed[s])
                \/ \E out \in BOOLEAN, i \in callback .. Len(frames) :
                      Settle(s, cs, Sent(Shortened(heard, frames, i), <<>>, out),
                             sess, gate, TRUE)
      BY <1>2 DEF Dispatched
    <2> DEFINE heard == HeardWell(transport[s], di)
               calm == [heard EXCEPT !.dataPending = FALSE]
    <2>2. Good(cs, transport[s], sessions[s], swallowed[s])
      BY QuietGood DEF IInv, Slotwise
    <2>3. heard \in TransportType
            /\ Good(cs, calm, sessions[s], swallowed[s])
      BY <2>2, HeardGood
    <2>4. /\ cs \in ControllerSlot /\ cs.status = "Active" /\ cs.present
          /\ cs.camStatus = slots[s].camStatus
      <3>1. slots[s] \in ControllerSlot BY DEF IInv, SlotTypes
      <3>2. slots[s].present BY DEF IInv, Slotwise, Good
      <3> QED BY <3>1, <3>2, QuietSlot
    <2>5. /\ calm \in TransportType /\ PollsFirst(calm.queue)
          /\ swallowed[s] \in BOOLEAN
      <3> HIDE DEF calm
      <3> QED BY <2>3 DEF Good
    <2>6. /\ told \in ControllerSlot /\ told.status = "Active" /\ told.present
          /\ told.camStatus = cam
      <3> HIDE DEF cs
      <3> QED BY <2>4 DEF ControllerSlot
    <2>7. frames \in Seq(Frames) /\ <<>> \in Seq(Frames) /\ <<>> \in Seq({"Spdu"})
      BY DEF Frames
    <2>8. gate \in Gates BY DEF IInv, GlobalTypes
    <2>9. ASSUME NEW out \in BOOLEAN,
                 Settle(s, told, Sent(heard, frames, out), sess, g, swallowed[s])
          PROVE  IInv'
      <3>1. Good(told, calm, sess, swallowed[s])
        <4> HIDE DEF told, calm
        <4> QED BY <2>5, <2>6, ActiveGood
      <3>2. Good(told, Sent(calm, frames, out), sess, swallowed[s])
        <4> HIDE DEF told, calm
        <4> QED BY <3>1, <2>6, SentGood
      <3>3. [Sent(heard, frames, out) EXCEPT !.dataPending = FALSE]
                = Sent(calm, frames, out)
        <4> HIDE DEF heard
        <4> QED BY <2>3, <2>7, SentUndisturbed
      <3>4. Sent(heard, frames, out) \in TransportType
        <4> HIDE DEF heard
        <4> QED BY <2>3, <2>7, SentType
      <3>5. Good(told, [Sent(heard, frames, out) EXCEPT !.dataPending = FALSE],
                 sess, swallowed[s])
        <4> HIDE DEF told, calm, heard
        <4> QED BY <3>2, <3>3
      <3> HIDE DEF told, calm, heard
      <3> QED BY <2>9, <3>4, <3>5, SettleIInv
    <2>10. ASSUME NEW out \in BOOLEAN, NEW i \in callback .. Len(frames),
                  Settle(s, cs, Sent(Shortened(heard, frames, i), <<>>, out),
                         sess, gate, TRUE)
           PROVE  IInv'
      <3> DEFINE sh == Shortened(heard, frames, i)
                 quietSh == [sh EXCEPT !.dataPending = FALSE]
      <3>1. i \in 1 .. Len(frames) OBVIOUS
      <3>2. Good(cs, heard, sessions[s], swallowed[s])
        <4>1. /\ PollsFirst(heard.queue) /\ cs.status \notin Resting
              /\ cs.status # "CreatingTc"
          <5>1. heard.queue = transport[s].queue BY <2>2, HeardGood
          <5> HIDE DEF heard, cs
          <5> QED BY <5>1, <2>2, <2>4 DEF Good, Resting
        <4> HIDE DEF heard, cs
        <4> QED BY <2>2, <2>3, <4>1 DEF Good
      <3>3. sh \in TransportType /\ PollsFirst(sh.queue)
        <4> HIDE DEF heard, cs
        <4> QED BY <3>1, <3>2, <2>4, ShortenedGood
      <3>4. quietSh \in TransportType /\ PollsFirst(quietSh.queue)
        <4> HIDE DEF sh
        <4> QED BY <3>3 DEF TransportType
      <3>5. Good(cs, quietSh, sess, TRUE)
        <4>1. sess = NoSessions => cs.camStatus = "None"
          <5> HIDE DEF cs
          <5> QED BY <3>1, <2>4
        <4> HIDE DEF quietSh, cs
        <4> QED BY <3>4, <4>1, <2>4, ActiveGood
      <3>6. Good(cs, Sent(quietSh, <<>>, out), sess, TRUE)
        <4> HIDE DEF quietSh, cs
        <4> QED BY <3>5, <2>7, SentGood
      <3>7. [Sent(sh, <<>>, out) EXCEPT !.dataPending = FALSE]
                = Sent(quietSh, <<>>, out)
        <4> HIDE DEF sh
        <4> QED BY <3>3, <2>7, SentUndisturbed
      <3>8. Sent(sh, <<>>, out) \in TransportType
        <4> HIDE DEF sh
        <4> QED BY <3>3, <2>7, SentType
      <3>9. Good(cs, [Sent(sh, <<>>, out) EXCEPT !.dataPending = FALSE], sess, TRUE)
        <4> HIDE DEF sh, quietSh, cs
        <4> QED BY <3>6, <3>7
      <3> HIDE DEF cs
      <3> QED BY <2>8, <2>10, <3>8, <3>9, SettleIInv
    <2> HIDE DEF cs, told
    <2> QED BY <2>1, <2>9, <2>10
  <1> QED BY <1>1, <1>2

\* What is known of an active slot when one of its SPDUs is dispatched.
LEMMA Dispatching ==
    ASSUME IInv, NEW s \in Slots, Dispatches(s)
    PROVE  /\ Reading /\ slots[s].status = "Active"
           /\ sessions[s] \in SessionsType /\ gate \in Gates
           /\ slots[s].camStatus \in {"None", "ApplicationInfo", "CaInfo", "Ready"}
           /\ sessions[s] = NoSessions => slots[s].camStatus = "None"
           /\ ~swallowed[s] => slots[s].camStatus = CamStatus("Active", sessions[s])
  BY DEF Dispatches, IInv, SlotTypes, GlobalTypes, Slotwise, Good, ControllerSlot

LEMMA SpdusType ==
    ASSUME NEW n \in Nat
    PROVE  Spdus(n) \in Seq({"Spdu"}) /\ Len(Spdus(n)) = n
  BY DEF Spdus

LEMMA CamType ==
    ASSUME NEW sess
    PROVE  /\ CamStatus("Active", sess) \in
                  {"None", "ApplicationInfo", "CaInfo", "Ready"}
           /\ CamStatus("Active", NoSessions) = "None"
  BY DEF CamStatus, NoSessions

LEMMA SpduIInv ==
    ASSUME IInv, NEW s \in Slots,
           \/ \E r \in Kinds : OpenSession(s, r) \/ CloseSession(s, r)
           \/ ApplicationInfo(s) \/ CaInfo(s) \/ OtherObject(s)
    PROVE  IInv'
  <1>1. ASSUME NEW r \in Kinds, OpenSession(s, r) PROVE IInv'
    <2> DEFINE sess == With(s, r, IF sessions[s][r] = "Closed" THEN "Open"
                                  ELSE sessions[s][r])
    <2>1. Dispatches(s)
            /\ Dispatched(s, sess, slots[s].camStatus, gate, Spdus(2), 2)
      BY <1>1 DEF OpenSession
    <2>2. r = "ai" \/ r = "ca" BY ConfigAssumption
    <2>3. sess \in SessionsType /\ sess # NoSessions
            /\ CamStatus("Active", sess) = CamStatus("Active", sessions[s])
      <3>1. sessions[s] \in SessionsType BY <2>1, Dispatching
      <3>2. CASE r = "ai"
        BY <3>1, <3>2 DEF With, SessionsType, SessionStates, NoSessions, CamStatus
      <3>3. CASE r = "ca"
        BY <3>1, <3>3 DEF With, SessionsType, SessionStates, NoSessions, CamStatus
      <3> QED BY <2>2, <3>2, <3>3
    <2> HIDE DEF sess
    <2> QED BY <2>1, <2>3, Dispatching, SpdusType, DispatchedIInv
  <1>2. ASSUME NEW r \in Kinds, CloseSession(s, r) PROVE IInv'
    <2> DEFINE sess == With(s, r, "Closed")
    <2>1. Dispatches(s)
            /\ Dispatched(s, sess, CamStatus("Active", sess), gate, Spdus(1), 2)
      BY <1>2 DEF CloseSession
    <2>2. r = "ai" \/ r = "ca" BY ConfigAssumption
    <2>3. sess \in SessionsType
      <3>1. sessions[s] \in SessionsType BY <2>1, Dispatching
      <3> QED BY <3>1, <2>2 DEF With, SessionsType, SessionStates
    <2> HIDE DEF sess
    <2>4. Len(Spdus(1)) = 1 /\ Spdus(1) \in Seq({"Spdu"}) BY SpdusType
    <2>5. /\ sess = NoSessions => CamStatus("Active", sess) = "None"
          /\ CamStatus("Active", sess) \in
                 {"None", "ApplicationInfo", "CaInfo", "Ready"}
      BY CamType
    <2>6. 2 \in Nat \ {0} /\ ~(2 <= Len(Spdus(1))) BY <2>4
    <2>7. Reading /\ slots[s].status = "Active" /\ gate \in Gates
      BY <2>1, Dispatching
    <2> QED BY <2>1, <2>3, <2>4, <2>5, <2>6, <2>7, DispatchedIInv
  <1>3. ASSUME ApplicationInfo(s) PROVE IInv'
    <2> DEFINE sess == With(s, "ai", "Confirmed")
    <2>1. Dispatches(s)
            /\ Dispatched(s, sess, CamStatus("Active", sess), "Armed", <<>>, 1)
      BY <1>3 DEF ApplicationInfo
    <2>2. sess \in SessionsType /\ sess # NoSessions
      <3>1. sessions[s] \in SessionsType BY <2>1, Dispatching
      <3> QED BY <3>1 DEF With, SessionsType, SessionStates, NoSessions
    <2>3. <<>> \in Seq({"Spdu"}) /\ "Armed" \in Gates BY DEF Gates
    <2> HIDE DEF sess
    <2>4. CamStatus("Active", sess) \in
                 {"None", "ApplicationInfo", "CaInfo", "Ready"}
      BY CamType
    <2>5. 1 \in Nat \ {0} OBVIOUS
    <2>6. Reading /\ slots[s].status = "Active" BY <2>1, Dispatching
    <2> QED BY <2>1, <2>2, <2>3, <2>4, <2>5, <2>6, DispatchedIInv
  <1>4. ASSUME CaInfo(s) PROVE IInv'
    <2> DEFINE sess == With(s, "ca", "Confirmed")
    <2>1. Dispatches(s) BY <1>4 DEF CaInfo
    <2>2. PICK n \in 0 .. MaxRestore, g \in {"Armed", gate} :
             Dispatched(s, sess, CamStatus("Active", sess), g, Spdus(n), 1)
      BY <1>4 DEF CaInfo
    <2>3. sess \in SessionsType /\ sess # NoSessions
      <3>1. sessions[s] \in SessionsType BY <2>1, Dispatching
      <3> QED BY <3>1 DEF With, SessionsType, SessionStates, NoSessions
    <2>4. Spdus(n) \in Seq({"Spdu"}) BY SpdusType
    <2>5. g \in Gates BY <2>1, Dispatching DEF Gates
    <2> HIDE DEF sess
    <2> QED BY <2>1, <2>2, <2>3, <2>4, <2>5, Dispatching, CamType, DispatchedIInv
  <1>5. ASSUME OtherObject(s) PROVE IInv'
    <2>1. Dispatches(s) BY <1>5 DEF OtherObject
    <2>2. PICK n \in 0 .. 1 :
             Dispatched(s, sessions[s], slots[s].camStatus, gate, Spdus(n), 1)
      BY <1>5 DEF OtherObject
    <2>3. Spdus(n) \in Seq({"Spdu"}) BY SpdusType
    <2> QED BY <2>1, <2>2, <2>3, Dispatching, DispatchedIInv
  <1> QED BY <1>1, <1>2, <1>3, <1>4, <1>5

LEMMA UserCommandIInv ==
    ASSUME IInv, NEW s \in Slots, UserCommand(s)
    PROVE  IInv'
  <1>1. CASE Recover BY <1>1, RecoverIInv
  <1>2. CASE ~Recover
    <2>1. PICK out \in BOOLEAN :
             LET t == Sent(transport[s], <<"Spdu">>, out)
             IN /\ transport' = [transport EXCEPT ![s] = t]
                /\ slots' = [slots EXCEPT ![s] = Marked(@, t)]
                /\ UNCHANGED <<sessions, gate, linkVars, pc, at,
                               swallowed>>
      BY <1>2 DEF UserCommand
    <2> DEFINE t == Sent(transport[s], <<"Spdu">>, out)
    <2>2. <<"Spdu">> \in Seq({"Spdu"}) /\ slots[s].status = "Active"
      BY DEF UserCommand
    <2>3. Good(slots[s], transport[s], sessions[s], swallowed[s])
      BY DEF IInv, Slotwise
    <2>4. Good(Marked(slots[s], t), t, sessions[s], swallowed[s])
      <3>1. Good(slots[s], t, sessions[s], swallowed[s]) BY <2>2, <2>3, SentGood
      <3> HIDE DEF t
      <3> QED BY <3>1, MarkedGood
    <2>5. /\ slots' = [slots EXCEPT ![s] = Marked(slots[s], t)]
          /\ transport' = [transport EXCEPT ![s] = t]
          /\ sessions' = [sessions EXCEPT ![s] = sessions[s]]
          /\ swallowed' = [swallowed EXCEPT ![s] = swallowed[s]]
      <3> HIDE DEF t
      <3> QED BY <2>1 DEF t, IInv, SlotTypes
    <2>6. SlotTypes' /\ Slotwise'
      <3> HIDE DEF t
      <3> QED BY <2>4, <2>5, OneSlot
    <2>7. ~suspended
      BY <2>2 DEF IInv, SuspendedIsReset
    <2> QED BY <2>1, <2>6, <2>7, Running DEF IInv, GlobalTypes
  <1> QED BY <1>1, <1>2

-----------------------------------------------------------------------------
(* tick() *)
LEMMA OlderType ==
    ASSUME NEW limit \in Nat, NEW age \in Timers(limit), NEW d \in Nat
    PROVE  /\ Older(age, d, limit) \in Timers(limit)
           /\ age = None => Older(age, d, limit) = None
  BY Config DEF Older, Timers

LEMMA SoonerType ==
    ASSUME NEW limit \in Nat, NEW left \in Timers(limit), NEW d \in Nat
    PROVE  /\ Sooner(left, d) \in Timers(limit)
           /\ Sooner(left, d) = None <=> left = None
  BY Config DEF Sooner, Timers

LEMMA LaterSlot ==
    ASSUME NEW cs \in ControllerSlot, NEW d \in Nat
    PROVE  /\ Later(cs, d) \in ControllerSlot
           /\ Later(cs, d).status = cs.status
           /\ Later(cs, d).camStatus = cs.camStatus
           /\ Later(cs, d).present = cs.present
           /\ Later(cs, d).receivePending = cs.receivePending
           /\ cs.createSince = None => Later(cs, d).createSince = None
           /\ cs.commandSince = None => Later(cs, d).commandSince = None
           /\ cs.nextPoll = None => Later(cs, d).nextPoll = None
  <1>1. /\ cs.createSince \in Timers(CreateTimeout)
        /\ cs.commandSince \in Timers(ResponseTimeout)
        /\ cs.nextPoll \in Timers(PollInterval)
        /\ cs.retryAt \in Timers(RetryInterval)
    BY DEF ControllerSlot
  <1>2. /\ Older(cs.createSince, d, CreateTimeout) \in Timers(CreateTimeout)
        /\ Older(cs.commandSince, d, ResponseTimeout) \in Timers(ResponseTimeout)
        /\ Sooner(cs.nextPoll, d) \in Timers(PollInterval)
        /\ Sooner(cs.retryAt, d) \in Timers(RetryInterval)
        /\ cs.createSince = None => Older(cs.createSince, d, CreateTimeout) = None
        /\ cs.commandSince = None => Older(cs.commandSince, d, ResponseTimeout) = None
        /\ cs.nextPoll = None => Sooner(cs.nextPoll, d) = None
    BY <1>1, Config, OlderType, SoonerType
  <1> QED BY <1>2 DEF Later, ControllerSlot

LEMMA TickIInv ==
    ASSUME IInv, NEW d \in 0 .. MaxStep, Tick(d)
    PROVE  IInv'
  <1>1. /\ pc = "Idle" /\ ticked' = TRUE
        /\ slots' = [s \in Slots |-> Later(slots[s], d)]
        /\ nextCheck' = Sooner(nextCheck, d)
        /\ UNCHANGED <<transport, sessions, gate, deferred, at, resetFailed, swallowed>>
        /\ \/ /\ recoveryAt' = Sooner(recoveryAt, d)
              /\ UNCHANGED <<suspended, pc>>
           \/ /\ recoveryAt' = None /\ suspended' = FALSE
              /\ pc' \in {"Refresh", "Resources"}
    BY DEF Tick
  <1>2. ASSUME NEW s \in Slots
        PROVE  /\ Good(slots'[s], transport[s], sessions[s], swallowed[s])
               /\ slots'[s] \in ControllerSlot
               /\ slots'[s].status = slots[s].status
    <2>1. slots[s] \in ControllerSlot /\ slots'[s] = Later(slots[s], d)
      BY <1>1 DEF IInv, SlotTypes
    <2>2. Good(slots[s], transport[s], sessions[s], swallowed[s])
      BY DEF IInv, Slotwise
    <2>3. d \in Nat BY Config
    <2>4. slots[s].status \in Resting =>
             /\ Later(slots[s], d).createSince = None
             /\ Later(slots[s], d).commandSince = None
             /\ Later(slots[s], d).nextPoll = None
             /\ ~Later(slots[s], d).receivePending
      BY <2>1, <2>2, <2>3, LaterSlot DEF Good, Quiescent
    <2> QED BY <2>1, <2>2, <2>3, <2>4, LaterSlot, RetimedGood
  <1>3. SlotTypes'
    <2>1. slots' = [s \in Slots |-> slots'[s]] BY <1>1
    <2> QED BY <1>1, <1>2, <2>1 DEF IInv, SlotTypes
  <1>4. Slotwise' BY <1>1, <1>2 DEF Slotwise
  <1>5. /\ Sooner(recoveryAt, d) \in Timers(RetryInterval)
        /\ Sooner(recoveryAt, d) = None <=> recoveryAt = None
    BY Config, SoonerType DEF IInv, GlobalTypes
  <1>6. Sooner(nextCheck, d) \in Nat \cup {None}
    BY Config DEF IInv, GlobalTypes, Sooner
  <1>7. None \in Timers(RetryInterval) BY DEF Timers
  <1>8. GlobalTypes'
    BY <1>1, <1>5, <1>6, <1>7 DEF IInv, GlobalTypes
  <1>9. SuspendedIsReset' /\ StopsSuspended'
    BY <1>1, <1>2, <1>5 DEF IInv, SuspendedIsReset, StopsSuspended
  <1> QED BY <1>3, <1>4, <1>8, <1>9 DEF IInv

\* While tick() is under way the link is not suspended.
LEMMA UnderWay == ASSUME IInv, pc # "Idle" PROVE ~suspended
  BY DEF IInv, StopsSuspended

LEMMA AppliedGood ==
    ASSUME NEW cs, NEW t, NEW sess, NEW short, Good(cs, t, sess, short),
           NEW i \in [present : BOOLEAN, ready : BOOLEAN, link : BOOLEAN]
    PROVE  Good(Applied(cs, i), IF Disconnects(cs, i) THEN EmptySlot ELSE t,
                IF Disconnects(cs, i) THEN NoSessions ELSE sess,
                ~Disconnects(cs, i) /\ short)
  <1>1. /\ cs \in ControllerSlot /\ t \in TransportType /\ sess \in SessionsType
        /\ short \in BOOLEAN
    BY DEF Good
  <1>2. Inserted(i) \in BOOLEAN /\ i.ready \in BOOLEAN BY DEF Inserted
  <1>3. CASE Disconnects(cs, i)
    <2> DEFINE kept == [ClearTimers(cs) EXCEPT !.camStatus = "None"]
               a == [kept EXCEPT !.present = Inserted(i), !.ready = i.ready,
                                 !.status = StatusAfter(cs, i)]
    <2>1. Applied(cs, i) = a BY <1>3 DEF Applied
    <2>2. /\ StatusAfter(cs, i) \in Resting
          /\ ~Inserted(i) => StatusAfter(cs, i) = "Absent"
      BY <1>3 DEF StatusAfter, Resting
    <2>3. /\ kept \in ControllerSlot /\ kept.camStatus = "None"
          /\ kept.createSince = None /\ kept.commandSince = None
          /\ kept.nextPoll = None /\ ~kept.receivePending
      <3>1. /\ ClearTimers(cs) \in ControllerSlot
            /\ ClearTimers(cs).createSince = None
            /\ ClearTimers(cs).commandSince = None
            /\ ClearTimers(cs).nextPoll = None
            /\ ~ClearTimers(cs).receivePending
        BY <1>1, ClearedSlot
      <3> QED BY <3>1 DEF ControllerSlot
    <2>4. /\ a \in ControllerSlot /\ a.camStatus = "None"
          /\ a.status = StatusAfter(cs, i) /\ a.present = Inserted(i)
          /\ a.createSince = None /\ a.commandSince = None
          /\ a.nextPoll = None /\ ~a.receivePending
      <3> HIDE DEF kept
      <3> QED BY <2>2, <2>3, <1>2 DEF ControllerSlot, Resting
    <2>5. CamStatus(a.status, NoSessions) = "None"
      <3> HIDE DEF a
      <3> QED BY <2>2, <2>4, CamUnlessActive DEF Resting
    <2>6. PollsFirst(EmptySlot.queue) BY DEF EmptySlot, PollsFirst
    <2>7. Good(a, EmptySlot, NoSessions, FALSE)
      <3> HIDE DEF a
      <3> QED BY <2>2, <2>4, <2>5, <2>6, EmptyType, NoSessionsType
              DEF Good, Quiescent, Resting
    <2> HIDE DEF a
    <2> QED BY <1>3, <2>1, <2>7
  <1>4. CASE ~Disconnects(cs, i)
    <2> DEFINE a == [cs EXCEPT !.present = Inserted(i), !.ready = i.ready,
                               !.status = StatusAfter(cs, i)]
    <2>1. Applied(cs, i) = a BY <1>4 DEF Applied
    <2>2. /\ \/ StatusAfter(cs, i) = cs.status
             \/ StatusAfter(cs, i) \in Resting /\ cs.status \in Resting
          /\ ~Inserted(i) => StatusAfter(cs, i) = "Absent"
      BY <1>1, <1>4 DEF StatusAfter, Disconnects, Resting
    <2>3. /\ a \in ControllerSlot /\ a.camStatus = cs.camStatus
          /\ a.status = StatusAfter(cs, i) /\ a.present = Inserted(i)
          /\ a.createSince = cs.createSince /\ a.commandSince = cs.commandSince
          /\ a.nextPoll = cs.nextPoll /\ a.receivePending = cs.receivePending
      BY <1>1, <1>2, <2>2 DEF ControllerSlot, Resting
    <2>4. CamStatus(StatusAfter(cs, i), sess) = CamStatus(cs.status, sess)
      BY <2>2, CamUnlessActive DEF Resting
    <2>5. Good(a, t, sess, short)
      <3> HIDE DEF a
      <3> QED BY <1>1, <2>2, <2>3, <2>4 DEF Good, Quiescent, Resting
    <2> HIDE DEF a
    <2> QED BY <1>1, <1>4, <2>1, <2>5
  <1> QED BY <1>3, <1>4

LEMMA RefreshIInv == ASSUME IInv, Refresh PROVE IInv'
  <1>1. PICK info \in [Slots -> Infos] :
          /\ slots' = [s \in Slots |-> Applied(slots[s], info[s])]
          /\ transport' = [s \in Slots |->
                IF ~Disconnects(slots[s], info[s]) THEN transport[s] ELSE EmptySlot]
          /\ sessions' = [s \in Slots |->
                IF ~Disconnects(slots[s], info[s]) THEN sessions[s] ELSE NoSessions]
          /\ swallowed' = [s \in Slots |->
                ~Disconnects(slots[s], info[s]) /\ swallowed[s]]
    BY DEF Refresh
  <1>2. /\ pc = "Refresh" /\ nextCheck' = StatusInterval /\ pc' = "Resources"
        /\ UNCHANGED <<gate, ticked, suspended, recoveryAt, deferred, at,
                       resetFailed>>
    BY DEF Refresh
  <1>3. ASSUME NEW s \in Slots
        PROVE  Good(slots'[s], transport'[s], sessions'[s], swallowed'[s])
    <2>1. info[s] \in [present : BOOLEAN, ready : BOOLEAN, link : BOOLEAN]
      BY ConfigAssumption
    <2>2. Good(slots[s], transport[s], sessions[s], swallowed[s])
      BY DEF IInv, Slotwise
    <2>3. /\ slots'[s] = Applied(slots[s], info[s])
          /\ transport'[s] = IF Disconnects(slots[s], info[s]) THEN EmptySlot
                             ELSE transport[s]
          /\ sessions'[s] = IF Disconnects(slots[s], info[s]) THEN NoSessions
                            ELSE sessions[s]
          /\ swallowed'[s] = (~Disconnects(slots[s], info[s]) /\ swallowed[s])
      BY <1>1
    <2> QED BY <2>1, <2>2, <2>3, AppliedGood
  <1>4. SlotTypes'
    <2>1. /\ slots' = [s \in Slots |-> slots'[s]]
          /\ transport' = [s \in Slots |-> transport'[s]]
          /\ sessions' = [s \in Slots |-> sessions'[s]]
          /\ swallowed' = [s \in Slots |-> swallowed'[s]]
      BY <1>1
    <2>2. \A s \in Slots : /\ slots'[s] \in ControllerSlot
                           /\ transport'[s] \in TransportType
                           /\ sessions'[s] \in SessionsType
                           /\ swallowed'[s] \in BOOLEAN
      BY <1>3 DEF Good
    <2> QED BY <2>1, <2>2 DEF SlotTypes
  <1>6. GlobalTypes'
    BY <1>2, Config DEF IInv, GlobalTypes
  <1>7. Slotwise' BY <1>3 DEF Slotwise
  <1>8. ~suspended' BY <1>2, UnderWay
  <1> QED BY <1>4, <1>6, <1>7, <1>8 DEF IInv, SuspendedIsReset, StopsSuspended

\* One SPDU for each slot of a set of active slots.
LEMMA CommandedGood ==
    ASSUME IInv, NEW S \in SUBSET Slots, NEW out \in SUBSET S,
           \A s \in S : slots[s].status = "Active",
           transport' = Commanded(S, out),
           \/ UNCHANGED slots
           \/ slots' = [s \in Slots |-> IF s \in S
                                        THEN Marked(slots[s], transport'[s])
                                        ELSE slots[s]],
           UNCHANGED <<sessions, swallowed>>
    PROVE  SlotTypes' /\ Slotwise'
  <1>1. ASSUME NEW s \in Slots
        PROVE  /\ Good(slots'[s], transport'[s], sessions'[s], swallowed'[s])
    <2>1. Good(slots[s], transport[s], sessions[s], swallowed[s])
      BY DEF IInv, Slotwise
    <2>2. CASE s \in S
      <3>1. <<"Spdu">> \in Seq({"Spdu"}) OBVIOUS
      <3>2. PICK o \in BOOLEAN :
               transport'[s] = Sent(transport[s], <<"Spdu">>, o)
        <4>1. transport'[s] = Sent(transport[s], <<"Spdu">>, s \in out)
          BY <2>2 DEF Commanded
        <4>2. CASE s \in out
          <5>1. (s \in out) = TRUE BY <4>2
          <5> QED BY <4>1, <5>1, Zenon
        <4>3. CASE s \notin out
          <5>1. (s \in out) = FALSE BY <4>3
          <5> QED BY <4>1, <5>1, Zenon
        <4> QED BY <4>2, <4>3
      <3>3. Good(slots[s], Sent(transport[s], <<"Spdu">>, o), sessions[s],
                 swallowed[s])
        BY <2>1, <2>2, <3>1, SentGood
      <3>4. slots'[s] = slots[s] \/ slots'[s] = Marked(slots[s], transport'[s])
        BY <2>2
      <3>5. Good(slots[s], transport'[s], sessions[s], swallowed[s])
        BY <3>2, <3>3
      <3> QED BY <3>4, <3>5, MarkedGood
    <2>3. CASE s \notin S
      <3>1. transport'[s] = transport[s] /\ slots'[s] = slots[s]
        BY <2>3 DEF Commanded
      <3> QED BY <2>1, <3>1
    <2> QED BY <2>2, <2>3
  <1>2. \A s \in Slots : slots'[s] \in ControllerSlot /\ transport'[s] \in TransportType
    BY <1>1 DEF Good
  <1>3. transport' = [s \in Slots |-> transport'[s]] BY DEF Commanded
  <1>4. slots' \in [Slots -> ControllerSlot]
    <2>1. CASE UNCHANGED slots BY <2>1 DEF IInv, SlotTypes
    <2>2. CASE slots' = [s \in Slots |-> IF s \in S
                                         THEN Marked(slots[s], transport'[s])
                                         ELSE slots[s]]
      <3>1. slots' = [s \in Slots |-> slots'[s]] BY <2>2
      <3> QED BY <1>2, <3>1
    <2> QED BY <2>1, <2>2
  <1>5. SlotTypes' BY <1>2, <1>3, <1>4 DEF IInv, SlotTypes
  <1> QED BY <1>1, <1>5 DEF Slotwise

LEMMA ResourcesIInv == ASSUME IInv, Resources PROVE IInv'
  <1>1. CASE Recover BY <1>1, RecoverIInv
  <1>2. CASE ~Recover
    <2>1. PICK S \in SUBSET {s \in Slots : slots[s].status = "Active"} :
             /\ \E out \in SUBSET S : transport' = Commanded(S, out)
             /\ pc' = "Drive"
             /\ at' = 0
             /\ UNCHANGED <<slots, sessions, gate, linkVars, swallowed>>
      BY <1>2 DEF Resources
    <2>2. SlotTypes' /\ Slotwise' BY <2>1, CommandedGood
    <2>3. 0 \in Slots BY Config DEF Slots
    <2>4. ~suspended BY UnderWay DEF Resources
    <2> QED BY <2>1, <2>2, <2>3, <2>4, Running DEF IInv, GlobalTypes
  <1> QED BY <1>1, <1>2

LEMMA DispatchIInv == ASSUME IInv, Dispatch PROVE IInv'
  <1>1. CASE Recover BY <1>1, RecoverIInv
  <1>2. CASE ~Recover
    <2>1. ~suspended /\ at \in Slots /\ gate \in Gates
      BY UnderWay DEF Dispatch, IInv, GlobalTypes
    <2>2. ASSUME /\ gate' \in {gate} \cup (IF gate = "Armed" THEN {"Ready"} ELSE {})
                 /\ pc' = "Idle"
                 /\ UNCHANGED <<slots, transport, sessions, linkVars, at, swallowed>>
          PROVE  IInv'
      <3>1. SlotTypes' /\ Slotwise'
        BY <2>2 DEF IInv, SlotTypes, Slotwise
      <3>2. gate' \in Gates BY <2>1, <2>2 DEF Gates
      <3> QED BY <2>1, <2>2, <3>1, <3>2, Running
    <2>3. ASSUME NEW S \in SUBSET {s \in Slots : sessions[s].ca = "Confirmed"},
                 Release(S)
          PROVE  IInv'
      <3>1. PICK out \in SUBSET S : transport' = Commanded(S, out)
        BY <1>2, <2>3 DEF Release
      <3>2. /\ slots' = [s \in Slots |-> IF s \in S
                                         THEN Marked(slots[s], transport'[s])
                                         ELSE slots[s]]
            /\ pc' = "Idle"
            /\ UNCHANGED <<sessions, gate, linkVars, at, swallowed>>
        BY <1>2, <2>3 DEF Release
      <3>3. ASSUME NEW s \in S PROVE slots[s].status = "Active"
        <4>1. s \in Slots /\ sessions[s] # NoSessions BY DEF NoSessions
        <4>2. Good(slots[s], transport[s], sessions[s], swallowed[s])
          BY <4>1 DEF IInv, Slotwise
        <4> QED BY <4>1, <4>2 DEF Good, Quiescent, ControllerSlot, Resting
      <3>4. SlotTypes' /\ Slotwise' BY <3>1, <3>2, <3>3, CommandedGood
      <3> QED BY <2>1, <3>2, <3>4, Running
    <2> QED BY <1>2, <2>2, <2>3 DEF Dispatch
  <1> QED BY <1>1, <1>2

-----------------------------------------------------------------------------
(* drive_slot() *)
LEMMA DrivenIInv ==
    ASSUME IInv, pc = "Drive", NEW c, NEW t,
           Good(c, t, sessions[at], swallowed[at]), Driven(c, t)
    PROVE  IInv'
  <1>1. at \in Slots /\ ~suspended /\ gate \in Gates
    BY UnderWay DEF IInv, GlobalTypes
  <1>2. /\ slots' = [slots EXCEPT ![at] = c]
        /\ transport' = [transport EXCEPT ![at] = t]
        /\ at' = (at + 1) % SlotsNum
        /\ pc' \in {"Dispatch", "Drive"}
        /\ UNCHANGED <<sessions, gate, linkVars, swallowed>>
    BY DEF Driven, DriveNext
  <1>3. /\ sessions' = [sessions EXCEPT ![at] = sessions[at]]
        /\ swallowed' = [swallowed EXCEPT ![at] = swallowed[at]]
    BY <1>2 DEF IInv, SlotTypes
  <1>4. SlotTypes' /\ Slotwise'
    <2>1. PICK s \in Slots : s = at BY <1>1
    <2>2. /\ Good(c, t, sessions[s], swallowed[s])
          /\ slots' = [slots EXCEPT ![s] = c]
          /\ transport' = [transport EXCEPT ![s] = t]
          /\ sessions' = [sessions EXCEPT ![s] = sessions[s]]
          /\ swallowed' = [swallowed EXCEPT ![s] = swallowed[s]]
      BY <1>2, <1>3, <2>1
    <2> QED BY <2>2, OneSlot
  <1>5. at' \in Slots
    BY <1>1, <1>2, Config DEF Slots
  <1> QED BY <1>1, <1>2, <1>4, <1>5, Running

LEMMA RetriedGood ==
    ASSUME NEW cs, NEW t, NEW sess, NEW short, Good(cs, t, sess, short)
    PROVE  Good(Retried(cs), t, sess, short)
  <1>1. CASE cs.status = "Failed" /\ cs.retryAt = 0
    <2> DEFINE c == [cs EXCEPT !.retryAt = None, !.status = "Present"]
    <2>1. cs \in ControllerSlot BY DEF Good
    <2>2. /\ c \in ControllerSlot /\ c.status = "Present"
          /\ c.camStatus = cs.camStatus /\ c.present = cs.present
          /\ c.createSince = cs.createSince /\ c.commandSince = cs.commandSince
          /\ c.nextPoll = cs.nextPoll /\ c.receivePending = cs.receivePending
      BY <2>1 DEF ControllerSlot, Timers
    <2>3. /\ CamStatus("Present", sess) = "None"
          /\ CamStatus("Failed", sess) = "None"
      BY CamUnlessActive
    <2>4. Good(c, t, sess, short)
      <3> HIDE DEF c
      <3> QED BY <1>1, <2>2, <2>3 DEF Good, Quiescent, Resting
    <2> QED BY <1>1, <2>4 DEF Retried
  <1>2. CASE ~(cs.status = "Failed" /\ cs.retryAt = 0)
    BY <1>2 DEF Retried
  <1> QED BY <1>1, <1>2

LEMMA ConnectIInv ==
    ASSUME IInv, pc = "Drive", NEW cs,
           Good(cs, transport[at], sessions[at], swallowed[at]),
           DriveConnect(cs)
    PROVE  IInv'
  <1>1. CASE Recover BY <1>1, RecoverIInv
  <1>2. CASE ~Recover
    <2> DEFINE c == [cs EXCEPT !.receivePending = FALSE, !.status = "CreatingTc"]
               t(out) == Sent(transport[at], <<"CreateTc">>, out)
    <2>1. PICK out \in BOOLEAN : Driven(Marked(c, t(out)), t(out))
      BY <1>2 DEF DriveConnect
    <2>2. /\ cs.status = "Present" /\ cs \in ControllerSlot
          /\ transport[at] = EmptySlot /\ sessions[at] = NoSessions
          /\ sessions[at] \in SessionsType /\ swallowed[at] \in BOOLEAN
          /\ cs.camStatus = "None" /\ cs.present
      BY DEF DriveConnect, Good, Quiescent, Resting
    <2>3. /\ c \in ControllerSlot /\ c.status = "CreatingTc"
          /\ c.camStatus = "None" /\ c.present
      BY <2>2 DEF ControllerSlot
    <2>4. <<"CreateTc">> \in Seq(Frames) /\ Len(<<"CreateTc">>) <= 1
            /\ EmptySlot.queue = <<>>
      BY DEF Frames, EmptySlot
    <2>5. t(out) \in TransportType BY <2>2, <2>4, EmptyType, SentType
    <2>6. t(out).queue \in {<<>>, <<"CreateTc">>}
      <3>1. /\ EmptySlot.queue \o <<"CreateTc">> = <<"CreateTc">>
            /\ Tail(<<"CreateTc">>) = <<>>
        BY <2>4
      <3>2. t(out).queue \in {EmptySlot.queue \o <<"CreateTc">>}
               \cup {r \in Seq(Frames) :
                        /\ EmptySlot.queue \o <<"CreateTc">> # <<>>
                        /\ r = Tail(EmptySlot.queue \o <<"CreateTc">>)}
        BY <2>2, <2>4, EmptyType, SentQueue
      <3> HIDE DEF t
      <3> QED BY <3>1, <3>2
    <2>7. PollsFirst(t(out).queue)
      <3> HIDE DEF t
      <3> QED BY <2>6 DEF PollsFirst
    <2>8. CamStatus("CreatingTc", sessions[at]) = "None" BY CamUnlessActive
    <2>9. Good(c, t(out), sessions[at], swallowed[at])
      <3> HIDE DEF c, t
      <3> QED BY <2>2, <2>3, <2>5, <2>6, <2>7, <2>8 DEF Good, Resting
    <2>10. Good(Marked(c, t(out)), t(out), sessions[at], swallowed[at])
      <3> HIDE DEF c, t
      <3> QED BY <2>9, MarkedGood
    <2> HIDE DEF c, t
    <2> QED BY <2>1, <2>10, DrivenIInv
  <1> QED BY <1>1, <1>2

LEMMA CreatingIInv ==
    ASSUME IInv, pc = "Drive", NEW cs,
           Good(cs, transport[at], sessions[at], swallowed[at]),
           DriveCreating(cs)
    PROVE  IInv'
  <1>1. CASE Recover BY <1>1, RecoverIInv
  <1>2. CASE ~Recover
    <2> DEFINE t(out) == Sent(transport[at], <<>>, out)
    <2>1. PICK out \in BOOLEAN : Driven(Marked(cs, t(out)), t(out))
      BY <1>2 DEF DriveCreating
    <2>2. <<>> \in Seq({"Spdu"}) OBVIOUS
    <2>3. Good(cs, t(out), sessions[at], swallowed[at]) BY <2>2, SentGood
    <2>4. Good(Marked(cs, t(out)), t(out), sessions[at], swallowed[at])
      <3> HIDE DEF t
      <3> QED BY <2>3, MarkedGood
    <2> HIDE DEF t
    <2> QED BY <2>1, <2>4, DrivenIInv
  <1> QED BY <1>1, <1>2

\* A command on an idle active slot.
LEMMA CommandGood ==
    ASSUME NEW cs, NEW t, NEW sess, NEW short, Good(cs, t, sess, short),
           cs.status = "Active", t.queue = <<>>,
           NEW frame \in {"Rcv", "Poll"}, NEW out \in BOOLEAN,
           NEW d \in ControllerSlot, d.status = "Active",
           d.camStatus = cs.camStatus, d.present = cs.present
    PROVE  Good(d, Sent(t, <<frame>>, out), sess, short)
  <1>1. <<frame>> \in Seq(Frames) /\ Len(<<frame>>) <= 1 BY DEF Frames
  <1>2. t \in TransportType /\ PollsFirst(t.queue) BY DEF Good
  <1>3. Sent(t, <<frame>>, out) \in TransportType BY <1>1, <1>2, SentType
  <1>4. PollsFirst(Sent(t, <<frame>>, out).queue) BY <1>1, <1>2, SentPolls
  <1>5. d.present /\ sess \in SessionsType /\ short \in BOOLEAN
          /\ (sess = NoSessions => d.camStatus = "None")
          /\ (~short => d.camStatus = CamStatus("Active", sess))
    BY DEF Good
  <1> QED BY <1>3, <1>4, <1>5, ActiveGood

LEMMA DriveCommandIInv ==
    ASSUME IInv, pc = "Drive", NEW cs, NEW t, ~Recover,
           Good(cs, t, sessions[at], swallowed[at]),
           cs.status = "Active", t.queue = <<>>,
           DriveCommand(cs, t)
    PROVE  IInv'
  <1> DEFINE asked == [cs EXCEPT !.receivePending = FALSE]
             polled == [cs EXCEPT !.commandSince = 0, !.nextPoll = PollInterval]
  <1>1. cs \in ControllerSlot BY DEF Good
  <1>2. /\ asked \in ControllerSlot /\ asked.status = "Active"
        /\ asked.camStatus = cs.camStatus /\ asked.present = cs.present
    BY <1>1 DEF ControllerSlot
  <1>3. /\ polled \in ControllerSlot /\ polled.status = "Active"
        /\ polled.camStatus = cs.camStatus /\ polled.present = cs.present
    <2>1. 0 \in Timers(ResponseTimeout) /\ PollInterval \in Timers(PollInterval)
      BY Config DEF Timers
    <2> QED BY <1>1, <2>1 DEF ControllerSlot
  <1>4. ASSUME NEW out \in BOOLEAN,
               LET u == Sent(t, <<"Rcv">>, out) IN Driven(Marked(asked, u), u)
        PROVE  IInv'
    <2> DEFINE u == Sent(t, <<"Rcv">>, out)
    <2>1. Good(asked, u, sessions[at], swallowed[at])
      <3> HIDE DEF asked
      <3> QED BY <1>2, CommandGood
    <2>2. Good(Marked(asked, u), u, sessions[at], swallowed[at])
      <3> HIDE DEF asked, u
      <3> QED BY <2>1, MarkedGood
    <2> HIDE DEF asked
    <2>3. Driven(Marked(asked, u), u) BY <1>4
    <2> HIDE DEF u
    <2> QED BY <2>2, <2>3, DrivenIInv
  <1>5. ASSUME NEW out \in BOOLEAN, Driven(polled, Sent(t, <<"Poll">>, out))
        PROVE  IInv'
    <2>1. Good(polled, Sent(t, <<"Poll">>, out), sessions[at], swallowed[at])
      <3> HIDE DEF polled
      <3> QED BY <1>3, CommandGood
    <2> HIDE DEF polled
    <2> QED BY <1>5, <2>1, DrivenIInv
  <1>6. ASSUME Driven(cs, t) PROVE IInv'
    BY <1>6, DrivenIInv
  <1> HIDE DEF asked, polled
  <1> QED BY <1>4, <1>5, <1>6 DEF DriveCommand, asked, polled

LEMMA ActiveIInv ==
    ASSUME IInv, pc = "Drive", NEW cs,
           Good(cs, transport[at], sessions[at], swallowed[at]),
           DriveActive(cs)
    PROVE  IInv'
  <1>1. CASE Recover BY <1>1, RecoverIInv
  <1>2. CASE ~Recover
    <2> DEFINE t(out) == Sent(transport[at], <<>>, out)
               waiting == [cs EXCEPT !.commandSince = Started(@)]
               free == [cs EXCEPT !.commandSince = None]
    <2>1. PICK out \in BOOLEAN :
             IF t(out).busy \/ t(out).queue # <<>>
             THEN Driven(waiting, t(out))
             ELSE DriveCommand(free, t(out))
      BY <1>2 DEF DriveActive
    <2>2. <<>> \in Seq({"Spdu"}) OBVIOUS
    <2>3. Good(cs, t(out), sessions[at], swallowed[at]) BY <2>2, SentGood
    <2>4. cs \in ControllerSlot /\ cs.status = "Active"
      BY DEF Good, DriveActive
    <2>5. /\ waiting \in ControllerSlot /\ waiting.status = "Active"
          /\ waiting.camStatus = cs.camStatus /\ waiting.present = cs.present
          /\ free \in ControllerSlot /\ free.status = "Active"
          /\ free.camStatus = cs.camStatus /\ free.present = cs.present
      <3>1. cs.commandSince \in Timers(ResponseTimeout) BY <2>4 DEF ControllerSlot
      <3>2. /\ Started(cs.commandSince) \in Timers(ResponseTimeout)
            /\ None \in Timers(ResponseTimeout)
        BY <3>1, Config DEF Started, Timers
      <3> QED BY <2>4, <3>2 DEF ControllerSlot
    <2>6. /\ Good(waiting, t(out), sessions[at], swallowed[at])
          /\ Good(free, t(out), sessions[at], swallowed[at])
      <3>1. cs.status \notin Resting BY <2>4 DEF Resting
      <3> HIDE DEF t, waiting, free
      <3> QED BY <2>3, <2>4, <2>5, <3>1, RetimedGood
    <2> HIDE DEF t, waiting, free
    <2>7. CASE t(out).busy \/ t(out).queue # <<>>
      BY <2>1, <2>6, <2>7, DrivenIInv
    <2>8. CASE ~(t(out).busy \/ t(out).queue # <<>>)
      BY <1>2, <2>1, <2>5, <2>6, <2>8, DriveCommandIInv
    <2> QED BY <2>7, <2>8
  <1> QED BY <1>1, <1>2

LEMMA DriveIInv == ASSUME IInv, Drive PROVE IInv'
  <1>1. pc = "Drive" BY DEF Drive
  <1>2. Good(slots[at], transport[at], sessions[at], swallowed[at])
    BY DEF IInv, Slotwise, GlobalTypes
  <1>3. Good(Retried(slots[at]), transport[at], sessions[at], swallowed[at])
    BY <1>2, RetriedGood
  <1>4. CASE DriveIdle(Retried(slots[at]))
    BY <1>1, <1>3, <1>4, DrivenIInv DEF DriveIdle
  <1> QED BY <1>1, <1>3, <1>4, ConnectIInv, CreatingIInv, ActiveIInv DEF Drive

-----------------------------------------------------------------------------
(* reset() *)
LEMMA PresentGood ==
    ASSUME NEW cs \in ControllerSlot
    PROVE  Good([ClearTimers(cs) EXCEPT
                    !.ready = FALSE,
                    !.camStatus = "None",
                    !.status = IF cs.present THEN "Present" ELSE "Absent"],
                EmptySlot, NoSessions, FALSE)
  <1> DEFINE k == ClearTimers(cs)
             c == [k EXCEPT !.ready = FALSE, !.camStatus = "None",
                            !.status = IF cs.present THEN "Present" ELSE "Absent"]
  <1>1. /\ k \in ControllerSlot /\ k.present = cs.present
        /\ k.createSince = None /\ k.commandSince = None
        /\ k.nextPoll = None /\ ~k.receivePending
    BY ClearedSlot
  <1>2. /\ c \in ControllerSlot /\ c.camStatus = "None"
        /\ c.status = IF cs.present THEN "Present" ELSE "Absent"
        /\ c.present = cs.present
        /\ c.createSince = None /\ c.commandSince = None
        /\ c.nextPoll = None /\ ~c.receivePending
    <2> HIDE DEF k
    <2> QED BY <1>1 DEF ControllerSlot
  <1>3. CamStatus(c.status, NoSessions) = "None"
    <2> HIDE DEF c
    <2> QED BY <1>2, CamUnlessActive
  <1>4. PollsFirst(EmptySlot.queue) BY DEF EmptySlot, PollsFirst
  <1>5. Good(c, EmptySlot, NoSessions, FALSE)
    <2> HIDE DEF c
    <2> QED BY <1>2, <1>3, <1>4, EmptyType, NoSessionsType
            DEF Good, Quiescent, Resting
  <1> QED BY <1>5

\* A failed CA_RESET: what had no session had no CAM status.
LEMMA ResetFailedGood ==
    ASSUME NEW cs, NEW t, NEW sess, NEW short, Good(cs, t, sess, short)
    PROVE  LET c == [ClearTimers(cs) EXCEPT
                        !.camStatus = IF sess = NoSessions THEN @ ELSE "None",
                        !.status = IF cs.present THEN "Failed" ELSE @]
           IN Good(c, EmptySlot, NoSessions, FALSE) /\ c.status \in Resting
  <1> DEFINE k == ClearTimers(cs)
             c == [k EXCEPT
                        !.camStatus = IF sess = NoSessions THEN @ ELSE "None",
                        !.status = IF cs.present THEN "Failed" ELSE @]
  <1>1. /\ k \in ControllerSlot /\ k.present = cs.present
        /\ k.createSince = None /\ k.commandSince = None
        /\ k.nextPoll = None /\ ~k.receivePending
        /\ k.status = cs.status /\ k.camStatus = cs.camStatus
    BY ClearedSlot DEF Good
  <1>2. /\ sess = NoSessions => cs.camStatus = "None"
        /\ ~cs.present => cs.status = "Absent"
    BY DEF Good
  <1>3. /\ c \in ControllerSlot /\ c.camStatus = "None"
        /\ c.status = IF cs.present THEN "Failed" ELSE "Absent"
        /\ c.present = cs.present
        /\ c.createSince = None /\ c.commandSince = None
        /\ c.nextPoll = None /\ ~c.receivePending
    <2> HIDE DEF k
    <2> QED BY <1>1, <1>2 DEF ControllerSlot
  <1>4. CamStatus(c.status, NoSessions) = "None"
    <2> HIDE DEF c
    <2> QED BY <1>3, CamUnlessActive
  <1>5. PollsFirst(EmptySlot.queue) BY DEF EmptySlot, PollsFirst
  <1>6. Good(c, EmptySlot, NoSessions, FALSE) /\ c.status \in Resting
    <2> HIDE DEF c
    <2> QED BY <1>3, <1>4, <1>5, EmptyType, NoSessionsType
            DEF Good, Quiescent, Resting
  <1> QED BY <1>6

LEMMA ResetIInv == ASSUME IInv, Reset PROVE IInv'
  <1>1. /\ DropAll /\ recoveryAt' = None /\ pc = "Idle"
        /\ UNCHANGED <<ticked, pc, at>>
    BY DEF Reset
  <1>2. ASSUME NEW s \in Slots
        PROVE  /\ slots[s] \in ControllerSlot
               /\ Good(slots[s], transport[s], sessions[s], swallowed[s])
    BY DEF IInv, SlotTypes, Slotwise
  <1>3. ASSUME slots' = [s \in Slots |-> slots'[s]],
               \A s \in Slots : Good(slots'[s], EmptySlot, NoSessions, FALSE)
        PROVE  SlotTypes' /\ Slotwise'
    <2>1. ASSUME NEW s \in Slots
          PROVE  /\ transport'[s] = EmptySlot /\ sessions'[s] = NoSessions
                 /\ swallowed'[s] = FALSE
      BY <1>1 DEF DropAll
    <2>2. Slotwise' BY <1>3, <2>1 DEF Slotwise
    <2>3. \A s \in Slots : slots'[s] \in ControllerSlot
      BY <1>3 DEF Good
    <2>4. slots' \in [Slots -> ControllerSlot] BY <1>3, <2>3
    <2> QED BY <1>1, <2>2, <2>4, EmptyType, NoSessionsType DEF SlotTypes, DropAll
  <1>4. CASE /\ slots' = [s \in Slots |->
                    [ClearTimers(slots[s]) EXCEPT
                        !.ready = FALSE,
                        !.camStatus = "None",
                        !.status = IF slots[s].present THEN "Present" ELSE "Absent"]]
             /\ nextCheck' = None
             /\ suspended' = FALSE
             /\ resetFailed' = FALSE
    <2>1. slots' = [s \in Slots |-> slots'[s]] BY <1>4
    <2>2. ASSUME NEW s \in Slots
          PROVE  Good(slots'[s], EmptySlot, NoSessions, FALSE)
      BY <1>2, <1>4, PresentGood
    <2>3. SlotTypes' /\ Slotwise' BY <2>1, <2>2, <1>3
    <2>4. GlobalTypes'
      BY <1>1, <1>4 DEF DropAll, IInv, GlobalTypes, Gates, Timers
    <2> QED BY <1>4, <2>3, <2>4 DEF IInv, SuspendedIsReset, StopsSuspended
  <1>5. CASE /\ slots' = [s \in Slots |->
                    [ClearTimers(slots[s]) EXCEPT
                        !.camStatus = IF sessions[s] = NoSessions THEN @ ELSE "None",
                        !.status = IF slots[s].present THEN "Failed" ELSE @]]
             /\ suspended' = TRUE
             /\ resetFailed' = TRUE
             /\ UNCHANGED nextCheck
    <2>1. slots' = [s \in Slots |-> slots'[s]] BY <1>5
    <2>2. ASSUME NEW s \in Slots
          PROVE  /\ Good(slots'[s], EmptySlot, NoSessions, FALSE)
                 /\ slots'[s].status \in Resting
      BY <1>2, <1>5, ResetFailedGood
    <2>3. SlotTypes' /\ Slotwise' BY <2>1, <2>2, <1>3
    <2>4. GlobalTypes'
      BY <1>1, <1>5 DEF DropAll, IInv, GlobalTypes, Gates, Timers
    <2>5. SuspendedIsReset'
      BY <1>1, <1>5, <2>2 DEF DropAll, SuspendedIsReset, Resting
    <2>6. StopsSuspended' BY <1>1 DEF StopsSuspended
    <2> QED BY <2>3, <2>4, <2>5, <2>6 DEF IInv
  <1> QED BY <1>4, <1>5 DEF Reset

-----------------------------------------------------------------------------
LEMMA InitIInv == Init => IInv
  <1> SUFFICES ASSUME Init PROVE IInv
    OBVIOUS
  <1>1. NewSlot \in ControllerSlot BY DEF NewSlot, ControllerSlot, Timers
  <1>2. SlotTypes BY <1>1, EmptyType, NoSessionsType DEF Init, SlotTypes
  <1>3. 0 \in Slots BY Config DEF Slots
  <1>4. GlobalTypes BY <1>3 DEF Init, GlobalTypes, Gates, Timers
  <1>5. PollsFirst(EmptySlot.queue) BY DEF EmptySlot, PollsFirst
  <1>6. CamStatus(NewSlot.status, NoSessions) = "None"
    BY CamUnlessActive DEF NewSlot
  <1>7. Good(NewSlot, EmptySlot, NoSessions, FALSE)
    <2>1. /\ NewSlot.status = "Absent" /\ NewSlot.camStatus = "None"
          /\ NewSlot.createSince = None /\ NewSlot.commandSince = None
          /\ NewSlot.nextPoll = None /\ ~NewSlot.receivePending
      BY DEF NewSlot
    <2> QED BY <1>1, <1>5, <1>6, <2>1, EmptyType, NoSessionsType
            DEF Good, Quiescent, Resting
  <1>8. Slotwise BY <1>7 DEF Init, Slotwise
  <1> QED BY <1>2, <1>4, <1>8 DEF Init, IInv, SuspendedIsReset, StopsSuspended

LEMMA NextIInv == IInv /\ [Next]_vars => IInv'
  <1> SUFFICES ASSUME IInv, [Next]_vars PROVE IInv'
    OBVIOUS
  <1>1. ASSUME NEW d \in 0 .. MaxStep, Tick(d) PROVE IInv'
    BY <1>1, TickIInv
  <1>2. CASE TickDeferred BY <1>2, RecoverIInv DEF TickDeferred
  <1>3. CASE TickStep
    BY <1>3, RefreshIInv, RecoverIInv, ResourcesIInv, DriveIInv, DispatchIInv
       DEF TickStep, RefreshFails
  <1>4. CASE ReadError BY <1>4, ReadErrorIInv
  <1>5. ASSUME NEW s \in Slots, Read(s) \/ UserCommand(s) PROVE IInv'
    BY <1>5, ReadStatusIInv, SpduIInv, UserCommandIInv DEF Read
  <1>6. CASE Reset BY <1>6, ResetIInv
  <1>7. CASE UNCHANGED vars
    BY <1>7 DEF vars, linkVars, IInv, SlotTypes, GlobalTypes, Slotwise,
                SuspendedIsReset, StopsSuspended
  <1> QED BY <1>1, <1>2, <1>3, <1>4, <1>5, <1>6, <1>7 DEF Next

LEMMA ControllerInvariant == Spec => []IInv
  BY InitIInv, NextIInv, PTL DEF Spec

\* Every variable keeps its type: no timer runs past its limit, no status is
\* left undefined.
THEOREM ControllerTypes == Spec => []TypeOK
  <1>1. IInv => TypeOK
    BY DEF IInv, SlotTypes, GlobalTypes, TypeOK, TransportType, SessionsType, Gates
  <1> QED BY <1>1, ControllerInvariant, PTL

\* A slot without a connection has nothing queued, nothing in flight, no
\* session, no timer and no CAM status, whatever failed before.
THEOREM UnconnectedIsSilent == Spec => []SilentUnlessConnected
  <1>1. IInv => SilentUnlessConnected
    BY DEF IInv, Slotwise, Good, Quiescent, Resting, SilentUnlessConnected, Silent
  <1> QED BY <1>1, ControllerInvariant, PTL

\* While a connection is being created nothing but CREATE_TC is queued.
THEOREM CreatingIsExclusive == Spec => []OnlyCreateTc
  <1>1. IInv => OnlyCreateTc
    BY DEF IInv, Slotwise, Good, OnlyCreateTc
  <1> QED BY <1>1, ControllerInvariant, PTL

\* RCV and polls are never queued behind anything.
THEOREM PollsDoNotPileUp == Spec => []PollsAtHead
  <1>1. IInv => PollsAtHead
    BY DEF IInv, Slotwise, Good, PollsFirst, PollsAtHead
  <1> QED BY <1>1, ControllerInvariant, PTL

\* The link is suspended only with every slot reset and the gate closed, and
\* without a time to resume only when CA_RESET failed.
THEOREM SuspensionResets == Spec => []SuspendedIsReset
  <1>1. IInv => SuspendedIsReset BY DEF IInv
  <1> QED BY <1>1, ControllerInvariant, PTL

\* The four together, as the run checks them.
THEOREM SlotsStayOrderly == Spec => []SlotsOrderly
  <1>1. SilentUnlessConnected /\ OnlyCreateTc /\ PollsAtHead /\ SuspendedIsReset
          => SlotsOrderly
    BY DEF SlotsOrderly
  <1> QED BY <1>1, UnconnectedIsSilent, CreatingIsExclusive, PollsDoNotPileUp,
             SuspensionResets, PTL

\* The CAM status is the one the live sessions confirmed, unless a short write
\* passed for a malformed object.
THEOREM CamStatusFollows == Spec => []CamStatusTrue
  <1>1. IInv => CamStatusTrue
    BY DEF IInv, Slotwise, Good, CamStatusTrue
  <1> QED BY <1>1, ControllerInvariant, PTL

-----------------------------------------------------------------------------
(* The clocks of commands. Between Resources and the turn of its slot an    *)
(* answer may be queued that no clock runs for yet; at no other time, and   *)
(* never while a connection is being made.                                  *)
ActiveTimed(cs, t) ==
    cs.status = "Active" /\ Outstanding(t) => cs.commandSince # None

CreatingTimed(cs, t) ==
    cs.status = "CreatingTc" => \/ cs.createSince # None
                                \/ cs.commandSince # None /\ t.queue # <<>>

Timed(cs, t) == ActiveTimed(cs, t) /\ CreatingTimed(cs, t)

SlotTimed(s) == /\ CreatingTimed(slots[s], transport[s])
                /\ (pc = "Drive" => s < at) => ActiveTimed(slots[s], transport[s])

TimersHold == \A s \in Slots : SlotTimed(s)

LEMMA RestingTimed ==
    ASSUME NEW cs, NEW t, cs.status \in Resting
    PROVE  Timed(cs, t)
  BY DEF Timed, ActiveTimed, CreatingTimed, Resting

\* Whatever was left on a slot, mark_outstanding() starts the clock it needs.
LEMMA MarkedTimed ==
    ASSUME NEW cs \in ControllerSlot, NEW t,
           cs.status = "CreatingTc" => cs.createSince # None \/ Outstanding(t)
    PROVE  Timed(Marked(cs, t), t)
  <1>1. 0 # None BY Config
  <1>2. Started(cs.commandSince) # None BY <1>1 DEF Started
  <1>3. CASE cs.status = "CreatingTc" /\ t.busy /\ cs.createSince = None
    <2>1. Marked(cs, t) = [cs EXCEPT !.createSince = 0, !.commandSince = None]
      BY <1>3 DEF Marked
    <2> QED BY <1>1, <1>3, <2>1 DEF ControllerSlot, Timed, ActiveTimed, CreatingTimed
  <1>4. CASE /\ ~(cs.status = "CreatingTc" /\ t.busy /\ cs.createSince = None)
             /\ \/ cs.status = "CreatingTc" /\ t.queue # <<>>
                \/ cs.status = "Active" /\ Outstanding(t)
    <2>1. Marked(cs, t) = [cs EXCEPT !.commandSince = Started(@)]
      BY <1>4 DEF Marked, Outstanding
    <2>2. /\ Marked(cs, t).status = cs.status
          /\ Marked(cs, t).createSince = cs.createSince
          /\ Marked(cs, t).commandSince # None
      BY <1>2, <2>1 DEF ControllerSlot
    <2> QED BY <1>4, <2>2 DEF Timed, ActiveTimed, CreatingTimed
  <1>5. CASE /\ ~(cs.status = "CreatingTc" /\ t.busy /\ cs.createSince = None)
             /\ ~(cs.status = "CreatingTc" /\ t.queue # <<>>)
             /\ ~(cs.status = "Active" /\ Outstanding(t))
    <2>1. Marked(cs, t) = cs BY <1>5 DEF Marked, Outstanding
    <2> QED BY <1>5, <2>1 DEF Timed, ActiveTimed, CreatingTimed, Outstanding
  <1> QED BY <1>3, <1>4, <1>5

\* A flush leaves a queued frame queued or in flight.
LEMMA SentOutstanding ==
    ASSUME NEW t \in TransportType, t.queue # <<>>, NEW out \in BOOLEAN
    PROVE  Outstanding(Sent(t, <<>>, out))
  <1> DEFINE q == [t EXCEPT !.queue = @ \o <<>>]
  <1>1. t.queue \o <<>> = t.queue BY DEF TransportType
  <1>2. q.queue # <<>> BY <1>1 DEF TransportType
  <1>3. Written(q).busy BY DEF Written, TransportType
  <1>4. Sent(t, <<>>, out) = IF out /\ CanWrite(q) THEN Written(q) ELSE q
    BY DEF Sent
  <1> HIDE DEF q
  <1> QED BY <1>2, <1>3, <1>4 DEF Outstanding

\* So a slot that waits for its connection is timed after a flush.
LEMMA FlushedTimed ==
    ASSUME NEW cs \in ControllerSlot, NEW t \in TransportType, CreatingTimed(cs, t),
           NEW out \in BOOLEAN
    PROVE  Timed(Marked(cs, Sent(t, <<>>, out)), Sent(t, <<>>, out))
  BY MarkedTimed, SentOutstanding DEF CreatingTimed

\* After a reset no slot is connected or waits for its connection.
LEMMA RecoverTimers == ASSUME IInv, Recover PROVE TimersHold'
  <1>1. PICK retry : slots' = [s \in Slots |-> Failed(slots[s], retry)]
    BY DEF Recover
  <1>2. ASSUME NEW s \in Slots PROVE slots'[s].status \in Resting
    <2>1. slots[s] \in ControllerSlot BY DEF IInv, SlotTypes
    <2>2. Failed(slots[s], retry).status \in {"Failed", "Absent"}
      BY <2>1, ClearedSlot DEF Failed, ControllerSlot
    <2> QED BY <1>1, <2>2 DEF Resting
  <1> QED BY <1>2, RestingTimed DEF TimersHold, SlotTimed, Timed

AtRest(cs) == cs.status \in Resting

LEMMA ResetRests ==
    ASSUME NEW cs \in ControllerSlot, ~cs.present => cs.status = "Absent", NEW sess
    PROVE  /\ AtRest([ClearTimers(cs) EXCEPT
                          !.ready = FALSE,
                          !.camStatus = "None",
                          !.status = IF cs.present THEN "Present" ELSE "Absent"])
           /\ AtRest([ClearTimers(cs) EXCEPT
                          !.camStatus = IF sess = NoSessions THEN @ ELSE "None",
                          !.status = IF cs.present THEN "Failed" ELSE @])
  <1> DEFINE k == ClearTimers(cs)
  <1>1. k \in ControllerSlot /\ k.status = cs.status BY ClearedSlot
  <1> HIDE DEF k
  <1> QED BY <1>1 DEF AtRest, Resting, ControllerSlot, k

LEMMA ResetTimers == ASSUME IInv, Reset PROVE TimersHold'
  <1>1. ASSUME NEW s \in Slots
        PROVE  /\ slots[s] \in ControllerSlot
               /\ ~slots[s].present => slots[s].status = "Absent"
    BY DEF IInv, SlotTypes, Slotwise, Good
  <1>2. ASSUME \A s \in Slots : AtRest(slots'[s]) PROVE TimersHold'
    BY <1>2, RestingTimed DEF TimersHold, SlotTimed, Timed, AtRest
  <1>3. CASE /\ slots' = [s \in Slots |->
                    [ClearTimers(slots[s]) EXCEPT
                        !.ready = FALSE,
                        !.camStatus = "None",
                        !.status = IF slots[s].present THEN "Present" ELSE "Absent"]]
             /\ nextCheck' = None
             /\ suspended' = FALSE
             /\ resetFailed' = FALSE
    <2>1. ASSUME NEW s \in Slots PROVE AtRest(slots'[s])
      BY <1>1, <1>3, ResetRests
    <2> QED BY <2>1, <1>2
  <1>4. CASE /\ slots' = [s \in Slots |->
                    [ClearTimers(slots[s]) EXCEPT
                        !.camStatus = IF sessions[s] = NoSessions THEN @ ELSE "None",
                        !.status = IF slots[s].present THEN "Failed" ELSE @]]
             /\ suspended' = TRUE
             /\ resetFailed' = TRUE
             /\ UNCHANGED nextCheck
    <2>1. ASSUME NEW s \in Slots PROVE AtRest(slots'[s])
      BY <1>1, <1>4, ResetRests
    <2> QED BY <2>1, <1>2
  <1> QED BY <1>3, <1>4 DEF Reset

LEMMA OlderRuns ==
    ASSUME NEW limit \in Nat, NEW age \in Timers(limit), NEW d \in Nat, age # None
    PROVE  Older(age, d, limit) # None
  BY Config DEF Older, Timers

LEMMA TickTimers ==
    ASSUME IInv, TimersHold, NEW d \in 0 .. MaxStep, Tick(d)
    PROVE  TimersHold'
  <1>1. /\ pc = "Idle" /\ pc' \in {"Idle", "Refresh", "Resources"}
        /\ slots' = [s \in Slots |-> Later(slots[s], d)] /\ UNCHANGED transport
    BY DEF Tick
  <1>2. ASSUME NEW s \in Slots PROVE Timed(Later(slots[s], d), transport[s])
    <2>1. slots[s] \in ControllerSlot /\ Timed(slots[s], transport[s]) /\ d \in Nat
      BY <1>1, Config DEF IInv, SlotTypes, TimersHold, SlotTimed, Timed
    <2>2. /\ slots[s].createSince \in Timers(CreateTimeout)
          /\ slots[s].commandSince \in Timers(ResponseTimeout)
      BY <2>1 DEF ControllerSlot
    <2>3. /\ slots[s].createSince # None
                => Older(slots[s].createSince, d, CreateTimeout) # None
          /\ slots[s].commandSince # None
                => Older(slots[s].commandSince, d, ResponseTimeout) # None
      BY <2>1, <2>2, OlderRuns, Config
    <2>4. /\ Later(slots[s], d).status = slots[s].status
          /\ Later(slots[s], d).createSince
                = Older(slots[s].createSince, d, CreateTimeout)
          /\ Later(slots[s], d).commandSince
                = Older(slots[s].commandSince, d, ResponseTimeout)
      BY <2>1 DEF Later, ControllerSlot
    <2> QED BY <2>1, <2>3, <2>4 DEF Timed, ActiveTimed, CreatingTimed
  <1> QED BY <1>1, <1>2 DEF TimersHold, SlotTimed, Timed

LEMMA RefreshTimers == ASSUME IInv, TimersHold, Refresh PROVE TimersHold'
  <1>1. PICK info \in [Slots -> Infos] :
          /\ slots' = [s \in Slots |-> Applied(slots[s], info[s])]
          /\ transport' = [s \in Slots |->
                IF ~Disconnects(slots[s], info[s]) THEN transport[s] ELSE EmptySlot]
    BY DEF Refresh
  <1>2. pc = "Refresh" /\ pc' = "Resources" BY DEF Refresh
  <1>3. ASSUME NEW s \in Slots PROVE Timed(slots'[s], transport'[s])
    <2> DEFINE cs == slots[s]
               i == info[s]
    <2>1. cs \in ControllerSlot /\ Timed(cs, transport[s])
      BY <1>2 DEF IInv, SlotTypes, TimersHold, SlotTimed, Timed
    <2>2. ClearTimers(cs) \in ControllerSlot BY <2>1, ClearedSlot
    <2>3. Applied(cs, i).status = StatusAfter(cs, i)
      BY <2>1, <2>2 DEF Applied, ControllerSlot
    <2>4. CASE Disconnects(cs, i)
      <3>1. StatusAfter(cs, i) \in Resting
        BY <2>4 DEF StatusAfter, Resting
      <3> QED BY <1>1, <2>3, <3>1, RestingTimed
    <2>5. CASE ~Disconnects(cs, i)
      <3>1. StatusAfter(cs, i) \in Resting \/ StatusAfter(cs, i) = cs.status
        BY <2>5 DEF StatusAfter, Resting
      <3>2. /\ Applied(cs, i).createSince = cs.createSince
            /\ Applied(cs, i).commandSince = cs.commandSince
        BY <2>1, <2>5 DEF Applied, ControllerSlot
      <3>3. transport'[s] = transport[s] /\ slots'[s] = Applied(cs, i)
        BY <1>1, <2>5
      <3>4. CASE StatusAfter(cs, i) = cs.status
        BY <2>1, <2>3, <3>2, <3>3, <3>4 DEF Timed, ActiveTimed, CreatingTimed
      <3> QED BY <2>3, <3>1, <3>3, <3>4, RestingTimed
    <2> QED BY <2>4, <2>5
  <1> QED BY <1>3 DEF TimersHold, SlotTimed, Timed

LEMMA ResourcesTimers == ASSUME IInv, TimersHold, Resources PROVE TimersHold'
  <1>1. CASE Recover BY <1>1, RecoverTimers
  <1>2. CASE ~Recover
    <2>1. PICK S \in SUBSET {s \in Slots : slots[s].status = "Active"} :
             /\ \E out \in SUBSET S : transport' = Commanded(S, out)
             /\ pc' = "Drive" /\ at' = 0
             /\ UNCHANGED slots
      BY <1>2 DEF Resources
    <2>2. pc = "Resources" BY DEF Resources
    <2>3. ASSUME NEW s \in Slots PROVE CreatingTimed(slots[s], transport'[s])
      <3>1. s \notin S => transport'[s] = transport[s] BY <2>1 DEF Commanded
      <3>2. s \in S => slots[s].status = "Active" BY <2>1
      <3> QED BY <2>2, <3>1, <3>2 DEF TimersHold, SlotTimed, CreatingTimed
    <2>4. \A s \in Slots : ~(s < 0) BY DEF Slots
    <2> QED BY <2>1, <2>3, <2>4 DEF TimersHold, SlotTimed
  <1> QED BY <1>1, <1>2

LEMMA DispatchTimers == ASSUME IInv, TimersHold, Dispatch PROVE TimersHold'
  <1>1. CASE Recover BY <1>1, RecoverTimers
  <1>2. pc = "Dispatch" BY DEF Dispatch
  <1>3. CASE pc' = "Idle" /\ UNCHANGED <<slots, transport>>
    BY <1>2, <1>3 DEF TimersHold, SlotTimed
  <1>4. ASSUME NEW S \in SUBSET {s \in Slots : sessions[s].ca = "Confirmed"},
               Release(S), ~Recover
        PROVE  TimersHold'
    <2>1. PICK out \in SUBSET S :
             /\ transport' = Commanded(S, out)
             /\ slots' = [s \in Slots |-> IF s \in S
                                          THEN Marked(slots[s], transport'[s])
                                          ELSE slots[s]]
             /\ pc' = "Idle"
      BY <1>4 DEF Release
    <2>2. ASSUME NEW s \in Slots PROVE Timed(slots'[s], transport'[s])
      <3>1. CASE s \in S
        <4>1. /\ slots[s] \in ControllerSlot /\ slots[s].status = "Active"
          <5>1. Good(slots[s], transport[s], sessions[s], swallowed[s])
            BY DEF IInv, Slotwise
          <5>2. sessions[s] # NoSessions BY <3>1 DEF NoSessions
          <5> QED BY <5>1, <5>2 DEF Good, Quiescent, Resting, ControllerSlot
        <4> QED BY <2>1, <3>1, <4>1, MarkedTimed
      <3>2. CASE s \notin S
        <4>1. slots'[s] = slots[s] /\ transport'[s] = transport[s]
          BY <2>1, <3>2 DEF Commanded
        <4> QED BY <1>2, <4>1 DEF TimersHold, SlotTimed, Timed
      <3> QED BY <3>1, <3>2
    <2> QED BY <2>1, <2>2 DEF TimersHold, SlotTimed, Timed
  <1> QED BY <1>1, <1>3, <1>4 DEF Dispatch

-----------------------------------------------------------------------------
(* The clocks through drive_slot(). *)
LEMMA DrivenTimers ==
    ASSUME IInv, TimersHold, pc = "Drive", NEW c, NEW t, Driven(c, t), Timed(c, t)
    PROVE  TimersHold'
  <1>1. /\ slots' = [slots EXCEPT ![at] = c]
        /\ transport' = [transport EXCEPT ![at] = t]
        /\ at' = (at + 1) % SlotsNum
        /\ pc' = IF at' = 0 THEN "Dispatch" ELSE "Drive"
    BY DEF Driven, DriveNext
  <1>2. at \in 0 .. SlotsNum - 1 /\ SlotsNum \in Nat \ {0}
    BY Config DEF IInv, GlobalTypes, Slots
  <1>3. \/ at + 1 < SlotsNum /\ at' = at + 1 /\ pc' = "Drive"
        \/ at + 1 = SlotsNum /\ pc' = "Dispatch"
    <2>1. CASE at + 1 < SlotsNum
      <3>1. (at + 1) % SlotsNum = at + 1 BY <1>2, <2>1
      <3> QED BY <1>1, <1>2, <2>1, <3>1
    <2>2. CASE at + 1 = SlotsNum
      <3>1. (at + 1) % SlotsNum = 0 BY <1>2, <2>2
      <3> QED BY <1>1, <2>2, <3>1
    <2> QED BY <1>2, <2>1, <2>2
  <1>4. ASSUME NEW s \in Slots PROVE SlotTimed(s)'
    <2>1. CASE s = at
      <3>1. slots'[s] = c /\ transport'[s] = t
        BY <1>1, <2>1 DEF IInv, SlotTypes
      <3> QED BY <3>1 DEF SlotTimed, Timed
    <2>2. CASE s # at
      <3>1. slots'[s] = slots[s] /\ transport'[s] = transport[s]
        BY <1>1, <2>2 DEF IInv, SlotTypes
      <3>2. (pc' = "Drive" => s < at') => s < at
        BY <1>2, <1>3, <2>2 DEF Slots
      <3> QED BY <3>1, <3>2 DEF TimersHold, SlotTimed
    <2> QED BY <2>1, <2>2
  <1> QED BY <1>4 DEF TimersHold

LEMMA DriveIdleTimers ==
    ASSUME IInv, TimersHold, pc = "Drive", NEW cs, DriveIdle(cs)
    PROVE  TimersHold'
  <1>1. cs.status \in Resting BY DEF DriveIdle, Resting
  <1> QED BY <1>1, RestingTimed, DrivenTimers DEF DriveIdle

LEMMA DriveConnectTimers ==
    ASSUME IInv, TimersHold, pc = "Drive", NEW cs \in ControllerSlot,
           Good(cs, transport[at], sessions[at], swallowed[at]), DriveConnect(cs)
    PROVE  TimersHold'
  <1>1. CASE Recover BY <1>1, RecoverTimers
  <1>2. CASE ~Recover
    <2> DEFINE c == [cs EXCEPT !.receivePending = FALSE, !.status = "CreatingTc"]
               t(out) == Sent(EmptySlot, <<"CreateTc">>, out)
    <2>1. transport[at] = EmptySlot BY DEF DriveConnect, Good, Quiescent, Resting
    <2>2. PICK out \in BOOLEAN : Driven(Marked(c, t(out)), t(out))
      BY <1>2, <2>1 DEF DriveConnect
    <2>3. c \in ControllerSlot BY DEF ControllerSlot
    <2>4. Outstanding(t(out))
      <3> DEFINE q == [EmptySlot EXCEPT !.queue = @ \o <<"CreateTc">>]
      <3>1. q.queue = <<"CreateTc">> BY DEF EmptySlot
      <3>2. Written(q).busy = TRUE BY DEF Written, EmptySlot
      <3>3. Sent(EmptySlot, <<"CreateTc">>, out) \in {Written(q), q} BY DEF Sent
      <3> HIDE DEF q, t
      <3>4. Outstanding(q) /\ Outstanding(Written(q)) BY <3>1, <3>2 DEF Outstanding
      <3>5. t(out) \in {Written(q), q} BY <3>3 DEF t
      <3> QED BY <3>4, <3>5
    <2> HIDE DEF c, t
    <2>5. Timed(Marked(c, t(out)), t(out)) BY <2>3, <2>4, MarkedTimed
    <2> QED BY <2>2, <2>5, DrivenTimers
  <1> QED BY <1>1, <1>2

LEMMA DriveCreatingTimers ==
    ASSUME IInv, TimersHold, pc = "Drive", NEW cs \in ControllerSlot,
           transport[at] \in TransportType, CreatingTimed(cs, transport[at]),
           DriveCreating(cs)
    PROVE  TimersHold'
  <1>1. CASE Recover BY <1>1, RecoverTimers
  <1>2. CASE ~Recover
    <2> DEFINE t(out) == Sent(transport[at], <<>>, out)
    <2>1. PICK out \in BOOLEAN : Driven(Marked(cs, t(out)), t(out))
      BY <1>2 DEF DriveCreating
    <2>2. Timed(Marked(cs, t(out)), t(out)) BY FlushedTimed
    <2> HIDE DEF t
    <2> QED BY <2>1, <2>2, DrivenTimers
  <1> QED BY <1>1, <1>2

LEMMA DriveActiveTimers ==
    ASSUME IInv, TimersHold, pc = "Drive", NEW cs \in ControllerSlot, DriveActive(cs)
    PROVE  TimersHold'
  <1>1. CASE Recover BY <1>1, RecoverTimers
  <1>2. CASE ~Recover
    <2> DEFINE t(out) == Sent(transport[at], <<>>, out)
               waiting == [cs EXCEPT !.commandSince = Started(@)]
               free == [cs EXCEPT !.commandSince = None]
               asked == [free EXCEPT !.receivePending = FALSE]
               polled == [free EXCEPT !.commandSince = 0, !.nextPoll = PollInterval]
    <2>1. cs.status = "Active" BY DEF DriveActive
    <2>2. PICK out \in BOOLEAN :
             IF Outstanding(t(out))
             THEN Driven(waiting, t(out))
             ELSE DriveCommand(free, t(out))
      BY <1>2 DEF DriveActive, Outstanding
    <2>3. 0 # None BY Config
    <2>4. /\ waiting.status = "Active" /\ waiting.commandSince # None
          /\ free \in ControllerSlot /\ free.status = "Active"
          /\ asked \in ControllerSlot /\ asked.status = "Active"
          /\ polled.status = "Active" /\ polled.commandSince = 0
      BY <2>1, <2>3 DEF ControllerSlot, Started, Timers
    <2>5. ASSUME NEW u PROVE Timed(waiting, u) /\ Timed(polled, u)
      <3> HIDE DEF waiting, polled
      <3> QED BY <2>3, <2>4 DEF Timed, ActiveTimed, CreatingTimed
    <2>6. CASE Outstanding(t(out))
      <3> HIDE DEF t, waiting, free
      <3> QED BY <2>2, <2>5, <2>6, DrivenTimers
    <2>7. CASE ~Outstanding(t(out))
      <3>1. Timed(free, t(out))
        <4> HIDE DEF t, free
        <4> QED BY <2>4, <2>7 DEF Timed, ActiveTimed, CreatingTimed
      <3>2. \/ \E o \in BOOLEAN : LET u == Sent(t(out), <<"Rcv">>, o)
                                  IN  Driven(Marked(asked, u), u)
            \/ \E o \in BOOLEAN : Driven(polled, Sent(t(out), <<"Poll">>, o))
            \/ Driven(free, t(out))
        <4> HIDE DEF t, free
        <4> QED BY <1>2, <2>2, <2>7 DEF DriveCommand
      <3>3. ASSUME NEW u PROVE Timed(Marked(asked, u), u)
        <4> HIDE DEF asked
        <4> QED BY <2>4, MarkedTimed
      <3> HIDE DEF t, free, asked, polled
      <3> QED BY <2>5, <3>1, <3>2, <3>3, DrivenTimers
    <2> QED BY <2>6, <2>7
  <1> QED BY <1>1, <1>2

LEMMA DriveTimers == ASSUME IInv, TimersHold, Drive PROVE TimersHold'
  <1>1. pc = "Drive" /\ at \in Slots BY DEF Drive, IInv, GlobalTypes
  <1> DEFINE cs == Retried(slots[at])
  <1>2. Good(slots[at], transport[at], sessions[at], swallowed[at])
    BY <1>1 DEF IInv, Slotwise
  <1>3. Good(cs, transport[at], sessions[at], swallowed[at])
    BY <1>2, RetriedGood
  <1>4. CreatingTimed(cs, transport[at])
    <2>1. CreatingTimed(slots[at], transport[at]) BY <1>1 DEF TimersHold, SlotTimed
    <2>2. slots[at] \in ControllerSlot BY <1>2 DEF Good
    <2>3. cs = slots[at] \/ cs.status = "Present"
      BY <2>2 DEF Retried, ControllerSlot
    <2> QED BY <2>1, <2>3 DEF CreatingTimed
  <1>5. cs \in ControllerSlot /\ transport[at] \in TransportType BY <1>3 DEF Good
  <1>6. DriveIdle(cs) \/ DriveConnect(cs) \/ DriveCreating(cs) \/ DriveActive(cs)
    BY DEF Drive
  <1> HIDE DEF cs
  <1> QED BY <1>1, <1>3, <1>4, <1>5, <1>6, DriveIdleTimers, DriveConnectTimers,
             DriveCreatingTimers, DriveActiveTimers

-----------------------------------------------------------------------------
(* The clocks through reads and commands of the application. *)
LEMMA OneSlotTimers ==
    ASSUME IInv, TimersHold, pc = "Idle", pc' = "Idle", NEW s \in Slots, NEW c, NEW u,
           slots' = [slots EXCEPT ![s] = c], transport' = [transport EXCEPT ![s] = u],
           Timed(c, u)
    PROVE  TimersHold'
  <1>1. ASSUME NEW r \in Slots PROVE Timed(slots'[r], transport'[r])
    <2>1. r = s => slots'[r] = c /\ transport'[r] = u BY DEF IInv, SlotTypes
    <2>2. r # s => slots'[r] = slots[r] /\ transport'[r] = transport[r]
      BY DEF IInv, SlotTypes
    <2> QED BY <2>1, <2>2 DEF TimersHold, SlotTimed, Timed
  <1> QED BY <1>1 DEF TimersHold, SlotTimed, Timed

LEMMA SettleTimers ==
    ASSUME IInv, TimersHold, pc = "Idle", NEW s \in Slots, NEW cs \in ControllerSlot,
           NEW t, NEW sess, NEW g, NEW short, Settle(s, cs, t, sess, g, short),
           cs.status = "CreatingTc" =>
               t \in TransportType /\ (cs.createSince # None \/ Outstanding(t))
    PROVE  TimersHold'
  <1>1. CASE Recover BY <1>1, RecoverTimers
  <1>2. CASE ~Recover
    <2> DEFINE asked == [cs EXCEPT !.receivePending =
                            @ \/ (t.dataPending /\ cs.status = "Active")]
               heard == [t EXCEPT !.dataPending = FALSE]
               rcv == CanAsk(asked, heard)
               sent(out) == IF rcv THEN Sent(heard, <<"Rcv">>, out) ELSE heard
               c == IF rcv THEN [asked EXCEPT !.receivePending = FALSE] ELSE asked
    <2>1. PICK out \in BOOLEAN :
             /\ slots' = [slots EXCEPT ![s] = Marked(c, sent(out))]
             /\ transport' = [transport EXCEPT ![s] = sent(out)]
             /\ UNCHANGED pc
      BY <1>2 DEF Settle
    <2>2. asked \in ControllerSlot /\ asked.status = cs.status
            /\ asked.createSince = cs.createSince
      BY DEF ControllerSlot
    <2>3. c \in ControllerSlot /\ c.status = cs.status /\ c.createSince = cs.createSince
      <3> HIDE DEF asked, rcv
      <3> QED BY <2>2 DEF ControllerSlot
    <2>4. rcv => cs.status = "Active"
      <3> HIDE DEF asked, heard
      <3> QED BY <2>2 DEF CanAsk
    <2>5. t \in TransportType => heard.busy = t.busy /\ heard.queue = t.queue
      BY DEF TransportType
    <2>6. c.status = "CreatingTc" => c.createSince # None \/ Outstanding(sent(out))
      <3> HIDE DEF c, rcv, heard
      <3> QED BY <2>3, <2>4, <2>5 DEF Outstanding
    <2> HIDE DEF c, sent
    <2>7. Timed(Marked(c, sent(out)), sent(out)) BY <2>3, <2>6, MarkedTimed
    <2> QED BY <2>1, <2>7, OneSlotTimers
  <1> QED BY <1>1, <1>2

LEMMA ReadPlainTimers ==
    ASSUME IInv, TimersHold, pc = "Idle", NEW s \in Slots, NEW cs \in ControllerSlot,
           NEW heard \in TransportType, heard.queue = transport[s].queue,
           CreatingTimed(cs, heard), ReadPlain(s, cs, heard)
    PROVE  TimersHold'
  <1>1. CASE Recover BY <1>1, RecoverTimers
  <1>2. ASSUME NEW out \in BOOLEAN,
               Settle(s, cs, Sent(heard, <<>>, out), sessions[s], gate, swallowed[s])
        PROVE  TimersHold'
    <2>1. <<>> \in Seq(Frames) OBVIOUS
    <2>2. Sent(heard, <<>>, out) \in TransportType BY <2>1, SentType
    <2>3. cs.status = "CreatingTc" =>
             cs.createSince # None \/ Outstanding(Sent(heard, <<>>, out))
      BY SentOutstanding DEF CreatingTimed
    <2> QED BY <1>2, <2>2, <2>3, SettleTimers
  <1> QED BY <1>1, <1>2 DEF ReadPlain

LEMMA ReadStatusTimers ==
    ASSUME IInv, TimersHold, NEW s \in Slots, ReadStatus(s) \/ ReadCtcReply(s)
    PROVE  TimersHold'
  <1> DEFINE cs == slots[s]
  <1>1. /\ pc = "Idle" /\ cs \in ControllerSlot /\ transport[s] \in TransportType
        /\ CreatingTimed(cs, transport[s])
    BY DEF ReadStatus, ReadCtcReply, Reading, IInv, SlotTypes, TimersHold, SlotTimed
  <1>2. /\ Quiet(cs) \in ControllerSlot /\ Connected(Quiet(cs)) \in ControllerSlot
        /\ cs.status = "CreatingTc" => Quiet(cs) = cs
        /\ Quiet(cs).status = cs.status
        /\ Connected(Quiet(cs)).status # "CreatingTc"
    <2>1. Quiet(cs) \in ControllerSlot /\ Quiet(cs).status = cs.status
      BY <1>1, QuietSlot
    <2>2. cs.status = "CreatingTc" => Quiet(cs) = cs BY DEF Quiet
    <2>3. ASSUME NEW k \in ControllerSlot
          PROVE  Connected(k) \in ControllerSlot /\ Connected(k).status # "CreatingTc"
      <3>1. CASE k.status = "CreatingTc"
        <4>1. Connected(k) = [k EXCEPT !.createSince = None, !.commandSince = None,
                                       !.nextPoll = None, !.status = "Active"]
          BY <3>1 DEF Connected
        <4>2. /\ None \in Timers(CreateTimeout) /\ None \in Timers(ResponseTimeout)
              /\ None \in Timers(PollInterval)
          BY DEF Timers
        <4> QED BY <4>1, <4>2 DEF ControllerSlot
      <3>2. CASE k.status # "CreatingTc"
        BY <3>2 DEF Connected
      <3> QED BY <3>1, <3>2
    <2> QED BY <2>1, <2>2, <2>3
  <1>3. PICK h : /\ h = Heard(transport[s]) \/ \E di \in BOOLEAN : h = HeardWell(transport[s], di)
                 /\ ReadPlain(s, Quiet(cs), h) \/ ReadPlain(s, Connected(Quiet(cs)), h)
    BY DEF ReadStatus, ReadCtcReply
  <1>4. h \in TransportType /\ h.queue = transport[s].queue
    <2>1. CASE h = Heard(transport[s])
      BY <1>1, <2>1 DEF Heard, TransportType
    <2>2. ASSUME NEW di \in BOOLEAN, h = HeardWell(transport[s], di)
          PROVE  h \in TransportType /\ h.queue = transport[s].queue
      BY <1>1, <2>2 DEF Heard, HeardWell, TransportType
    <2> QED BY <1>3, <2>1, <2>2
  <1>5. CreatingTimed(Quiet(cs), h) /\ CreatingTimed(Connected(Quiet(cs)), h)
    BY <1>1, <1>2, <1>4 DEF CreatingTimed
  <1> QED BY <1>1, <1>2, <1>3, <1>4, <1>5, ReadPlainTimers

\* Objects and sessions are dispatched on active slots only.
LEMMA DispatchedTimers ==
    ASSUME IInv, TimersHold, NEW s \in Slots, Dispatches(s), NEW sess, NEW cam, NEW g,
           cam \in {"None", "ApplicationInfo", "CaInfo", "Ready"},
           NEW frames, NEW callback, Dispatched(s, sess, cam, g, frames, callback)
    PROVE  TimersHold'
  <1> DEFINE cs == Quiet(slots[s])
             told == [cs EXCEPT !.camStatus = cam]
  <1>1. CASE Recover BY <1>1, RecoverTimers
  <1>2. CASE ~Recover
    <2>1. pc = "Idle" /\ cs \in ControllerSlot /\ cs.status = "Active"
      BY QuietSlot DEF Dispatches, Reading, IInv, SlotTypes
    <2>2. told \in ControllerSlot /\ told.status = "Active"
      <3> HIDE DEF cs
      <3> QED BY <2>1 DEF ControllerSlot
    <2>3. \/ \E t : Settle(s, told, t, sess, g, swallowed[s])
          \/ \E t : Settle(s, cs, t, sess, gate, TRUE)
      <3> HIDE DEF cs
      <3> QED BY <1>2 DEF Dispatched, cs
    <2> HIDE DEF cs, told
    <2> QED BY <2>1, <2>2, <2>3, SettleTimers
  <1> QED BY <1>1, <1>2

LEMMA SpduTimers ==
    ASSUME IInv, TimersHold, NEW s \in Slots,
           \/ \E r \in Kinds : OpenSession(s, r) \/ CloseSession(s, r)
           \/ ApplicationInfo(s) \/ CaInfo(s) \/ OtherObject(s)
    PROVE  TimersHold'
  <1>1. Dispatches(s)
    BY DEF OpenSession, CloseSession, ApplicationInfo, CaInfo, OtherObject
  <1>2. PICK sess, cam, g, frames, callback :
             /\ cam \in {slots[s].camStatus, CamStatus("Active", sess)}
             /\ Dispatched(s, sess, cam, g, frames, callback)
    BY DEF OpenSession, CloseSession, ApplicationInfo, CaInfo, OtherObject
  <1> QED BY <1>1, <1>2, Dispatching, CamType, DispatchedTimers

LEMMA UserCommandTimers ==
    ASSUME IInv, TimersHold, NEW s \in Slots, UserCommand(s)
    PROVE  TimersHold'
  <1>1. CASE Recover BY <1>1, RecoverTimers
  <1>2. CASE ~Recover
    <2>1. PICK t : /\ transport' = [transport EXCEPT ![s] = t]
                   /\ slots' = [slots EXCEPT ![s] = Marked(slots[s], t)]
                   /\ UNCHANGED pc
      BY <1>2 DEF UserCommand, IInv, SlotTypes
    <2>2. /\ pc = "Idle" /\ slots[s] \in ControllerSlot
          /\ slots[s].status = "Active"
      BY DEF UserCommand, IInv, SlotTypes
    <2> QED BY <2>1, <2>2, MarkedTimed, OneSlotTimers
  <1> QED BY <1>1, <1>2

LEMMA ReadErrorTimers == ASSUME IInv, TimersHold, ReadError PROVE TimersHold'
  <1>1. CASE UNCHANGED <<slots, transport, pc, at>>
    BY <1>1 DEF TimersHold, SlotTimed
  <1> QED BY <1>1, RecoverTimers DEF ReadError

LEMMA NextTimers == IInv /\ TimersHold /\ [Next]_vars => TimersHold'
  <1> SUFFICES ASSUME IInv, TimersHold, [Next]_vars PROVE TimersHold'
    OBVIOUS
  <1>1. ASSUME NEW d \in 0 .. MaxStep, Tick(d) PROVE TimersHold'
    BY <1>1, TickTimers
  <1>2. CASE TickDeferred BY <1>2, RecoverTimers DEF TickDeferred
  <1>3. CASE TickStep
    BY <1>3, RefreshTimers, RecoverTimers, ResourcesTimers, DriveTimers, DispatchTimers
       DEF TickStep, RefreshFails
  <1>4. CASE ReadError BY <1>4, ReadErrorTimers
  <1>5. ASSUME NEW s \in Slots, Read(s) \/ UserCommand(s) PROVE TimersHold'
    BY <1>5, ReadStatusTimers, SpduTimers, UserCommandTimers DEF Read
  <1>6. CASE Reset BY <1>6, ResetTimers
  <1>7. CASE UNCHANGED vars
    BY <1>7 DEF vars, TimersHold, SlotTimed
  <1> QED BY <1>1, <1>2, <1>3, <1>4, <1>5, <1>6, <1>7 DEF Next

\* No command is waited for without a clock, on any number of slots: whenever
\* the caller has the controller, an active slot with a command queued or in
\* flight has its command timer, and a slot that waits for its connection the
\* timer of its phase (mark_outstanding, drive_slot).
THEOREM TimersKeepRunning == Spec => []TimersRunning
  <1>1. Init => TimersHold
    BY DEF Init, NewSlot, TimersHold, SlotTimed, ActiveTimed, CreatingTimed
  <1>2. TimersHold => TimersRunning
    BY DEF TimersHold, SlotTimed, ActiveTimed, CreatingTimed, TimersRunning
  <1> QED BY <1>1, <1>2, NextTimers, ControllerInvariant, PTL DEF Spec
=============================================================================
