----------------------------- MODULE CiSession -----------------------------
(***************************************************************************)
(* The session layer of src/src/ca/session.rs: one table of session        *)
(* numbers for all slots, the opening and closing handshakes, which both   *)
(* sides may start, and the resources' state that is kept under a session  *)
(* number.  CiTransport delivers SPDUs in order; what it reports damaged   *)
(* is lost to this layer, and so is what a resource's callback drops from  *)
(* the queue by a failed write that is not propagated.                     *)
(*                                                                         *)
(* A number is used again as soon as it is free.  Every successful opening *)
(* therefore gets an identity of its own, `opening', which the program     *)
(* does not have: entries and SPDUs carry it as an observer, and no        *)
(* decision looks at it.                                                   *)
(***************************************************************************)
EXTENDS Naturals, FiniteSets, Sequences

CONSTANTS
    Slots,
    MaxSlotSessions,    \* MAX_SLOT_SESSIONS
    MaxOpenings,        \* bound: openings a module asks for in all
    MaxWire,            \* bound: SPDUs on their way, above which nobody starts
    MaxLost,            \* bound: SPDUs lost in either direction
    None

(* Mmi closes its session from the host's side; Plain stands for the other
   resources; Unknown for a resource or a version the host does not have.  *)
Resource == {"Mmi", "Plain", "Unknown"}

VARIABLES
    sessions,    \* the table: number |-> entry or None; it never shrinks
    fragments,   \* the chains of the MMI resource, under session numbers
    events,      \* observer: the sessions open according to the events
    toHost,      \* SPDUs from the module in each slot
    toModule,    \* SPDUs queued for or sent to it
    modules,     \* the sessions each module believes in
    openings,    \* observer: how many sessions were opened
    lost         \* observer: how many SPDUs were lost, in either direction

hostVars == <<sessions, fragments, events>>
vars == <<sessions, fragments, events, toHost, toModule, modules, openings, lost>>

Session == [slot : Slots, resource : Resource \ {"Unknown"},
            state : {"Active", "Closing"}, opening : Nat]

ASSUME SessionsAssumption ==
    /\ IsFiniteSet(Slots)
    /\ MaxSlotSessions \in Nat \ {0}
    /\ MaxOpenings \in Nat
    /\ MaxWire \in Nat
    /\ MaxLost \in Nat
    /\ None \notin Session

(* An SPDU: its tag, the session number, the opening it was sent for (an
   observer), and the resource, status or object it carries.               *)
Spdu(tag, n, g, what) == [tag |-> tag, number |-> n, opening |-> g, what |-> what]

Close == [tag : {"close"}, number : Nat, opening : Nat, what : {"Ok"}]
Closed == [tag : {"closed"}, number : Nat, opening : Nat,
           what : {"Ok", "NotAllocated", "Denied"}]
Object == [tag : {"object"}, number : Nat, opening : Nat,
           what : {"More", "Object", "CloseMmi"}]
Open == [tag : {"open"}, number : {0}, opening : {0}, what : Resource]
Opened == [tag : {"opened"}, number : Nat, opening : Nat, what : {"Ok", "Refused"}]
Belief == [number : Nat, opening : Nat, closing : BOOLEAN]

Init ==
    /\ sessions = << >>
    /\ fragments = {}
    /\ events = {}
    /\ toHost = [s \in Slots |-> << >>]
    /\ toModule = [s \in Slots |-> << >>]
    /\ modules = [s \in Slots |-> {}]
    /\ openings = 0
    /\ lost = 0

(***************************************************************************)
(* The table.                                                              *)
(***************************************************************************)
Live == {n \in DOMAIN sessions : sessions[n] # None}
InUse(s) == {n \in Live : sessions[n].slot = s}
Vacant == DOMAIN sessions \ Live

(* alloc_session: the first vacant number, or one more.                    *)
NextNumber ==
    IF Vacant = {} THEN Len(sessions) + 1
    ELSE CHOOSE n \in Vacant : \A m \in Vacant : n <= m

Allocated(n, session) ==
    [m \in DOMAIN sessions \cup {n} |-> IF m = n THEN session ELSE sessions[m]]

(* Seeded fault: no SessionClosed. *)
SeededFreedSilently(numbers) ==
    /\ sessions' = [n \in DOMAIN sessions |-> IF n \in numbers THEN None ELSE sessions[n]]
    /\ fragments' = {f \in fragments : f.number \notin numbers}
    /\ UNCHANGED events

(* Seeded fault: the resource is not told, no on_close. *)
SeededChainKept(numbers) ==
    /\ sessions' = [n \in DOMAIN sessions |-> IF n \in numbers THEN None ELSE sessions[n]]
    /\ events' = events \ numbers
    /\ UNCHANGED fragments

(* free_session for each of the numbers: the resource forgets what it keeps
   under the number, and the application is told.                          *)
Freed(numbers) ==
    /\ sessions' = [n \in DOMAIN sessions |-> IF n \in numbers THEN None ELSE sessions[n]]
    /\ fragments' = {f \in fragments : f.number \notin numbers}
    /\ events' = events \ numbers

SetState(n, state) == sessions' = [sessions EXCEPT ![n].state = state]

(***************************************************************************)
(* The host reads one SPDU (recv_filtered, dispatch_spdu).                 *)
(***************************************************************************)
Arrived(s) == Head(toHost[s])
Read(s, tag) ==
    /\ toHost[s] # << >>
    /\ Arrived(s).tag = tag
    /\ toHost' = [toHost EXCEPT ![s] = Tail(@)]

Send(s, spdu) == toModule' = [toModule EXCEPT ![s] = Append(@, spdu)]

(* A resource's callback sends, and its write is cut short: flush_slot has
   dropped the frame at the head of the queue, the callback's own or one that
   waited before it, and resource_result makes the error a Malformed event, so
   that nobody resets the slot.  Which of the SPDUs were written by then is
   left open.  Bound: an object is one frame, as all are that the resources
   send by themselves; CiTransport has the longer ones.                     *)
Without(spdus, i) ==
    [j \in 1 .. Len(spdus) - 1 |-> IF j < i THEN spdus[j] ELSE spdus[j + 1]]

Swallows(s, spdus) ==
    /\ lost < MaxLost
    /\ \E i \in 1 .. Len(spdus) : toModule' = [toModule EXCEPT ![s] = Without(spdus, i)]
    /\ lost' = lost + 1

(* A callback's answer, or nothing, behind what is queued.                 *)
Answers(s, queued, answer) ==
    \/ toModule' = [toModule EXCEPT ![s] = queued \o answer] /\ UNCHANGED lost
    \/ answer # << >> /\ Swallows(s, queued \o answer)

(* What a resource answers, on the session n: an object, or nothing.       *)
MayAnswer(n, g) == {<< >>, <<Spdu("object", n, g, "Object")>>}

(* on_open of the resource may send the first object.                      *)
Welcome(r, n, g) == IF r = "Mmi" THEN {<< >>} ELSE MayAnswer(n, g)

(* Seeded fault: one session too many. *)
SeededOneMore(s) ==
    LET r == Arrived(s).what
        n == NextNumber
        g == openings + 1
    IN  /\ Read(s, "open")
        /\ r # "Unknown"
        /\ Cardinality(InUse(s)) <= MaxSlotSessions
        /\ sessions' = Allocated(n, [slot |-> s, resource |-> r,
                                     state |-> "Active", opening |-> g])
        /\ openings' = g
        /\ events' = events \cup {n}
        /\ Send(s, Spdu("opened", n, g, "Ok"))
        /\ UNCHANGED <<fragments, modules, lost>>

OpenGranted(s) ==
    LET r == Arrived(s).what
        n == NextNumber
        g == openings + 1
    IN  /\ Read(s, "open")
        /\ r # "Unknown"
        /\ Cardinality(InUse(s)) < MaxSlotSessions
        /\ sessions' = Allocated(n, [slot |-> s, resource |-> r,
                                     state |-> "Active", opening |-> g])
        /\ openings' = g
        /\ events' = events \cup {n}
        /\ \E first \in Welcome(r, n, g) :
              Answers(s, Append(toModule[s], Spdu("opened", n, g, "Ok")), first)
        /\ UNCHANGED <<fragments, modules>>

OpenRefused(s) ==
    /\ Read(s, "open")
    /\ Arrived(s).what = "Unknown" \/ Cardinality(InUse(s)) >= MaxSlotSessions
    /\ Send(s, Spdu("opened", 0, 0, "Refused"))
    /\ UNCHANGED <<hostVars, modules, openings, lost>>

(* dispatch_apdu: objects are taken on a session that is closing, too.     *)
ObjectUnknown(s) ==
    /\ Read(s, "object")
    /\ Arrived(s).number \notin InUse(s)
    /\ UNCHANGED <<hostVars, toModule, modules, openings, lost>>

ObjectKnown(s, resource) ==
    /\ Read(s, "object")
    /\ Arrived(s).number \in InUse(s)
    /\ sessions[Arrived(s).number].resource = resource
    /\ UNCHANGED <<events, modules, openings>>

(* Another resource, or an object of the dialogue that is no part of a chain. *)
ObjectAnswered(s) ==
    LET n == Arrived(s).number
    IN  /\ \/ ObjectKnown(s, "Plain")
           \/ ObjectKnown(s, "Mmi") /\ Arrived(s).what = "Object"
        /\ \E answer \in MayAnswer(n, sessions[n].opening) : Answers(s, toModule[s], answer)
        /\ UNCHANGED <<sessions, fragments>>

(* A *_more object begins or extends the chain of its session, or is too much
   for it; a *_last one hands it over.                                      *)
MmiMore(s) ==
    /\ ObjectKnown(s, "Mmi")
    /\ Arrived(s).what = "More"
    /\ fragments' = fragments \cup
          {[number |-> Arrived(s).number, opening |-> Arrived(s).opening]}
    /\ UNCHANGED <<sessions, toModule, lost>>

MmiTaken(s) ==
    /\ ObjectKnown(s, "Mmi")
    /\ Arrived(s).what \in {"More", "Object"}
    /\ fragments' = {f \in fragments : f.number # Arrived(s).number}
    /\ UNCHANGED <<sessions, toModule, lost>>

(* Seeded fault: the request is not sent. *)
SeededCloseUnasked(s) ==
    LET n == Arrived(s).number
    IN  /\ ObjectKnown(s, "Mmi")
        /\ Arrived(s).what = "CloseMmi"
        /\ IF sessions[n].state = "Active" THEN SetState(n, "Closing") ELSE UNCHANGED sessions
        /\ UNCHANGED <<fragments, toModule, lost>>

(* close_mmi: request_close, unless the session is closing already.        *)
MmiClose(s) ==
    LET n == Arrived(s).number
    IN  /\ ObjectKnown(s, "Mmi")
        /\ Arrived(s).what = "CloseMmi"
        /\ IF sessions[n].state = "Active"
           THEN /\ SetState(n, "Closing")
                /\ Send(s, Spdu("close", n, sessions[n].opening, "Ok"))
           ELSE UNCHANGED <<sessions, toModule>>
        /\ UNCHANGED <<fragments, lost>>

(* close_session: the module closes, whatever the state of the session.    *)
CloseKnown(s) ==
    LET n == Arrived(s).number
    IN  /\ Read(s, "close")
        /\ n \in InUse(s)
        /\ Send(s, Spdu("closed", n, Arrived(s).opening, "Ok"))
        /\ Freed({n})
        /\ UNCHANGED <<modules, openings, lost>>

CloseUnknown(s) ==
    /\ Read(s, "close")
    /\ Arrived(s).number \notin InUse(s)
    /\ Send(s, Spdu("closed", Arrived(s).number, Arrived(s).opening, "NotAllocated"))
    /\ UNCHANGED <<hostVars, modules, openings, lost>>

(* close_session_complete.                                                 *)
IsClosing(s, n) == n \in InUse(s) /\ sessions[n].state = "Closing"

CloseUnexpected(s) ==
    /\ Read(s, "closed")
    /\ ~IsClosing(s, Arrived(s).number)
    /\ UNCHANGED <<hostVars, toModule, modules, openings, lost>>

CloseComplete(s) ==
    LET n == Arrived(s).number
    IN  /\ Read(s, "closed")
        /\ IsClosing(s, n)
        /\ Arrived(s).what \in {"Ok", "NotAllocated"}
        /\ Freed({n})
        /\ UNCHANGED <<toModule, modules, openings, lost>>

(* Seeded fault: any status completes the close. *)
SeededDenialFrees(s) ==
    /\ Read(s, "closed")
    /\ IsClosing(s, Arrived(s).number)
    /\ Arrived(s).what = "Denied"
    /\ Freed({Arrived(s).number})
    /\ UNCHANGED <<toModule, modules, openings, lost>>

CloseDenied(s) ==
    /\ Read(s, "closed")
    /\ IsClosing(s, Arrived(s).number)
    /\ Arrived(s).what = "Denied"
    /\ SetState(Arrived(s).number, "Active")
    /\ UNCHANGED <<fragments, events, toModule, modules, openings, lost>>

Handle(s) ==
    \/ OpenGranted(s)
    \/ OpenRefused(s)
    \/ ObjectUnknown(s)
    \/ ObjectAnswered(s)
    \/ MmiMore(s)
    \/ MmiTaken(s)
    \/ MmiClose(s)
    \/ CloseKnown(s)
    \/ CloseUnknown(s)
    \/ CloseUnexpected(s)
    \/ CloseComplete(s)
    \/ CloseDenied(s)

(***************************************************************************)
(* The other callers.                                                      *)
(***************************************************************************)
Room(s) == Len(toHost[s]) + Len(toModule[s]) < MaxWire

(* A command of the user, or an object of a resource's timer, on an active
   session (require_session, find_session, tick_at).                       *)
Command(s) ==
    /\ Room(s)
    /\ \E n \in InUse(s) :
          /\ sessions[n].state = "Active"
          /\ Send(s, Spdu("object", n, sessions[n].opening, "Object"))
    /\ UNCHANGED <<hostVars, toHost, modules, openings, lost>>

(* drop_slot for each of the slots: one, when its module is gone, or all,
   when a write failed outside the callbacks, or for good, and the controller
   reset the interface.  The modules start afresh.                         *)
Dropped(gone) ==
    /\ Freed(UNION {InUse(s) : s \in gone})
    /\ toHost' = [s \in Slots |-> IF s \in gone THEN << >> ELSE toHost[s]]
    /\ toModule' = [s \in Slots |-> IF s \in gone THEN << >> ELSE toModule[s]]
    /\ modules' = [s \in Slots |-> IF s \in gone THEN {} ELSE modules[s]]
    /\ UNCHANGED <<openings, lost>>

DropSlot(s) == Dropped({s})
RecoverAll == Dropped(Slots)

(***************************************************************************)
(* The modules (external).                                                 *)
(***************************************************************************)
Deliver(s, spdu) == toHost' = [toHost EXCEPT ![s] = Append(@, spdu)]

Asked ==
    {p \in Slots \X (1 .. MaxWire) :
        p[2] <= Len(toHost[p[1]]) /\ toHost[p[1]][p[2]].tag = "open"}

AskOpen(s, r) ==
    /\ Room(s)
    /\ openings + Cardinality(Asked) < MaxOpenings
    /\ Deliver(s, Spdu("open", 0, 0, r))
    /\ UNCHANGED <<hostVars, toModule, modules, openings, lost>>

SendObject(s, what) ==
    /\ Room(s)
    /\ \E e \in modules[s] :
          /\ ~e.closing
          /\ Deliver(s, Spdu("object", e.number, e.opening, what))
    /\ UNCHANGED <<hostVars, toModule, modules, openings, lost>>

AskClose(s) ==
    /\ Room(s)
    /\ \E e \in modules[s] :
          /\ ~e.closing
          /\ modules' = [modules EXCEPT ![s] = (@ \ {e}) \cup {[e EXCEPT !.closing = TRUE]}]
          /\ Deliver(s, Spdu("close", e.number, e.opening, "Ok"))
    /\ UNCHANGED <<hostVars, toModule, openings, lost>>

(* A module that names a session it does not have: no session is number 0.
   Bound: only when it has none at all and nothing is on its way.          *)
NoSession == {Spdu("object", 0, 0, "Object"), Spdu("close", 0, 0, "Ok")}
Stray(s) ==
    /\ modules[s] = {} /\ toHost[s] = << >> /\ toModule[s] = << >>
    /\ \E spdu \in NoSession : Deliver(s, spdu)
    /\ UNCHANGED <<hostVars, toModule, modules, openings, lost>>

(* The module reads one SPDU.  A host's close_session_request for a session
   it is closing itself may be answered, "not allocated", or be ignored.   *)
Told(s) == Head(toModule[s])
ModuleReads(s, tag) ==
    /\ toModule[s] # << >>
    /\ Told(s).tag = tag
    /\ toModule' = [toModule EXCEPT ![s] = Tail(@)]
    /\ UNCHANGED <<hostVars, openings, lost>>

TakesOpened(s) ==
    /\ ModuleReads(s, "opened")
    /\ modules' = IF Told(s).what # "Ok" THEN modules
                  ELSE [modules EXCEPT ![s] =
                          {e \in @ : e.number # Told(s).number}
                          \cup {[number |-> Told(s).number, opening |-> Told(s).opening,
                                 closing |-> FALSE]}]
    /\ UNCHANGED toHost

TakesClosed(s) ==
    /\ ModuleReads(s, "closed")
    /\ modules' = [modules EXCEPT ![s] = {e \in @ : ~(e.closing /\ e.number = Told(s).number)}]
    /\ UNCHANGED toHost

TakesObject(s) ==
    /\ ModuleReads(s, "object")
    /\ UNCHANGED <<toHost, modules>>

Reply(s, status) == Deliver(s, Spdu("closed", Told(s).number, Told(s).opening, status))

AgreesToClose(s) ==
    LET open == {e \in modules[s] : e.number = Told(s).number /\ ~e.closing}
    IN  /\ ModuleReads(s, "close")
        /\ open # {}
        /\ modules' = [modules EXCEPT ![s] = @ \ open]
        /\ Reply(s, "Ok")

DeniesClose(s) ==
    /\ ModuleReads(s, "close")
    /\ \E e \in modules[s] : e.number = Told(s).number /\ ~e.closing
    /\ Reply(s, "Denied")
    /\ UNCHANGED modules

HasNothingToClose(s) ==
    /\ ModuleReads(s, "close")
    /\ \A e \in modules[s] : e.number = Told(s).number => e.closing
    /\ \/ Reply(s, "NotAllocated")
       \/ UNCHANGED toHost
    /\ UNCHANGED modules

ModuleTakes(s) ==
    \/ TakesOpened(s)
    \/ TakesClosed(s)
    \/ TakesObject(s)
    \/ AgreesToClose(s)
    \/ DeniesClose(s)
    \/ HasNothingToClose(s)

(* An SPDU the transport found damaged, or parse() rejected.               *)
Lose(s) ==
    /\ lost < MaxLost
    /\ toHost[s] # << >>
    /\ toHost' = [toHost EXCEPT ![s] = Tail(@)]
    /\ lost' = lost + 1
    /\ UNCHANGED <<hostVars, toModule, modules, openings>>

Next ==
    \/ RecoverAll
    \/ \E s \in Slots :
          \/ Handle(s)
          \/ Command(s)
          \/ DropSlot(s)
          \/ \E r \in Resource : AskOpen(s, r)
          \/ \E what \in {"More", "Object", "CloseMmi"} : SendObject(s, what)
          \/ AskClose(s)
          \/ Stray(s)
          \/ ModuleTakes(s)
          \/ Lose(s)

Spec == Init /\ [][Next]_vars

(* Frames are read as they arrive and modules answer.                      *)
Fairness == \A s \in Slots : WF_vars(Handle(s)) /\ WF_vars(ModuleTakes(s))
FairSpec == Spec /\ Fairness

-----------------------------------------------------------------------------
TypeOK ==
    /\ sessions \in Seq(Session \cup {None})
    /\ fragments \subseteq [number : Nat, opening : Nat]
    /\ events \subseteq Nat
    /\ toHost \in [Slots -> Seq(Open \cup Object \cup Close \cup Closed)]
    /\ toModule \in [Slots -> Seq(Opened \cup Object \cup Close \cup Closed)]
    /\ modules \in [Slots -> SUBSET Belief]
    /\ openings \in Nat
    /\ lost \in 0 .. MaxLost

(* No module exhausts the numbers of the others, and the table stays as
   small as the limits of all slots together, however often sessions come
   and go (alloc_session).                                                 *)
SlotCap == \A s \in Slots : Cardinality(InUse(s)) <= MaxSlotSessions
TableBounded == Len(sessions) <= Cardinality(Slots) * MaxSlotSessions
TableShared == SlotCap /\ TableBounded

(* A session a module works with exists: the host frees it only after the
   module asked for it or agreed, or with the whole slot.                  *)
SessionsExist ==
    \A s \in Slots : \A e \in modules[s] :
        ~e.closing => /\ e.number \in InUse(s)
                      /\ sessions[e.number].opening = e.opening

(* Objects reach the session they were sent on, or none: no number is taken
   for its successor, in either direction (dispatch_apdu, send_apdu).      *)
ObjectsReachTheirSession ==
    \A s \in Slots :
        /\ \A i \in DOMAIN toHost[s] :
              LET spdu == toHost[s][i]
              IN  spdu.tag = "object" /\ spdu.number \in InUse(s)
                    => spdu.opening = sessions[spdu.number].opening
        /\ toModule[s] # << >> /\ Told(s).tag = "object" =>
              \A e \in modules[s] :
                  e.number = Told(s).number /\ ~e.closing => e.opening = Told(s).opening

(* When nothing is on its way and nothing was lost, host and module have the
   same sessions and neither is closing one.                               *)
Agreement ==
    \A s \in Slots :
        (lost = 0 /\ toHost[s] = << >> /\ toModule[s] = << >>) =>
            modules[s] = {[number |-> n, opening |-> sessions[n].opening,
                           closing |-> sessions[n].state = "Closing"] : n \in InUse(s)}
            /\ \A n \in InUse(s) : sessions[n].state = "Active"

(* The sessions an application counts from the events are those that exist. *)
EventsTellTheTable == events = Live

(* A chain of the MMI resource belongs to the session that has the number
   now: nothing a session leaves behind reaches its successor.             *)
ChainsBelong ==
    \A f \in fragments :
        f.number \in Live /\ sessions[f.number].opening = f.opening

(* A close the host asked for comes to an end, if the module's SPDUs arrive:
   the session is freed, or active again if the module denied.             *)
Closing(g) == \E n \in Live : sessions[n].opening = g /\ sessions[n].state = "Closing"
ClosesEnd == \A g \in 1 .. MaxOpenings : Closing(g) ~> (~Closing(g) \/ lost > 0)

(* A close response ends the close it answers, never a later one of the same
   number: one left over from a close that both sides asked for at the same
   time does no harm (close_session_complete).                             *)
ResponsesMatch ==
    \A s \in Slots :
        toHost[s] # << >> /\ Arrived(s).tag = "closed" /\ IsClosing(s, Arrived(s).number)
            => sessions[Arrived(s).number].opening = Arrived(s).opening

(* The number of a session that ended is taken for its successor's by nothing:
   no object, no response and no chain (free_session, alloc_session).      *)
NumbersNeverCross == ObjectsReachTheirSession /\ ResponsesMatch /\ ChainsBelong

(* What a module works with the host has, at every moment, and once nothing is
   on its way both have the same.                                          *)
SidesAgree == SessionsExist /\ Agreement
=============================================================================
