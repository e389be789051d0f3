------------------------------ MODULE Resources ------------------------------
(***************************************************************************)
(* The resources behind the sessions: Resource Manager, Application        *)
(* Information, Host Control, Date-Time and MMI (src/src/ca/resource/),    *)
(* and the functions of session.rs that reach them.  Bytes go all the way: *)
(* a module's SPDU is a frame, the frame is parsed, the objects in it are  *)
(* handled one after another, and the answers are framed again.            *)
(*                                                                         *)
(* The handshakes of a session are CiSession's, its objects in several     *)
(* frames CiTransport's, and the Conditional Access resource has a module  *)
(* of its own: here a session opens and closes in one step.                *)
(***************************************************************************)
EXTENDS ResourceObjects, TLC

CONSTANTS
    Slots,            \* how many slots
    Sessions,         \* bound: session numbers
    Interests,        \* sets of <<slot, resource>>: what the modules open in a behaviour
    Inputs,           \* resource |-> sequences of objects a module writes
    Dialogues,        \* what an MMI module wants shown: [kind, texts, missing]
    Chunks,           \* bytes of a dialogue a module puts in one object
    Answers,          \* texts of the user
    Walls,            \* what the host's clock of the day shows at each second of now
    MaxObjectSize,    \* MAX_OBJECT_SIZE
    MaxNow,           \* bound: seconds
    MaxRevision,      \* bound: application infos taken in all
    None

Names == {"ResourceManager", "ApplicationInfo", "HostControl", "DateTime", "Mmi"}
Times == [days : 0 .. LastMjd - MjdUnixEpoch, seconds : 0 .. DaySeconds - 1]
InfoRecords == [type : Nat, manufacturer : Nat, code : Nat, menu : Seq(Nat)]

ASSUME SlotsAssumption ==
    /\ Slots \in Nat /\ Sessions \subseteq U16
    /\ \A opens \in Interests : opens \subseteq (0 .. Slots - 1) \X Names

(* Until the year 2038 the days fit the two bytes they are told in.        *)
ASSUME WallsAssumption ==
    /\ MaxNow \in Nat
    /\ \A second \in 0 .. MaxNow : Walls[second] \in Times

ASSUME NoneAssumption ==
    /\ None \notin Nat /\ None \notin Seq(Nat) /\ None \notin InfoRecords
    /\ None \notin [slot : Nat, resource : Names, closing : BOOLEAN]
    /\ None \notin [interval : Nat, sent : Nat \cup {None}]
    /\ None \notin [info : InfoRecords \cup {None}, revision : Nat]
    /\ None \notin Sessions \X InfoRecords

VARIABLES
    interest,      \* external: the one of Interests; never changes
    table,         \* session |-> [slot, resource, closing] or None
    applications,  \* ApplicationInfoResource: session |-> [info, revision] or None
    revision,
    clocks,        \* DateTimeResource: session |-> [interval, sent] or None
    fragments,     \* MmiResource: session |-> bytes or None
    now,           \* the monotonic clock, seconds
    events,        \* the events of the last step; the application takes them at once
    out,           \* the objects the last step sent: [session, slot, apdu, wall]
    speaking,      \* external: session |-> the dialogue a module is in the middle of
    heard,         \* observer: what the last step was told, and what it made of it
    supplied,      \* observer: <<session, info>>, in the order the modules supplied it,
                   \* and None where it was something else or the session is gone
    objects,       \* observer: when each session got the time, and the first tick since
    gaps           \* observer: after a tick, the time between periodic objects

hostVars == <<table, applications, revision, clocks, fragments>>
vars == <<interest, hostVars, now, events, out, speaking, heard, supplied, objects, gaps>>

Open == {n \in Sessions : table[n] # None}
Active(s, resource) ==
    {n \in Open : table[n].slot = s /\ table[n].resource = resource /\ ~table[n].closing}

Event(kind, n, what) == [kind |-> kind, session |-> n, what |-> what]
MalformedEvent(n) == Event("Malformed", n, None)

Nothing == [n \in Sessions |-> None]
Never == [at |-> None, ticked |-> None]

Init ==
    /\ interest \in Interests
    /\ table = Nothing
    /\ applications = Nothing /\ revision = 0
    /\ clocks = Nothing
    /\ fragments = Nothing
    /\ now = 0
    /\ events = <<>> /\ out = <<>>
    /\ speaking = Nothing
    /\ heard = None
    /\ supplied = <<>>
    /\ objects = [n \in Sessions |-> Never]
    /\ gaps = None

(***************************************************************************)
(* The callbacks of a resource are functions on what the host keeps: h has *)
(* the resources' state, the events and the objects sent so far, wall the  *)
(* time an object would tell, and close the request to close the session.  *)
(***************************************************************************)
Host ==
    [applications |-> applications, revision |-> revision, clocks |-> clocks,
     fragments |-> fragments, events |-> <<>>, out |-> <<>>, wall |-> Walls[now], close |-> FALSE]

Bad(h, n) == [h EXCEPT !.events = Append(@, MalformedEvent(n))]
Tells(h, kind, n, what) == [h EXCEPT !.events = Append(@, Event(kind, n, what))]
Sends(h, n, tag, body) ==
    [h EXCEPT !.out = Append(@, [session |-> n, apdu |-> Apdu(tag, body), wall |-> h.wall])]
SendsTime(h, n) == Sends(h, n, DateTime, DateTimeBody(h.wall))

(* An object of the module that was read, or the reason it was not.        *)
TellsParsed(h, kind, n, what) == IF what = Malformed THEN Bad(h, n) ELSE Tells(h, kind, n, what)

ResourceManagerOnApdu(h, n, apdu) ==
    CASE apdu.tag = Profile -> Sends(h, n, ProfileChange, <<>>)
      [] apdu.tag = ProfileEnq -> Sends(h, n, Profile, HostProfile)
      [] apdu.tag = ProfileChange -> Sends(h, n, ProfileEnq, <<>>)
      [] OTHER -> Bad(h, n)

(* Seeded fault: a new info does not count as the latest. *)
SeededFirstWins(h, n, apdu) ==
    LET info == ParseApplicationInfo(apdu.body)
    IN  IF apdu.tag # ApplicationInfo \/ info = Malformed \/ h.applications[n] = None
        THEN Bad(h, n)
        ELSE Tells([h EXCEPT
                      !.revision = @ + 1,
                      !.applications[n] =
                          [info |-> info, revision |-> IF @.info = None THEN h.revision + 1
                                                       ELSE @.revision]],
                   "ApplicationInfo", n, info)

ApplicationInfoOnApdu(h, n, apdu) ==
    LET info == ParseApplicationInfo(apdu.body)
    IN  IF apdu.tag # ApplicationInfo \/ info = Malformed \/ h.applications[n] = None
        THEN Bad(h, n)
        ELSE Tells([h EXCEPT !.revision = @ + 1,
                             !.applications[n] = [info |-> info, revision |-> h.revision + 1]],
                   "ApplicationInfo", n, info)

HostControlOnApdu(h, n, apdu) ==
    CASE apdu.tag = HostTune -> TellsParsed(h, "Tune", n, ParseTune(apdu.body))
      [] apdu.tag = Replace -> TellsParsed(h, "Replace", n, ParseReplace(apdu.body))
      [] apdu.tag = ClearReplace ->
             TellsParsed(h, "ClearReplace", n, ParseClearReplace(apdu.body))
      [] OTHER -> Bad(h, n)

(* Seeded fault: the interval runs on from the last object. *)
SeededAnchorKept(h, n, apdu) ==
    LET interval == IF apdu.body = <<>> THEN 0 ELSE apdu.body[1]
    IN  IF apdu.tag # DateTimeEnq THEN Bad(h, n)
        ELSE SendsTime([h EXCEPT !.clocks[n].interval = interval], n)

DateTimeOnApdu(h, n, apdu) ==
    LET interval == IF apdu.body = <<>> THEN 0 ELSE apdu.body[1]
    IN  IF apdu.tag # DateTimeEnq THEN Bad(h, n)
        ELSE SendsTime([h EXCEPT !.clocks[n] = [interval |-> interval, sent |-> None]], n)

(* Seeded fault: the chain of an object that was shown stays.              *)
SeededTakeObject(h, n, body) ==
    [h EXCEPT !.fragments[n] = (IF @ = None THEN <<>> ELSE @) \o body]

(* take_object(): what was collected is the object's from now on.          *)
TakeObject(h, n, body) == [h EXCEPT !.fragments[n] = None]

MmiObject(h, n, body) == (IF h.fragments[n] = None THEN <<>> ELSE h.fragments[n]) \o body

MmiOnApdu(h, n, apdu) ==
    LET body == apdu.body
        object == MmiObject(h, n, body)
        taken == TakeObject(h, n, body)
    IN  CASE apdu.tag \in More ->
               IF Len(object) > MaxObjectSize
               THEN Bad([h EXCEPT !.fragments[n] = None], n)
               ELSE [h EXCEPT !.fragments[n] = object]
          [] apdu.tag = TextLast -> Tells(taken, "Text", n, object)
          [] apdu.tag \in {MenuLast, ListLast} ->
               Tells(taken, IF apdu.tag = MenuLast THEN "Menu" ELSE "List", n,
                     ParseMenu(object))
          [] apdu.tag = CloseMmi ->
               Tells([h EXCEPT !.close = TRUE], "MmiClose", n, CloseDelay(body))
          [] apdu.tag = DisplayControl -> Sends(h, n, DisplayReply, DisplayAnswer(body))
          [] apdu.tag = MmiEnq -> TellsParsed(h, "Enq", n, ParseEnq(body))
          [] OTHER -> Bad(h, n)

OnApdu(h, n, apdu) ==
    LET resource == table[n].resource
    IN  CASE resource = "ResourceManager" -> ResourceManagerOnApdu(h, n, apdu)
          [] resource = "ApplicationInfo" -> ApplicationInfoOnApdu(h, n, apdu)
          [] resource = "HostControl" -> HostControlOnApdu(h, n, apdu)
          [] resource = "DateTime" -> DateTimeOnApdu(h, n, apdu)
          [] resource = "Mmi" -> MmiOnApdu(h, n, apdu)

OnOpen(h, n, resource) ==
    CASE resource = "ResourceManager" -> Sends(h, n, ProfileEnq, <<>>)
      [] resource = "ApplicationInfo" ->
             Sends([h EXCEPT !.applications[n] = [info |-> None, revision |-> 0]],
                   n, ApplicationInfoEnq, <<>>)
      [] resource = "DateTime" ->
             SendsTime([h EXCEPT !.clocks[n] = [interval |-> 0, sent |-> None]], n)
      [] OTHER -> h

(* resource_result(): a write that falls short is an InvalidData like a bad
   object: the answer is lost, what the callback changed before it stays.  *)
Result(h, before, n, short) ==
    IF short /\ h.out # before.out THEN Bad([h EXCEPT !.out = before.out], n) ELSE h

(* dispatch_apdu(): every object in its turn; the write of the answer to
   the one at index `short' falls short.                                   *)
Handle(h, n, item, short) ==
    IF item = Malformed THEN Bad(h, n) ELSE Result(OnApdu(h, n, item), h, n, short)

DispatchApdu(h, n, items, short) ==
    LET handled[i \in 0 .. Len(items)] ==
            IF i = 0 THEN h ELSE Handle(handled[i - 1], n, items[i], i = short)
    IN  handled[Len(items)]

(***************************************************************************)
(* What the observers make of a step.                                      *)
(***************************************************************************)
IsInfo(event) == event.kind = "ApplicationInfo"
Infos(h) ==
    [i \in DOMAIN h.events |->
        IF IsInfo(h.events[i]) THEN << h.events[i].session, h.events[i].what >> ELSE None]
Introduced(h) == {e.session : e \in {x \in ToSet(h.events) : IsInfo(x)}}
Without(gone) ==
    [i \in DOMAIN supplied |->
        IF supplied[i] # None /\ supplied[i][1] \in gone THEN None ELSE supplied[i]]

Timed(h) == {o.session : o \in {x \in ToSet(h.out) : x.apdu.tag = DateTime}}

(* The step ends: h is what the host keeps from now on.                    *)
Commit(h) ==
    /\ applications' = h.applications
    /\ revision' = h.revision
    /\ clocks' = h.clocks
    /\ fragments' = h.fragments
    /\ events' = h.events
    /\ out' = h.out
    /\ gaps' = None
    /\ supplied' = IF Introduced(h) = {} THEN supplied
                   ELSE Without(Introduced(h)) \o Infos(h)
    /\ objects' = [n \in Sessions |->
          IF n \in Timed(h) THEN [at |-> now, ticked |-> None]
          ELSE IF h.clocks[n] # clocks[n] THEN [objects[n] EXCEPT !.ticked = None]
          ELSE objects[n]]

Quiet == events' = <<>> /\ out' = <<>> /\ heard' = None /\ gaps' = None

(***************************************************************************)
(* Sessions open and close.                                                *)
(***************************************************************************)
(* Bound: but for the application information, a module has one session of a
   resource at a time.                                                      *)
OpenSession(s, resource) ==
    LET n == CHOOSE m \in Sessions \ Open : \A k \in Sessions \ Open : m <= k
    IN  /\ Open # Sessions
        /\ \/ resource = "ApplicationInfo"
           \/ \A m \in Open : << table[m].slot, table[m].resource >> # << s, resource >>
        /\ table' = [table EXCEPT ![n] = [slot |-> s, resource |-> resource, closing |-> FALSE]]
        /\ \E short \in BOOLEAN : Commit(Result(OnOpen(Host, n, resource), Host, n, short))
        /\ heard' = None
        /\ UNCHANGED <<now, speaking>>

(* free_session() with on_close of the resource, for all of these sessions. *)
Freed(gone) ==
    /\ table' = [n \in Sessions |-> IF n \in gone THEN None ELSE table[n]]
    /\ applications' = [n \in Sessions |-> IF n \in gone THEN None ELSE applications[n]]
    /\ clocks' = [n \in Sessions |-> IF n \in gone THEN None ELSE clocks[n]]
    /\ fragments' = [n \in Sessions |-> IF n \in gone THEN None ELSE fragments[n]]
    /\ UNCHANGED revision

Ends(gone) ==
    /\ Freed(gone)
    /\ Quiet
    /\ speaking' = [n \in Sessions |-> IF n \in gone THEN None ELSE speaking[n]]
    /\ supplied' = Without(gone)
    /\ objects' = [n \in Sessions |-> IF n \in gone THEN Never ELSE objects[n]]
    /\ UNCHANGED now

(* Closed by the module, or by the host and confirmed.                     *)
CloseSession(n) == n \in Open /\ Ends({n})

(* drop_slot(): the module is gone; or its link failed, with every slot.   *)
DropSlot(s) ==
    /\ \E n \in Open : table[n].slot = s
    /\ Ends({n \in Open : table[n].slot = s})

LinkFails == Open # {} /\ Ends(Open)

(***************************************************************************)
(* A module writes objects on a session of its own.  `cut' bytes are       *)
(* missing at the end of the last object, whose length field does not know;*)
(* `damage' bytes at the end of the frame.                                 *)
(***************************************************************************)
Concat(apdus) == FlattenSeq([i \in DOMAIN apdus |-> BuildApdu(apdus[i])])
Shortened(data, k) == SubSeq(data, 1, Len(data) - k)

(* Bound: what is written at once is in one frame, and its length can be told.
   The parts of dialogues are written by Speaks.                           *)
IsObject(apdu) ==
    /\ apdu \in [tag : Seq(Nat), body : Seq(Nat)]
    /\ Len(apdu.tag) = 3 /\ Len(apdu.body) \in U16

ASSUME InputsAssumption ==
    \A resource \in Names : \A apdus \in Inputs[resource] :
        /\ apdus \in Seq([tag : Seq(Nat), body : Seq(Nat)]) /\ apdus # <<>>
        /\ \A i \in DOMAIN apdus : IsObject(apdus[i]) /\ apdus[i].tag \notin More \cup Closing
        /\ Len(Concat(apdus)) + 5 \in U16

Spdu(n, apdus, cut) == SessionNumber(n) \o Shortened(Concat(apdus), cut)
Frame(n, apdus, cut, damage) ==
    Shortened(ModuleFrame(table[n].slot, Spdu(n, apdus, cut)), damage)

(* What comes out of the frame: the APDUs, or that it is damaged.          *)
ObjectsOf(spdu) == IF spdu = Malformed THEN << Malformed >> ELSE Apdus(spdu.payload)
Unwrapped(body) == IF body = Malformed THEN << Malformed >> ELSE ObjectsOf(ParseSpdu(body))

Received(n, apdus, cut, damage) ==
    Unwrapped(ParseFrame(Frame(n, apdus, cut, damage), Slots))

Hears(n, apdus, cut, damage, short) ==
    \E got \in {Received(n, apdus, cut, damage)} :
    \E h \in {DispatchApdu(Host, n, got, short)} :
        /\ h.revision <= MaxRevision
        /\ Commit(h)
        /\ heard' = [apdus |-> apdus, cut |-> cut, damage |-> damage, got |-> got,
                     meant |-> None]
        /\ table' = IF h.close THEN [table EXCEPT ![n].closing = TRUE] ELSE table
        /\ UNCHANGED now

(* Bound: one fault at a time, <<cut, damage, short>>.  A short write only
   where there is an answer.                                               *)
Answering == {"ResourceManager", "DateTime", "Mmi"}
Faults(resource, apdus) ==
    {<<0, 0, 0>>, <<1, 0, 0>>, <<0, 4, 0>>}
    \cup IF resource \in Answering THEN {<<0, 0, short>> : short \in DOMAIN apdus} ELSE {}

Writes(n) ==
    /\ n \in Open
    /\ \E apdus \in Inputs[table[n].resource] : \E fault \in Faults(table[n].resource, apdus) :
          Hears(n, apdus, fault[1], fault[2], fault[3])
    /\ UNCHANGED speaking

(***************************************************************************)
(* A dialogue (external): a text, or a menu or list, whose texts are       *)
(* objects themselves, in one object or in a chain of them.  The module    *)
(* leaves `missing' bytes out at the end.  `told' is FALSE once the host   *)
(* reported something of it as damaged.                                    *)
(***************************************************************************)
TextObject(text) ==
    IF Len(text) > 1 THEN BuildApdu(Apdu(TextMore, << text[1] >>))
                          \o BuildApdu(Apdu(TextLast, Tail(text)))
    ELSE BuildApdu(Apdu(TextLast, text))

TextObjects(texts) == FlattenSeq([i \in DOMAIN texts |-> TextObject(texts[i])])

DialogueBytes(d) ==
    IF d.kind = "Text" THEN d.texts[1]
    ELSE Shortened(<< Len(d.texts) >> \o TextObjects(d.texts), d.missing)

ASSUME DialoguesAssumption ==
    /\ Chunks \subseteq Nat \ {0}
    /\ None \notin [dialogue : Dialogues, left : Seq(Nat), whole : BOOLEAN]
    /\ \A d \in Dialogues :
          /\ d \in [kind : {"Text", "Menu", "List"}, texts : Seq(Seq(Nat)), missing : Nat]
          /\ d.texts # <<>> /\ \A i \in DOMAIN d.texts : Len(d.texts[i]) \in U16
          /\ d.missing <= Len(TextObjects(d.texts))
          /\ Len(DialogueBytes(d)) + 11 \in U16

MoreTag == [Text |-> TextMore, Menu |-> MenuMore, List |-> ListMore]
LastTag == [Text |-> TextLast, Menu |-> MenuLast, List |-> ListLast]

Begun(d, whole) == [dialogue |-> d, left |-> DialogueBytes(d), whole |-> whole]

Speaks(n) ==
    /\ n \in Open /\ table[n].resource = "Mmi"
    /\ \E d \in IF speaking[n] = None \/ speaking[n].left = <<>>
                THEN {Begun(d, speaking[n] = None \/ speaking[n].whole) : d \in Dialogues}
                ELSE {speaking[n]} :
       \E k \in Chunks, damage \in {0, 1} :
          LET last == Len(d.left) <= k
              tag == (IF last THEN LastTag ELSE MoreTag)[d.dialogue.kind]
              apdu == Apdu(tag, IF last THEN d.left ELSE SubSeq(d.left, 1, k))
          IN  \E got \in {Received(n, << apdu >>, 0, damage)} :
              \E h \in {DispatchApdu(Host, n, got, 0)} :
                 LET reported == \E i \in DOMAIN h.events : h.events[i].kind = "Malformed"
                 IN  /\ Commit(h)
                     /\ heard' = [apdus |-> << apdu >>, cut |-> 0, damage |-> damage,
                                  got |-> got,
                                  meant |-> IF last /\ d.whole THEN d.dialogue ELSE None]
                     /\ speaking' = [speaking EXCEPT ![n] =
                           IF last /\ ~reported THEN None
                           ELSE [d EXCEPT !.left = IF last THEN <<>> ELSE From(d.left, k + 1),
                                          !.whole = @ /\ ~reported]]
    /\ UNCHANGED <<table, now>>

(***************************************************************************)
(* The user's commands.                                                    *)
(***************************************************************************)
Commands(n, tag, body) ==
    /\ Commit(Sends(Host, n, tag, body))
    /\ heard' = None
    /\ UNCHANGED <<table, now, speaking>>

(* info_session(): the largest revision, then the largest number.          *)
InfoSession(s) ==
    LET those == {n \in Sessions : /\ applications[n] # None /\ applications[n].info # None
                                   /\ table[n].slot = s}
        later(m, n) == \/ applications[m].revision > applications[n].revision
                       \/ applications[m].revision = applications[n].revision /\ m > n
    IN  IF those = {} THEN None ELSE CHOOSE n \in those : \A m \in those : ~later(m, n)

FindSession(s, resource) ==
    LET those == Active(s, resource)
    IN  IF those = {} THEN None ELSE CHOOSE n \in those : \A m \in those : n <= m

(* enter_menu(): the module that introduced itself last, or else any.      *)
MenuSession(s) ==
    LET confirmed == InfoSession(s)
    IN  IF confirmed \in Active(s, "ApplicationInfo") THEN confirmed
        ELSE FindSession(s, "ApplicationInfo")

EnterMenuOf(s) == MenuSession(s) # None /\ Commands(MenuSession(s), EnterMenu, <<>>)

ReleaseHost(s) ==
    /\ FindSession(s, "HostControl") # None
    /\ Commands(FindSession(s, "HostControl"), AskRelease, <<>>)

(* mmi_menu_answer(), mmi_list_close(), mmi_answer(), mmi_close(): on the
   exact session, as long as nobody closes it.  Bound: while the module is
   not in the middle of a dialogue.                                        *)
ASSUME AnswersAssumption ==
    \A text \in Answers : text \in Seq(Nat) /\ Len(BuildAnsw(text)) \in U16

MmiAnswers ==
    {Apdu(MenuAnsw, << choice >>) : choice \in {0, 2}}
    \cup {Apdu(Answ, BuildAnsw(text)) : text \in Answers}
    \cup {Apdu(Answ, CancelAnsw), Apdu(CloseMmi, BuildClose)}

MmiCommand(n) ==
    /\ \E s \in 0 .. Slots - 1 : n \in Active(s, "Mmi")
    /\ speaking[n] = None
    /\ \E apdu \in MmiAnswers : Commands(n, apdu.tag, apdu.body)

(***************************************************************************)
(* on_tick() of the Date-Time resource; the other resources have none.     *)
(***************************************************************************)
Due(n) ==
    /\ clocks[n] # None
    /\ clocks[n].interval # 0
    /\ clocks[n].sent # None
    /\ now - clocks[n].sent >= clocks[n].interval

Anchored(n) == clocks[n] # None /\ clocks[n].interval # 0 /\ clocks[n].sent = None

Tick ==
    LET due == {n \in Sessions : Due(n)}
    IN  /\ out' = SetToSeq({[session |-> n, wall |-> Walls[now],
                             apdu |-> Apdu(DateTime, DateTimeBody(Walls[now]))] : n \in due})
        /\ clocks' = [n \in Sessions |-> IF n \in due \/ Anchored(n)
                                         THEN [clocks[n] EXCEPT !.sent = now] ELSE clocks[n]]
        /\ gaps' = [n \in {m \in due : objects[m].at # None} |-> now - objects[n].at]
        /\ objects' = [n \in Sessions |->
              IF n \in due THEN [at |-> now, ticked |-> now]
              ELSE IF table[n] # None /\ objects[n].ticked = None
              THEN [objects[n] EXCEPT !.ticked = now] ELSE objects[n]]
        /\ events' = <<>> /\ heard' = None
        /\ UNCHANGED <<table, applications, revision, fragments, now, speaking, supplied>>

(* Bound: time only passes where it is told. *)
Wait ==
    /\ now < MaxNow
    /\ \E i \in interest : i[2] = "DateTime"
    /\ now' = now + 1
    /\ Quiet
    /\ UNCHANGED <<hostVars, speaking, supplied, objects>>

Step ==
    \/ \E i \in interest : OpenSession(i[1], i[2])
    \/ \E n \in Sessions : CloseSession(n)
    \/ \E s \in 0 .. Slots - 1 : DropSlot(s)
    \/ LinkFails
    \/ \E n \in Sessions : Writes(n)
    \/ \E n \in Sessions : Speaks(n)
    \/ \E s \in 0 .. Slots - 1 : EnterMenuOf(s)
    \/ \E s \in 0 .. Slots - 1 : ReleaseHost(s)
    \/ \E n \in Sessions : MmiCommand(n)
    \/ Tick
    \/ Wait

Next == Step /\ UNCHANGED interest

Spec == Init /\ [][Next]_vars

(***************************************************************************)
(* Properties.                                                             *)
(***************************************************************************)
(* The resources read the objects the module wrote, one by one and in its
   order, as long as they are whole; one cut short is reported, with nothing
   of it taken, and a damaged frame is refused as a whole, whatever its bytes
   look like (apdu::iter, spdu::parse, tpdu::parse, asn1::decode).         *)
WholeObjects(apdus, size) ==
    {i \in DOMAIN apdus : Len(Concat(SubSeq(apdus, 1, i))) <= size}

ApdusArrive ==
    heard # None =>
        LET size == Len(Concat(heard.apdus)) - heard.cut
            whole == SubSeq(heard.apdus, 1, Cardinality(WholeObjects(heard.apdus, size)))
        IN  heard.got = IF heard.damage > 0 THEN << Malformed >>
                        ELSE whole \o IF Len(Concat(whole)) = size THEN <<>>
                                      ELSE << Malformed >>

(* What the application asks about a slot, and where its enter_menu goes, is
   the application in the module that introduced itself last among those still
   there: no older info survives a newer one's session, and no closed session
   takes the info of a live one with it (info_session, enter_menu).        *)
Supplied(s) ==
    {i \in DOMAIN supplied : supplied[i] # None /\ table[supplied[i][1]].slot = s}
IsLatest(i, s) == i \in Supplied(s) /\ \A j \in Supplied(s) : j <= i

InfoFromLatest ==
    /\ \A s \in 0 .. Slots - 1 :
          IF Supplied(s) = {} THEN InfoSession(s) = None
          ELSE \A i \in DOMAIN supplied : IsLatest(i, s) =>
                  supplied[i] = << InfoSession(s), applications[InfoSession(s)].info >>
    /\ \A o \in ToSet(out), i \in DOMAIN supplied :
          o.apdu.tag = EnterMenu /\ IsLatest(i, table[o.session].slot)
              => o.session = supplied[i][1]

(* A module that asked for the time every so often is not told sooner than it
   asked after any telling, an enquiry's included, and after a tick nothing
   is overdue by more than the ticks are apart; and what it is told is the
   time (DateTimeResource::on_tick, on_apdu, date_time_body).              *)
FromBcd(byte) == 10 * (byte \div 16) + (byte % 16)
Reads(body) ==
    [days |-> 256 * body[1] + body[2] - MjdUnixEpoch,
     seconds |-> 3600 * FromBcd(body[3]) + 60 * FromBcd(body[4]) + FromBcd(body[5])]

TimeIsTold ==
    /\ gaps # None =>
          /\ \A n \in DOMAIN gaps : gaps[n] >= clocks[n].interval
          /\ \A n \in Sessions :
                clocks[n] # None /\ clocks[n].interval # 0
                    => now - objects[n].ticked < clocks[n].interval
    /\ \A o \in ToSet(out) : o.apdu.tag = DateTime => Reads(o.apdu.body) = o.wall

(* A text, menu or list is shown as the module composed it, whether it came in
   one object or in a chain, and with nothing of an earlier dialogue or of an
   earlier session of that number; of one the module left unfinished, the
   texts that are whole are shown, in their places.  Unless a loss since the
   last one was reported (MmiResource, parse_menu).                        *)
TextsWhole(d) ==
    {i \in DOMAIN d.texts :
        1 + Len(TextObjects(SubSeq(d.texts, 1, i))) <= Len(DialogueBytes(d))}

AsMeant(d) ==
    LET whole == SubSeq(d.texts, 1, Cardinality(TextsWhole(d)))
    IN  IF d.kind = "Text" THEN d.texts[1]
        ELSE [header |-> [i \in 1 .. 3 |-> IF i <= Len(whole) THEN whole[i] ELSE <<>>],
              items |-> From(whole, 4)]

ObjectsWhole ==
    heard # None /\ heard.meant # None /\ heard.damage = 0 =>
        /\ Len(events) = 1
        /\ events[1].kind = heard.meant.kind
        /\ events[1].what = AsMeant(heard.meant)

(* The frames of an answer are ones a module can take: none is larger than
   the module's buffer, every length field is true, all but the last announce
   more, and together they are the object on the session it is meant for
   (send_apdu, send_spdu, tpdu::build).                                    *)
BodyOf(frame) == From(frame, 5 + Decode(From(frame, 4)).size)

RepliesReadable ==
    \A o \in ToSet(out) :
        LET s == table[o.session].slot
            frames == Frames(s, Blob(o.session, o.apdu))
            blob == FlattenSeq([i \in DOMAIN frames |-> BodyOf(frames[i])])
        IN  /\ \A i \in DOMAIN frames :
                  /\ Len(frames[i]) <= MaxTpduSize
                  /\ Decode(From(frames[i], 4)).value = Len(BodyOf(frames[i])) + 1
                  /\ frames[i][3] = IF i = Len(frames) THEN DataLast ELSE DataMore
            /\ ParseSpdu(blob).session = o.session
            /\ Apdus(ParseSpdu(blob).payload) = << o.apdu >>
=============================================================================
