----------------------------- MODULE CiTransport -----------------------------
(***************************************************************************)
(* src/ca/transport.rs over a link that may refuse or break a write,   *)
(* against a module (CAM) that answers every command with one frame, some  *)
(* of which arrive damaged.                                                *)
(*                                                                         *)
(* SPDUs are numbered, and cut into pieces that fill one TPDU each. The    *)
(* module reassembles what the host writes the way the host reassembles    *)
(* what the module sends. CREATE_TC and RCV are the Control frame.         *)
(***************************************************************************)
EXTENDS TransportSlot, FiniteSets

CONSTANTS Slots,        \* slot ids below slots_num
          MaxParts,     \* most pieces of one SPDU of the host
          MaxPieces,    \* most pieces of one SPDU of the module
          Capacity,     \* pieces the reassembly buffer holds (MAX_TPDU_SIZE)
          MaxSent,      \* bound on SPDUs the host sends per slot
          MaxAnswered,  \* bound on SPDUs the module sends per slot
          MaxControl,   \* bound on queued control frames per slot
          None

ASSUME BoundAssumption == /\ MaxParts \in Nat \ {0}
                          /\ MaxPieces \in Nat \ {0}
                          /\ Capacity \in Nat \ {0}
                          /\ MaxSent \in Nat
                          /\ MaxAnswered \in Nat
                          /\ MaxControl \in Nat

VARIABLES slot,       \* transport state of each slot
          resetOwed,  \* a write failed: the slot manager must reset the slot
          sent,       \* SPDUs the host has sent
          holed,      \* SPDUs a swallowed error left incomplete (observer)
          camRx,      \* pieces the module has collected
          camGot,     \* the last SPDU the module completed
          camOwes,    \* the module has not answered the last command yet
          camTx,      \* the SPDU the module is sending
          answered,   \* SPDUs the module has started to send
          reply,      \* the module's answer on its way to the host
          received,   \* what the last recv_apdu() returned (TransportRecv)
          reported    \* Malformed returned since the last SPDU (observer)

hostVars == <<slot, resetOwed, sent, holed>>
camVars == <<camRx, camGot, camOwes, camTx, answered, reply>>
vars == <<hostVars, camVars, received, reported>>

Control == [tag |-> "Control", msg |-> 0, part |-> 0, of |-> 0]
Data(m, i, k) == [tag |-> IF i < k THEN "DataMore" ELSE "DataLast",
                  msg |-> m, part |-> i, of |-> k]
Fragments(m, k) == [i \in 1 .. k |-> Data(m, i, k)]

Init == /\ slot = [s \in Slots |-> EmptySlot]
        /\ resetOwed = [s \in Slots |-> FALSE]
        /\ sent = [s \in Slots |-> 0]
        /\ holed = [s \in Slots |-> {}]
        /\ camRx = [s \in Slots |-> <<>>]
        /\ camGot = [s \in Slots |-> <<>>]
        /\ camOwes = [s \in Slots |-> FALSE]
        /\ camTx = [s \in Slots |-> None]
        /\ answered = [s \in Slots |-> 0]
        /\ reply = [s \in Slots |-> None]
        /\ received = None
        /\ reported = [s \in Slots |-> FALSE]

-----------------------------------------------------------------------------
(* The module takes a frame the link accepted. *)
CamTakes(s, frame) ==
    /\ camOwes' = [camOwes EXCEPT ![s] = TRUE]
    /\ CASE frame.tag = "Control"  -> UNCHANGED <<camRx, camGot>>
         [] frame.tag = "DataMore" ->
                /\ camRx' = [camRx EXCEPT ![s] = Append(@, frame)]
                /\ UNCHANGED camGot
         [] frame.tag = "DataLast" ->
                /\ camGot' = [camGot EXCEPT ![s] = Append(camRx[s], frame)]
                /\ camRx' = [camRx EXCEPT ![s] = <<>>]
    /\ UNCHANGED <<camTx, answered, reply>>

\* flush_slot() on slot state t: busy or empty, a write the link accepts, and
\* one it refuses for now (WouldBlock, Interrupted).
FlushOk(s, t) ==
    \/ /\ CanWrite(t)
       /\ slot' = [slot EXCEPT ![s] = Written(t)]
       /\ CamTakes(s, Head(t.queue))
    \/ /\ slot' = [slot EXCEPT ![s] = t]
       /\ UNCHANGED camVars

\* Seeded fault: the frame is dropped and nobody learns of it.
FlushFailsSilently(s, t) ==
    /\ CanWrite(t)
    /\ slot' = [slot EXCEPT ![s] = WriteFailed(t)]
    /\ UNCHANGED <<resetOwed, holed, camVars>>

\* ... and one that fails for good: the error reaches the slot manager.
FlushFails(s, t) ==
    /\ CanWrite(t)
    /\ slot' = [slot EXCEPT ![s] = WriteFailed(t)]
    /\ resetOwed' = [resetOwed EXCEPT ![s] = TRUE]
    /\ UNCHANGED <<holed, camVars>>

\* Seeded fault: new frames overtake the queued ones.
QueuedInFront(s, frames, i) ==
    [slot[s] EXCEPT !.queue = SubSeq(frames, 1, i) \o @]

\* The slot with the first i of the given frames queued. Only the first write
\* attempt that is not refused can end the idle time, so queueing the frames
\* one by one with a flush after each is queueing a prefix and one flush.
Queued(s, frames, i) == [slot[s] EXCEPT !.queue = @ \o SubSeq(frames, 1, i)]

SendFrames(s, frames) ==
    \/ /\ FlushOk(s, Queued(s, frames, Len(frames)))
       /\ UNCHANGED <<resetOwed, holed>>
    \/ \E i \in 1 .. Len(frames) : FlushFails(s, Queued(s, frames, i))

\* A resource's callback sends SPDU m and its i-th piece meets a short write:
\* the head of the queue, whosever piece it is, is dropped and the later
\* pieces are not queued. resource_result() reports a malformed object, so
\* nobody resets the slot and what is queued still goes out.
SendSwallowed(s, m, k) ==
    \E i \in 1 .. k :
        LET t == Queued(s, Fragments(m, k), i)
            dropped == {Head(t.queue)} \ {Control}
        IN /\ CanWrite(t)
           /\ slot' = [slot EXCEPT ![s] = WriteFailed(t)]
           /\ holed' = [holed EXCEPT ![s] = @ \cup {f.msg : f \in dropped}
                                             \cup {m : j \in i + 1 .. k}]
           /\ UNCHANGED <<resetOwed, camVars>>

\* send_apdu() / send_spdu(): k pieces, a failed write ends the loop. The
\* empty TT_DATA_LAST that polls the module is an SPDU of one piece here.
SendSpdu(s, k) ==
    /\ ~resetOwed[s]
    /\ sent[s] < MaxSent
    /\ \/ SendFrames(s, Fragments(sent[s] + 1, k))
       \/ SendSwallowed(s, sent[s] + 1, k)
    /\ sent' = [sent EXCEPT ![s] = @ + 1]
    /\ received' = None
    /\ UNCHANGED reported

\* send_tpdu() of TT_CREATE_TC or TT_RCV.
SendControl(s) ==
    /\ ~resetOwed[s]
    /\ Cardinality({i \in DOMAIN slot[s].queue :
                       slot[s].queue[i].tag = "Control"}) < MaxControl
    /\ SendFrames(s, <<Control>>)
    /\ received' = None
    /\ UNCHANGED <<sent, reported>>

\* flush(): after a read event, on a tick, when the descriptor is writable.
Flush(s) ==
    /\ ~resetOwed[s]
    /\ CanWrite(slot[s])
    /\ \/ FlushOk(s, slot[s]) /\ UNCHANGED <<resetOwed, holed>>
       \/ FlushFails(s, slot[s])
    /\ received' = None
    /\ UNCHANGED <<sent, reported>>

\* The slot manager gives the slot up: clear_slot() beside a CA_RESET or the
\* removal of the module, either of which ends the module's connection.
ClearSlot(s) ==
    /\ slot' = [slot EXCEPT ![s] = EmptySlot]
    /\ resetOwed' = [resetOwed EXCEPT ![s] = FALSE]
    /\ camRx' = [camRx EXCEPT ![s] = <<>>]
    /\ camOwes' = [camOwes EXCEPT ![s] = FALSE]
    /\ camTx' = [camTx EXCEPT ![s] = None]
    /\ reply' = [reply EXCEPT ![s] = None]
    /\ reported' = [reported EXCEPT ![s] = FALSE]
    /\ received' = None
    /\ UNCHANGED <<sent, holed, camGot, answered>>

TakeDataPending(s) ==
    /\ slot[s].dataPending
    /\ slot' = [slot EXCEPT ![s].dataPending = FALSE]
    /\ received' = None
    /\ UNCHANGED <<resetOwed, sent, holed, camVars, reported>>

-----------------------------------------------------------------------------
(* The module answers a command with exactly one frame. *)
Answer(s, frame) ==
    /\ camOwes[s]
    /\ camOwes' = [camOwes EXCEPT ![s] = FALSE]
    /\ \E tag \in {frame.tag, "Damaged"} :
           reply' = [reply EXCEPT ![s] = [frame EXCEPT !.tag = tag]]
    /\ received' = None
    /\ UNCHANGED <<hostVars, camRx, camGot, reported>>

Frame(tag, body, di) == [tag |-> tag, body |-> body, di |-> di]

\* A bare status, a TT_CTC_REPLY, or a tag this host does not expect.
AnswerStatus(s) ==
    /\ \E tag \in {"Sb", "CtcReply", "Unexpected"}, di \in BOOLEAN :
           Answer(s, Frame(tag, <<>>, di))
    /\ UNCHANGED <<camTx, answered>>

\* The next piece of the module's SPDU, or of a new one; the last piece may
\* come with TT_DATA_LAST or be followed by an empty one.
AnswerData(s) ==
    \E tx \in IF camTx[s] = None /\ answered[s] < MaxAnswered
              THEN [msg : {answered[s] + 1}, part : {1}, of : 1 .. MaxPieces]
              ELSE {camTx[s]} \ {None} :
        LET ended == tx.part > tx.of
            body == IF ended THEN <<>> ELSE <<tx>>
            next == [tx EXCEPT !.part = @ + 1]
        IN /\ answered' = [answered EXCEPT ![s] = tx.msg]
           /\ \/ /\ tx.part >= tx.of
                 /\ Answer(s, Frame("DataLast", body, FALSE))
                 /\ camTx' = [camTx EXCEPT ![s] = None]
              \/ /\ ~ended
                 /\ Answer(s, Frame("DataMore", body, TRUE))
                 /\ camTx' = [camTx EXCEPT ![s] = next]

-----------------------------------------------------------------------------
(* recv_apdu() of the frame f from slot s. *)
Status(s) == [kind |-> "Status", slot |-> s]
TcReply(s) == [kind |-> "TcReply", slot |-> s]
MalformedFrame(s) == [kind |-> "Malformed", slot |-> s]
Spdu(s, body) ==
    [kind |-> "Spdu", slot |-> s, body |-> body, reported |-> reported[s]]

Return(s, t, result) ==
    /\ slot' = [slot EXCEPT ![s] = t]
    /\ received' = result
    /\ reported' = [reported EXCEPT ![s] =
                        CASE result.kind = "Malformed" -> TRUE
                          [] result.kind = "Spdu" -> FALSE
                          [] OTHER -> @]

\* Seeded fault: the damaged frame passes for a bare status.
RecvDamagedSilently(s, t, f) ==
    f.tag = "Damaged" /\ Return(s, Heard(t), Status(s))

\* A frame that does not parse: nothing but the busy flag changes.
RecvDamaged(s, t, f) ==
    f.tag = "Damaged" /\ Return(s, Heard(t), MalformedFrame(s))

RecvControl(s, t, f) ==
    \/ f.tag = "Sb" /\ Return(s, HeardWell(t, f.di), Status(s))
    \/ f.tag = "CtcReply" /\ Return(s, HeardWell(t, f.di), TcReply(s))
    \/ f.tag = "Unexpected" /\ Return(s, HeardWell(t, f.di), MalformedFrame(s))

RecvData(s, t, f) ==
    LET heard == HeardWell(t, f.di)
        buffer == Reassembled(t, f.body)
    IN /\ f.tag \in {"DataMore", "DataLast"}
       /\ \/ /\ Overflows(t, f.body, Capacity)
             /\ Return(s, [heard EXCEPT !.rx = <<>>], MalformedFrame(s))
          \/ /\ ~Overflows(t, f.body, Capacity)
             /\ ~HandsOver(t, f.tag = "DataLast", f.body)
             /\ Return(s, [heard EXCEPT !.rx = buffer], Status(s))
          \/ /\ ~Overflows(t, f.body, Capacity)
             /\ HandsOver(t, f.tag = "DataLast", f.body)
             /\ Return(s, [heard EXCEPT !.rx = <<>>], Spdu(s, buffer))

Recv(s) ==
    /\ ~resetOwed[s]
    /\ reply[s] # None
    /\ reply' = [reply EXCEPT ![s] = None]
    /\ \/ RecvDamaged(s, slot[s], reply[s])
       \/ RecvControl(s, slot[s], reply[s])
       \/ RecvData(s, slot[s], reply[s])
    /\ UNCHANGED <<resetOwed, sent, holed, camRx, camGot, camOwes, camTx,
                   answered>>

Next == \E s \in Slots : \/ \E k \in 1 .. MaxParts : SendSpdu(s, k)
                         \/ SendControl(s)
                         \/ Flush(s)
                         \/ ClearSlot(s)
                         \/ TakeDataPending(s)
                         \/ AnswerStatus(s)
                         \/ AnswerData(s)
                         \/ Recv(s)

Spec == Init /\ [][Next]_vars

\* The slot manager flushes after every read event and on every tick and
\* resets a slot whose write failed, the descriptor becomes writable, the
\* module answers and the loop reads; nobody has to send anything.
Fairness ==
    \A s \in Slots :
        /\ WF_vars(Flush(s) /\ slot'[s].queue # slot[s].queue)
        /\ WF_vars(AnswerStatus(s) \/ AnswerData(s))
        /\ WF_vars(Recv(s))
        /\ WF_vars(resetOwed[s] /\ ClearSlot(s))

FairSpec == Spec /\ Fairness

-----------------------------------------------------------------------------
Pieces == [tag : {"Control", "DataMore", "DataLast"},
           msg : Nat, part : Nat, of : Nat]
TxPieces == [msg : Nat, part : Nat, of : Nat]
Replies == [tag : {"Sb", "CtcReply", "Unexpected", "DataMore", "DataLast",
                   "Damaged"},
            body : Seq(TxPieces), di : BOOLEAN]
Results == [kind : {"Status", "TcReply", "Malformed"}, slot : Slots]
    \cup [kind : {"Spdu"}, slot : Slots, body : Seq(TxPieces),
          reported : BOOLEAN]

\* Option::None is neither a frame nor an SPDU.
ASSUME NoneAssumption == None \notin TxPieces /\ None \notin Replies

SlotType == [busy : BOOLEAN, queue : Seq(Pieces), rx : Seq(TxPieces),
             dataPending : BOOLEAN]

TypeOK == /\ slot \in [Slots -> SlotType]
          /\ resetOwed \in [Slots -> BOOLEAN]
          /\ sent \in [Slots -> Nat]
          /\ holed \in [Slots -> SUBSET Nat]
          /\ camRx \in [Slots -> Seq(Pieces)]
          /\ camGot \in [Slots -> Seq(Pieces)]
          /\ camOwes \in [Slots -> BOOLEAN]
          /\ camTx \in [Slots -> TxPieces \cup {None}]
          /\ answered \in [Slots -> Nat]
          /\ reply \in [Slots -> Replies \cup {None}]
          /\ received \in Results \cup {None}
          /\ reported \in [Slots -> BOOLEAN]

\* The command-response rule: while the module owes an answer, or its answer
\* is on the way, the slot is busy and no second command can be written.
CommandResponse ==
    \A s \in Slots : /\ camOwes[s] \/ reply[s] # None => slot[s].busy
                     /\ ~(camOwes[s] /\ reply[s] # None)

\* Whatever writes were refused, interleaved or failed, every SPDU the module
\* puts together is one SPDU of the host, whole and in order, unless it has a
\* piece of an SPDU that a swallowed short write had left incomplete: that
\* error damages the SPDU of the dropped piece, the callback's own and what
\* the module takes for their end, and no other.
CamGotWhole ==
    \A s \in Slots : camGot[s] # <<>> =>
        \/ camGot[s] = Fragments(camGot[s][1].msg, Len(camGot[s]))
        \/ \E i \in DOMAIN camGot[s] : camGot[s][i].msg \in holed[s]

\* ... and the SPDUs arrive in the order they were sent, none twice: even one
\* put together from several has no piece the module was given before.
CamGotInOrder ==
    [][\A s \in Slots : camGot'[s] # camGot[s] /\ camGot[s] # <<>> =>
           camGot'[s][1].msg > camGot[s][Len(camGot[s])].msg]_vars

\* In what the module has collected followed by what is queued, the pieces of
\* each SPDU stand side by side, from the first to the last, except those of
\* the SPDUs in holes.
IsData(frame) == /\ frame = Data(frame.msg, frame.part, frame.of)
                 /\ frame.part \in 1 .. frame.of

Linked(x, holes) ==
    \A i \in 1 .. Len(x) :
        /\ x[i] = Control \/ IsData(x[i])
        /\ x[i].tag = "DataMore" =>
               \/ i < Len(x) /\ x[i + 1] = Data(x[i].msg, x[i].part + 1, x[i].of)
               \/ x[i].msg \in holes
        /\ x[i].part > 1 =>
               \/ i > 1 /\ x[i - 1] = Data(x[i].msg, x[i].part - 1, x[i].of)
               \/ x[i].msg \in holes

\* What the module has collected is the beginning of one SPDU.
Begun(rx, holes) ==
    /\ \A i \in 1 .. Len(rx) : rx[i].tag = "DataMore"
    /\ \/ \A i \in 1 .. Len(rx) : rx[i] = Data(rx[1].msg, i, rx[1].of)
       \/ \E i \in 1 .. Len(rx) : rx[i].msg \in holes

ChainIntact ==
    \A s \in Slots : ~resetOwed[s] =>
        /\ Linked(camRx[s] \o slot[s].queue, holed[s])
        /\ Begun(camRx[s], holed[s])

\* Everything collected or queued is later than the last SPDU the module
\* completed, and stands in the order it was sent.
Sequential(x, got, n) ==
    /\ got # <<>> => got[Len(got)].msg <= n
    /\ \A i \in 1 .. Len(x) : x[i].tag # "Control" =>
           /\ x[i].msg <= n
           /\ got # <<>> => got[Len(got)].msg < x[i].msg
    /\ \A i, j \in 1 .. Len(x) :
           i < j /\ x[i].tag # "Control" /\ x[j].tag # "Control" =>
               /\ x[i].msg <= x[j].msg
               /\ x[i].tag = "DataLast" => x[i].msg < x[j].msg

OrderIntact ==
    \A s \in Slots :
        Sequential(camRx[s] \o slot[s].queue, camGot[s], sent[s])

\* A received SPDU is whole, unless the loss was reported as Malformed after
\* the previous SPDU of the slot: no silent corruption.
WholeAnswer(body) ==
    body = [i \in 1 .. Len(body) |->
               [msg |-> body[1].msg, part |-> i, of |-> Len(body)]]

LossIsReported ==
    received # None => (received.kind = "Spdu" =>
        WholeAnswer(received.body) \/ received.reported)

\* Until a loss is reported, the reassembly buffer, together with the piece on
\* its way, is what the module has sent of its SPDU; and a last piece on its
\* way leaves the module with nothing more to send.
Before(tx) == [i \in 1 .. tx.part - 1 |->
                  [msg |-> tx.msg, part |-> i, of |-> tx.of]]

Follows(b, tx) == IF tx = None
                  THEN b = <<>>
                  ELSE tx.part \in 2 .. tx.of + 1 /\ b = Before(tx)

Stream(rx, f, tx) ==
    IF f = None THEN Follows(rx, tx)
    ELSE CASE f.tag = "DataMore" -> Follows(rx \o f.body, tx)
           [] f.tag = "DataLast" -> WholeAnswer(rx \o f.body)
           [] f.tag = "Damaged" -> TRUE
           [] OTHER -> Follows(rx, tx)

StreamIntact ==
    \A s \in Slots :
        /\ reply[s] # None => (reply[s].tag = "DataLast" => camTx[s] = None)
        /\ ~reported[s] => Stream(slot[s].rx, reply[s], camTx[s])

\* TransportRecv::Spdu is "a complete reassembled SPDU".
DeliveredWhole ==
    received # None => (received.kind = "Spdu" => WholeAnswer(received.body))

\* No SPDU is stranded in a queue: it is written out, or the slot is reset.
HasData(s) == \E i \in DOMAIN slot[s].queue : slot[s].queue[i].tag # "Control"
SpdusLeave == \A s \in Slots : HasData(s) ~> ~HasData(s)
=============================================================================
