-------------------------------- MODULE Wire --------------------------------
(***************************************************************************)
(* The byte codecs of the Common Interface: the length field of asn1.rs,   *)
(* the objects of apdu.rs, the session header of spdu.rs and the frames of *)
(* tpdu.rs, all under src/src/ca/.                                         *)
(*                                                                         *)
(* A byte is a number; Base is 256 and Half, the SIZE_INDICATOR, 128 in    *)
(* the program. Tags keep their numbers whatever Base is.                  *)
(***************************************************************************)
EXTENDS Integers, Sequences

CONSTANTS
    Base, Half,
    MaxTpduSize,    \* MAX_TPDU_SIZE
    Malformed       \* Err(InvalidData)

(* A size fits two bytes, and an error is nothing that can be read.        *)
Sizes ==
    /\ Base \in Nat /\ Half \in Nat /\ 2 < Half /\ Half + 2 < Base
    /\ MaxTpduSize \in Nat /\ MaxTpduSize > 7
    /\ MaxTpduSize < Base * Base
    /\ Malformed \notin [value : Nat, size : 1 .. 3]
    /\ Malformed \notin [value : Seq(Nat), size : Nat]
    /\ Malformed \notin [tag : Seq(Nat), body : Seq(Nat)]
    /\ Malformed \notin [session : Nat, payload : Seq(Nat)] /\ Malformed \notin Seq(Nat)
    /\ Malformed \notin [apdu : [tag : Seq(Nat), body : Seq(Nat)], size : Nat]

ASSUME WireAssumption == Sizes

U16 == 0 .. Base * Base - 1

From(data, i) == SubSeq(data, i, Len(data))

(***************************************************************************)
(* asn1.rs                                                                 *)
(***************************************************************************)
Short(n) == << n >>
Medium(n) == << Half + 1, n >>
Long(n) == << Half + 2, n \div Base, n % Base >>

Encode(n) ==
    IF n < Half THEN Short(n) ELSE IF n < Base THEN Medium(n) ELSE Long(n)

Length(value, size) == [value |-> value, size |-> size]

Decode(data) ==
    IF data = <<>> THEN Malformed
    ELSE IF data[1] < Half THEN Length(data[1], 1)
    ELSE IF data[1] = Half + 1 /\ Len(data) >= 2 THEN Length(data[2], 2)
    ELSE IF data[1] = Half + 2 /\ Len(data) >= 3
    THEN Length(data[2] * Base + data[3], 3)
    ELSE Malformed

(***************************************************************************)
(* apdu.rs: a tag of three bytes, a length, a body.                        *)
(***************************************************************************)
Tag(a, b) == << 159, a, b >>
ProfileEnq == Tag(128, 16)
Profile == Tag(128, 17)
ProfileChange == Tag(128, 18)
ApplicationInfoEnq == Tag(128, 32)
ApplicationInfo == Tag(128, 33)
EnterMenu == Tag(128, 34)
HostTune == Tag(132, 0)
Replace == Tag(132, 1)
ClearReplace == Tag(132, 2)
AskRelease == Tag(132, 3)
DateTimeEnq == Tag(132, 64)
DateTime == Tag(132, 65)
CloseMmi == Tag(136, 0)
DisplayControl == Tag(136, 1)
DisplayReply == Tag(136, 2)
TextLast == Tag(136, 3)
TextMore == Tag(136, 4)
MmiEnq == Tag(136, 7)
Answ == Tag(136, 8)
MenuLast == Tag(136, 9)
MenuMore == Tag(136, 10)
MenuAnsw == Tag(136, 11)
ListLast == Tag(136, 12)
ListMore == Tag(136, 13)

Apdu(tag, body) == [tag |-> tag, body |-> body]

BuildApdu(apdu) == apdu.tag \o Encode(Len(apdu.body)) \o apdu.body

(* Seeded fault: the length is not compared with what is there.            *)
SeededObjectAt(data, length) ==
    LET end == 3 + length.size + length.value
    IN  IF length = Malformed THEN Malformed
        ELSE [apdu |-> Apdu(SubSeq(data, 1, 3), From(data, 4 + length.size)),
              size |-> IF end < Len(data) THEN end ELSE Len(data)]

(* parse_at(): the object at the start of data and where the next begins.  *)
ObjectAt(data, length) ==
    LET end == 3 + length.size + length.value
    IN  IF length = Malformed THEN Malformed
        ELSE IF Len(data) < end THEN Malformed
        ELSE [apdu |-> Apdu(SubSeq(data, 1, 3), SubSeq(data, 4 + length.size, end)),
              size |-> end]

ParseAt(data) ==
    IF Len(data) < 3 THEN Malformed ELSE ObjectAt(data, Decode(From(data, 4)))

(* iter(): consecutive objects; an error is yielded once and is the last.  *)
Apdus(data) ==
    LET after[i \in 0 .. Len(data)] ==
            LET Continued(next) == IF next = Malformed THEN << Malformed >>
                                   ELSE << next.apdu >> \o after[i + next.size]
            IN  IF i = Len(data) THEN <<>> ELSE Continued(ParseAt(From(data, i + 1)))
    IN  after[0]

(***************************************************************************)
(* spdu.rs                                                                 *)
(***************************************************************************)
TwoBytes(n) == << n \div Base, n % Base >>
SessionNumber(session) == << 144, 2 >> \o TwoBytes(session)

(* parse() of a session_number object; the other objects carry no APDUs.   *)
ParseSpdu(data) ==
    IF Len(data) < 4 THEN Malformed
    ELSE IF data[1] # 144 \/ data[2] # 2 THEN Malformed
    ELSE [session |-> data[3] * Base + data[4], payload |-> From(data, 5)]

(***************************************************************************)
(* tpdu.rs: a frame is <<slot, t_c_id, tag, length, t_c_id, body>>, and    *)
(* from the module a status object at its end.                             *)
(***************************************************************************)
(* Seeded fault: the header counted without its length field. *)
SeededTpduData == MaxTpduSize - 4

(* A frame of the host has seven bytes more, its length field at its longest. *)
MaxTpduData == MaxTpduSize - 7
DataLast == 160
DataMore == 161
StatusTag == 128

DataFrame(slot, tag, data) ==
    << slot, slot + 1, tag >> \o Encode(Len(data) + 1) \o << slot + 1 >> \o data

Status(slot, indicator) == << StatusTag, 2, slot + 1, indicator >>
ModuleFrame(slot, data) == DataFrame(slot, DataLast, data) \o Status(slot, 0)

(* parse() of a data frame: its body. *)
FrameBody(frame, length) ==
    IF length = Malformed THEN Malformed
    ELSE IF length.value < 1 \/ 3 + length.size + length.value + 4 # Len(frame)
    THEN Malformed
    ELSE IF frame[4 + length.size] # frame[2] THEN Malformed
    ELSE SubSeq(frame, 5 + length.size, Len(frame) - 4)

ParseFrame(frame, slots) ==
    IF Len(frame) < 5 THEN Malformed
    ELSE IF frame[2] \notin 1 .. slots \/ frame[1] # frame[2] - 1 THEN Malformed
    ELSE IF SubSeq(frame, Len(frame) - 3, Len(frame) - 1)
            # << StatusTag, 2, frame[2] >> THEN Malformed
    ELSE IF frame[3] \notin {DataLast, DataMore} THEN Malformed
    ELSE FrameBody(frame, Decode(From(frame, 4)))

(* send_apdu(), send_spdu(): the frames of one object of the host.         *)
Blob(session, apdu) == SessionNumber(session) \o BuildApdu(apdu)

Pieces(blob) == (Len(blob) + MaxTpduData - 1) \div MaxTpduData

Frames(slot, blob) ==
    [i \in 1 .. Pieces(blob) |->
        LET last == i = Pieces(blob)
            data == SubSeq(blob, (i - 1) * MaxTpduData + 1,
                           IF last THEN Len(blob) ELSE i * MaxTpduData)
        IN  DataFrame(slot, IF last THEN DataLast ELSE DataMore, data)]
=============================================================================
