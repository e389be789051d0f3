--------------------------- MODULE ResourceObjects ---------------------------
(***************************************************************************)
(* What the resources of src/src/ca/resource/ put into the bodies of their *)
(* objects and read from the module's.  Malformed stands for the errors    *)
(* of InvalidData: the object is dropped and reported.                     *)
(***************************************************************************)
EXTENDS Wire, SequencesExt

At(body, i) == IF i \in DOMAIN body THEN body[i] ELSE Malformed
U16At(body, i) == 256 * body[i] + body[i + 1]

(***************************************************************************)
(* application_info.rs                                                     *)
(***************************************************************************)
ParseApplicationInfo(body) ==
    IF Len(body) < 6 THEN Malformed
    ELSE IF Len(body) < 6 + body[6] THEN Malformed
    ELSE [type |-> body[1], manufacturer |-> U16At(body, 2), code |-> U16At(body, 4),
          menu |-> SubSeq(body, 7, 6 + body[6])]

(***************************************************************************)
(* date_time.rs.  The time of the host's clock: days since the Unix epoch  *)
(* and seconds of the day.                                                 *)
(***************************************************************************)
MjdUnixEpoch == 40587
LastMjd == 65535
DaySeconds == 86400
Bcd(value) == 16 * (value \div 10) + (value % 10)

DateTimeBody(wall) ==
    LET mjd == IF MjdUnixEpoch + wall.days > LastMjd THEN LastMjd ELSE MjdUnixEpoch + wall.days
    IN  << mjd \div 256, mjd % 256,
           Bcd(wall.seconds \div 3600),
           Bcd((wall.seconds \div 60) % 60),
           Bcd(wall.seconds % 60) >>

(***************************************************************************)
(* mmi.rs                                                                  *)
(***************************************************************************)
More == {TextMore, MenuMore, ListMore}
Closing == {TextLast, MenuLast, ListLast}

(* parse_text(): a text_more chain closed by text_last, and its size.      *)
ParseText(data) ==
    LET text[i \in 0 .. Len(data)] ==
            LET Chained(next) ==
                    IF next = Malformed THEN Malformed
                    ELSE IF next.apdu.tag = TextLast
                    THEN [value |-> next.apdu.body, size |-> next.size]
                    ELSE IF next.apdu.tag = TextMore /\ text[i + next.size] # Malformed
                    THEN [value |-> next.apdu.body \o text[i + next.size].value,
                          size |-> next.size + text[i + next.size].size]
                    ELSE Malformed
            IN  Chained(ParseAt(From(data, i + 1)))
    IN  text[0]

(* The texts from the start of the data up to the first damaged one.       *)
ParseTexts(data) ==
    LET texts[i \in 0 .. Len(data)] ==
            LET Continued(next) == IF next = Malformed THEN <<>>
                                   ELSE << next.value >> \o texts[i + next.size]
            IN  Continued(ParseText(From(data, i + 1)))
    IN  texts[0]

(* parse_menu(): title, subtitle and bottom line, then the items.          *)
Menu(texts) ==
    [header |-> [i \in 1 .. 3 |-> IF i \in DOMAIN texts THEN texts[i] ELSE <<>>],
     items |-> From(texts, 4)]

ParseMenu(body) == Menu(ParseTexts(From(body, 2)))

(* on_apdu(): the answer to display_control, which knows one mode.         *)
DisplayAnswer(body) ==
    IF At(body, 1) = 1 /\ At(body, 2) = 1 THEN << 1, 1 >>
    ELSE IF At(body, 1) = 1 THEN << 241 >> ELSE << 240 >>

CloseDelay(body) == IF At(body, 1) = 1 THEN At(body, 2) ELSE Malformed

ParseEnq(body) ==
    IF Len(body) < 2 THEN Malformed
    ELSE [blind |-> body[1] % 2 = 1, length |-> body[2], text |-> From(body, 3)]

BuildAnsw(text) == << 1 >> \o text
CancelAnsw == << 0 >>
BuildClose == << 0 >>

(***************************************************************************)
(* host_control.rs and rm.rs                                               *)
(***************************************************************************)
ReadPid(body, i) == 256 * (body[i] % 32) + body[i + 1]

ParseTune(body) ==
    IF Len(body) < 8 THEN Malformed ELSE [i \in 1 .. 4 |-> U16At(body, 2 * i - 1)]

ParseReplace(body) ==
    IF Len(body) < 5 THEN Malformed
    ELSE [ref |-> body[1], replaced |-> ReadPid(body, 2), replacement |-> ReadPid(body, 4)]

ParseClearReplace(body) == IF body = <<>> THEN Malformed ELSE [ref |-> body[1]]

HostProfile == << 0, 1, 0, 65,  0, 2, 0, 65,  0, 3, 0, 65,
                  0, 32, 0, 65,  0, 36, 0, 65,  0, 64, 0, 65 >>
=============================================================================
