---------------------------- MODULE TuneRequests ----------------------------
(***************************************************************************)
(* The pure half of src/src/fe/tune.rs: the sequence of DVBv5 properties a *)
(* TuneRequest is lowered to, and the conversion of a root PLS code to the *)
(* index of the Gold sequence that DTV_SCRAMBLING_SEQUENCE_INDEX takes.    *)
(*                                                                         *)
(* The parameters of a request that are copied to their property unchanged *)
(* are one value, its id; the frequency of a satellite request is the one  *)
(* setup_sec() returned; the stream id and the PLS code are numbers.       *)
(***************************************************************************)
EXTENDS Integers, Sequences

CONSTANTS
    PlsBits,    \* width of the shift register: 18 in the program
    PlsTap,     \* the bit that is fed back with bit 0: 7 in the program
    Unset       \* Option::None

ASSUME PlsAssumption == PlsBits \in Nat \ {0} /\ PlsTap \in 1 .. PlsBits - 1

PlsCodeMask == 2 ^ PlsBits - 1
Masked(code) == code % (PlsCodeMask + 1)

(* DvbSTune, DvbS2Tune, ...: mis, annex and stream are Unset where the     *)
(* request has none.                                                       *)
Request(kind, id, mis, annex, stream) ==
    [kind |-> kind, id |-> id, mis |-> mis, annex |-> annex, stream |-> stream]
Mis(mode, code, stream) == [mode |-> mode, code |-> code, stream |-> stream]

(***************************************************************************)
(* Mis::pls_code(): the register starts at 1 and the code is looked for    *)
(* among the first PlsCodeMask of its states.                              *)
(***************************************************************************)
PlsBit(x, i) == (x \div 2 ^ i) % 2

Shifted(x) == ((PlsBit(x, 0) + PlsBit(x, PlsTap)) % 2) * 2 ^ (PlsBits - 1) + x \div 2

PlsState[g \in 0 .. PlsCodeMask] == IF g = 0 THEN 1 ELSE Shifted(PlsState[g - 1])

(* Seeded fault: the last state of the register is not looked at. *)
SeededSearched == 0 .. PlsCodeMask - 2

Searched == 0 .. PlsCodeMask - 1

(* The register is of maximal length: it goes through every code but 0.     *)
ASSUME RegisterAssumption ==
    /\ PlsCodeMask \in Nat \ {0}
    /\ \A code \in 1 .. PlsCodeMask : \E g \in Searched : PlsState[g] = code
    /\ Unset \notin Nat

RootIndex(code) ==
    LET found == {g \in Searched : PlsState[g] = code}
    IN  IF found = {} THEN PlsCodeMask
        ELSE CHOOSE g \in found : \A h \in found : g <= h

PlsCode(mis) ==
    LET code == Masked(mis.code)
    IN  CASE mis.mode # "Root" -> code
          [] mis.mode = "Root" /\ code = 0 -> Unset
          [] OTHER -> RootIndex(code)

(***************************************************************************)
(* The lowering.                                                           *)
(***************************************************************************)
System(r) ==
    CASE r.kind = "DvbS" -> "Dvbs"
      [] r.kind = "DvbS2" -> "Dvbs2"
      [] r.kind = "DvbC" ->
            [A |-> "DvbcAnnexA", B |-> "DvbcAnnexB", C |-> "DvbcAnnexC"][r.annex]
      [] r.kind = "DvbT" -> "Dvbt"
      [] r.kind = "DvbT2" -> "Dvbt2"
      [] r.kind = "Atsc" -> "Atsc"
      [] r.kind = "IsdbT" -> "Isdbt"

Property(name, value) == [name |-> name, value |-> value]
TuneProperty == Property("Tune", 0)

(* The parameters copied to their properties, after the frequency. *)
Copied(kind) ==
    CASE kind = "DvbS" -> <<"Modulation", "Inversion", "SymbolRate", "InnerFec">>
      [] kind = "DvbS2" ->
            <<"Modulation", "Inversion", "SymbolRate", "InnerFec", "Pilot", "Rolloff">>
      [] kind = "DvbC" -> <<"Modulation", "Inversion", "SymbolRate", "InnerFec">>
      [] kind = "DvbT" ->
            <<"Modulation", "BandwidthHz", "Inversion", "CodeRateHp", "CodeRateLp",
              "GuardInterval", "TransmissionMode", "Hierarchy">>
      [] kind = "DvbT2" ->
            <<"Modulation", "BandwidthHz", "Inversion", "CodeRateHp",
              "GuardInterval", "TransmissionMode">>
      [] kind = "Atsc" -> <<"Modulation", "Inversion">>
      [] kind = "IsdbT" -> <<"BandwidthHz", "Inversion">>

(* DTV_STREAM_ID and DTV_SCRAMBLING_SEQUENCE_INDEX, for the requests that  *)
(* have them.                                                              *)
StreamProperties(r) ==
    IF r.kind = "DvbS2" /\ r.mis # Unset
    THEN <<Property("StreamId", r.mis.stream)>> \o
         (IF PlsCode(r.mis) = Unset THEN <<>>
          ELSE <<Property("ScramblingSequenceIndex", PlsCode(r.mis))>>)
    ELSE IF r.kind = "DvbT2" /\ r.stream # Unset
    THEN <<Property("StreamId", r.stream)>>
    ELSE <<>>

Parameters(r, frequency) ==
    << Property("DeliverySystem", System(r)), Property("Frequency", frequency) >>
    \o [i \in DOMAIN Copied(r.kind) |-> Property(Copied(r.kind)[i], r.id)]

(* Seeded fault: the stream is chosen after the tune. *)
SeededTuneFirst(r, frequency) ==
    Parameters(r, frequency) \o <<TuneProperty>> \o StreamProperties(r)

(* TuneRequest::properties() *)
Properties(r, frequency) ==
    Parameters(r, frequency) \o StreamProperties(r) \o <<TuneProperty>>
=============================================================================
