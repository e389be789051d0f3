-------------------------------- MODULE Sec --------------------------------
(***************************************************************************)
(* The pure half of src/src/fe/sec.rs: which intermediate frequency and    *)
(* band tone an LNB gives for a transponder, and the sequence of SEC       *)
(* commands that puts the transponder in front of the frontend.            *)
(*                                                                         *)
(* Frequencies are numbers of MHz and kHz.  A u32 is a number below Word   *)
(* and its unchecked product wraps; bytes are numbers below 256, and a bit *)
(* set by `|' is added, which is the same as long as the fields of a byte  *)
(* do not overlap: LineServesTune checks that they do not.                 *)
(***************************************************************************)
EXTENDS Integers, Sequences

CONSTANTS
    Word,       \* 2^32 in the program
    Error       \* Err(InvalidData)

ASSUME WordAssumption == Word \in Nat /\ Word > 65536

Voltage == {"V13", "V18", "Off"}
Tone == {"On", "Off"}

(***************************************************************************)
(* The LNB.                                                                *)
(***************************************************************************)
Passthrough == [kind |-> "Passthrough"]
Single(lof) == [kind |-> "Single", lof |-> lof]
Universal(low, high, switch) ==
    [kind |-> "Universal", low |-> low, high |-> high, switch |-> switch]
CBand(lof) == [kind |-> "CBand", lof |-> lof]

Bands == <<
    [from |-> 950,   to |-> 2150,  lnb |-> Passthrough],
    [from |-> 2500,  to |-> 2700,  lnb |-> CBand(3650)],
    [from |-> 3400,  to |-> 4200,  lnb |-> CBand(5150)],
    [from |-> 4500,  to |-> 4800,  lnb |-> CBand(5750)],
    [from |-> 10700, to |-> 13249, lnb |-> Universal(9750, 10600, 11700)] >>

(* Lnb::auto: the bands do not overlap; Error stands for None. *)
LnbAuto(mhz) ==
    LET fits == {i \in DOMAIN Bands : Bands[i].from <= mhz /\ mhz <= Bands[i].to}
    IN  IF fits = {} THEN Error ELSE Bands[CHOOSE i \in fits : TRUE].lnb

LnbOffset(from, subtract) == IF from < subtract THEN Error ELSE from - subtract

(* Seeded fault: the band edge belongs to the low band. *)
SeededBand(lnb, mhz) ==
    IF lnb.kind = "Universal" /\ mhz > lnb.switch THEN "On" ELSE "Off"

BandOf(lnb, mhz) ==
    IF lnb.kind = "Universal" /\ mhz >= lnb.switch THEN "On" ELSE "Off"

(* Lnb::intermediate; the tone is BandOf. *)
Intermediate(lnb, mhz) ==
    CASE lnb.kind = "Passthrough" -> mhz
      [] lnb.kind = "Single" -> LnbOffset(mhz, lnb.lof)
      [] lnb.kind = "CBand" -> LnbOffset(lnb.lof, mhz)
      [] lnb.kind = "Universal" ->
            LnbOffset(mhz, IF BandOf(lnb, mhz) = "On" THEN lnb.high ELSE lnb.low)

(***************************************************************************)
(* Commands, configurations and sequences.                                 *)
(***************************************************************************)
SetTone(tone) == [do |-> "SetTone", with |-> tone]
SetVoltage(voltage) == [do |-> "SetVoltage", with |-> voltage]
SendBurst(burst) == [do |-> "SendBurst", with |-> burst]
SendMaster(message) == [do |-> "SendMaster", with |-> message]
Wait(timing) == [do |-> "Wait", with |-> timing]

LnbOnly(voltage) == [kind |-> "Lnb", voltage |-> voltage]
Shared == [kind |-> "Shared"]
Switch(kind, port, voltage) == [kind |-> kind, port |-> port, voltage |-> voltage]
Toneburst(burst, voltage) == [kind |-> "Toneburst", burst |-> burst, voltage |-> voltage]
Unicable(kind, slot, mhz, position, voltage, pin) ==
    [kind |-> kind, slot |-> slot, mhz |-> mhz, position |-> position,
     voltage |-> voltage, pin |-> pin]
Dsl(tokens) == [kind |-> "Dsl", tokens |-> tokens]

(* SecSetup; frequency_mhz * 1000 is not checked (sec_setup, unicable_tune). *)
Setup(mhz, commands) == [khz |-> (mhz * 1000) % Word, commands |-> commands]

LnbSequence(mhz, config, band) ==
    Setup(mhz, << SetTone("Off"), SetVoltage(config.voltage), Wait("lnb_settle"),
                  SetTone(band), Wait("lnb_settle") >>)

SharedSequence(mhz) == Setup(mhz, << SetTone("Off"), SetVoltage("Off") >>)

(* Seeded fault: the tone of the last transponder stays on. *)
SeededToneKept(voltage, tone, message) ==
    << SetVoltage(voltage), Wait("switch_settle"),
       SendMaster(message), Wait("message_gap"), SetTone(tone) >>

ControlledMaster(voltage, tone, message) ==
    << SetTone("Off"), SetVoltage(voltage), Wait("switch_settle"),
       SendMaster(message), Wait("message_gap"), SetTone(tone) >>

Bit(condition, weight) == IF condition THEN weight ELSE 0

Diseqc10Sequence(mhz, config, band) ==
    IF config.port \notin 1 .. 4 THEN Error
    ELSE LET data == 240 + (config.port - 1) * 4
                     + Bit(config.voltage = "V18", 2) + Bit(band = "On", 1)
         IN  Setup(mhz, ControlledMaster(config.voltage, band, <<224, 16, 56, data>>))

Diseqc11Sequence(mhz, config, band) ==
    IF config.port \notin 1 .. 16 THEN Error
    ELSE Setup(mhz, ControlledMaster(config.voltage, band,
                                     <<224, 16, 57, 240 + config.port - 1>>))

ToneburstSequence(mhz, config, band) ==
    Setup(mhz, << SetTone("Off"), SetVoltage(config.voltage), Wait("message_gap"),
                  SendBurst(config.burst), Wait("message_gap"), SetTone(band) >>)

(* Seeded fault: the bus is not released. *)
SeededBusHeld(mhz, message) ==
    Setup(mhz, << SetVoltage("V13"), SetTone("Off"), Wait("unicable_settle"),
                  SetVoltage("V18"), Wait("message_gap"),
                  SendMaster(message), Wait("unicable_hold") >>)

(* unicable_tune: the user band's frequency is the frontend's. *)
UnicableTune(mhz, message) ==
    Setup(mhz, << SetVoltage("V13"), SetTone("Off"), Wait("unicable_settle"),
                  SetVoltage("V18"), Wait("message_gap"),
                  SendMaster(message), Wait("unicable_hold"), SetVoltage("V13") >>)

(* Seeded fault: no rounding. *)
SeededTruncated(mhz, userBand) == (mhz + userBand) \div 4 - 350

(* The frequency word: a quarter of the sum, rounded, above 350. *)
Unicable1Word(mhz, userBand) == (mhz + userBand + 2) \div 4 - 350

Unicable1Sequence(mhz, config, band) ==
    LET x == Unicable1Word(mhz, config.mhz)
        b1 == (config.slot - 1) * 32 + config.position * 16
              + Bit(config.voltage = "V18", 8) + Bit(band = "On", 4) + x \div 256
    IN  IF \/ config.slot \notin 1 .. 8
           \/ config.position > 1
           \/ mhz + config.mhz + 2 >= Word
           \/ x \notin 0 .. 1023
        THEN Error
        ELSE UnicableTune(config.mhz, <<224, 16, 90, b1, x % 256>>)

Unicable2Sequence(mhz, config, band) ==
    LET x == mhz - 100
        b1 == (config.slot - 1) * 8 + x \div 256
        b3 == config.position * 4 + Bit(config.voltage = "V18", 2) + Bit(band = "On", 1)
        protected == config.pin # <<>>
    IN  IF \/ config.slot \notin 1 .. 32
           \/ config.position > 63
           \/ x \notin 0 .. 2047
        THEN Error
        ELSE UnicableTune(config.mhz,
                <<IF protected THEN 113 ELSE 112, b1, x % 256, b3>> \o config.pin)

(***************************************************************************)
(* The DSL, as the tokens between which whitespace may stand.  A W carries *)
(* its number, or Error when it has no digits or too many; a bracket       *)
(* carries its bytes, or Error when a nibble is missing or no hexadecimal  *)
(* digit, or the bracket stays open.                                       *)
(***************************************************************************)
Letters == [t |-> SetTone("Off"), T |-> SetTone("On"),
            v |-> SetVoltage("V13"), V |-> SetVoltage("V18"),
            A |-> SendBurst("A"), B |-> SendBurst("B")]

TokenOk(token) ==
    \/ token[1] \in DOMAIN Letters
    \/ token[1] = "W" /\ token[2] # Error
    \/ token[1] = "[" /\ token[2] # Error /\ Len(token[2]) \in 3 .. 6

Parse(tokens) ==
    IF \E i \in DOMAIN tokens : ~TokenOk(tokens[i]) THEN Error
    ELSE [i \in DOMAIN tokens |->
            CASE tokens[i][1] = "W" -> Wait(tokens[i][2])
              [] tokens[i][1] = "[" -> SendMaster(tokens[i][2])
              [] OTHER -> Letters[tokens[i][1]]]

DslSequence(mhz, config) ==
    IF Parse(config.tokens) = Error THEN Error ELSE Setup(mhz, Parse(config.tokens))

(* sec_sequence, from the intermediate frequency on *)
Sequenced(f, config, band) ==
    CASE config.kind = "Lnb" -> LnbSequence(f, config, band)
      [] config.kind = "Shared" -> SharedSequence(f)
      [] config.kind = "Switch1_0" -> Diseqc10Sequence(f, config, band)
      [] config.kind = "Switch1_1" -> Diseqc11Sequence(f, config, band)
      [] config.kind = "Toneburst" -> ToneburstSequence(f, config, band)
      [] config.kind = "Unicable1" -> Unicable1Sequence(f, config, band)
      [] config.kind = "Unicable2" -> Unicable2Sequence(f, config, band)
      [] config.kind = "Dsl" -> DslSequence(f, config)

SecSequence(mhz, lnb, config) ==
    IF Intermediate(lnb, mhz) = Error THEN Error
    ELSE Sequenced(Intermediate(lnb, mhz), config, BandOf(lnb, mhz))

(***************************************************************************)
(* The types of the arguments.                                             *)
(***************************************************************************)
MHz == 0 .. Word - 1
Bytes == 0 .. 255

IsLnb(lnb) ==
    \/ lnb.kind = "Passthrough"
    \/ lnb.kind \in {"Single", "CBand"} /\ lnb.lof \in MHz
    \/ lnb.kind = "Universal" /\ {lnb.low, lnb.high, lnb.switch} \subseteq MHz

IsList(list) == Len(list) \in Nat /\ list = [i \in 1 .. Len(list) |-> list[i]]

IsSequence(commands) ==
    /\ IsList(commands)
    /\ \A i \in DOMAIN commands :
          commands[i].do \in {"SetTone", "SetVoltage", "Wait", "SendBurst", "SendMaster"}

IsConfig(config) ==
    \/ config.kind = "Shared"
    \/ config.kind = "Dsl" /\ IsList(config.tokens)
    \/ config.kind \in {"Lnb", "Toneburst"} /\ config.voltage \in Voltage
    \/ /\ config.kind \in {"Switch1_0", "Switch1_1"}
       /\ config.port \in Bytes /\ config.voltage \in Voltage
    \/ /\ config.kind \in {"Unicable1", "Unicable2"}
       /\ {config.slot, config.position} \subseteq Bytes
       /\ config.mhz \in MHz /\ config.voltage \in Voltage
       /\ config.pin \in {<<>>} \cup {<<pin>> : pin \in Bytes}
=============================================================================
