---------------------------- MODULE FrontendSec ----------------------------
(***************************************************************************)
(* setup_sec() and run_sec_sequence() of src/src/fe/mod.rs: the sequences  *)
(* of Sec.tla on the cable between a frontend and its LNB. Whatever was    *)
(* done before has left its tone and its voltage there; each command is a  *)
(* step of its own and may fail.                                           *)
(***************************************************************************)
EXTENDS Sec

CONSTANTS
    Setups,         \* the arguments setup_sec() is called with
    RawSequences,   \* what run_sec_sequence() is called with directly
    Nothing

(* Arguments the types of setup_sec() and run_sec_sequence() allow. *)
Typed == /\ \A setup \in Setups :
                setup.mhz \in MHz /\ IsLnb(setup.lnb) /\ IsConfig(setup.config)
         /\ \A commands \in RawSequences : IsSequence(commands)

ASSUME SetupsAssumption == Typed

VARIABLES
    line,           \* what the cable carries: tone, voltage, settled or not
    heard,          \* the last burst or message sent down the cable
    sec,            \* the call the application is in
    want, khz       \* the last completed setup_sec(): arguments, result

secVars == <<line, heard, sec, want, khz>>

SecIdle == [call |-> "None"]
Silence == [sent |-> Nothing, by |-> Nothing]

SecInit == /\ line \in [tone : Tone, voltage : Voltage, settled : {TRUE}]
           /\ heard = Silence
           /\ sec = SecIdle
           /\ want = Nothing /\ khz = Nothing

-----------------------------------------------------------------------------
Sequence(setup) == SecSequence(setup.mhz, setup.lnb, setup.config)

Runs(commands, setup) ==
    /\ sec' = [call |-> "Sec", left |-> commands, setup |-> setup]
    /\ want' = Nothing /\ khz' = Nothing

(* setup_sec(): a configuration without a sequence sends nothing. *)
SetupSec == /\ sec = SecIdle
            /\ \E setup \in Setups :
                  IF Sequence(setup) = Error
                  THEN want' = Nothing /\ khz' = Nothing /\ UNCHANGED sec
                  ELSE Runs(Sequence(setup).commands, setup)
            /\ UNCHANGED <<line, heard>>

RunSecSequence == /\ sec = SecIdle
                  /\ \E commands \in RawSequences : Runs(commands, Nothing)
                  /\ UNCHANGED <<line, heard>>

(* What a command does to the cable; a master command has 3 to 6 bytes. *)
Message(command) == [sent |-> command.with, by |-> sec.setup, line |-> line]

Performs(command) ==
    CASE command.do = "SetTone" ->
            /\ line' = [line EXCEPT !.tone = command.with, !.settled = FALSE]
            /\ UNCHANGED heard
      [] command.do = "SetVoltage" ->
            /\ line' = [line EXCEPT !.voltage = command.with, !.settled = FALSE]
            /\ UNCHANGED heard
      [] command.do = "Wait" ->
            line' = [line EXCEPT !.settled = TRUE] /\ UNCHANGED heard
      [] command.do = "SendBurst" ->
            heard' = Message(command) /\ UNCHANGED line
      [] command.do = "SendMaster" ->
            /\ Len(command.with) \in 3 .. 6
            /\ heard' = Message(command)
            /\ UNCHANGED line

RunCommand == /\ sec.call = "Sec" /\ sec.left # <<>>
              /\ Performs(Head(sec.left))
              /\ sec' = [sec EXCEPT !.left = Tail(@)]
              /\ UNCHANGED <<want, khz>>

(* A command that fails ends the sequence; a wait does not fail. *)
CommandFails == /\ sec.call = "Sec" /\ sec.left # <<>>
                /\ Head(sec.left).do # "Wait"
                /\ sec' = SecIdle
                /\ UNCHANGED <<line, heard, want, khz>>

SecReturns == /\ sec.call = "Sec" /\ sec.left = <<>>
              /\ sec' = SecIdle
              /\ want' = sec.setup
              /\ khz' = IF sec.setup = Nothing THEN Nothing ELSE Sequence(sec.setup).khz
              /\ UNCHANGED <<line, heard>>

-----------------------------------------------------------------------------
SecNext == SetupSec \/ RunSecSequence \/ RunCommand \/ CommandFails \/ SecReturns

SecSpec == SecInit /\ [][SecNext]_secVars

-----------------------------------------------------------------------------
(* Properties.                                                               *)
(* src/src/fe/mod.rs:580-584: no generated sequence talks over the band tone, *)
(* before the voltage and the tone have settled, or at another voltage than   *)
(* the one that powers the equipment (Unicable talks at 18 V whatever the     *)
(* polarisation) - whatever the tone and the voltage of the last transponder, *)
(* and wherever the sequence before this one broke off.                       *)
Unicables == {"Unicable1", "Unicable2"}
Feeding(config) == IF config.kind \in Unicables THEN "V18" ELSE config.voltage

SilentWhileTalking ==
    heard.by # Nothing /\ heard.by.config.kind # "Dsl" =>
        /\ heard.line.tone = "Off" /\ heard.line.settled
        /\ heard.line.voltage = Feeding(heard.by.config)

(* The frequency an LNB delivers a transponder at under a tone. *)
Delivered(lnb, tone, mhz) ==
    CASE lnb.kind = "Passthrough" -> mhz
      [] lnb.kind = "Single" -> mhz - lnb.lof
      [] lnb.kind = "CBand" -> lnb.lof - mhz
      [] lnb.kind = "Universal" -> mhz - (IF tone = "On" THEN lnb.high ELSE lnb.low)

RightBand(lnb, tone, mhz) ==
    tone = (IF lnb.kind = "Universal" /\ mhz > lnb.switch - 1 THEN "On" ELSE "Off")

Polarisation(bit) == IF bit = 1 THEN "V18" ELSE "V13"
ToneOf(bit) == IF bit = 1 THEN "On" ELSE "Off"

(* What the equipment makes of the message it has heard: each part of it    *)
(* as the standards number them, <<port or slot, position, voltage, tone,   *)
(* least and greatest frequency meant>>.                                    *)
Understood(kind, sent, config, any) ==
    CASE kind = "Switch1_0" /\ SubSeq(sent, 1, 3) = <<224, 16, 56>> /\ sent[4] \div 16 = 15 ->
            <<((sent[4] \div 4) % 4) + 1, 0, Polarisation((sent[4] \div 2) % 2),
              ToneOf(sent[4] % 2), any, any>>
      [] kind = "Switch1_1" /\ SubSeq(sent, 1, 3) = <<224, 16, 57>> /\ sent[4] \div 16 = 15 ->
            <<(sent[4] % 16) + 1, 0, config.voltage, line.tone, any, any>>
      [] kind = "Unicable1" /\ SubSeq(sent, 1, 3) = <<224, 16, 90>> ->
            LET mhz == 4 * ((sent[4] % 4) * 256 + sent[5] + 350) - config.mhz
            IN  <<(sent[4] \div 32) + 1, (sent[4] \div 16) % 2,
                  Polarisation((sent[4] \div 8) % 2), ToneOf((sent[4] \div 4) % 2),
                  mhz - 2, mhz + 1>>
      [] kind = "Unicable2" /\ SubSeq(sent, 5, Len(sent)) = config.pin
                            /\ sent[1] = 112 + Len(config.pin) ->
            LET mhz == (sent[2] % 8) * 256 + sent[3] + 100
            IN  <<(sent[2] \div 8) + 1, sent[4] \div 4, Polarisation((sent[4] \div 2) % 2),
                  ToneOf(sent[4] % 2), mhz, mhz>>
      [] OTHER -> <<>>

Selected(setup, mhz) ==
    LET config == setup.config
        u == Understood(config.kind, heard.sent, config, mhz)
        unicable == config.kind \in Unicables
    IN  /\ heard.by = setup /\ u # <<>>
        /\ u[1] = (IF unicable THEN config.slot ELSE config.port)
        /\ unicable => u[2] = config.position
        /\ config.voltage # "Off" => u[3] = config.voltage
        /\ RightBand(setup.lnb, u[4], setup.mhz)
        /\ mhz \in u[5] .. u[6]

(* Once setup_sec() has returned a frequency, what the cable carries and    *)
(* what the equipment has heard last select the transponder that was asked  *)
(* for, the returned frequency is the one it then arrives at, and a shared  *)
(* or Unicable cable is left to the others: voltage and tone say what the   *)
(* message says, no field of a message spills into its neighbour, the band  *)
(* edge falls on one side, and the kHz are exact (where they fit a u32, a   *)
(* Unicable I band to the nearest quarter).                                 *)
LineServesTune ==
    khz # Nothing =>
        LET config == want.config
            kind == config.kind
            direct == kind \in {"Lnb", "Switch1_0", "Switch1_1", "Toneburst"}
            tone == IF direct THEN line.tone ELSE BandOf(want.lnb, want.mhz)
            mhz == Delivered(want.lnb, tone, want.mhz)
            at == IF kind \in Unicables THEN config.mhz ELSE mhz
        IN  /\ at < Word \div 1000 => khz = at * 1000
            /\ RightBand(want.lnb, tone, want.mhz)
            /\ direct => line.voltage = config.voltage
            /\ kind = "Shared" => line.voltage = "Off" /\ line.tone = "Off"
            /\ kind \in Unicables =>
                  line.voltage = "V13" /\ line.tone = "Off"
            /\ kind = "Toneburst" => /\ heard.by = want
                                     /\ heard.sent = config.burst
            /\ kind \in {"Switch1_0", "Switch1_1", "Unicable1", "Unicable2"} =>
                  Selected(want, mhz)
=============================================================================
