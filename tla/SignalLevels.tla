---------------------------- MODULE SignalLevels ----------------------------
(***************************************************************************)
(* How src/src/fe/stats.rs turns what a driver reports into percents and   *)
(* counters. A driver reports for each measure an array of [scale, value]; *)
(* when it has none that fits, the DVBv3 ioctl of the measure is called,   *)
(* but only under a flag of the status read earlier.                       *)
(*                                                                         *)
(* Decibels are numbers of DbUnit thousandths, so that TLC's integers hold *)
(* the products (the program has i64 and a unit of 1). An i64 that is      *)
(* masked to sixteen or to thirty-two bits is taken modulo Full + 1 and    *)
(* modulo Counters; Full is 65535 in the program.                          *)
(***************************************************************************)
EXTENDS Integers, Sequences

CONSTANTS DbUnit, Full, Counters, Missing

ASSUME LevelsAssumption ==
    /\ DbUnit \in Nat \ {0} /\ Full \in Nat \ {0} /\ Counters \in Nat \ {0}
    /\ Missing \notin Int

Measures == {"Signal", "Cnr", "Ber", "Unc"}

(* The flag of the status under which the DVBv3 ioctl is called. *)
Flag(measure) == CASE measure = "Signal" -> "HAS_SIGNAL"
                   [] measure = "Cnr" -> "HAS_CARRIER"
                   [] measure \in {"Ber", "Unc"} -> "HAS_LOCK"

(* The last value reported on a scale; only the entries that exist count.  *)
Reported(stats, scale) ==
    LET with == {i \in DOMAIN stats : stats[i].scale = scale}
    IN  IF with = {} THEN Missing
        ELSE stats[CHOOSE i \in with : \A j \in with : j <= i].value

InPercent(level) == (level * 100) \div Full

Percent(value) == InPercent(value % (Full + 1))

(* Seeded fault: no clamp above. *)
SeededScaled(value, lo, hi) ==
    IF value < lo THEN 0 ELSE (Full * (value - lo)) \div (hi - lo)

(* 65535 * (LO - value) / (LO - HI) between the clamps, LO being 0 for the *)
(* carrier-to-noise ratio.                                                 *)
Scaled(value, lo, hi) ==
    IF value >= hi THEN Full
    ELSE IF value <= lo THEN 0
    ELSE (Full * (value - lo)) \div (hi - lo)

SignalLo == -85000 \div DbUnit
SignalHi == -6000 \div DbUnit

(* Full marks of the carrier-to-noise ratio; Missing where none is known.  *)
CnrHi(system, modulation) ==
    CASE system \in {"Dvbs", "Dvbs2"} -> 15000 \div DbUnit
      [] system \in {"DvbcAnnexA", "DvbcAnnexB", "DvbcAnnexC", "Dvbc2"} -> 28000 \div DbUnit
      [] system \in {"Dvbt", "Dvbt2"} -> 19000 \div DbUnit
      [] system = "Atsc" ->
            (IF modulation \in {"Vsb8", "Vsb16"} THEN 19000 ELSE 28000) \div DbUnit
      [] OTHER -> Missing

(* normalize_signal_strength() before its DVBv3 call: the relative level.  *)
SignalRelative(status, stats) ==
    LET relative == Reported(stats, "Relative")
        decibel == Reported(stats, "Decibel")
    IN  IF relative # Missing THEN Percent(relative)
        ELSE IF decibel # Missing /\ Flag("Signal") \in status
        THEN InPercent(Scaled(decibel, SignalLo, SignalHi))
        ELSE Missing

(* normalize_snr() likewise.                                               *)
CnrRelative(status, system, modulation, stats) ==
    LET relative == Reported(stats, "Relative")
        decibel == Reported(stats, "Decibel")
        hi == CnrHi(system, modulation)
    IN  IF relative # Missing THEN Percent(relative)
        ELSE IF decibel # Missing /\ Flag("Cnr") \in status /\ hi # Missing
        THEN InPercent(Scaled(decibel, 0, hi))
        ELSE Missing

(* ... which returns at once where no full marks are known.                *)
GivesUp(status, system, modulation, stats) ==
    /\ Reported(stats, "Relative") = Missing
    /\ Reported(stats, "Decibel") # Missing
    /\ Flag("Cnr") \in status
    /\ CnrHi(system, modulation) = Missing

(* normalize_ber(), normalize_unc(): the first counter.                    *)
Counter(stats) ==
    LET with == {i \in DOMAIN stats : stats[i].scale = "Counter"}
    IN  IF with = {} THEN Missing
        ELSE stats[CHOOSE i \in with : \A j \in with : i <= j].value % Counters
=============================================================================
