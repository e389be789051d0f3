--------------------------- MODULE MCFrontendSec ---------------------------
EXTENDS FrontendSec

(* Each equipment's ports, slots and positions at both ends and one beyond, *)
(* both sides of the band edge, a frequency of every band.                  *)
Configs ==
    {LnbOnly(v) : v \in Voltage} \cup {Shared}
    \cup {Switch("Switch1_0", port, v) : port \in {0, 1, 4, 5}, v \in Voltage}
    \cup {Switch("Switch1_1", port, v) : port \in {1, 16, 17}, v \in {"V13", "V18"}}
    \cup {Toneburst(burst, v) : burst \in {"A", "B"}, v \in {"V18", "Off"}}
    \cup {Unicable("Unicable1", slot, 1210, position, v, <<>>) :
            slot \in {0, 1, 8, 9}, position \in 0 .. 2, v \in {"V13", "V18"}}
    \cup {Unicable("Unicable2", slot, 1210, position, v, pin) :
            slot \in {1, 32, 33}, position \in {0, 63, 64}, v \in {"V13", "V18"},
            pin \in {<<>>, <<170>>}}

MCSetups ==
    {[mhz |-> mhz, lnb |-> LnbAuto(mhz), config |-> c] :
        mhz \in {950, 2500, 3400, 11699, 11700, 12749}, c \in Configs}
    \cup {[mhz |-> 949, lnb |-> Single(950), config |-> LnbOnly("V13")],
          [mhz |-> 11702, lnb |-> LnbAuto(11702),
           config |-> Unicable("Unicable2", 1, 1073742, 0, "V13", <<>>)],
          [mhz |-> 1073742, lnb |-> Passthrough, config |-> LnbOnly("V13")],
          [mhz |-> 1100, lnb |-> Passthrough,
           config |-> Dsl(<< <<"t">>, <<"v">>, <<"W", 15>>, <<"[", <<224, 16, 56, 240>> >>,
                             <<"A">>, <<"T">> >>)],
          [mhz |-> 1100, lnb |-> Passthrough,
           config |-> Dsl(<< <<"V">>, <<"[", <<224, 16>> >> >>)],
          [mhz |-> 1100, lnb |-> Passthrough, config |-> Dsl(<< <<"W", Error>> >>)]}

MCRawSequences == { <<SetTone("On"), SendMaster(<<224, 16>>)>> }
=============================================================================
