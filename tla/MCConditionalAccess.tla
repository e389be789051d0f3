------------------------- MODULE MCConditionalAccess -------------------------
(* ConditionalAccess with two CA systems and two programs; an update may     *)
(* change the version, the systems, or both. CA_PMTs are dropped on the way  *)
(* to one of two modules.                                                    *)
EXTENDS ConditionalAccess

CONSTANTS a, b, s1, s2

TwoPrograms == {1, 2}
TwoSystems == {a, b}
TwoSessions == {s1, s2}
SomeContents == {[version |-> 1, systems |-> {a}],
                 [version |-> 2, systems |-> {b}],
                 [version |-> 2, systems |-> {a, b}]}
OneSession == {s1}
=============================================================================
