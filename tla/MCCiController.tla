----------------------------- MODULE MCCiController -----------------------------
(* CiController for TLC: the sets of slot informations and sessions.         *)
EXTENDS CiController, TLC

AllInfos == [present : BOOLEAN, ready : BOOLEAN, link : BOOLEAN]

\* Empty, inserted, ready.
LinkInfos == {[present |-> FALSE, ready |-> FALSE, link |-> TRUE],
              [present |-> TRUE, ready |-> FALSE, link |-> TRUE],
              [present |-> TRUE, ready |-> TRUE, link |-> TRUE]}

BothKinds == {"ai", "ca"}
OneKind == {"ca"}
NoKinds == {}

=============================================================================
