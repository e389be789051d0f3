----------------------------- MODULE MCCiTransport -----------------------------
(* CiTransport with one slot: the transport keeps the slots apart, so the    *)
(* interleavings are those of the host, the link and one module.             *)
EXTENDS CiTransport, TLC

CONSTANTS s1

OneSlot == {s1}
=============================================================================
