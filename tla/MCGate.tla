------------------------------- MODULE MCGate -------------------------------
(* Two tabs, of one browser or of two. *)
EXTENDS Gate

CONSTANTS t1, t2, b1, b2

TwoTabs == {t1, t2}
TwoBrowsers == {b1, b2}
=============================================================================
