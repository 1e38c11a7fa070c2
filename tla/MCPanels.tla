------------------------------ MODULE MCPanels ------------------------------
(* Every panel of the interface, with two writes that may overlap. *)
EXTENDS Panels

CONSTANTS w1, w2

TwoWrites == {w1, w2}
OneWrite  == {w1}
=============================================================================
