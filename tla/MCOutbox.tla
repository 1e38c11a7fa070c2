------------------------------- MODULE MCOutbox -------------------------------
(* The outboxes of one deployment, with one goroutine started by Wake. *)
EXTENDS Outbox

CONSTANTS d1, k1

OneDeployment == {d1}
OneWaker      == {k1}
EachAlone     == {{"notification"}, {"status"}}   \* they share no row
=============================================================================
