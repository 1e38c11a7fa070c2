----------------------------- MODULE MCLogStream -----------------------------
(* One or two deployments, the second of which links to the first; entries of *)
(* one byte, and of more than a line that can be read back.                   *)
EXTENDS LogStream

CONSTANTS d1, d2, v1, c1

OneDeployment  == {d1}
TwoDeployments == {d1, d2}
OneViewer == {v1}
OneConn   == {c1}
NoLinks   == {}
BackLink  == {<<d2, d1>>}
TwoSizes == {1, 2}
=============================================================================
