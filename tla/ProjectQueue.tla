---------------------------- MODULE ProjectQueue ----------------------------
(***************************************************************************)
(* What the deployment queue promises, without the tables it keeps: every  *)
(* deployment waits, is worked on and is settled, in that order and once;  *)
(* a project has at most one deployment being worked on; a deployment that *)
(* was asked to stop is never reported as a success.                       *)
(*                                                                         *)
(* Deployments implements this specification (Deployments!Queue).          *)
(***************************************************************************)
CONSTANTS
    DepId,      \* the identifiers deployments may get
    Project

VARIABLES
    phase,      \* phase[d]: where deployment d is in its life
    owner       \* owner[p]: the deployments of project p

vars == <<phase, owner>>

Phase == {"none", "waiting", "working", "stopping", "success", "other", "purged"}

Working == {"working", "stopping"}

Init ==
    /\ phase = [d \in DepId |-> "none"]
    /\ owner = [p \in Project |-> {}]

Enqueue(d, p) ==
    /\ phase[d] = "none"
    /\ phase' = [phase EXCEPT ![d] = "waiting"]
    /\ owner' = [owner EXCEPT ![p] = @ \cup {d}]

\* A deployment is taken up only while its project has none in progress.
TakeUp(d, p) ==
    /\ phase[d] = "waiting"
    /\ d \in owner[p]
    /\ \A e \in owner[p] : phase[e] \notin Working
    /\ phase' = [phase EXCEPT ![d] = "working"]
    /\ UNCHANGED owner

AskToStop(d) ==
    /\ phase[d] = "working"
    /\ phase' = [phase EXCEPT ![d] = "stopping"]
    /\ UNCHANGED owner

Succeed(d) ==
    /\ phase[d] = "working"
    /\ phase' = [phase EXCEPT ![d] = "success"]
    /\ UNCHANGED owner

\* Waiting deployments of one project are given up before anybody took them up: one
\* that is cancelled or rejected, or all that a newer one supersedes.  This never
\* reaches into another project, nor to a deployment in progress.
Withdraw(D, p) ==
    /\ D \subseteq owner[p]
    /\ \A d \in D : phase[d] = "waiting"
    /\ phase' = [d \in DepId |-> IF d \in D THEN "other" ELSE phase[d]]
    /\ UNCHANGED owner

\* A deployment in progress ends without success, alone.
Fail(d) ==
    /\ phase[d] \in Working
    /\ phase' = [phase EXCEPT ![d] = "other"]
    /\ UNCHANGED owner

\* A restart ends everything that was in progress, and nothing that waits.
Interrupt ==
    /\ phase' = [d \in DepId |-> IF phase[d] \in Working THEN "other" ELSE phase[d]]
    /\ UNCHANGED owner

Purge(d) ==
    /\ phase[d] \in {"success", "other"}
    /\ phase' = [phase EXCEPT ![d] = "purged"]
    /\ owner' = [p \in Project |-> owner[p] \ {d}]

Next ==
    \/ \E d \in DepId :
          \/ \E p \in Project : Enqueue(d, p) \/ TakeUp(d, p)
          \/ AskToStop(d) \/ Succeed(d) \/ Fail(d) \/ Purge(d)
    \/ \E D \in SUBSET DepId, p \in Project : Withdraw(D, p)
    \/ Interrupt

Spec == Init /\ [][Next]_vars
=============================================================================
