---------------------------- MODULE AtLeastOnce ----------------------------
(***************************************************************************)
(* What a table of work promises that is filled by one transaction and     *)
(* emptied by somebody else, through failures and restarts: a piece of     *)
(* work is called kept only after each of its targets was served; it is    *)
(* given up only after as many attempts as the limit allows; what was kept *)
(* or withdrawn is never taken up again, and what was given up only when   *)
(* the owner asks.  How often a target is served is not said.              *)
(*                                                                         *)
(* Outbox (Outbox!Promise: deliveries and the POSTs to their channels) and *)
(* Intake (Intake!Promise: pushes and their deployments) implement it.     *)
(***************************************************************************)
EXTENDS Integers

CONSTANTS
    Item, Target,
    Need,       \* Need[i]: the targets item i is for
    Busy,       \* the phases in which somebody may be at work on an item
    Limit       \* the attempts an item has before it is given up

VARIABLES
    phase,      \* phase[i]: what the table says of item i
    tries,      \* tries[i]: the attempts at it since it was accepted or renewed
    renewals,   \* how often the owner asked for an item again
    done        \* done[i][t]: how often target t was served

vars == <<phase, tries, renewals, done>>

Phase == {"none", "owed", "kept", "given_up", "withdrawn"}

Init ==
    /\ phase = [i \in Item |-> "none"]
    /\ tries = [i \in Item |-> 0]
    /\ renewals = 0
    /\ done = [i \in Item |-> [t \in Target |-> 0]]

\* All the items that one transaction adds.
Accept(S) ==
    /\ \A i \in S : phase[i] = "none"
    /\ phase' = [i \in Item |-> IF i \in S THEN "owed" ELSE phase[i]]
    /\ tries' = [i \in Item |-> IF i \in S THEN 0 ELSE tries[i]]
    /\ UNCHANGED <<renewals, done>>

\* Somebody takes an item up, for the first time or again.
Try(i) ==
    /\ phase[i] = "owed"
    /\ tries' = [tries EXCEPT ![i] = @ + 1]
    /\ UNCHANGED <<phase, renewals, done>>

Serve(i, t) ==
    /\ phase[i] \in Busy
    /\ done' = [done EXCEPT ![i][t] = @ + 1]
    /\ UNCHANGED <<phase, tries, renewals>>

Keep(i) ==
    /\ phase[i] = "owed"
    /\ \A t \in Need[i] : done[i][t] > 0
    /\ phase' = [phase EXCEPT ![i] = "kept"]
    /\ UNCHANGED <<tries, renewals, done>>

GiveUp(i) ==
    /\ phase[i] = "owed" /\ tries[i] >= Limit
    /\ phase' = [phase EXCEPT ![i] = "given_up"]
    /\ UNCHANGED <<tries, renewals, done>>

\* The owner asks for it again, and it has all its attempts again.
Renew(i) ==
    /\ phase[i] = "given_up"
    /\ phase' = [phase EXCEPT ![i] = "owed"]
    /\ tries' = [tries EXCEPT ![i] = 0]
    /\ renewals' = renewals + 1
    /\ UNCHANGED done

\* Refused for good, or gone with what the items were about.
Withdraw(S) ==
    /\ phase' = [i \in Item |-> IF i \in S THEN "withdrawn" ELSE phase[i]]
    /\ tries' = [i \in Item |-> IF i \in S THEN 0 ELSE tries[i]]
    /\ UNCHANGED <<renewals, done>>

Next ==
    \/ \E S \in SUBSET Item : Accept(S) \/ Withdraw(S)
    \/ \E i \in Item : \/ \E t \in Target : Serve(i, t)
                       \/ Try(i) \/ Keep(i) \/ GiveUp(i) \/ Renew(i)

Spec == Init /\ [][Next]_vars
=============================================================================
