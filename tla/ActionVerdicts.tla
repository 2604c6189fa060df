---------------------------- MODULE ActionVerdicts ----------------------------
(***************************************************************************)
(* What the players are promised of their actions: an accepted action      *)
(* waits, and is then either applied, which takes a turn of the session's  *)
(* history, or refused; once decided it stays decided, no action is        *)
(* applied twice or both applied and refused, and no turn is rewritten.    *)
(***************************************************************************)
EXTENDS Sequences

CONSTANTS
    Actions,
    None      \* what a turn that applies no action holds
VARIABLES
    verdict,  \* what became of each action
    turns     \* the history: the action that each turn applied, or None

vars == <<verdict, turns>>

Init ==
    /\ verdict = [a \in Actions |-> "none"]
    /\ turns = <<>>

Decide(a, from, to) ==
    /\ verdict[a] = from
    /\ verdict' = [verdict EXCEPT ![a] = to]

Accept(a) == Decide(a, "none", "waiting") /\ UNCHANGED turns

Apply(a) == Decide(a, "waiting", "applied") /\ turns' = Append(turns, a)

\* finishPlay refuses everything that waits at once; a declined rest, one.
Refuse ==
    /\ \E refused \in (SUBSET {a \in Actions : verdict[a] = "waiting"}) \ {{}} :
           verdict' = [a \in Actions |-> IF a \in refused THEN "refused" ELSE verdict[a]]
    /\ UNCHANGED turns

\* A turn of somebody else, or of a failure.
Pass == turns' = Append(turns, None) /\ UNCHANGED verdict

Next == (\E a \in Actions : Accept(a) \/ Apply(a)) \/ Refuse \/ Pass

Spec == Init /\ [][Next]_vars
===============================================================================
