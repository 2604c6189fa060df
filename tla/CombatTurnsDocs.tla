--------------------------- MODULE CombatTurnsDocs ---------------------------
(***************************************************************************)
(* What comments and plans of the repository say of the turns of a combat, *)
(* where the code does otherwise.                                          *)
(***************************************************************************)
EXTENDS CombatTurns

\* combat-turn.service.ts:61-64: of several endTurn calls one passes, and a call
\* that comes after the turn has moved on gets TURN_409.
TurnIsPassedOnce ==
    [][\A a \in Actors :
          At(a, "claim") /\ actors'[a].at = "trigger"
          => combat.turn < actors[a].plan.turn]_vars
=============================================================================
