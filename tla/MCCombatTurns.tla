---------------------------- MODULE MCCombatTurns ----------------------------
EXTENDS CombatTurnsDocs

SecondIsMonster == {2}
=============================================================================
