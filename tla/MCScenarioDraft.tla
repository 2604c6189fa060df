--------------------------- MODULE MCScenarioDraft ---------------------------
EXTENDS ScenarioDraft
=============================================================================
