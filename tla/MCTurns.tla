------------------------------- MODULE MCTurns -------------------------------
EXTENDS MCJanken, JankenTurns

SeatedTurns == Seated /\ hasty = {}

FairSeatedTurnsSpec == SeatedTurns /\ [][TurnsNext]_turnVars /\ Fairness
=============================================================================
