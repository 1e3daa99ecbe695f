--------------------------- MODULE MCIntegration ----------------------------
EXTENDS Integration, TLC

CONSTANTS plan, implement
Swaps == Permutations({plan, implement})
=============================================================================
