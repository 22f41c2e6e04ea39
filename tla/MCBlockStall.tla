---------------------------- MODULE MCBlockStall ----------------------------
EXTENDS BlockQueue, TLC
\* One branch of two blocks, one of a single block.
MCParent(b) == IF b = 2 THEN 1 ELSE 0
MCNumber(b) == IF b = 2 THEN 2 ELSE IF b = 0 THEN 0 ELSE 1
MCDifficulty(b) == 1
=============================================================================
