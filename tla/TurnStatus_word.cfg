CONSTANT Overlap = 2
SPECIFICATION FairSpec
INVARIANTS WordInv TurnInv
PROPERTY WordLive
