SPECIFICATION FairSpec
CONSTANTS
  Writers = {w1, w2, w3}
  Width = 4
INVARIANTS
  TypeOK
  FirstInLine
  NoLostWakeup
PROPERTY
  EveryoneServed
