SPECIFICATION FairSpec
CONSTANTS
  Cl = {c1}
  Aero = {a1}
  Fees = {1, 2}
  NoFee = NoFee
  SweepRounds = 2
  ChangedCap = 1
INVARIANTS WrittenIsAnnounced
PROPERTIES FeeFollowed
