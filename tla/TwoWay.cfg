SPECIFICATION FairSpec
CONSTANT MaxFailures = 2
INVARIANTS
  TypeOK
  OptionsHeard
  KnownHoles
  ReleaseOrder
  NothingElseLeft
  OneSpinner
PROPERTY Ends
