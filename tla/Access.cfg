SPECIFICATION FairSpec
CONSTANTS
  Users = {u1, u2}
  Nobody = Nobody
  Grace = 2
  MaxBusy = 2
INVARIANTS
  TypeOK
  LastingAccess
  AnswerIsCurrent
PROPERTIES
  OrphanIsPruned
