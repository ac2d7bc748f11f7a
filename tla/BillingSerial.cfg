SPECIFICATION Spec
CONSTANTS
  ana = ana
  r1 = r1
  r2 = r2
  Documents <- MCDocuments
  Total <- MCTotal
  Customer <- MCCustomer
  KindOf <- MCKindOf
  Source <- MCSource
  Compensated <- MCCompensated
  Requests = {r1}
  Amounts = {1, 2}
  OneAtATime = TRUE
  CanCrash = FALSE
INVARIANTS
  NeverCollectsTwice
  SettledIffPaid
  NotesCountOnce
CHECK_DEADLOCK FALSE
