SPECIFICATION Spec
CONSTANTS
  ana = ana
  r1 = r1
  r2 = r2
  Documents <- FewDocuments
  Total <- FewTotal
  Customer <- FewCustomer
  KindOf <- FewKindOf
  Source <- FewSource
  Compensated <- FewCompensated
  Requests = {r1, r2}
  Amounts = {1, 2}
  OneAtATime = FALSE
  CanCrash = TRUE
INVARIANTS
  ColumnsWithinTotal
  OnlyValidatedNotesCount
  CancelledOwesNothing
PROPERTIES
  EmittedNoteIsFinal
SYMMETRY RequestSymmetry
CHECK_DEADLOCK FALSE
