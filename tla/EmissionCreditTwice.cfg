SPECIFICATION Spec
CONSTANTS
  ana = ana
  luis = luis
  r1 = r1
  r2 = r2
  Documents <- OneDocuments
  Drafts <- OneDrafts
  Total <- OneTotal
  Customer <- OneCustomer
  Granted <- OneGranted
  Requests = {r1, r2}
  From = 1
  To = 2
  MaxAttempts = 3
  OneAtATime = TRUE
  Faults = {}
INVARIANTS
  CreditNotSpentTwice
SYMMETRY RequestSymmetry
CHECK_DEADLOCK FALSE
