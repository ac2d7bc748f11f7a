SPECIFICATION FairSpec
CONSTANTS
  ana = ana
  luis = luis
  r1 = r1
  r2 = r2
  Documents <- MCDocuments
  Drafts <- MCDrafts
  Total <- MCTotal
  Customer <- MCCustomer
  Granted <- MCGranted
  Requests = {r1, r2}
  From = 1
  To = 2
  MaxAttempts = 3
  OneAtATime = TRUE
  Faults = {"crash", "lost_reply", "db_error"}
INVARIANTS
  FormMatchesLedger
  CreditNeverVanishes
PROPERTIES
  EmissionTerminates
CHECK_DEADLOCK FALSE
