SPECIFICATION Spec
CONSTANTS
  ana = ana
  r1 = r1
  r2 = r2
  Documents <- FewDocuments
  Total <- FewTotal
  Customer <- FewCustomer
  KindOf <- FewKindOf
  Source <- FewSource
  Compensated <- FewCompensated
  Requests = {r1}
  Amounts = {1}
  OneAtATime = TRUE
  CanCrash = FALSE
PROPERTIES
  PaymentLowersBalance
CHECK_DEADLOCK FALSE
