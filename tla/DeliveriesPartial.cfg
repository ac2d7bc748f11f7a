SPECIFICATION Spec
CONSTANTS
  o1 = o1
  paper = paper
  ink = ink
  r1 = r1
  r2 = r2
  i1 = i1
  i2 = i2
  Orders = {o1}
  Items = {paper, ink}
  Plan <- OneItem
  Invoices = {i1, i2}
  NoInvoice = NoInvoice
  Requests = {r1, r2}
  MaxUnits = 2
SYMMETRY Alike
INVARIANTS
  NeverOverDelivered
  DeliveredInFull
  LinesWereDelivered
  BilledOnce
  IssuedAsDeclared
PROPERTIES
  CancelledIsClosed
  DraftGrows
CHECK_DEADLOCK FALSE
