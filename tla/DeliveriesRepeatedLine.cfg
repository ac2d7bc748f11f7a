SPECIFICATION Spec
CONSTANTS
  o1 = o1
  paper = paper
  ink = ink
  r1 = r1
  r2 = r2
  i1 = i1
  i2 = i2
  Orders = {o1}
  Items = {paper, ink}
  Plan <- RepeatedItem
  Invoices = {i1}
  NoInvoice = NoInvoice
  Requests = {r1}
  MaxUnits = 2
INVARIANTS
  MarkedInFull
CHECK_DEADLOCK FALSE
