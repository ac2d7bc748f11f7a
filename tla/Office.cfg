\* Two requests at each desk; two orders from one quote, two resolutions with
\* two drafts, two services with two invoices, two rows with two keys, two
\* lines, three rows on pages of two, two files with two attachments.  The
\* desks share the names of their rows.
SPECIFICATION Spec
CONSTANTS
  None = None
  r1 = r1  r2 = r2
  row1 = row1  row2 = row2  pair1 = pair1  pair2 = pair2
  quote = quote  delivery = delivery
  Requests = {r1, r2}
  MaxNumber = 2
  Wanted = {"APROBADA", "RECHAZADA", "FACTURADA", "CANCELADA", "TERMINADO",
            "FACTURADO", "PAGADO"}
  Quotes = {quote}  Purchases = {row1, row2}  Deliveries = {delivery}
  NResolutions = 2  Drafts = {row1, row2}  MaxEdits = 2
  SyncedResolutions = {quote}  MaxRanges = 3  CompanyData = {"old", "new"}
  Services = {row1, row2}  ServiceInvoices = {pair1, pair2}
  MaxQuantity = 1  MaxPrice = 2
  Entries = {row1, row2}  Keys = {pair1, pair2}
  Recurring = {quote}  Categories = {pair1, pair2}  SubcategoryNames = {1}
  MaxListed = 3  PageSize = 2
  Files = {row1, row2}  InvoiceFiles = {quote}  Attachments = {pair1, pair2}
  Uploads = {quote}  Bills = {delivery}
  MailedBills = {delivery}  MailedQuotes = {quote}
  Quantities = {335, 500, 1000}  Prices = {0, 50, 4250}  Discounts = {0, 10, 40}
  TaxRates = {0, 5, 19}  MaxLines = 2
INVARIANTS
  OfficeTypeOK
  OrderedWasApproved
  OneInvoicePerService
  NoNumberIsSkipped
  SubcategoryFits
  DeclaredAsStored
  EveryRowIsShown
  RowsHaveFiles
  
PROPERTIES
  ClosedPapersStay
  SequencesAreIssuers
  ResolutionsAreIssuers
  RangesAreNotLost
  BilledAsAgreed
  OneHolderPerKey
SYMMETRY Alike
CHECK_DEADLOCK FALSE
