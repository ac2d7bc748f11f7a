------------------------------ MODULE Listings ------------------------------
(***************************************************************************)
(* The listings that the API serves page by page.  A page is two           *)
(* statements that run side by side, the rows and their count, and nothing *)
(* holds the table still between them or between two pages.  A reader asks *)
(* for the pages one after the other, up to the last one that the last     *)
(* answer announced.                                                       *)
(*                                                                         *)
(* Rows are in the order of the listing, and no two have the same place:   *)
(* of rows with one date or one name no query says which goes first.       *)
(* Filters, searches and what a row shows are left out: a row enters and   *)
(* leaves the listing.                                                     *)
(***************************************************************************)
EXTENDS Naturals, SequencesExt

CONSTANTS MaxListed,  \* bound: rows, numbered as they appear
          PageSize    \* limit

ASSUME ListingsAssumption == MaxListed \in Nat /\ PageSize \in Nat \ {0}

VARIABLES listing,    \* the listing that is read
          listed,     \* its rows, in its order
          appeared,   \* rows that have been in it so far
          page,       \* the page that is asked for; 0, nobody reads
          answered,   \* the statements of this page that have run
          total,      \* what the last count said
          finished,   \* the reader has had its last page
          seen,       \* the rows that the reader got
          still,      \* history: the rows listed since the reader began
          disturbed   \* history: a row left or moved since then, or came
                      \* between the count of a page and its rows

tableVars == <<listing, listed, appeared>>
readerVars == <<page, answered, total, finished, seen, still, disturbed>>
listingVars == <<tableVars, readerVars>>

\* How a listing is ordered and what its rows may do: a new row comes first
\* (or anywhere), rows leave (they are deleted, or no longer match), their
\* place changes, errors are answered with an empty page.
Listing(newestFirst, leave, move, hides) ==
  [newestFirst |-> newestFirst, leave |-> leave, move |-> move, hides |-> hides]

Invoices == Listing(TRUE, TRUE, FALSE, FALSE)
ServicesListed == Listing(TRUE, TRUE, FALSE, FALSE)
ResolutionsListed == Listing(TRUE, TRUE, FALSE, FALSE)
PublicInquiries == Listing(TRUE, TRUE, FALSE, FALSE)
InvoiceUploads == Listing(TRUE, FALSE, FALSE, FALSE)
AuditLog == Listing(TRUE, FALSE, FALSE, TRUE)
QuotesListed == Listing(FALSE, TRUE, FALSE, FALSE)
PurchaseOrders == Listing(FALSE, TRUE, FALSE, FALSE)
DeliveryOrders == Listing(FALSE, TRUE, FALSE, FALSE)
ReceivablesListed == Listing(FALSE, TRUE, FALSE, FALSE)
PaymentsListed == Listing(FALSE, FALSE, FALSE, FALSE)
Customers == Listing(FALSE, TRUE, TRUE, FALSE)
Products == Listing(FALSE, TRUE, TRUE, FALSE)
RecurringListed == Listing(FALSE, TRUE, TRUE, FALSE)
ReceivedDocuments == Listing(FALSE, TRUE, TRUE, FALSE)

AllListings ==
  {Invoices, ServicesListed, ResolutionsListed, PublicInquiries, InvoiceUploads,
   AuditLog, QuotesListed, PurchaseOrders, DeliveryOrders, ReceivablesListed,
   PaymentsListed, Customers, Products, RecurringListed, ReceivedDocuments}

ListingsInit ==
  /\ listing \in AllListings
  /\ listed = <<>> /\ appeared = 0
  /\ page = 0 /\ answered = {} /\ total = 0 /\ finished = FALSE
  /\ seen = {} /\ still = {} /\ disturbed = FALSE

-----------------------------------------------------------------------------
Reading == page # 0

\* A row is written that the listing shows.
RowAppears ==
  /\ appeared < MaxListed
  /\ \E place \in IF listing.newestFirst THEN {1} ELSE 1 .. Len(listed) + 1 :
       listed' = InsertAt(listed, place, appeared + 1)
  /\ appeared' = appeared + 1
  /\ disturbed' = (disturbed \/ answered = {"count"})
  /\ UNCHANGED <<listing, page, answered, total, finished, seen, still>>

\* A row is deleted or no longer matches; the reading of invoices does it
\* too, which marks those that are overdue after it has read them.
RowLeaves ==
  /\ listing.leave
  /\ \E k \in DOMAIN listed :
       /\ listed' = RemoveAt(listed, k)
       /\ still' = still \ {listed[k]}
  /\ disturbed' = (disturbed \/ Reading)
  /\ UNCHANGED <<listing, appeared, page, answered, total, finished, seen>>

RowMoves ==
  /\ listing.move
  /\ \E k, place \in DOMAIN listed :
       /\ k # place
       /\ listed' = InsertAt(RemoveAt(listed, k), place, listed[k])
  /\ disturbed' = (disturbed \/ Reading)
  /\ UNCHANGED <<listing, appeared, page, answered, total, finished, seen, still>>

-----------------------------------------------------------------------------
\* The rows before a page; also, as if the first page were the page 0.
SkipAll(p) == p * PageSize
Skip(p) == (p - 1) * PageSize

PageOf(rows, p) == {rows[k] : k \in DOMAIN rows \cap (Skip(p) + 1 .. Skip(p) + PageSize)}
TotalPages(n) == (n + PageSize - 1) \div PageSize

\* The reader asks for the first page.
OpenListing ==
  /\ page = 0
  /\ page' = 1 /\ answered' = {} /\ finished' = FALSE
  /\ seen' = {} /\ still' = Range(listed) /\ disturbed' = FALSE
  /\ UNCHANGED <<tableVars, total>>

\* findMany with skip and take,
FindRows ==
  /\ Reading /\ "rows" \notin answered
  /\ seen' = seen \cup PageOf(listed, page)
  /\ answered' = answered \cup {"rows"}
  /\ UNCHANGED <<tableVars, page, total, finished, still, disturbed>>

\* and count.
CountRows ==
  /\ Reading /\ "count" \notin answered
  /\ total' = Len(listed)
  /\ answered' = answered \cup {"count"}
  /\ UNCHANGED <<tableVars, page, finished, seen, still, disturbed>>

\* Both have answered: the next page, or there is none.
AnswerPage ==
  /\ answered = {"rows", "count"}
  /\ IF page < TotalPages(total)
     THEN page' = page + 1 /\ UNCHANGED finished
     ELSE page' = 0 /\ finished' = TRUE
  /\ answered' = {}
  /\ UNCHANGED <<tableVars, total, seen, still, disturbed>>

\* A statement fails: the reader is told, or has what looks like an answer.
ListingFails ==
  /\ Reading
  /\ page' = 0 /\ answered' = {}
  /\ finished' = listing.hides /\ disturbed' = TRUE
  /\ UNCHANGED <<tableVars, total, seen, still>>

ListingsNext ==
  \/ RowAppears \/ RowLeaves \/ RowMoves
  \/ OpenListing \/ FindRows \/ CountRows \/ AnswerPage \/ ListingFails

ListingsSpec == ListingsInit /\ [][ListingsNext]_listingVars

-----------------------------------------------------------------------------
\* Types of the table and of what the reader has.
ListingsTypeOK ==
  /\ listing \in AllListings
  /\ listed \in Seq(1 .. MaxListed) /\ IsInjective(listed)
  /\ appeared \in 0 .. MaxListed /\ page \in Nat /\ total \in Nat
  /\ answered \subseteq {"rows", "count"} /\ finished \in BOOLEAN
  /\ seen \subseteq 1 .. MaxListed /\ still \subseteq Range(listed)
  /\ disturbed \in BOOLEAN

\* Whatever is written meanwhile, a reader that goes through all the pages
\* gets every row that was there all the time, unless a row left or moved,
\* or came between the count of a page and its rows (findAll of every
\* service: skip, take, count and totalPages).
EveryRowIsShown == finished /\ ~disturbed => still \subseteq seen
=============================================================================
