------------------------------ MODULE Sourcing ------------------------------
(***************************************************************************)
(* Quotes, purchase orders and the orders of delivery made from them.      *)
(* Every document takes the next number of its series in a transaction of  *)
(* its own and is written after it.  The documents of a series are created *)
(* from an approved one that was read before; what was approved may be     *)
(* rejected, billed or cancelled meanwhile.  Items, totals, customers and  *)
(* the invoice that an order may cite are copied and are left out.         *)
(***************************************************************************)
EXTENDS OfficeRequests

CONSTANTS Quotes, Purchases, Deliveries  \* identifiers for new documents

ASSUME SourcingAssumption ==
  /\ None \notin Quotes \cup Purchases \cup Deliveries
  /\ Quotes \cap Purchases = {} /\ Quotes \cap Deliveries = {}
  /\ Purchases \cap Deliveries = {}

VARIABLES paper,      \* status of each document, "none" before it exists
          origin,     \* the document that each one was made from
          paperNumber,\* the number on it, 0 before it exists
          counter,    \* document_sequences.value, 0 when there is no row
          approved    \* documents that were approved at some time

sourcingVars ==
  <<requestVars, paper, origin, paperNumber, counter, approved>>
documentVars == <<paper, origin, paperNumber, approved>>

Papers == Quotes \cup Purchases \cup Deliveries
DocumentSeries == {"quote", "purchase-order", "delivery-order"}
SeriesOf(d) == IF d \in Quotes THEN "quote"
               ELSE IF d \in Purchases THEN "purchase-order" ELSE "delivery-order"

QuoteStatus == {"PENDIENTE", "APROBADA", "RECHAZADA", "FACTURADA"}
PurchaseStatus == {"SOLICITADA", "APROBADA", "RECIBIDA", "CANCELADA"}
StatusesOf(d) == IF d \in Quotes THEN QuoteStatus ELSE PurchaseStatus

\* The default of the column; also, one for all.  What is done with an order
\* of delivery later is in Deliveries.
PendingFirst(d) == "PENDIENTE"
FirstStatus(d) == IF d \in Purchases THEN "SOLICITADA" ELSE "PENDIENTE"
Statuses(d) == IF d \in Deliveries THEN {"PENDIENTE"} ELSE StatusesOf(d)
SourcingPC == {"number", "create", "approve", "status"}

SourcingInit ==
  /\ RequestsInit
  /\ paper = [d \in Papers |-> "none"]
  /\ origin = [d \in Papers |-> None]
  /\ paperNumber = [d \in Papers |-> 0]
  /\ counter = [s \in DocumentSeries |-> 0]
  /\ approved = {}

-----------------------------------------------------------------------------
Unused(d) == paper[d] = "none" /\ Free(d)

\* The only status that can be ordered from; also, any that is not final.
NotClosed(d) == paper[d] \in {"PENDIENTE", "SOLICITADA", "APROBADA"}
Orderable(d) == paper[d] = "APROBADA"

\* quotes.create: the customer exists, each price is above zero.
BeginQuote(r, q) ==
  /\ q \in Quotes /\ Unused(q)
  /\ Begin(r, "number", Sheet(q, None, "create", 0))
  /\ UNCHANGED <<documentVars, counter>>

\* convertToPurchaseOrder, and purchase-orders.create that cites a quote;
\* "convert" writes the status of the quote when it ends.
BeginPurchase(r, p, q, way) ==
  /\ p \in Purchases /\ Unused(p) /\ q \in Quotes /\ Orderable(q)
  /\ Begin(r, "number", Sheet(p, q, way, 0))
  /\ UNCHANGED <<documentVars, counter>>

\* convertToDeliveryOrder, and delivery-orders.create.
BeginDelivery(r, d, p) ==
  /\ d \in Deliveries /\ Unused(d) /\ p \in Purchases /\ Orderable(p)
  /\ Begin(r, "number", Sheet(d, p, "create", 0))
  /\ UNCHANGED <<documentVars, counter>>

\* nextDocumentNumber, under the lock of its row; also, without the lock.
SameNumber(value) == value + (value % 2)
FollowingNumber(value) == value + 1

TakeNumber(r) ==
  LET s == SeriesOf(sheet[r].row)
      n == FollowingNumber(counter[s])
  IN
  /\ pc[r] = "number" /\ n <= MaxNumber
  /\ counter' = [counter EXCEPT ![s] = n]
  /\ Carry(r, "create", Sheet(sheet[r].row, sheet[r].other, sheet[r].wanted, n))
  /\ UNCHANGED <<documentVars, stale>>

CreateDocument(r) ==
  LET d == sheet[r].row IN
  /\ pc[r] = "create"
  /\ paper' = [paper EXCEPT ![d] = FirstStatus(d)]
  /\ origin' = [origin EXCEPT ![d] = sheet[r].other]
  /\ paperNumber' = [paperNumber EXCEPT ![d] = sheet[r].number]
  /\ IF sheet[r].wanted = "convert"
     THEN Goto(r, "approve") /\ UNCHANGED stale
     ELSE Finish(r)
  /\ UNCHANGED <<approved, counter>>

\* The quote that was converted is approved, whatever it has become.
ApproveAgain(r) ==
  /\ pc[r] = "approve"
  /\ paper' = [paper EXCEPT ![sheet[r].other] = "APROBADA"]
  /\ approved' = approved \cup {sheet[r].other}
  /\ FinishWriting(r, sheet[r].other)
  /\ UNCHANGED <<origin, paperNumber, counter>>

-----------------------------------------------------------------------------
\* updateStatus: any status of the enumeration, unless the document is
\* closed; also, without that check.
Existing(d) == paper[d] # "none"
FinalStatus(d) == IF d \in Quotes THEN "FACTURADA" ELSE "CANCELADA"
Open(d) == paper[d] \notin {"none", FinalStatus(d)}

BeginPaperStatus(r, d, wanted) ==
  /\ d \in Quotes \cup Purchases /\ Open(d) /\ wanted \in StatusesOf(d)
  /\ Begin(r, "status", Sheet(d, None, wanted, 0))
  /\ UNCHANGED <<documentVars, counter>>

WritePaperStatus(r) ==
  LET d == sheet[r].row IN
  /\ pc[r] = "status"
  /\ paper' = [paper EXCEPT ![d] = sheet[r].wanted]
  /\ approved' = IF sheet[r].wanted = "APROBADA" THEN approved \cup {d} ELSE approved
  /\ FinishWriting(r, d)
  /\ UNCHANGED <<origin, paperNumber, counter>>

CutSourcing(r) ==
  /\ CutShort(r) /\ UNCHANGED <<documentVars, counter>>

SourcingNext ==
  \E r \in Requests :
     \/ \E q \in Quotes : BeginQuote(r, q)
     \/ \E p \in Purchases, q \in Quotes, way \in {"create", "convert"} :
          BeginPurchase(r, p, q, way)
     \/ \E d \in Deliveries, p \in Purchases : BeginDelivery(r, d, p)
     \/ \E d \in Quotes \cup Purchases : \E wanted \in StatusesOf(d) \cap Wanted :
          BeginPaperStatus(r, d, wanted)
     \/ TakeNumber(r) \/ CreateDocument(r) \/ ApproveAgain(r)
     \/ WritePaperStatus(r) \/ CutSourcing(r)

SourcingSpec == SourcingInit /\ [][SourcingNext]_sourcingVars

-----------------------------------------------------------------------------
\* Types of the documents and of the sheets of this desk.
SourcingTypeOK ==
  /\ DOMAIN paper = Papers
  /\ \A d \in Papers : paper[d] \in {"none"} \cup Statuses(d)
  /\ origin \in [Papers -> Papers \cup {None}]
  /\ paperNumber \in [Papers -> Nat]
  /\ counter \in [DocumentSeries -> Nat]
  /\ approved \subseteq Papers
  /\ \A r \in Requests : pc[r] \in SourcingPC =>
        /\ sheet[r].row \in Papers /\ sheet[r].other \in Papers \cup {None}
        /\ sheet[r].number \in Nat

\* An order is never made from a document that nobody approved, and whatever
\* was made, by how many requests at a time, its origin existed before it
\* (the checks before nextDocumentNumber in quotes, purchase-orders and
\* delivery-orders).
OrderedWasApproved ==
  \A d \in Purchases \cup Deliveries :
     paper[d] # "none" => origin[d] \in approved /\ paper[origin[d]] # "none"

\* A quote that was billed and an order that was cancelled stay so, but for
\* a request that had read the document before somebody wrote it
\* (updateStatus; the conversion of a quote, which approves it at its end).
ClosedPapersStay ==
  [][\A d \in Quotes \cup Purchases, r \in Requests :
       paper[d] = FinalStatus(d) /\ Fresh(r) => paper'[d] = paper[d]]_sourcingVars

\* The numbers on the documents of a series, and those that requests hold.
WrittenNumbers == [s \in DocumentSeries |->
  {paperNumber[d] : d \in {x \in Papers : SeriesOf(x) = s /\ paper[x] # "none"}}]
HeldNumbers == [s \in DocumentSeries |->
  {sheet[r].number : r \in {q \in Requests :
     pc[q] = "create" /\ SeriesOf(sheet[q].row) = s}}]

Issuer == INSTANCE NumberIssuer WITH
  Series <- DocumentSeries, Editable <- {}, last <- counter,
  top <- [s \in DocumentSeries |-> MaxNumber],
  held <- HeldNumbers, written <- WrittenNumbers

\* Although the number and the document are two steps, nextDocumentNumber
\* gives the documents of a series increasing numbers that no two share.
SequencesAreIssuers == Issuer!Spec
=============================================================================
