----------------------------- MODULE Deliveries -----------------------------
(***************************************************************************)
(* Delivery orders: partial deliveries against the planned quantities, the *)
(* draft invoice that grows with them, and its emission.  Only the growth  *)
(* of a draft is a transaction: the other operations read the order, then  *)
(* its deliveries, and write what they concluded one statement at a time.  *)
(***************************************************************************)
EXTENDS Naturals, FiniteSetsExt, Functions, SequencesExt

CONSTANTS Orders,      \* delivery orders that start without an invoice
          Items,       \* descriptions
          Plan,        \* the planned quantities of each order: an item has
                       \* one line, and may come again in a second one
          Invoices,    \* identifiers for the invoices that are created
          NoInvoice,
          Requests,
          MaxUnits     \* bound: units of an item in one registered delivery

ASSUME DeliveriesAssumption ==
  /\ Orders # {} /\ NoInvoice \notin Invoices /\ MaxUnits \in Nat
  /\ Plan \in [Orders -> [Items -> [line : Nat, again : Nat]]]

VARIABLES status,      \* of each order
          delivered,   \* sum of the deliveries of each order, by item
          registered,  \* orders with some row in their list of deliveries
          link,        \* the invoice of each order
          invoice,     \* status of each invoice, "none" before it exists
          billed,      \* quantities of the lines of each invoice, by item
          declared,    \* the same, as they were last sent to the DIAN
          pc, job,     \* what each request does next and what it has read
          made,        \* the invoices that were created for each order
          crossed,     \* orders that two requests worked on at a time
          orphaned     \* orders that a crash left without their new invoice

orderVars == <<status, delivered, registered, link>>
invoiceVars == <<invoice, billed, declared, made>>
vars == <<orderVars, invoiceVars, pc, job, crossed, orphaned>>

Status == {"PENDIENTE", "PARCIALMENTE_ENTREGADA", "ENTREGADA", "CANCELADA"}
Closed == {"ENTREGADA", "CANCELADA"}
PC == {"idle", "register", "mark", "check", "sync",      \* deliveries not read
       "record", "close", "bill", "link", "draft", "grow", "issue"}
Quantities == [Items -> Nat]
Job == [order : Orders, lines : Quantities, wanted : Status,
        invoice : Invoices \cup {NoInvoice}, known : SUBSET Items]

Nothing == [x \in Items |-> 0]
NoLines == [x \in Items |-> <<>>]
Work(o, lines, wanted, i) ==
  [order |-> o, lines |-> lines, wanted |-> wanted, invoice |-> i, known |-> {}]
NoJob == Work(CHOOSE o \in Orders : TRUE, Nothing, "PENDIENTE", NoInvoice)

-----------------------------------------------------------------------------
\* sumQuantities of the planned lines, those of one description added up.
Planned(o, x) == Plan[o][x].line + Plan[o][x].again

\* What markFullyDelivered finds missing: line by line, each against all that
\* was delivered of its description; also, without the filter left > 0.
LeftSigned(quantity, done) == quantity - done
Left(quantity, done) == IF quantity > done THEN quantity - done ELSE 0
Remaining(o, done, x) ==
  Left(Plan[o][x].line, done[x]) + Left(Plan[o][x].again, done[x])

\* isTotal, and the opposite of hasRemaining.
Complete(o, done) == \A x \in Items : done[x] >= Planned(o, x)

\* What registerDelivery accepts: nothing above what remains of the plan;
\* also, a comparison with the plan itself.
FitsPlan(o, done, lines) ==
  \A x \in Items : lines[x] > 0 => lines[x] <= Planned(o, x)
Fits(o, done, lines) ==
  \A x \in Items : lines[x] > 0 => done[x] + lines[x] <= Planned(o, x)

\* hasRemaining, asked only when there are rows; also, with every for some.
MissingAll(o) ==
  o \in registered /\ \A x \in Items : delivered[o][x] < Planned(o, x)
Missing(o) == o \in registered /\ ~Complete(o, delivered[o])

\* The checks on the status of the order; also, without that of CANCELADA.
NotDelivered(o) == status[o] # "ENTREGADA"
MayDeliver(o) == status[o] \notin Closed

\* What syncInvoiceFromDeliveries bills of an order; also, all its plan.
WholePlan(o) == [x \in Items |-> Planned(o, x)]
Billable(o) == delivered[o]

\* Only a draft grows; also, any invoice.
HasInvoice(i) == invoice[i] # "none"
MayGrow(i) == invoice[i] = "BORRADOR"

\* The lines of an item after the transaction: the first one gets all its
\* quantity, or a new one is added when none was read; also, without looking
\* for a match, and with the difference in its place.
AlwaysAdded(have, quantity, matched) == Append(have, quantity)
OnlyNew(have, quantity, matched) ==
  IF matched THEN [have EXCEPT ![1] = quantity - have[1]] ELSE Append(have, quantity)
Grown(have, quantity, matched) ==
  IF matched THEN [have EXCEPT ![1] = quantity] ELSE Append(have, quantity)

\* One line for each item with some quantity.
DraftLines(lines) ==
  [x \in Items |-> IF lines[x] > 0 THEN <<lines[x]>> ELSE <<>>]

Units(lines) == FoldSeq(+, 0, lines)

Plus(done, lines) == [x \in Items |-> done[x] + lines[x]]

-----------------------------------------------------------------------------
Init ==
  /\ status = [o \in Orders |-> "PENDIENTE"]
  /\ delivered = [o \in Orders |-> Nothing]
  /\ registered = {}
  /\ link = [o \in Orders |-> NoInvoice]
  /\ invoice = [i \in Invoices |-> "none"]
  /\ billed = [i \in Invoices |-> NoLines]
  /\ declared = [i \in Invoices |-> NoLines]
  /\ made = [o \in Orders |-> {}]
  /\ pc = [r \in Requests |-> "idle"]
  /\ job = [r \in Requests |-> NoJob]
  /\ crossed = {} /\ orphaned = {}

Start(r, o, label) ==
  /\ pc[r] = "idle"
  /\ pc' = [pc EXCEPT ![r] = label]
  /\ crossed' = IF \E q \in Requests : pc[q] # "idle" /\ job[q].order = o
                THEN crossed \cup {o} ELSE crossed

Goto(r, label) == pc' = [pc EXCEPT ![r] = label]

Finish(r) == Goto(r, "idle") /\ job' = [job EXCEPT ![r] = NoJob]

\* registerDelivery, findOne and the status checks.
BeginRegister(r, o, lines) ==
  /\ MayDeliver(o)
  /\ Start(r, o, "register")
  /\ job' = [job EXCEPT ![r] = Work(o, lines, "PENDIENTE", NoInvoice)]
  /\ UNCHANGED <<orderVars, invoiceVars, orphaned>>

\* The deliveries are read; what is above the plan is rejected.
CheckDelivery(r) ==
  LET o    == job[r].order
      done == delivered[o]
  IN
  /\ pc[r] = "register"
  /\ \/ /\ Fits(o, done, job[r].lines)
        /\ job' = [job EXCEPT ![r].wanted =
                     IF Complete(o, Plus(done, job[r].lines))
                     THEN "ENTREGADA" ELSE "PARCIALMENTE_ENTREGADA"]
        /\ Goto(r, "record")
     \/ ~Fits(o, done, job[r].lines) /\ Finish(r)
  /\ UNCHANGED <<orderVars, invoiceVars, crossed, orphaned>>

\* markFullyDelivered: an order already delivered is returned as it is.
BeginMark(r, o) ==
  /\ MayDeliver(o)
  /\ Start(r, o, "mark")
  /\ job' = [job EXCEPT ![r] = Work(o, Nothing, "PENDIENTE", NoInvoice)]
  /\ UNCHANGED <<orderVars, invoiceVars, orphaned>>

FindRemaining(r) ==
  LET o    == job[r].order
      left == [x \in Items |-> Remaining(o, delivered[o], x)]
  IN
  /\ pc[r] = "mark"
  /\ job' = [job EXCEPT ![r].lines = left, ![r].wanted = "ENTREGADA"]
  /\ Goto(r, IF left = Nothing THEN "close" ELSE "record")
  /\ UNCHANGED <<orderVars, invoiceVars, crossed, orphaned>>

\* The row of deliveries, of a delivery or of the remainder.
RecordDelivery(r) ==
  LET o == job[r].order IN
  /\ pc[r] = "record"
  /\ delivered' = [delivered EXCEPT ![o] = Plus(delivered[o], job[r].lines)]
  /\ registered' = registered \cup {o}
  /\ job' = [job EXCEPT ![r].lines = Nothing]
  /\ Goto(r, "close")
  /\ UNCHANGED <<status, link, invoiceVars, crossed, orphaned>>

\* updateStatus: any status but that of a cancelled order; delivered only
\* when no row shows that something is missing.
BeginStatus(r, o, wanted) ==
  /\ status[o] # "CANCELADA"
  /\ Start(r, o, IF wanted = "ENTREGADA" THEN "check" ELSE "close")
  /\ job' = [job EXCEPT ![r] = Work(o, Nothing, wanted, NoInvoice)]
  /\ UNCHANGED <<orderVars, invoiceVars, orphaned>>

CheckComplete(r) ==
  /\ pc[r] = "check"
  /\ IF Missing(job[r].order)
     THEN Finish(r)
     ELSE Goto(r, "close") /\ UNCHANGED job
  /\ UNCHANGED <<orderVars, invoiceVars, crossed, orphaned>>

\* The last write of the three operations.
CloseOrder(r) ==
  /\ pc[r] = "close"
  /\ status' = [status EXCEPT ![job[r].order] = job[r].wanted]
  /\ Finish(r)
  /\ UNCHANGED <<delivered, registered, link, invoiceVars, crossed, orphaned>>

-----------------------------------------------------------------------------
\* syncInvoiceFromDeliveries.
BeginSync(r, o) ==
  /\ status[o] # "CANCELADA"
  /\ Start(r, o, "sync")
  /\ job' = [job EXCEPT ![r] = Work(o, Nothing, "PENDIENTE", link[o])]
  /\ UNCHANGED <<orderVars, invoiceVars, orphaned>>

AddUp(r) ==
  LET o == job[r].order IN
  /\ pc[r] = "sync"
  /\ IF o \in registered
     THEN /\ job' = [job EXCEPT ![r].lines = Billable(o)]
          /\ Goto(r, IF job[r].invoice = NoInvoice THEN "bill" ELSE "draft")
     ELSE Finish(r)
  /\ UNCHANGED <<orderVars, invoiceVars, crossed, orphaned>>

\* A new draft, one line for each item that was delivered.
CreateDraft(r, i) ==
  /\ pc[r] = "bill"
  /\ invoice[i] = "none"
  /\ invoice' = [invoice EXCEPT ![i] = "BORRADOR"]
  /\ billed' = [billed EXCEPT ![i] = DraftLines(job[r].lines)]
  /\ made' = [made EXCEPT ![job[r].order] = @ \cup {i}]
  /\ job' = [job EXCEPT ![r].invoice = i, ![r].lines = Nothing]
  /\ Goto(r, "link")
  /\ UNCHANGED <<orderVars, declared, crossed, orphaned>>

LinkInvoice(r) ==
  /\ pc[r] = "link"
  /\ link' = [link EXCEPT ![job[r].order] = job[r].invoice]
  /\ Finish(r)
  /\ UNCHANGED <<status, delivered, registered, invoiceVars, crossed, orphaned>>

\* The linked invoice is read with its lines; an emitted one is left alone.
ReadDraft(r) ==
  LET i == job[r].invoice IN
  /\ pc[r] = "draft"
  /\ IF MayGrow(i)
     THEN /\ job' = [job EXCEPT ![r].known =
                       {x \in Items : billed[i][x] # <<>>}]
          /\ Goto(r, "grow")
     ELSE Finish(r)
  /\ UNCHANGED <<orderVars, invoiceVars, crossed, orphaned>>

\* The transaction: lines that were there are replaced, others are added.
GrowDraft(r) ==
  LET i == job[r].invoice IN
  /\ pc[r] = "grow"
  /\ billed' = [billed EXCEPT ![i] =
       [x \in Items |->
          IF job[r].lines[x] = 0 THEN billed[i][x]
          ELSE Grown(billed[i][x], job[r].lines[x], x \in job[r].known)]]
  /\ Finish(r)
  /\ UNCHANGED <<orderVars, invoice, declared, made, crossed, orphaned>>

-----------------------------------------------------------------------------
\* The emission of the linked draft: its lines go to the DIAN, and later its
\* status shows the answer, unless it was rejected.
BeginIssue(r, o) ==
  LET i == link[o] IN
  /\ i # NoInvoice
  /\ invoice[i] = "BORRADOR"
  /\ Start(r, o, "issue")
  /\ declared' = [declared EXCEPT ![i] = billed[i]]
  /\ job' = [job EXCEPT ![r] = Work(o, Nothing, "PENDIENTE", i)]
  /\ UNCHANGED <<orderVars, invoice, billed, made, orphaned>>

Issue(r) ==
  /\ pc[r] = "issue"
  /\ \/ /\ invoice' = [invoice EXCEPT ![job[r].invoice] = "EMITIDA"]
        /\ UNCHANGED declared
     \/ /\ declared' = [declared EXCEPT ![job[r].invoice] = NoLines]
        /\ UNCHANGED invoice
  /\ Finish(r)
  /\ UNCHANGED <<orderVars, billed, made, crossed, orphaned>>

\* The process dies, or a statement fails, between two steps of a request.
Crash(r) ==
  /\ pc[r] # "idle"
  /\ orphaned' = IF pc[r] = "link" THEN orphaned \cup {job[r].order} ELSE orphaned
  /\ Finish(r)
  /\ UNCHANGED <<orderVars, invoiceVars, crossed>>

Begin(r, o) ==
  \/ \E lines \in [Items -> 0..MaxUnits] : BeginRegister(r, o, lines)
  \/ BeginMark(r, o)
  \/ \E wanted \in Status : BeginStatus(r, o, wanted)
  \/ BeginSync(r, o)
  \/ BeginIssue(r, o)

Deliver(r) ==
  \/ CheckDelivery(r) \/ FindRemaining(r) \/ RecordDelivery(r)
  \/ CheckComplete(r) \/ CloseOrder(r)

Bill(r) ==
  \/ AddUp(r) \/ (\E i \in Invoices : CreateDraft(r, i)) \/ LinkInvoice(r)
  \/ ReadDraft(r) \/ GrowDraft(r) \/ Issue(r)

Next ==
  \E r \in Requests :
    (\E o \in Orders : Begin(r, o)) \/ Deliver(r) \/ Bill(r) \/ Crash(r)

Spec == Init /\ [][Next]_vars

-----------------------------------------------------------------------------
TypeOK ==
  /\ status \in [Orders -> Status]
  /\ delivered \in [Orders -> Quantities]
  /\ registered \subseteq Orders
  /\ link \in [Orders -> Invoices \cup {NoInvoice}]
  /\ invoice \in [Invoices -> {"none", "BORRADOR", "EMITIDA"}]
  /\ billed \in [Invoices -> [Items -> Seq(Nat)]]
  /\ declared \in [Invoices -> [Items -> Seq(Nat)]]
  /\ made \in [Orders -> SUBSET Invoices]
  /\ pc \in [Requests -> PC]
  /\ job \in [Requests -> Job]
  /\ crossed \subseteq Orders /\ orphaned \subseteq Orders

\* An order that one request at a time has worked on, whatever crashed.
Quiet(o) == o \notin crossed

\* registerDelivery rejects what is above the plan: neither partial deliveries,
\* nor the remainder, nor a retry after a crash take an order beyond it.
NeverOverDelivered ==
  \A o \in Orders, x \in Items : Quiet(o) => delivered[o][x] <= Planned(o, x)

\* One line of the plan for each description.
PlainPlan(o) == \A x \in Items : Plan[o][x].again = 0

\* An order with registered deliveries that is closed as delivered was
\* delivered in full, through any of the three ways of closing it.
DeliveredInFull ==
  \A o \in Orders :
    Quiet(o) /\ PlainPlan(o) /\ status[o] = "ENTREGADA" /\ o \in registered
      => Complete(o, delivered[o])

\* A cancelled order takes no more deliveries, has no new lines in its
\* invoice and never comes back.
CancelledIsClosed ==
  [][\A o \in Orders :
       Quiet(o)' /\ status[o] = "CANCELADA" =>
         /\ status'[o] = "CANCELADA"
         /\ delivered'[o] = delivered[o]
         /\ \A i \in made[o] : billed'[i] = billed[i]]_vars

\* No line of an invoice made for an order bills more than was delivered of
\* its item, however many requests deliver, sync and emit at the same time.
LinesWereDelivered ==
  \A o \in Orders : \A i \in made[o] : \A x \in Items :
    \A n \in DOMAIN billed[i][x] : billed[i][x][n] <= delivered[o][x]

\* One order at a time, an item is billed in one line of one invoice, unless
\* a crash separated the invoice from its order.
BilledOnce ==
  \A o \in Orders :
    Quiet(o) =>
      /\ o \notin orphaned => Cardinality(made[o]) <= 1
      /\ \A i \in made[o], x \in Items : Len(billed[i][x]) <= 1

\* An emitted invoice keeps the quantities that the DIAN has.
IssuedAsDeclared ==
  \A o \in Orders : \A i \in made[o] :
    Quiet(o) /\ invoice[i] = "EMITIDA" => billed[i] = declared[i]

\* The draft only grows.
DraftGrows ==
  [][\A o \in Orders : \A i \in made[o], x \in Items :
       Quiet(o)' => Units(billed[i][x]) <= Units(billed'[i][x])]_vars

-----------------------------------------------------------------------------
\* "Marcar entrega total" registers the remainder (planned minus delivered):
\* with any plan, an order it closes was delivered in full.
MarkedInFull ==
  \A o \in Orders :
    Quiet(o) /\ status[o] = "ENTREGADA" /\ o \in registered
      => Complete(o, delivered[o])
=============================================================================
