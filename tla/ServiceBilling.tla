--------------------------- MODULE ServiceBilling ---------------------------
(***************************************************************************)
(* Services and the invoices made from them: a service is created, edited, *)
(* moved from one status to another and billed, in the order that requests *)
(* happen to have.  Every handler checks the service that it read and      *)
(* writes it without a condition; only the transaction that bills it is    *)
(* held back, by the unique link of a service and by the lock on the       *)
(* number of the next invoice.  The worth of a line is its quantity times  *)
(* its price: discount and tax are in LineMoney.                           *)
(***************************************************************************)
EXTENDS OfficeRequests

CONSTANTS Services, ServiceInvoices,   \* identifiers for new rows
          MaxQuantity, MaxPrice        \* bounds of a line

VARIABLES service,        \* the rows
          invoice,        \* the invoices made from services, with their line
          invoiceNext,    \* company_settings.invoice_next_number
          renumbered      \* history: what it was when it was last set

serviceVars == <<requestVars, service, invoice, invoiceNext, renumbered>>
numbering == <<invoiceNext, renumbered>>

ServiceStatus ==
  {"SOLICITADO", "EN_PROCESO", "TERMINADO", "ENTREGADO", "FACTURADO", "CANCELADO"}

ASSUME ServicesAssumption ==
  /\ MaxQuantity \in Nat /\ MaxPrice \in Nat
  /\ None \notin Services \cup ServiceInvoices

ServiceQuantities == 1 .. MaxQuantity
ServicePrices == 1 .. MaxPrice
ServicePC == {"status", "write", "bill"}

Worth(quantity, price) == quantity * price
ServiceRow(status, quantity, price, total) ==
  [status |-> status, quantity |-> quantity, price |-> price, total |-> total]
InvoiceRow(number, of, quantity, price, total) ==
  [number |-> number, of |-> of, quantity |-> quantity, price |-> price,
   total |-> total]
NoService == ServiceRow("none", 0, 0, 0)
NoInvoice == InvoiceRow(0, None, 0, 0, 0)

Requested(s) == service[s].status # "none"
Invoiced(i) == invoice[i].number # 0
Linked(s) == \E i \in ServiceInvoices : invoice[i].of = s

ServicesInit ==
  /\ RequestsInit
  /\ service = [s \in Services |-> NoService]
  /\ invoice = [i \in ServiceInvoices |-> NoInvoice]
  /\ invoiceNext = 1 /\ renumbered = 1

-----------------------------------------------------------------------------
\* create, once the customer and the type of service were found active.
CreateService(s, quantity, price) ==
  /\ ~Requested(s)
  /\ service' = [service EXCEPT ![s] =
       ServiceRow("SOLICITADO", quantity, price, Worth(quantity, price))]
  /\ UNCHANGED <<requestVars, invoice, numbering>>

\* A status that may be left by hand; also, any.
AnyStatus(s) == Requested(s)
NotBilled(s) == Requested(s) /\ service[s].status # "FACTURADO"

\* updateStatus: any status of the enumeration, FACTURADO too.
BeginServiceStatus(r, s, status) ==
  /\ NotBilled(s)
  /\ Begin(r, "status", Sheet(s, None, ServiceRow(status, 0, 0, 0), 0))
  /\ UNCHANGED <<service, invoice, numbering>>

WriteServiceStatus(r) ==
  LET s == sheet[r].row
      row == service[s]
  IN
  /\ pc[r] = "status"
  /\ service' = [service EXCEPT ![s] =
       ServiceRow(sheet[r].wanted.status, row.quantity, row.price, row.total)]
  /\ FinishWriting(r, s)
  /\ UNCHANGED <<invoice, numbering>>

\* update: what is not given, 0, is written back as it was read.
BeginServiceUpdate(r, s, quantity, price) ==
  LET q == IF quantity = 0 THEN service[s].quantity ELSE quantity
      p == IF price = 0 THEN service[s].price ELSE price
  IN
  /\ NotBilled(s)
  /\ Begin(r, "write", Sheet(s, None, ServiceRow("none", q, p, Worth(q, p)), 0))
  /\ UNCHANGED <<service, invoice, numbering>>

\* The row with the line that was read and changed.
WithLine(row, line) == ServiceRow(row.status, line.quantity, line.price, line.total)

WriteService(r) ==
  LET s == sheet[r].row IN
  /\ pc[r] = "write"
  /\ service' = [service EXCEPT ![s] = WithLine(service[s], sheet[r].wanted)]
  /\ FinishWriting(r, s)
  /\ UNCHANGED <<invoice, numbering>>

-----------------------------------------------------------------------------
\* The services to bill: done, and not linked to an invoice.
Pending(s) == service[s].status \in {"TERMINADO", "ENTREGADO"} /\ ~Linked(s)

BeginServiceInvoice(r, s) ==
  /\ Pending(s)
  /\ Begin(r, "bill", Sheet(s, None, service[s], 0))
  /\ UNCHANGED <<service, invoice, numbering>>

\* The indexes that the transaction must not violate: a service has one link
\* and a number one invoice; also, without the first one.
NumberIsFree(s) == \A i \in ServiceInvoices : invoice[i].number # invoiceNext
KeepsNumbers(s) == NumberIsFree(s)
KeepsIndexes(s) == ~Linked(s) /\ NumberIsFree(s)

\* The number after a transaction that commits or rolls back; also, when the
\* number is taken in a transaction of its own.
NumberSpent(commits) == invoiceNext + 1
NumberAfter(commits) == IF commits THEN invoiceNext + 1 ELSE invoiceNext

\* The transaction of invoiceFromService: allocateInvoiceNumber, the invoice
\* with a copy of what was read and the link, the status; or nothing.
BillService(r, i) ==
  LET s == sheet[r].row
      line == sheet[r].wanted
      commits == KeepsIndexes(s)
  IN
  /\ pc[r] = "bill" /\ ~Invoiced(i)
  /\ NumberAfter(commits) <= MaxNumber + 1
  /\ invoiceNext' = NumberAfter(commits)
  /\ IF commits
     THEN /\ invoice' = [invoice EXCEPT ![i] = InvoiceRow(
                invoiceNext, s, line.quantity, line.price, line.total)]
          /\ service' = [service EXCEPT ![s] = ServiceRow("FACTURADO",
                service[s].quantity, service[s].price, service[s].total)]
          /\ FinishWriting(r, s)
     ELSE UNCHANGED <<invoice, service>> /\ Finish(r)
  /\ UNCHANGED renumbered

\* settings.updateSettings with invoiceNextNumber.
RenumberInvoices(n) ==
  /\ invoiceNext' = n /\ renumbered' = n
  /\ UNCHANGED <<requestVars, service, invoice>>

CutServices(r) ==
  CutShort(r) /\ UNCHANGED <<service, invoice, numbering>>

ServicesNext ==
  \/ \E s \in Services, q \in ServiceQuantities, p \in ServicePrices : CreateService(s, q, p)
  \/ \E n \in 1 .. MaxNumber : RenumberInvoices(n)
  \/ \E r \in Requests :
       \/ \E s \in Services :
            \/ \E status \in ServiceStatus \cap Wanted : BeginServiceStatus(r, s, status)
            \/ \E q \in {0} \cup ServiceQuantities, p \in {0} \cup ServicePrices :
                 BeginServiceUpdate(r, s, q, p)
            \/ BeginServiceInvoice(r, s)
       \/ WriteServiceStatus(r) \/ WriteService(r)
       \/ \E i \in ServiceInvoices : BillService(r, i)
       \/ CutServices(r)

ServicesSpec == ServicesInit /\ [][ServicesNext]_serviceVars

-----------------------------------------------------------------------------
\* Types of the rows and of the sheets of this desk.
ServicesTypeOK ==
  /\ service \in [Services -> [status : ServiceStatus \cup {"none"},
                               quantity : Nat, price : Nat, total : Nat]]
  /\ invoice \in [ServiceInvoices -> [number : Nat, of : Services \cup {None},
                               quantity : Nat, price : Nat, total : Nat]]
  /\ invoiceNext \in Nat \ {0} /\ renumbered \in Nat \ {0}
  /\ \A r \in Requests : pc[r] \in ServicePC => sheet[r].row \in Services

\* Billed by two requests at a time, edited meanwhile or taken back to
\* TERMINADO by a late one, a service never gets a second invoice, nor two
\* invoices one number (invoiceFromService).
OneInvoicePerService ==
  \A i, j \in {k \in ServiceInvoices : Invoiced(k)} :
     i # j => invoice[i].of # invoice[j].of /\ invoice[i].number # invoice[j].number

\* Since the administrator last set it, the numbers up to the next one are
\* all on invoices: one that a failed request took is given again
\* (allocateInvoiceNumber inside the transaction of invoiceFromService).
NoNumberIsSkipped ==
  \A n \in renumbered .. invoiceNext - 1 :
     \E i \in ServiceInvoices : invoice[i].number = n

\* An invoice says what its service is worth when it is made, and an invoiced
\* service keeps its line and its status, but for requests that had read the
\* service before somebody wrote it (update, updateStatus, invoiceFromService).
SaysAsMuch(i) ==
  LET s == invoice[i].of IN
  /\ service[s].quantity = invoice[i].quantity /\ service[s].price = invoice[i].price
  /\ service[s].total = invoice[i].total /\ service[s].status = "FACTURADO"
BilledAsAgreed ==
  [][\A i \in ServiceInvoices, r \in Requests :
       Fresh(r) /\ Invoiced(i)' /\ (Invoiced(i) => SaysAsMuch(i))
         => SaysAsMuch(i)']_serviceVars
=============================================================================
