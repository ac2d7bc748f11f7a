---------------------------- MODULE Office_proofs ----------------------------
(***************************************************************************)
(* Proofs about five more desks, for any number of requests and of rows:   *)
(* the invoices made from services, recurring services, mails, the tables  *)
(* with a key, and the files that rows point at.                           *)
(***************************************************************************)
EXTENDS Office, Numbering_proofs

USE OfficeAssumption, ServicesAssumption, RecurringAssumption, MailingAssumption

-----------------------------------------------------------------------------
(* Services: types, and the two indexes.                                   *)

ServiceRows == [status : ServiceStatus \cup {"none"}, quantity : Nat, price : Nat,
                total : Nat]
InvoiceRows == [number : Nat, of : Services \cup {None}, quantity : Nat,
                price : Nat, total : Nat]

AtService(r) ==
  /\ pc[r] \in {"idle", "status", "write", "bill"}
  /\ pc[r] # "idle" => sheet[r].row \in Services /\ sheet[r].wanted \in ServiceRows

ServicesTyped ==
  /\ Framed
  /\ service \in [Services -> ServiceRows]
  /\ invoice \in [ServiceInvoices -> InvoiceRows]
  /\ invoiceNext \in Nat \ {0} /\ renumbered \in Nat \ {0}
  /\ \A r \in Requests : AtService(r)

ServicesInv == ServicesTyped /\ OneInvoicePerService /\ NoNumberIsSkipped

LEMMA RowMakers ==
  /\ \A status \in ServiceStatus \cup {"none"}, q, p, t \in Nat :
       ServiceRow(status, q, p, t) \in ServiceRows
  /\ \A n \in Nat, s \in Services \cup {None}, q, p, t \in Nat :
       InvoiceRow(n, s, q, p, t) \in InvoiceRows
BY DEF ServiceRow, ServiceRows, InvoiceRow, InvoiceRows

LEMMA InvoiceFields ==
  ASSUME NEW n, NEW s, NEW q, NEW p, NEW t
  PROVE  InvoiceRow(n, s, q, p, t).number = n /\ InvoiceRow(n, s, q, p, t).of = s
BY DEF InvoiceRow

LEMMA InitServices == ServicesInit => ServicesInv
<1> SUFFICES ASSUME ServicesInit PROVE ServicesInv
  OBVIOUS
<1>1. Framed /\ \A r \in Requests : AtService(r)
  BY RequestsFramed DEF ServicesInit, AtService
<1>2. NoService \in ServiceRows /\ NoInvoice \in InvoiceRows
  BY RowMakers DEF NoService, NoInvoice
<1>3. ServicesTyped
  BY <1>1, <1>2 DEF ServicesInit, ServicesTyped
<1>4. \A i \in ServiceInvoices : ~Invoiced(i)
  BY InvoiceFields DEF ServicesInit, Invoiced, NoInvoice
<1>5. OneInvoicePerService /\ NoNumberIsSkipped
  BY <1>4 DEF ServicesInit, OneInvoicePerService, NoNumberIsSkipped
<1> QED BY <1>3, <1>5 DEF ServicesInv

\* A step of one request that leaves the tables as they are, or a service.
LEMMA ServiceStep ==
  ASSUME ServicesInv, NEW r \in Requests, Framed', OthersStay(r),
         \/ pc'[r] = "idle"
         \/ /\ pc'[r] \in {"status", "write", "bill"}
            /\ sheet'[r].row \in Services /\ sheet'[r].wanted \in ServiceRows,
         service' \in [Services -> ServiceRows], UNCHANGED <<invoice, numbering>>
  PROVE  ServicesInv'
<1>1. \A q \in Requests : AtService(q)'
  BY DEF ServicesInv, ServicesTyped, AtService, OthersStay
<1>2. ServicesTyped'
  BY <1>1 DEF ServicesInv, ServicesTyped, numbering
<1>3. OneInvoicePerService' /\ NoNumberIsSkipped'
  BY DEF ServicesInv, OneInvoicePerService, NoNumberIsSkipped, Invoiced, numbering
<1> QED BY <1>2, <1>3 DEF ServicesInv

LEMMA BeginServiceStep ==
  ASSUME ServicesInv, NEW r \in Requests, NEW s \in Services, NEW line \in ServiceRows,
         NEW label \in {"status", "write", "bill"}, Begin(r, label, Sheet(s, None, line, 0)),
         UNCHANGED <<service, invoice, numbering>>
  PROVE  ServicesInv'
<1>1. /\ Framed' /\ OthersStay(r) /\ pc'[r] = label
      /\ sheet'[r] = Sheet(s, None, line, 0)
  BY BeginEffect DEF ServicesInv, ServicesTyped
<1>2. sheet'[r].row = s /\ sheet'[r].wanted = line
  BY <1>1, SheetFields
<1>3. service' \in [Services -> ServiceRows]
  BY DEF ServicesInv, ServicesTyped
<1> QED BY <1>1, <1>2, <1>3, ServiceStep

\* A request that writes the line of one service and ends.
LEMMA WriteServiceStep ==
  ASSUME ServicesInv, NEW r \in Requests, NEW s \in Services, NEW line \in ServiceRows,
         service' = [service EXCEPT ![s] = line], FinishWriting(r, s),
         UNCHANGED <<invoice, numbering>>
  PROVE  ServicesInv'
<1>1. Framed' /\ OthersStay(r) /\ pc'[r] = "idle"
  BY FinishEffect DEF ServicesInv, ServicesTyped
<1>2. service' \in [Services -> ServiceRows]
  BY DEF ServicesInv, ServicesTyped
<1> QED BY <1>1, <1>2, ServiceStep

\* What the transaction writes when it commits.
BilledWith(i, s, line) ==
  /\ ~Linked(s) /\ NumberIsFree(s) /\ ~Invoiced(i)
  /\ invoiceNext' = invoiceNext + 1 /\ renumbered' = renumbered
  /\ invoice' = [invoice EXCEPT ![i] = line]
  /\ line.number = invoiceNext /\ line.of = s

LEMMA BilledKeepsIndexes ==
  ASSUME ServicesInv, NEW i \in ServiceInvoices, NEW s \in Services,
         NEW line \in InvoiceRows, BilledWith(i, s, line)
  PROVE  OneInvoicePerService' /\ NoNumberIsSkipped'
<1> USE DEF BilledWith
<1>1. /\ invoice \in [ServiceInvoices -> InvoiceRows] /\ invoiceNext \in Nat \ {0}
      /\ renumbered \in Nat \ {0}
  BY DEF ServicesInv, ServicesTyped
<1>2. \A j \in ServiceInvoices : invoice'[j] = IF j = i THEN line ELSE invoice[j]
  BY <1>1
<1>3. \A j \in ServiceInvoices : invoice[j].of # s /\ invoice[j].number # invoiceNext
  BY DEF Linked, NumberIsFree
<1>4. OneInvoicePerService'
  <2>1. ASSUME NEW j \in ServiceInvoices, NEW k \in ServiceInvoices, j # k,
               invoice'[j].number # 0, invoice'[k].number # 0
        PROVE  invoice'[j].of # invoice'[k].of /\ invoice'[j].number # invoice'[k].number
    BY <1>2, <1>3, <2>1 DEF ServicesInv, OneInvoicePerService, Invoiced
  <2> QED BY <2>1 DEF OneInvoicePerService, Invoiced
<1>5. NoNumberIsSkipped'
  <2>1. ASSUME NEW n \in renumbered .. invoiceNext
        PROVE  \E j \in ServiceInvoices : invoice'[j].number = n
    <3>1. CASE n = invoiceNext
      BY <1>2, <3>1
    <3>2. CASE n # invoiceNext
      <4>1. n \in renumbered .. invoiceNext - 1 /\ n # 0
        BY <1>1, <3>2
      <4>2. PICK j \in ServiceInvoices : invoice[j].number = n
        BY <4>1 DEF ServicesInv, NoNumberIsSkipped
      <4>3. j # i
        BY <4>1, <4>2 DEF Invoiced
      <4> QED BY <1>2, <4>2, <4>3
    <3> QED BY <3>1, <3>2
  <2>2. invoiceNext' - 1 = invoiceNext
    BY <1>1
  <2> QED BY <2>1, <2>2 DEF NoNumberIsSkipped
<1> QED BY <1>4, <1>5

LEMMA BillServiceKeeps ==
  ASSUME ServicesInv, NEW r \in Requests, NEW i \in ServiceInvoices, BillService(r, i)
  PROVE  ServicesInv'
<1>1. PICK s, line : s = sheet[r].row /\ line = sheet[r].wanted
  OBVIOUS
<1>2. /\ ServicesTyped /\ s \in Services /\ line \in ServiceRows
      /\ line.quantity \in Nat /\ line.price \in Nat /\ line.total \in Nat
  BY <1>1 DEF ServicesInv, ServicesTyped, AtService, BillService, ServiceRows
<1>3. Framed' /\ OthersStay(r) /\ pc'[r] = "idle"
  <2>1. Framed
    BY <1>2 DEF ServicesTyped
  <2>2. Finish(r) \/ \E row : FinishWriting(r, row)
    BY DEF BillService
  <2> QED BY <2>1, <2>2, FinishEffect
<1>4. CASE ~KeepsIndexes(s)
  <2>1. UNCHANGED <<service, invoice, invoiceNext, renumbered>>
    BY <1>1, <1>4 DEF BillService, NumberAfter
  <2>2. service' \in [Services -> ServiceRows]
    BY <1>2, <2>1 DEF ServicesTyped
  <2> QED BY <1>3, <2>1, <2>2, ServiceStep DEF numbering
<1>5. CASE KeepsIndexes(s)
  <2> DEFINE made == InvoiceRow(invoiceNext, s, line.quantity, line.price, line.total)
             row == ServiceRow("FACTURADO", service[s].quantity, service[s].price,
                               service[s].total)
  <2>1. made \in InvoiceRows /\ made.number = invoiceNext /\ made.of = s
    <3>1. invoiceNext \in Nat /\ s \in Services \cup {None}
      BY <1>2 DEF ServicesTyped
    <3>2. made \in InvoiceRows
      BY <1>2, <3>1, RowMakers
    <3>3. made.number = invoiceNext /\ made.of = s
      BY InvoiceFields
    <3> QED BY <3>2, <3>3
  <2>2. row \in ServiceRows
    <3>1. service[s] \in ServiceRows
      BY <1>2 DEF ServicesTyped
    <3>2. "FACTURADO" \in ServiceStatus
      BY DEF ServiceStatus
    <3> QED BY <3>1, <3>2, RowMakers DEF ServiceRows
  <2>3. /\ invoiceNext' = invoiceNext + 1 /\ renumbered' = renumbered /\ ~Invoiced(i)
        /\ invoice' = [invoice EXCEPT ![i] = made]
        /\ service' = [service EXCEPT ![s] = row]
    BY <1>1, <1>5 DEF BillService, NumberAfter
  <2> HIDE DEF made, row
  <2>4. BilledWith(i, s, made)
    BY <1>5, <2>1, <2>3 DEF BilledWith, KeepsIndexes
  <2>5. /\ service' \in [Services -> ServiceRows]
        /\ invoice' \in [ServiceInvoices -> InvoiceRows]
        /\ invoiceNext' \in Nat \ {0} /\ renumbered' \in Nat \ {0}
    BY <1>2, <2>1, <2>2, <2>3 DEF ServicesTyped
  <2>6. \A q \in Requests : AtService(q)'
    BY <1>2, <1>3 DEF ServicesTyped, AtService, OthersStay
  <2>7. ServicesTyped'
    BY <1>3, <2>5, <2>6 DEF ServicesTyped
  <2>8. made \in InvoiceRows
    BY <2>1
  <2>9. OneInvoicePerService' /\ NoNumberIsSkipped'
    BY <1>2, <2>4, <2>8, BilledKeepsIndexes
  <2> QED BY <2>7, <2>9 DEF ServicesInv
<1> QED BY <1>4, <1>5

LEMMA NextServices ==
  ASSUME ServicesInv, [ServicesNext]_serviceVars
  PROVE  ServicesInv'
<1>0. /\ ServicesTyped /\ \A r \in Requests : AtService(r)
      /\ \A s \in Services : /\ service[s] \in ServiceRows
                             /\ service[s].quantity \in Nat /\ service[s].price \in Nat
                             /\ service[s].total \in Nat
                             /\ service[s].status \in ServiceStatus \cup {"none"}
  BY DEF ServicesInv, ServicesTyped, ServiceRows
<1>00. \A q, p \in Nat : Worth(q, p) \in Nat
  BY DEF Worth
<1>1. CASE UNCHANGED serviceVars
  BY <1>1 DEF serviceVars, requestVars, ServicesInv, ServicesTyped, Framed, AtService,
              OneInvoicePerService, NoNumberIsSkipped, Invoiced
<1>2. ASSUME NEW s \in Services, NEW q \in ServiceQuantities, NEW p \in ServicePrices,
             CreateService(s, q, p)
      PROVE  ServicesInv'
  <2> DEFINE row == ServiceRow("SOLICITADO", q, p, Worth(q, p))
  <2>1. row \in ServiceRows
    BY <1>00, RowMakers DEF ServiceStatus, ServiceQuantities, ServicePrices
  <2>2. service' = [service EXCEPT ![s] = row] /\ UNCHANGED <<requestVars, invoice, numbering>>
    BY <1>2 DEF CreateService
  <2> HIDE DEF row
  <2>3. service' \in [Services -> ServiceRows]
    BY <1>0, <2>1, <2>2 DEF ServicesTyped
  <2> QED BY <1>0, <2>2, <2>3 DEF requestVars, numbering, ServicesInv, ServicesTyped, Framed,
       AtService, OneInvoicePerService, NoNumberIsSkipped, Invoiced
<1>3. ASSUME NEW n \in 1 .. MaxNumber, RenumberInvoices(n) PROVE ServicesInv'
  <2>1. NoNumberIsSkipped'
    BY <1>3 DEF RenumberInvoices, NoNumberIsSkipped
  <2> QED BY <1>0, <1>3, <2>1 DEF RenumberInvoices, requestVars, ServicesInv, ServicesTyped,
       Framed, AtService, OneInvoicePerService, Invoiced
<1>4. ASSUME NEW r \in Requests, NEW s \in Services, NEW status \in ServiceStatus,
             BeginServiceStatus(r, s, status)
      PROVE  ServicesInv'
  <2>1. ServiceRow(status, 0, 0, 0) \in ServiceRows
    BY RowMakers
  <2> QED BY <1>4, <2>1, BeginServiceStep DEF BeginServiceStatus
<1>5. ASSUME NEW r \in Requests, NEW s \in Services, NEW q \in {0} \cup ServiceQuantities,
             NEW p \in {0} \cup ServicePrices, BeginServiceUpdate(r, s, q, p)
      PROVE  ServicesInv'
  <2> DEFINE a == IF q = 0 THEN service[s].quantity ELSE q
             b == IF p = 0 THEN service[s].price ELSE p
  <2>1. a \in Nat /\ b \in Nat
    BY <1>0 DEF ServiceQuantities, ServicePrices
  <2>2. /\ Begin(r, "write", Sheet(s, None, ServiceRow("none", a, b, Worth(a, b)), 0))
        /\ UNCHANGED <<service, invoice, numbering>>
    BY <1>5 DEF BeginServiceUpdate
  <2> HIDE DEF a, b
  <2>3. ServiceRow("none", a, b, Worth(a, b)) \in ServiceRows
    BY <1>00, <2>1, RowMakers
  <2> QED BY <2>2, <2>3, BeginServiceStep
<1>6. ASSUME NEW r \in Requests, NEW s \in Services, BeginServiceInvoice(r, s)
      PROVE  ServicesInv'
  BY <1>0, <1>6, BeginServiceStep DEF BeginServiceInvoice
<1>7. ASSUME NEW r \in Requests, WriteServiceStatus(r) PROVE ServicesInv'
  <2>1. PICK s : s = sheet[r].row
    OBVIOUS
  <2> DEFINE row == ServiceRow(sheet[r].wanted.status, service[s].quantity,
                               service[s].price, service[s].total)
  <2>2. s \in Services /\ sheet[r].wanted \in ServiceRows
    BY <1>0, <1>7, <2>1 DEF AtService, WriteServiceStatus
  <2>3. sheet[r].wanted.status \in ServiceStatus \cup {"none"}
    BY <2>2 DEF ServiceRows
  <2>4. row \in ServiceRows
    BY <1>0, <2>2, <2>3, RowMakers
  <2>5. /\ service' = [service EXCEPT ![s] = row] /\ FinishWriting(r, s)
        /\ UNCHANGED <<invoice, numbering>>
    BY <1>7, <2>1 DEF WriteServiceStatus
  <2> HIDE DEF row
  <2> QED BY <2>2, <2>4, <2>5, WriteServiceStep
<1>8. ASSUME NEW r \in Requests, WriteService(r) PROVE ServicesInv'
  <2>1. PICK s, line : s = sheet[r].row /\ line = sheet[r].wanted
    OBVIOUS
  <2> DEFINE row == WithLine(service[s], line)
  <2>2. s \in Services /\ line \in ServiceRows
    BY <1>0, <1>8, <2>1 DEF AtService, WriteService
  <2>3. line.quantity \in Nat /\ line.price \in Nat /\ line.total \in Nat
    BY <2>2 DEF ServiceRows
  <2>4. row \in ServiceRows
    BY <1>0, <2>2, <2>3, RowMakers DEF WithLine
  <2>5. /\ service' = [service EXCEPT ![s] = row] /\ FinishWriting(r, s)
        /\ UNCHANGED <<invoice, numbering>>
    BY <1>8, <2>1 DEF WriteService
  <2> HIDE DEF row
  <2> QED BY <2>2, <2>4, <2>5, WriteServiceStep
<1>9. ASSUME NEW r \in Requests, CutServices(r) PROVE ServicesInv'
  <2>1. Framed' /\ OthersStay(r) /\ pc'[r] = "idle"
    BY <1>0, <1>9, FinishEffect DEF ServicesTyped, CutServices
  <2>2. service' \in [Services -> ServiceRows]
    BY <1>0, <1>9 DEF ServicesTyped, CutServices
  <2> QED BY <1>9, <2>1, <2>2, ServiceStep DEF CutServices
<1> QED BY <1>1, <1>2, <1>3, <1>4, <1>5, <1>6, <1>7, <1>8, <1>9, BillServiceKeeps
        DEF ServicesNext

\* The services, their invoices and the requests keep their types.
THEOREM ServiceTypes == ServicesSpec => []ServicesTypeOK
<1>1. ServicesInv => ServicesTypeOK
  BY DEF ServicesInv, ServicesTyped, ServicesTypeOK, AtService, ServicePC, ServiceRows,
         InvoiceRows
<1> QED BY <1>1, InitServices, NextServices, PTL DEF ServicesSpec

\* However many requests bill a service at a time, it gets one invoice, and
\* no two invoices one number.
THEOREM ServicesInvoicedOnce == ServicesSpec => []OneInvoicePerService
<1>1. ServicesInv => OneInvoicePerService
  BY DEF ServicesInv
<1> QED BY <1>1, InitServices, NextServices, PTL DEF ServicesSpec

\* A number that a failed transaction took is given again.
THEOREM NumbersAreConsecutive == ServicesSpec => []NoNumberIsSkipped
<1>1. ServicesInv => NoNumberIsSkipped
  BY DEF ServicesInv
<1> QED BY <1>1, InitServices, NextServices, PTL DEF ServicesSpec

-----------------------------------------------------------------------------
(* What is billed is what was agreed: a request whose service nobody wrote *)
(* since it read it still finds it as its checks did.                      *)

Watchful(r) ==
  r \notin stale =>
    /\ pc[r] \in {"status", "write"} => NotBilled(sheet[r].row)
    /\ pc[r] = "bill" =>
         /\ service[sheet[r].row] = sheet[r].wanted
         /\ sheet[r].wanted.status \in {"TERMINADO", "ENTREGADO"}

AgreedInv ==
  /\ ServicesInv
  /\ \A i \in ServiceInvoices : Invoiced(i) => invoice[i].of \in Services
  /\ \A r \in Requests : Watchful(r)

\* At most the service s is written, and whoever had read it is told.
LEMMA OthersWatchful ==
  ASSUME AgreedInv, NEW s, \A t \in Services \ {s} : service'[t] = service[t],
         NEW q \in Requests, pc'[q] = pc[q], sheet'[q] = sheet[q],
         q \notin stale' => q \notin stale /\ (Active(q) /\ Requested(s) => s \notin Rows(sheet[q]))
  PROVE  Watchful(q)'
<1> SUFFICES ASSUME q \notin stale', pc[q] # "idle" PROVE Watchful(q)'
  BY DEF Watchful
<1>1. /\ q \notin stale /\ Watchful(q) /\ AtService(q)
      /\ Requested(s) => s \notin Rows(sheet[q])
  BY DEF AgreedInv, ServicesInv, ServicesTyped, Active
<1>2. /\ sheet[q].row \in Services /\ Requested(sheet[q].row)
      /\ pc[q] \in {"status", "write", "bill"}
  BY <1>1 DEF AtService, Watchful, Requested, NotBilled
<1>3. sheet[q].row # s
  BY <1>1, <1>2 DEF Rows
<1>4. service'[sheet[q].row] = service[sheet[q].row]
  BY <1>2, <1>3
<1> QED BY <1>1, <1>4 DEF Watchful, NotBilled, Requested

\* A request that ends, having written at most the service s.
LEMMA EndsWatchful ==
  ASSUME AgreedInv, NEW r \in Requests, NEW s \in Services,
         \A t \in Services \ {s} : service'[t] = service[t],
         FinishWriting(r, s) \/ (Finish(r) /\ service' = service)
  PROVE  \A q \in Requests : Watchful(q)'
<1>1. OthersStay(r) /\ pc'[r] = "idle"
  BY FinishEffect DEF AgreedInv, ServicesInv, ServicesTyped
<1>2. Watchful(r)'
  BY <1>1 DEF Watchful
<1>3. ASSUME NEW q \in Requests \ {r} PROVE Watchful(q)'
  <2>1. pc'[q] = pc[q] /\ sheet'[q] = sheet[q]
    BY <1>1 DEF OthersStay
  <2>2. CASE FinishWriting(r, s)
    <3>1. q \notin stale' => q \notin stale /\ (Active(q) => s \notin Rows(sheet[q]))
      BY <2>2 DEF FinishWriting, Readers
    <3> QED BY <2>1, <3>1, OthersWatchful
  <2>3. CASE Finish(r) /\ service' = service
    <3>1. q \notin stale' => q \notin stale
      BY <2>3 DEF Finish
    <3> QED BY <2>1, <2>3, <3>1 DEF AgreedInv, Watchful, NotBilled, Requested
  <2> QED BY <2>2, <2>3
<1> QED BY <1>2, <1>3

LEMMA BeginWatchful ==
  ASSUME AgreedInv, NEW r \in Requests, NEW s \in Services, NEW line, NEW label,
         Begin(r, label, Sheet(s, None, line, 0)), service' = service,
         \/ label \in {"status", "write"} /\ NotBilled(s)
         \/ label = "bill" /\ Pending(s) /\ line = service[s]
  PROVE  \A q \in Requests : Watchful(q)'
<1>1. /\ OthersStay(r) /\ pc'[r] = label /\ sheet'[r] = Sheet(s, None, line, 0)
      /\ stale' = stale
  BY BeginEffect DEF AgreedInv, ServicesInv, ServicesTyped, Begin
<1>2. sheet'[r].row = s /\ sheet'[r].wanted = line
  BY <1>1, SheetFields
<1>3. Watchful(r)'
  BY <1>1, <1>2 DEF Watchful, NotBilled, Requested, Pending
<1>4. \A q \in Requests \ {r} : Watchful(q)'
  BY <1>1 DEF AgreedInv, Watchful, OthersStay, NotBilled, Requested
<1> QED BY <1>3, <1>4

LEMMA InitAgreed == ServicesInit => AgreedInv
<1> SUFFICES ASSUME ServicesInit PROVE AgreedInv
  OBVIOUS
<1>1. \A r \in Requests : pc[r] = "idle"
  BY RequestsFramed DEF ServicesInit
<1>2. \A i \in ServiceInvoices : ~Invoiced(i)
  BY InvoiceFields DEF ServicesInit, Invoiced, NoInvoice
<1> QED BY <1>1, <1>2, InitServices DEF AgreedInv, Watchful

LEMMA NextAgreed ==
  ASSUME AgreedInv, [ServicesNext]_serviceVars
  PROVE  AgreedInv'
<1>0. /\ ServicesInv /\ ServicesInv' /\ Framed /\ \A r \in Requests : AtService(r)
      /\ service = [s \in Services |-> service[s]]
      /\ invoice = [i \in ServiceInvoices |-> invoice[i]]
  BY NextServices DEF AgreedInv, ServicesInv, ServicesTyped
<1> DEFINE Of == \A i \in ServiceInvoices : Invoiced(i) => invoice[i].of \in Services
           Watch == \A r \in Requests : Watchful(r)
<1>1. CASE UNCHANGED serviceVars
  BY <1>0, <1>1 DEF serviceVars, requestVars, AgreedInv, Watchful, NotBilled, Requested, Invoiced
<1>2. ASSUME invoice' = invoice, Watch' PROVE AgreedInv'
  BY <1>0, <1>2 DEF AgreedInv, Invoiced
<1>3. ASSUME NEW s \in Services, NEW q, NEW p, CreateService(s, q, p) PROVE AgreedInv'
  <2>1. /\ ~Requested(s) /\ \A t \in Services \ {s} : service'[t] = service[t]
        /\ UNCHANGED <<pc, sheet, stale, invoice>>
    BY <1>0, <1>3 DEF CreateService, requestVars
  <2> QED BY <1>2, <2>1, OthersWatchful
<1>4. ASSUME NEW n, RenumberInvoices(n) PROVE AgreedInv'
  BY <1>2, <1>4 DEF RenumberInvoices, requestVars, AgreedInv, Watchful, NotBilled, Requested
<1>5. ASSUME NEW r \in Requests, NEW s \in Services,
             \/ \E status : BeginServiceStatus(r, s, status)
             \/ \E q, p : BeginServiceUpdate(r, s, q, p)
             \/ BeginServiceInvoice(r, s)
      PROVE  AgreedInv'
  BY <1>2, <1>5, BeginWatchful DEF BeginServiceStatus, BeginServiceUpdate, BeginServiceInvoice
<1>6. ASSUME NEW r \in Requests, WriteServiceStatus(r) \/ WriteService(r) PROVE AgreedInv'
  <2>1. PICK s : s = sheet[r].row
    OBVIOUS
  <2>2. s \in Services /\ FinishWriting(r, s) /\ invoice' = invoice
    BY <1>0, <1>6, <2>1 DEF AtService, WriteServiceStatus, WriteService
  <2>3. \A t \in Services \ {s} : service'[t] = service[t]
    BY <1>0, <1>6, <2>1 DEF WriteServiceStatus, WriteService
  <2> QED BY <1>2, <2>2, <2>3, EndsWatchful
<1>7. ASSUME NEW r \in Requests, NEW i \in ServiceInvoices, BillService(r, i) PROVE AgreedInv'
  <2>1. PICK s, line : s = sheet[r].row /\ line = sheet[r].wanted
    OBVIOUS
  <2>2. s \in Services
    BY <1>0, <1>7, <2>1 DEF AtService, BillService
  <2>3. FinishWriting(r, s) \/ (Finish(r) /\ service' = service)
    BY <1>7, <2>1 DEF BillService
  <2>4. \A t \in Services \ {s} : service'[t] = service[t]
    BY <1>0, <1>7, <2>1 DEF BillService
  <2>5. Watch'
    BY <2>2, <2>3, <2>4, EndsWatchful
  <2>6. CASE KeepsIndexes(s)
    <3>1. PICK made : made = InvoiceRow(invoiceNext, s, line.quantity, line.price, line.total)
      OBVIOUS
    <3>2. invoice' = [invoice EXCEPT ![i] = made] /\ made.of = s
      BY <1>7, <2>1, <2>6, <3>1, InvoiceFields DEF BillService
    <3>3. Of'
      BY <1>0, <2>2, <3>2 DEF AgreedInv, Invoiced
    <3> QED BY <1>0, <2>5, <3>3 DEF AgreedInv
  <2>7. CASE ~KeepsIndexes(s)
    BY <1>2, <1>7, <2>1, <2>5, <2>7 DEF BillService
  <2> QED BY <2>6, <2>7
<1>8. ASSUME NEW r \in Requests, CutServices(r) PROVE AgreedInv'
  <2>1. /\ OthersStay(r) /\ pc'[r] = "idle" /\ stale' = stale \ {r}
        /\ UNCHANGED <<service, invoice>>
    BY <1>0, <1>8, FinishEffect DEF CutServices, CutShort, Finish
  <2>2. Watch'
    BY <2>1 DEF AgreedInv, Watchful, OthersStay, NotBilled, Requested
  <2> QED BY <1>2, <2>1, <2>2
<1> QED BY <1>1, <1>3, <1>4, <1>5, <1>6, <1>7, <1>8 DEF ServicesNext

\* A step of a request that knows what its service has become.
LEMMA StepIsAgreed ==
  ASSUME AgreedInv, [ServicesNext]_serviceVars, NEW i \in ServiceInvoices,
         NEW r \in Requests, Fresh(r), Invoiced(i)', Invoiced(i) => SaysAsMuch(i)
  PROVE  SaysAsMuch(i)'
<1>0. /\ Framed /\ AtService(r) /\ Watchful(r) /\ r \notin stale /\ pc'[r] # pc[r]
      /\ service = [s \in Services |-> service[s]]
      /\ invoice = [j \in ServiceInvoices |-> invoice[j]]
      /\ Invoiced(i) => invoice[i].of \in Services
  BY DEF AgreedInv, ServicesInv, ServicesTyped, Fresh
<1>1. ASSUME UNCHANGED <<service, invoice>> PROVE SaysAsMuch(i)'
  BY <1>1 DEF Invoiced, SaysAsMuch
<1>2. ASSUME NEW q \in Requests,
             \/ WriteServiceStatus(q) \/ WriteService(q) \/ CutServices(q)
             \/ \E s, status : BeginServiceStatus(q, s, status)
             \/ \E s, n, p : BeginServiceUpdate(q, s, n, p)
             \/ \E s : BeginServiceInvoice(q, s)
             \/ \E j \in ServiceInvoices : BillService(q, j)
      PROVE  q = r
  <2>1. \/ CutShort(q) \/ Finish(q) \/ \E row : FinishWriting(q, row)
        \/ \E label, form : Begin(q, label, form)
    BY <1>2 DEF WriteServiceStatus, WriteService, CutServices, BeginServiceStatus,
                BeginServiceUpdate, BeginServiceInvoice, BillService
  <2>2. OthersStay(q)
    BY <1>0, <2>1, FinishEffect, BeginEffect
  <2> QED BY <1>0, <2>2 DEF OthersStay
<1>3. CASE WriteServiceStatus(r) \/ WriteService(r)
  <2>1. PICK s : s = sheet[r].row
    OBVIOUS
  <2>2. /\ service[s].status # "FACTURADO" /\ invoice' = invoice
        /\ \A t \in Services \ {s} : service'[t] = service[t]
    BY <1>0, <1>3, <2>1 DEF WriteServiceStatus, WriteService, Watchful, NotBilled
  <2>3. Invoiced(i) /\ invoice[i].of # s
    BY <2>2 DEF Invoiced, SaysAsMuch
  <2> QED BY <1>0, <2>2, <2>3 DEF SaysAsMuch
<1>4. ASSUME NEW j \in ServiceInvoices, BillService(r, j) PROVE SaysAsMuch(i)'
  <2>1. PICK s, line : s = sheet[r].row /\ line = sheet[r].wanted
    OBVIOUS
  <2>2. s \in Services /\ service[s] = line
    BY <1>0, <1>4, <2>1 DEF BillService, AtService, Watchful
  <2>3. CASE KeepsIndexes(s)
    <3>1. PICK made, row :
            /\ made = InvoiceRow(invoiceNext, s, line.quantity, line.price, line.total)
            /\ row = ServiceRow("FACTURADO", line.quantity, line.price, line.total)
      OBVIOUS
    <3>2. /\ made.of = s /\ made.quantity = line.quantity /\ made.price = line.price
          /\ made.total = line.total
          /\ row.quantity = line.quantity /\ row.price = line.price
          /\ row.total = line.total /\ row.status = "FACTURADO"
      BY <3>1 DEF InvoiceRow, ServiceRow
    <3>3. /\ invoice' = [invoice EXCEPT ![j] = made] /\ service' = [service EXCEPT ![s] = row]
      BY <1>4, <2>1, <2>2, <2>3, <3>1 DEF BillService
    <3>4. CASE i = j
      <4>1. invoice'[i] = made /\ service'[s] = row
        BY <1>0, <2>2, <3>3, <3>4
      <4> QED BY <3>2, <4>1 DEF SaysAsMuch
    <3>5. CASE i # j
      <4>1. invoice'[i] = invoice[i] /\ Invoiced(i) /\ invoice[i].of # s
        BY <1>0, <2>3, <3>3, <3>5 DEF Invoiced, KeepsIndexes, Linked
      <4>2. service'[invoice[i].of] = service[invoice[i].of]
        BY <1>0, <3>3, <4>1
      <4> QED BY <4>1, <4>2 DEF SaysAsMuch
    <3> QED BY <3>4, <3>5
  <2>4. CASE ~KeepsIndexes(s)
    BY <1>1, <1>4, <2>1, <2>4 DEF BillService
  <2> QED BY <2>3, <2>4
<1>5. ASSUME UNCHANGED pc PROVE FALSE
  BY <1>0, <1>5
<1>6. \E q \in Requests : \/ WriteServiceStatus(q) \/ WriteService(q) \/ CutServices(q)
                          \/ \E s, status : BeginServiceStatus(q, s, status)
                          \/ \E s, n, p : BeginServiceUpdate(q, s, n, p)
                          \/ \E s : BeginServiceInvoice(q, s)
                          \/ \E j \in ServiceInvoices : BillService(q, j)
  BY <1>5 DEF ServicesNext, serviceVars, requestVars, CreateService, RenumberInvoices
<1>7. \/ WriteServiceStatus(r) \/ WriteService(r) \/ \E j \in ServiceInvoices : BillService(r, j)
      \/ UNCHANGED <<service, invoice>>
  BY <1>2, <1>6 DEF CutServices, BeginServiceStatus, BeginServiceUpdate, BeginServiceInvoice
<1> QED BY <1>1, <1>3, <1>4, <1>7

\* An invoice says what its service is worth when it is made, and an invoiced
\* service keeps its line and its status, but for requests that had read the
\* service before somebody wrote it.
THEOREM BilledStaysAgreed == ServicesSpec => BilledAsAgreed
<1>1. AgreedInv /\ [ServicesNext]_serviceVars =>
        [\A i \in ServiceInvoices, r \in Requests :
           Fresh(r) /\ Invoiced(i)' /\ (Invoiced(i) => SaysAsMuch(i))
             => SaysAsMuch(i)']_serviceVars
  BY StepIsAgreed
<1> QED BY <1>1, InitAgreed, NextAgreed, PTL DEF ServicesSpec, BilledAsAgreed

-----------------------------------------------------------------------------
(* Recurring services: the references that a request carries were          *)
(* validated together, whatever the row has become since.                  *)

RecurringRows == [status : RecurringStatus \cup {"none"},
                  category : Categories \cup {None}, sub : Subcategories \cup {None}]

Scheduling(r) ==
  /\ pc[r] \in {"idle", "add", "move"}
  /\ pc[r] # "idle" =>
       /\ sheet[r].row \in Recurring /\ sheet[r].other \in Categories \cup {None}
       /\ sheet[r].wanted \in Subcategories \cup {None}
       /\ ValidReferences(sheet[r].other, sheet[r].wanted)
  /\ pc[r] = "add" => sheet[r].other # None

RecurringTyped ==
  /\ Framed
  /\ recurring \in [Recurring -> RecurringRows] /\ halfMoved \subseteq Recurring
  /\ \A r \in Requests : Scheduling(r)

RecurringInv == RecurringTyped /\ SubcategoryFits

LEMMA RecurringRowMaker ==
  /\ \A status \in RecurringStatus \cup {"none"}, c \in Categories \cup {None},
        s \in Subcategories \cup {None} : RecurringRow(status, c, s) \in RecurringRows
  /\ \A status, c, s : /\ RecurringRow(status, c, s).category = c
                       /\ RecurringRow(status, c, s).sub = s
<1>1. \A status, c, s : /\ RecurringRow(status, c, s).category = c
                        /\ RecurringRow(status, c, s).sub = s
  BY DEF RecurringRow
<1> QED BY <1>1 DEF RecurringRow, RecurringRows

LEMMA InitRecurring == RecurringInit => RecurringInv
<1> SUFFICES ASSUME RecurringInit PROVE RecurringInv
  OBVIOUS
<1>1. Framed /\ \A r \in Requests : Scheduling(r)
  BY RequestsFramed DEF RecurringInit, Scheduling
<1>2. \A x \in Recurring : recurring[x] = RecurringRow("none", None, None)
  BY DEF RecurringInit
<1>3. RecurringTyped
  BY <1>1, RecurringRowMaker DEF RecurringInit, RecurringTyped
<1>4. SubcategoryFits
  BY <1>2, RecurringRowMaker DEF SubcategoryFits
<1> QED BY <1>3, <1>4 DEF RecurringInv

\* A step of one request that leaves the rows as they are.
LEMMA RecurringStep ==
  ASSUME RecurringInv, NEW r \in Requests, Framed', OthersStay(r), Scheduling(r)',
         UNCHANGED <<recurring, halfMoved>>
  PROVE  RecurringInv'
<1>1. \A q \in Requests : Scheduling(q)'
  BY DEF RecurringInv, RecurringTyped, Scheduling, OthersStay
<1>2. RecurringTyped'
  BY <1>1 DEF RecurringInv, RecurringTyped
<1>3. SubcategoryFits'
  BY DEF RecurringInv, SubcategoryFits
<1> QED BY <1>2, <1>3 DEF RecurringInv

LEMMA BeginRecurringStep ==
  ASSUME RecurringInv, NEW r \in Requests, NEW x \in Recurring,
         NEW c \in Categories \cup {None}, NEW s \in Subcategories \cup {None},
         NEW label \in {"add", "move"}, label = "add" => c # None,
         ValidReferences(c, s), Begin(r, label, Sheet(x, c, s, 0)),
         UNCHANGED <<recurring, halfMoved>>
  PROVE  RecurringInv'
<1>1. Framed' /\ OthersStay(r) /\ pc'[r] = label /\ sheet'[r] = Sheet(x, c, s, 0)
  BY BeginEffect DEF RecurringInv, RecurringTyped
<1>2. sheet'[r].row = x /\ sheet'[r].other = c /\ sheet'[r].wanted = s
  BY <1>1, SheetFields
<1>3. Scheduling(r)'
  BY <1>1, <1>2 DEF Scheduling, ValidReferences
<1> QED BY <1>1, <1>3, RecurringStep

\* A row that is written: its subcategory fits, or its category or its
\* subcategory came alone.
LEMMA WriteRecurringStep ==
  ASSUME RecurringInv, NEW r \in Requests, FinishWriting(r, sheet[r].row),
         NEW x \in Recurring, NEW row \in RecurringRows,
         recurring' = [recurring EXCEPT ![x] = row],
         halfMoved' \in SUBSET Recurring, halfMoved \ {x} \subseteq halfMoved',
         x \in halfMoved' \/ row.sub = None \/ CategoryOf(row.sub) = row.category
  PROVE  RecurringInv'
<1>1. Framed' /\ OthersStay(r) /\ pc'[r] = "idle"
  BY FinishEffect DEF RecurringInv, RecurringTyped
<1>2. \A q \in Requests : Scheduling(q)'
  BY <1>1 DEF RecurringInv, RecurringTyped, Scheduling, OthersStay
<1>3. \A y \in Recurring : recurring'[y] = IF y = x THEN row ELSE recurring[y]
  BY DEF RecurringInv, RecurringTyped
<1>4. RecurringTyped'
  BY <1>1, <1>2 DEF RecurringInv, RecurringTyped
<1>5. SubcategoryFits'
  BY <1>3 DEF RecurringInv, SubcategoryFits
<1> QED BY <1>4, <1>5 DEF RecurringInv

LEMMA NextRecurring ==
  ASSUME RecurringInv, [RecurringNext]_recurringVars
  PROVE  RecurringInv'
<1>0. /\ RecurringTyped /\ \A r \in Requests : Scheduling(r)
      /\ \A x \in Recurring : /\ recurring[x] \in RecurringRows
                              /\ recurring[x].status \in RecurringStatus \cup {"none"}
                              /\ recurring[x].category \in Categories \cup {None}
                              /\ recurring[x].sub \in Subcategories \cup {None}
  BY DEF RecurringInv, RecurringTyped, RecurringRows
<1>1. CASE UNCHANGED recurringVars
  BY <1>1 DEF recurringVars, requestVars, RecurringInv, RecurringTyped, Framed,
              Scheduling, SubcategoryFits
<1>2. ASSUME NEW x \in Recurring, NEW status \in RecurringStatus,
             SetRecurringStatus(x, status)
      PROVE  RecurringInv'
  <2>1. PICK row : row = RecurringRow(status, recurring[x].category, recurring[x].sub)
    OBVIOUS
  <2>2. row \in RecurringRows /\ row.sub = recurring[x].sub
        /\ row.category = recurring[x].category
    BY <1>0, <2>1, RecurringRowMaker
  <2>3. /\ recurring' = [recurring EXCEPT ![x] = row]
        /\ halfMoved' = halfMoved /\ pc' = pc /\ sheet' = sheet
    BY <1>2, <2>1 DEF SetRecurringStatus, requestVars
  <2>4. \A y \in Recurring : recurring'[y] = IF y = x THEN row ELSE recurring[y]
    BY <1>0, <2>3 DEF RecurringTyped
  <2>5. SubcategoryFits'
    BY <2>2, <2>3, <2>4 DEF RecurringInv, SubcategoryFits
  <2>6. RecurringTyped'
    BY <1>0, <2>2, <2>3 DEF RecurringTyped, Framed, Scheduling
  <2> QED BY <2>5, <2>6 DEF RecurringInv
<1>3. ASSUME NEW r \in Requests, NEW x \in Recurring, NEW c \in Categories \cup {None},
             NEW s \in Subcategories \cup {None},
             BeginRecurring(r, x, c, s) \/ BeginMove(r, x, c, s)
      PROVE  RecurringInv'
  BY <1>3, BeginRecurringStep DEF BeginRecurring, BeginMove
<1>4. ASSUME NEW r \in Requests, CreateRecurring(r) PROVE RecurringInv'
  <2>1. PICK x, c, s : x = sheet[r].row /\ c = sheet[r].other /\ s = sheet[r].wanted
    OBVIOUS
  <2>2. /\ x \in Recurring /\ c \in Categories \cup {None} /\ c # None
        /\ s \in Subcategories \cup {None} /\ ValidReferences(c, s)
    BY <1>0, <1>4, <2>1 DEF Scheduling, CreateRecurring
  <2>3. PICK row : row = RecurringRow("ACTIVO", c, s)
    OBVIOUS
  <2>4. row \in RecurringRows /\ row.category = c /\ row.sub = s
    BY <2>2, <2>3, RecurringRowMaker DEF RecurringStatus
  <2>5. s = None \/ CategoryOf(s) = c
    BY <2>2 DEF ValidReferences
  <2>6. /\ recurring' = [recurring EXCEPT ![x] = row] /\ halfMoved' = halfMoved
        /\ FinishWriting(r, sheet[r].row)
    BY <1>4, <2>1, <2>3 DEF CreateRecurring
  <2>7. halfMoved' \in SUBSET Recurring /\ halfMoved \ {x} \subseteq halfMoved'
    BY <1>0, <2>6 DEF RecurringTyped
  <2> QED BY <2>2, <2>4, <2>5, <2>6, <2>7, WriteRecurringStep
<1>5. ASSUME NEW r \in Requests, MoveRecurring(r) PROVE RecurringInv'
  <2>1. PICK x, c, s : x = sheet[r].row /\ c = sheet[r].other /\ s = sheet[r].wanted
    OBVIOUS
  <2>2. /\ x \in Recurring /\ c \in Categories \cup {None}
        /\ s \in Subcategories \cup {None} /\ ValidReferences(c, s)
    BY <1>0, <1>5, <2>1 DEF Scheduling, MoveRecurring
  <2>3. PICK row : row = RecurringRow(recurring[x].status,
           Given(c, recurring[x].category), Given(s, recurring[x].sub))
    OBVIOUS
  <2>4. /\ Given(c, recurring[x].category) \in Categories \cup {None}
        /\ Given(s, recurring[x].sub) \in Subcategories \cup {None}
    BY <1>0, <2>2 DEF Given
  <2>5. /\ row \in RecurringRows /\ row.category = Given(c, recurring[x].category)
        /\ row.sub = Given(s, recurring[x].sub)
    BY <1>0, <2>2, <2>3, <2>4, RecurringRowMaker
  <2>6. /\ recurring' = [recurring EXCEPT ![x] = row]
        /\ halfMoved' = IF None \in {c, s} THEN halfMoved \cup {x} ELSE halfMoved \ {x}
        /\ FinishWriting(r, sheet[r].row)
    BY <1>5, <2>1, <2>3 DEF MoveRecurring
  <2>7. halfMoved' \in SUBSET Recurring /\ halfMoved \ {x} \subseteq halfMoved'
    BY <1>0, <2>2, <2>6 DEF RecurringTyped
  <2>8. x \in halfMoved' \/ CategoryOf(row.sub) = row.category
    BY <2>2, <2>5, <2>6 DEF ValidReferences, Given
  <2> QED BY <2>2, <2>5, <2>6, <2>7, <2>8, WriteRecurringStep
<1>6. ASSUME NEW r \in Requests, CutRecurring(r) PROVE RecurringInv'
  <2>1. Framed' /\ OthersStay(r) /\ pc'[r] = "idle"
    BY <1>0, <1>6, FinishEffect DEF RecurringTyped, CutRecurring
  <2>2. Scheduling(r)'
    BY <2>1 DEF Scheduling
  <2> QED BY <1>6, <2>1, <2>2, RecurringStep DEF CutRecurring
<1> HIDE DEF RecurringInv
<1> QED BY <1>1, <1>2, <1>3, <1>4, <1>5, <1>6 DEF RecurringNext

\* The rows of recurring services and the sheets keep their types.
THEOREM RecurringTypes == RecurringSpec => []RecurringTypeOK
<1>1. RecurringInv => RecurringTypeOK
  BY DEF RecurringInv, RecurringTyped, RecurringTypeOK, Scheduling, RecurringPC,
         RecurringRows
<1> QED BY <1>1, InitRecurring, NextRecurring, PTL DEF RecurringSpec

\* Whatever updates cross, a subcategory is one of its category unless the
\* last update gave one of the two alone.
THEOREM SubcategoriesFit == RecurringSpec => []SubcategoryFits
<1>1. RecurringInv => SubcategoryFits
  BY DEF RecurringInv
<1> QED BY <1>1, InitRecurring, NextRecurring, PTL DEF RecurringSpec

-----------------------------------------------------------------------------
(* Mails: what may be mailed was taken by the DIAN, is cancelled or was     *)
(* issued here, and it stays so on the sheet of the request and in the     *)
(* copy: what was once issued here stays so.                               *)

BillRows == [status : {"none", "BORRADOR", "EMITIDA", "CANCELADA"},
             dian : {"PENDIENTE", "VALIDADA", "ENVIADA", "RECHAZADA"},
             numbered : BOOLEAN]

\* A row that says no more than the DIAN did.
Told(d, row) ==
  \/ row.status = "CANCELADA"
  \/ row.dian \in {"VALIDADA", "ENVIADA"}
  \/ row.dian = "PENDIENTE" /\ d \in issuedHere
Honest(d, row) == Mailable(row) => Told(d, row)
Good(d, row) == d \in MailedBills => row.numbered /\ Told(d, row)

Sending(r) ==
  /\ pc[r] \in {"idle", "post", "note"}
  /\ pc[r] # "idle" => sheet[r].row \in Mails /\ Good(sheet[r].row, sheet[r].wanted)
  /\ pc[r] = "note" => copies[sheet[r].row] # {}

MailTyped ==
  /\ Framed
  /\ bill \in [MailedBills -> BillRows]
  /\ emitting \subseteq MailedBills /\ issuedHere \subseteq MailedBills
  /\ emailSentAt \subseteq Mails
  /\ copies = [d \in Mails |-> copies[d]]
  /\ \A r \in Requests : Sending(r)

MailInv ==
  /\ MailTyped
  /\ \A d \in MailedBills : Honest(d, bill[d])
  /\ \A d \in Mails : \A row \in copies[d] : Good(d, row)
  /\ \A d \in emailSentAt : copies[d] # {}

LEMMA BillRowMaker ==
  ASSUME NEW status \in {"none", "BORRADOR", "EMITIDA", "CANCELADA"},
         NEW dian \in {"PENDIENTE", "VALIDADA", "ENVIADA", "RECHAZADA"},
         NEW n \in BOOLEAN
  PROVE  /\ BillRow(status, dian, n) \in BillRows
         /\ BillRow(status, dian, n).status = status
         /\ BillRow(status, dian, n).dian = dian
         /\ BillRow(status, dian, n).numbered = n
BY DEF BillRow, BillRows

LEMMA InitMail == MailInit => MailInv
<1> SUFFICES ASSUME MailInit PROVE MailInv
  OBVIOUS
<1>1. Framed /\ \A r \in Requests : Sending(r)
  BY RequestsFramed DEF MailInit, Sending
<1>2. NoBill \in BillRows /\ NoBill.numbered = FALSE
  BY DEF NoBill, BillRow, BillRows
<1>3. MailTyped
  BY <1>1, <1>2 DEF MailInit, MailTyped
<1>4. \A d \in MailedBills : Honest(d, bill[d])
  BY <1>2 DEF MailInit, Honest, Mailable
<1> QED BY <1>3, <1>4 DEF MailInit, MailInv

\* What is good stays good: nothing issued here is forgotten.
LEMMA GoodStays ==
  ASSUME MailInv, issuedHere \subseteq issuedHere', pc' = pc, sheet' = sheet, copies' = copies
  PROVE  /\ \A d, row : Good(d, row) => Good(d, row)'
         /\ \A r \in Requests : Sending(r)'
<1>1. \A d, row : Good(d, row) => Good(d, row)'
  BY DEF Good, Told
<1>2. \A r \in Requests : Sending(r)
  BY DEF MailInv, MailTyped
<1>3. ASSUME NEW r \in Requests PROVE Sending(r)'
  <2>1. Good(sheet[r].row, sheet[r].wanted) => Good(sheet[r].row, sheet[r].wanted)'
    BY <1>1
  <2> QED BY <1>2, <2>1 DEF Sending
<1> QED BY <1>1, <1>3

\* The state of one document changes: copies and sheets do not.
LEMMA BillChanges ==
  ASSUME MailInv, NEW d \in MailedBills, NEW row \in BillRows, Honest(d, row)',
         BillBecomes(d, row), emitting' \subseteq MailedBills,
         issuedHere \subseteq issuedHere', issuedHere' \subseteq MailedBills
  PROVE  MailInv'
<1>0. /\ bill' = [bill EXCEPT ![d] = row]
      /\ UNCHANGED <<pc, sheet, stale, emailSentAt, copies>>
  BY DEF BillBecomes, requestVars
<1>1. bill' \in [MailedBills -> BillRows]
  BY <1>0 DEF MailInv, MailTyped
<1>2. \A e \in MailedBills : bill'[e] = IF e = d THEN row ELSE bill[e]
  BY <1>0 DEF MailInv, MailTyped
<1>3. \A e \in MailedBills : Honest(e, bill[e])'
  <2>1. ASSUME NEW e \in MailedBills, e # d PROVE Honest(e, bill[e])'
    <3>1. Mailable(bill[e]) => Told(e, bill[e])
      BY <2>1 DEF MailInv, Honest
    <3>2. /\ bill'[e] = bill[e]
          /\ Told(e, bill[e]) => Told(e, bill[e])'
      BY <1>2, <2>1 DEF Told
    <3> QED BY <3>1, <3>2 DEF Honest
  <2>2. Honest(d, bill[d])'
    BY <1>2 DEF Honest, Told
  <2> QED BY <2>1, <2>2
<1>4. /\ \A e, row2 : Good(e, row2) => Good(e, row2)'
      /\ \A r \in Requests : Sending(r)'
  BY <1>0, GoodStays
<1>5. MailTyped'
  BY <1>0, <1>1, <1>4 DEF MailInv, MailTyped, Framed
<1>6. \A e \in Mails : \A row2 \in copies'[e] : Good(e, row2)'
  BY <1>0, <1>4 DEF MailInv, Mails
<1> QED BY <1>0, <1>3, <1>5, <1>6 DEF MailInv

\* A step of a request leaves the documents alone.
LEMMA MailStep ==
  ASSUME MailInv, NEW r \in Requests, Framed', OthersStay(r), Sending(r)',
         UNCHANGED <<bill, emitting, issuedHere>>,
         copies' = [d \in Mails |-> copies'[d]],
         \A d \in Mails : copies[d] # {} => copies'[d] # {},
         \A d \in Mails : \A row \in copies'[d] : Good(d, row),
         emailSentAt' \subseteq Mails,
         \A d \in emailSentAt' : copies'[d] # {}
  PROVE  MailInv'
<1>0. /\ bill' = bill /\ emitting' = emitting /\ issuedHere' = issuedHere
      /\ \A d, row : Good(d, row)' <=> Good(d, row)
  BY DEF Good, Told
<1>1. \A q \in Requests : Sending(q)'
  BY <1>0 DEF MailInv, MailTyped, Sending, OthersStay
<1>2. MailTyped'
  BY <1>0, <1>1 DEF MailInv, MailTyped
<1>3. \A d \in MailedBills : Honest(d, bill[d])'
  BY <1>0 DEF MailInv, Honest, Told
<1> QED BY <1>0, <1>2, <1>3 DEF MailInv

LEMMA NextMail ==
  ASSUME MailInv, [MailNext]_mailVars
  PROVE  MailInv'
<1>0. /\ MailTyped /\ \A r \in Requests : Sending(r)
      /\ \A d \in MailedBills :
           /\ bill[d] \in BillRows /\ Honest(d, bill[d])
           /\ bill[d].dian \in {"PENDIENTE", "VALIDADA", "ENVIADA", "RECHAZADA"}
           /\ bill[d].numbered \in BOOLEAN
  BY DEF MailInv, MailTyped, BillRows
<1>1. CASE UNCHANGED mailVars
  <2>1. /\ UNCHANGED <<pc, sheet, stale, bill, emitting, emailSentAt, copies, issuedHere>>
        /\ \A d, row : Good(d, row)' <=> Good(d, row)
    BY <1>1 DEF mailVars, mailedRows, mailHistory, requestVars, Good, Told
  <2>2. \A r \in Requests : Sending(r)'
    BY <1>0, <2>1 DEF Sending
  <2>3. \A d \in MailedBills : Honest(d, bill[d])'
    BY <1>0, <2>1 DEF Honest, Told
  <2> QED BY <1>0, <2>1, <2>2, <2>3 DEF MailInv, MailTyped, Framed
<1>2. ASSUME NEW d \in MailedBills, NEW dian \in {"VALIDADA", "ENVIADA", "RECHAZADA"},
             EndEmission(d, dian)
      PROVE  MailInv'
  <2>1. PICK status : status = IF dian = "RECHAZADA" THEN "BORRADOR" ELSE "EMITIDA"
    OBVIOUS
  <2>2. PICK row : row = BillRow(status, dian, TRUE)
    OBVIOUS
  <2>3. row \in BillRows /\ row.status = status /\ row.dian = dian
    BY <2>1, <2>2 DEF BillRow, BillRows
  <2>4. Honest(d, row)'
    BY <2>1, <2>3 DEF Honest, Mailable, Told
  <2>5. /\ BillBecomes(d, row) /\ issuedHere' = issuedHere
        /\ emitting' = emitting
    BY <1>2, <2>1, <2>2 DEF EndEmission
  <2> QED BY <1>0, <2>3, <2>4, <2>5, BillChanges DEF MailTyped
<1>3. ASSUME NEW d \in MailedBills, CancelBill(d) PROVE MailInv'
  <2>1. PICK row : row = BillRow("CANCELADA", bill[d].dian, bill[d].numbered)
    OBVIOUS
  <2>2. row \in BillRows /\ row.status = "CANCELADA"
    BY <1>0, <2>1, BillRowMaker
  <2>3. Honest(d, row)'
    BY <2>2 DEF Honest, Told
  <2>4. BillBecomes(d, row) /\ emitting' = emitting /\ issuedHere' = issuedHere
    BY <1>3, <2>1 DEF CancelBill
  <2> QED BY <1>0, <2>2, <2>3, <2>4, BillChanges DEF MailTyped
<1>4. ASSUME NEW d \in MailedBills, CreateBill(d) PROVE MailInv'
  <2>1. DraftBill \in BillRows /\ DraftBill.status = "BORRADOR"
    BY DEF DraftBill, BillRow, BillRows
  <2>2. Honest(d, DraftBill)'
    BY <2>1 DEF Honest, Mailable
  <2>3. BillBecomes(d, DraftBill) /\ emitting' = emitting /\ issuedHere' = issuedHere
    BY <1>4 DEF CreateBill
  <2> QED BY <1>0, <2>1, <2>2, <2>3, BillChanges DEF MailTyped
<1>5. ASSUME NEW d \in MailedBills, InvoiceService(d) \/ EmitHere(d) PROVE MailInv'
  <2>1. IssuedBill \in BillRows /\ IssuedBill.dian = "PENDIENTE"
    BY DEF IssuedBill, BillRow, BillRows
  <2>2. /\ BillBecomes(d, IssuedBill) /\ issuedHere' = issuedHere \cup {d}
        /\ emitting' = emitting
    BY <1>5 DEF InvoiceService, EmitHere
  <2>3. Honest(d, IssuedBill)'
    BY <2>1, <2>2 DEF Honest, Told
  <2> QED BY <1>0, <2>1, <2>2, <2>3, BillChanges DEF MailTyped
<1>6. ASSUME NEW d \in MailedBills, BeginEmission(d) PROVE MailInv'
  <2>1. /\ UNCHANGED <<pc, sheet, stale, bill, emailSentAt, copies, issuedHere>>
        /\ emitting' = emitting \cup {d}
        /\ \A e, row : Good(e, row)' <=> Good(e, row)
    BY <1>6 DEF BeginEmission, mailHistory, requestVars, Good, Told
  <2>2. \A r \in Requests : Sending(r)'
    BY <1>0, <2>1 DEF Sending
  <2>3. \A e \in MailedBills : Honest(e, bill[e])'
    BY <1>0, <2>1 DEF Honest, Told
  <2> QED BY <1>0, <2>1, <2>2, <2>3 DEF MailInv, MailTyped, Framed
<1>7. ASSUME NEW r \in Requests, NEW d \in Mails, BeginMail(r, d) PROVE MailInv'
  <2>1. /\ Framed' /\ OthersStay(r) /\ pc'[r] = "post"
        /\ sheet'[r] = Sheet(d, None, Printed(d), 0)
        /\ UNCHANGED <<bill, emitting, emailSentAt, copies, issuedHere>>
    BY <1>0, <1>7, BeginEffect DEF BeginMail, MailTyped, mailedRows, mailHistory
  <2>2. sheet'[r].row = d /\ sheet'[r].wanted = Printed(d)
    BY <2>1, SheetFields
  <2>3. Good(d, Printed(d))
    BY <1>0, <1>7 DEF BeginMail, Good, Printed, Honest, Mailable
  <2>4. Sending(r)'
    BY <2>1, <2>2, <2>3 DEF Sending, Good, Told
  <2> QED BY <2>1, <2>4, MailStep DEF MailInv, MailTyped
<1>8. ASSUME NEW r \in Requests, HandOver(r) PROVE MailInv'
  <2>1. PICK d, row : d = sheet[r].row /\ row = sheet[r].wanted
    OBVIOUS
  <2>2. d \in Mails /\ Good(d, row)
    BY <1>0, <1>8, <2>1 DEF Sending, HandOver
  <2>3. CASE copies' = [copies EXCEPT ![d] = {row}] /\ Goto(r, "note")
    <3>1. Framed' /\ OthersStay(r) /\ pc'[r] = "note" /\ sheet'[r] = sheet[r]
      BY <1>0, <2>3, GotoEffect DEF MailTyped
    <3>2. /\ copies' = [e \in Mails |-> copies'[e]] /\ copies'[d] = {row}
          /\ \A e \in Mails \ {d} : copies'[e] = copies[e]
      BY <1>0, <2>2, <2>3 DEF MailTyped
    <3>3. Sending(r)'
      BY <1>8, <2>1, <2>2, <3>1, <3>2 DEF Sending, HandOver, Good, Told
    <3>4. \A e \in Mails : \A c \in copies'[e] : Good(e, c)
      BY <2>2, <3>2 DEF MailInv
    <3>5. \A e \in Mails : copies[e] # {} => copies'[e] # {}
      BY <3>2
    <3> QED BY <1>8, <2>3, <3>1, <3>2, <3>3, <3>4, <3>5, MailStep
         DEF HandOver, mailedRows, MailInv, MailTyped
  <2>4. CASE Finish(r) /\ UNCHANGED copies
    <3>1. Framed' /\ OthersStay(r) /\ pc'[r] = "idle"
      BY <1>0, <2>4, FinishEffect DEF MailTyped
    <3>2. Sending(r)'
      BY <3>1 DEF Sending
    <3> QED BY <1>8, <2>4, <3>1, <3>2, MailStep DEF HandOver, mailedRows, MailInv, MailTyped
  <2> QED BY <1>8, <2>1, <2>3, <2>4 DEF HandOver
<1>9. ASSUME NEW r \in Requests, NoteMail(r) PROVE MailInv'
  <2>1. Framed' /\ OthersStay(r) /\ pc'[r] = "idle"
    BY <1>0, <1>9, FinishEffect DEF MailTyped, NoteMail
  <2>2. Sending(r)'
    BY <2>1 DEF Sending
  <2>3. sheet[r].row \in Mails /\ copies[sheet[r].row] # {}
    BY <1>0, <1>9 DEF Sending, NoteMail
  <2>4. UNCHANGED <<bill, emitting, copies, issuedHere>>
    BY <1>9 DEF NoteMail, mailHistory
  <2>5. emailSentAt' \in {emailSentAt, emailSentAt \cup {sheet[r].row}}
    BY <1>9 DEF NoteMail
  <2>6. /\ emailSentAt \subseteq Mails
        /\ \A d \in emailSentAt : copies[d] # {}
    BY DEF MailInv, MailTyped
  <2>7. /\ emailSentAt' \subseteq Mails
        /\ \A d \in emailSentAt' : copies'[d] # {}
    BY <2>3, <2>4, <2>5, <2>6
  <2> QED BY <2>1, <2>2, <2>4, <2>7, MailStep DEF MailInv, MailTyped
<1>10. ASSUME NEW r \in Requests, CutMail(r) PROVE MailInv'
  <2>1. Framed' /\ OthersStay(r) /\ pc'[r] = "idle"
    BY <1>0, <1>10, FinishEffect DEF MailTyped, CutMail
  <2>2. Sending(r)'
    BY <2>1 DEF Sending
  <2> QED BY <1>10, <2>1, <2>2, MailStep DEF CutMail, mailedRows, mailHistory, MailInv, MailTyped
<1> HIDE DEF MailInv
<1> QED BY <1>1, <1>2, <1>3, <1>4, <1>5, <1>6, <1>7, <1>8, <1>9, <1>10 DEF MailNext

\* The documents, the dates and the sheets of mails keep their types.
THEOREM MailTypes == MailSpec => []MailTypeOK
<1>1. MailInv => MailTypeOK
  BY DEF MailInv, MailTyped, MailTypeOK, Sending, MailPC, BillRows
<1> QED BY <1>1, InitMail, NextMail, PTL DEF MailSpec

\* Whatever becomes of a document while its mail is under way, nobody gets as
\* an invoice what the DIAN rejected or has still to answer: only documents
\* that were issued here go out without its word.
THEOREM MailsAreOfIssuedPapers == MailSpec => []MailedAsIssued
<1>1. ASSUME MailInv PROVE MailedAsIssued
  <2>1. ASSUME NEW d \in MailedBills,
               NEW copy \in copies[d]
        PROVE  copy.numbered /\ Told(d, copy)
    BY <1>1 DEF MailInv, Good, Mails
  <2> QED BY <1>1, <2>1 DEF MailInv, MailedAsIssued, Told
<1> QED BY <1>1, InitMail, NextMail, PTL DEF MailSpec

-----------------------------------------------------------------------------
(* Directory: the unique index, and for customers the rows that a request  *)
(* has looked for and nobody has written since.                            *)

USE DirectoryAssumption

EntryRows == [status : EntryStatus \cup {"none"}, key : Keys \cup {None}]

AtEntry(r) ==
  /\ pc[r] \in {"idle"} \cup DirectoryPC
  /\ pc[r] # "idle" => /\ sheet[r].row \in Entries
                       /\ sheet[r].other \in Keys \cup {None}
  /\ pc[r] \in {"update", "remove"} => /\ Written(sheet[r].row)
                                       /\ sheet[r].wanted \in {None, "active", "inactive"}
  /\ pc[r] = "insert" =>
       /\ sheet[r].other \in Keys
       /\ ~Indexed /\ r \notin stale => LiveHolders(sheet[r].other) = {}

\* What the unique index keeps.
KeysApart ==
  Indexed => \A d, e \in Entries :
    d # e /\ Written(d) /\ Written(e) => entry[d].key # entry[e].key

DirectoryInv ==
  /\ Framed
  /\ table \in Tables
  /\ entry \in [Entries -> EntryRows]
  /\ KeysApart
  /\ \A r \in Requests : AtEntry(r)

LEMMA EntryMaker ==
  ASSUME NEW status, NEW key
  PROVE  Entry(status, key).status = status /\ Entry(status, key).key = key
BY DEF Entry

LEMMA InitDirectory == DirectoryInit => DirectoryInv
<1> SUFFICES ASSUME DirectoryInit PROVE DirectoryInv
  OBVIOUS
<1>1. Framed /\ \A r \in Requests : AtEntry(r)
  BY RequestsFramed DEF DirectoryInit, AtEntry
<1>2. entry \in [Entries -> EntryRows] /\ \A e \in Entries : ~Written(e)
  BY DEF DirectoryInit, EntryRows, Entry, Written
<1> QED BY <1>1, <1>2 DEF DirectoryInit, DirectoryInv, KeysApart

\* A step of one request that leaves the rows as they are.
LEMMA DirectoryStep ==
  ASSUME DirectoryInv, NEW r \in Requests, Framed', OthersStay(r), AtEntry(r)',
         UNCHANGED <<table, entry>>, stale' \cup {r} = stale \cup {r}
  PROVE  DirectoryInv'
<1>1. ASSUME NEW q \in Requests \ {r} PROVE AtEntry(q)'
  <2>1. /\ AtEntry(q) /\ pc'[q] = pc[q] /\ sheet'[q] = sheet[q]
        /\ q \in stale' <=> q \in stale
    BY DEF DirectoryInv, OthersStay
  <2> QED BY <2>1 DEF AtEntry, Written, Indexed, LiveHolders, Holders, Live
<1> QED BY <1>1 DEF DirectoryInv, KeysApart, Indexed, Written

\* A request that writes one row, with a key that the index admits.
LEMMA EntryWritten ==
  ASSUME DirectoryInv, NEW r \in Requests, NEW e \in Entries, NEW row \in EntryRows,
         row.status # "none", entry' = [entry EXCEPT ![e] = row], table' = table,
         FinishWriting(r, row.key),
         Indexed => \A d \in Entries \ {e} : Written(d) => entry[d].key # row.key
  PROVE  DirectoryInv'
<1>1. Framed' /\ OthersStay(r) /\ pc'[r] = "idle"
  BY FinishEffect DEF DirectoryInv
<1>2. /\ entry' \in [Entries -> EntryRows] /\ (Indexed' <=> Indexed)
      /\ \A d \in Entries : entry'[d] = IF d = e THEN row ELSE entry[d]
  BY DEF DirectoryInv, Indexed
<1>3. KeysApart'
  BY <1>2 DEF DirectoryInv, KeysApart, Written
<1>4. ASSUME NEW q \in Requests \ {r} PROVE AtEntry(q)'
  <2>1. /\ AtEntry(q) /\ pc'[q] = pc[q] /\ sheet'[q] = sheet[q]
        /\ q \notin stale' => q \notin stale /\ (Active(q) => row.key \notin Rows(sheet[q]))
    BY <1>1, ReadersTold DEF DirectoryInv, OthersStay
  <2>2. ASSUME pc[q] = "insert", ~Indexed, q \notin stale'
        PROVE  LiveHolders(sheet[q].other)' = {}
    <3>1. sheet[q].other # row.key /\ LiveHolders(sheet[q].other) = {}
      BY <2>1, <2>2 DEF AtEntry, Active, Rows
    <3>2. LiveHolders(sheet[q].other)' \subseteq LiveHolders(sheet[q].other)
      BY <1>2, <2>1, <3>1 DEF LiveHolders, Holders, Live, Written
    <3> QED BY <3>1, <3>2
  <2>3. \A d \in Entries : Written(d) => Written(d)'
    BY <1>2 DEF Written
  <2> QED BY <1>2, <2>1, <2>2, <2>3 DEF AtEntry, DirectoryPC
<1>5. AtEntry(r)'
  BY <1>1 DEF AtEntry
<1> QED BY <1>1, <1>2, <1>3, <1>4, <1>5 DEF DirectoryInv

\* What each of the three writes does, if it does anything.
LEMMA InsertKeeps ==
  ASSUME DirectoryInv, NEW r \in Requests, InsertEntry(r)
  PROVE  DirectoryInv'
<1>1. PICK e \in Entries, key \in Keys : e = sheet[r].row /\ key = sheet[r].other
  BY DEF DirectoryInv, AtEntry, InsertEntry
<1>2. CASE RowsOfIndex(key) = {}
  <2>1. PICK row : row = Entry("active", key)
    OBVIOUS
  <2>2. /\ row \in EntryRows /\ row.status = "active" /\ row.key = key
    BY <2>1 DEF Entry, EntryRows, EntryStatus
  <2>3. /\ entry' = [entry EXCEPT ![e] = row] /\ table' = table
        /\ FinishWriting(r, row.key)
    BY <1>1, <1>2, <2>1, <2>2 DEF InsertEntry
  <2>4. Indexed => \A d \in Entries \ {e} : Written(d) => entry[d].key # row.key
    BY <1>2, <2>2 DEF RowsOfIndex, Holders
  <2> QED BY <2>2, <2>3, <2>4, EntryWritten
<1>3. CASE RowsOfIndex(key) # {}
  <2>1. Finish(r) /\ UNCHANGED <<table, entry>>
    BY <1>1, <1>3 DEF InsertEntry
  <2>2. Framed' /\ OthersStay(r) /\ pc'[r] = "idle" /\ stale' = stale \ {r}
    BY <2>1, FinishEffect DEF DirectoryInv, Finish
  <2>3. AtEntry(r)'
    BY <2>2 DEF AtEntry
  <2> QED BY <2>1, <2>2, <2>3, DirectoryStep
<1> QED BY <1>2, <1>3

LEMMA WriteEntryKeeps ==
  ASSUME DirectoryInv, NEW r \in Requests, WriteEntry(r)
  PROVE  DirectoryInv'
<1>1. PICK e \in Entries, key \in Keys \cup {None}, status \in {None, "active", "inactive"} :
        e = sheet[r].row /\ key = sheet[r].other /\ status = sheet[r].wanted /\ Written(e)
  BY DEF DirectoryInv, AtEntry, WriteEntry
<1>2. PICK row : row = EditedEntry(entry[e], key, status)
  OBVIOUS
<1>3. row \in EntryRows /\ row.status # "none"
  <2>1. /\ entry[e].status \in EntryStatus /\ entry[e].key \in Keys \cup {None}
        /\ status # None => status \in EntryStatus
    BY <1>1 DEF DirectoryInv, EntryRows, EntryStatus, Written
  <2>2. "none" \notin EntryStatus
    BY DEF EntryStatus
  <2> QED BY <1>2, <2>1, <2>2 DEF EditedEntry, Entry, EntryRows
<1>4. CASE RowsOfIndex(row.key) \subseteq {e}
  <2>1. /\ entry' = [entry EXCEPT ![e] = row] /\ table' = table
        /\ FinishWriting(r, row.key)
    BY <1>1, <1>2, <1>4 DEF WriteEntry
  <2>2. Indexed => \A d \in Entries \ {e} : Written(d) => entry[d].key # row.key
    BY <1>4 DEF RowsOfIndex, Holders
  <2> QED BY <1>3, <2>1, <2>2, EntryWritten
<1>5. CASE ~(RowsOfIndex(row.key) \subseteq {e})
  <2>1. Finish(r) /\ UNCHANGED <<table, entry>>
    BY <1>1, <1>2, <1>5 DEF WriteEntry
  <2>2. Framed' /\ OthersStay(r) /\ pc'[r] = "idle" /\ stale' = stale \ {r}
    BY <2>1, FinishEffect DEF DirectoryInv, Finish
  <2>3. AtEntry(r)'
    BY <2>2 DEF AtEntry
  <2> QED BY <2>1, <2>2, <2>3, DirectoryStep
<1> QED BY <1>4, <1>5

LEMMA RemoveEntryKeeps ==
  ASSUME DirectoryInv, NEW r \in Requests, RemoveEntry(r)
  PROVE  DirectoryInv'
<1>1. PICK e \in Entries : e = sheet[r].row /\ Written(e)
  BY DEF DirectoryInv, AtEntry, RemoveEntry
<1>2. PICK status \in {"inactive", "deleted"} :
        status = IF table = "profiles" THEN "inactive" ELSE "deleted"
  OBVIOUS
<1>3. PICK row : row = Entry(status, entry[e].key)
  OBVIOUS
<1>4. row \in EntryRows /\ row.status # "none" /\ row.key = entry[e].key
  BY <1>2, <1>3 DEF DirectoryInv, Entry, EntryRows, EntryStatus
<1>5. /\ entry' = [entry EXCEPT ![e] = row] /\ table' = table
      /\ FinishWriting(r, row.key)
  BY <1>1, <1>2, <1>3, <1>4 DEF RemoveEntry
<1>6. Indexed => \A d \in Entries \ {e} : Written(d) => entry[d].key # row.key
  BY <1>1, <1>4 DEF DirectoryInv, KeysApart
<1> QED BY <1>4, <1>5, <1>6, EntryWritten

\* A request that begins with a row, a key and a status.
LEMMA BeginEntryStep ==
  ASSUME DirectoryInv, NEW r \in Requests, NEW label \in DirectoryPC, NEW e \in Entries,
         NEW key \in Keys \cup {None}, NEW status \in {None, "active", "inactive"},
         Begin(r, label, Sheet(e, key, status, 0)), UNCHANGED <<table, entry>>,
         label \in {"update", "remove"} => Written(e),
         label = "insert" => key \in Keys /\ (~Indexed => LiveHolders(key) = {})
  PROVE  DirectoryInv'
<1>1. /\ Framed' /\ OthersStay(r) /\ pc'[r] = label /\ sheet'[r] = Sheet(e, key, status, 0)
      /\ stale' = stale
  BY BeginEffect DEF DirectoryInv, Begin
<1>2. sheet'[r].row = e /\ sheet'[r].other = key /\ sheet'[r].wanted = status
  BY <1>1, SheetFields
<1>3. (Written(e) => Written(e)') /\ (Indexed' <=> Indexed)
      /\ LiveHolders(key)' = LiveHolders(key)
  BY DEF Written, Indexed, LiveHolders, Holders, Live
<1>4. AtEntry(r)'
  BY <1>1, <1>2, <1>3 DEF AtEntry
<1> QED BY <1>1, <1>4, DirectoryStep

LEMMA NextDirectory ==
  ASSUME DirectoryInv, [DirectoryNext]_directoryVars
  PROVE  DirectoryInv'
<1>1. CASE UNCHANGED directoryVars
  BY <1>1 DEF directoryVars, requestVars, DirectoryInv, Framed, KeysApart, AtEntry,
              Indexed, Written, LiveHolders, Holders, Live
<1>2. ASSUME NEW r \in Requests, NEW e \in Entries, NEW key \in Keys, BeginCreate(r, e, key)
      PROVE  DirectoryInv'
  <2>1. ~Indexed => LiveHolders(key) = {}
    BY <1>2 DEF BeginCreate, HoldersAtCreate, Indexed
  <2>2. /\ Begin(r, "insert", Sheet(e, key, None, 0)) /\ UNCHANGED <<table, entry>>
        /\ "insert" \in DirectoryPC
    BY <1>2 DEF BeginCreate, DirectoryPC
  <2> QED BY <2>1, <2>2, BeginEntryStep
<1>3. ASSUME NEW r \in Requests, NEW e \in Entries, NEW key \in Keys \cup {None},
             NEW status \in {None, "active", "inactive"}, BeginEdit(r, e, key, status)
      PROVE  DirectoryInv'
  <2>1. /\ Begin(r, "update", Sheet(e, key, status, 0)) /\ UNCHANGED <<table, entry>>
        /\ "update" \in DirectoryPC /\ Written(e)
    BY <1>3 DEF BeginEdit, DirectoryPC, Editable, Live, Written
  <2> QED BY <2>1, BeginEntryStep
<1>4. ASSUME NEW r \in Requests, NEW e \in Entries, BeginRemove(r, e) PROVE DirectoryInv'
  <2>1. /\ Begin(r, "remove", Sheet(e, None, None, 0)) /\ UNCHANGED <<table, entry>>
        /\ "remove" \in DirectoryPC /\ Written(e)
    BY <1>4 DEF BeginRemove, DirectoryPC, Editable, Live, Written
  <2> QED BY <2>1, BeginEntryStep
<1>5. ASSUME NEW r \in Requests, CutDirectory(r) PROVE DirectoryInv'
  <2>1. /\ Framed' /\ OthersStay(r) /\ pc'[r] = "idle" /\ stale' = stale \ {r}
        /\ UNCHANGED <<table, entry>>
    BY <1>5, FinishEffect DEF DirectoryInv, CutDirectory, CutShort, Finish
  <2>2. AtEntry(r)'
    BY <2>1 DEF AtEntry
  <2> QED BY <2>1, <2>2, DirectoryStep
<1> QED BY <1>1, <1>2, <1>3, <1>4, <1>5, InsertKeeps, WriteEntryKeeps, RemoveEntryKeeps
     DEF DirectoryNext

\* The table, its rows and the sheets of this desk keep their types.
THEOREM DirectoryTypes == DirectorySpec => []DirectoryTypeOK
<1>1. DirectoryInv => DirectoryTypeOK
  BY DEF DirectoryInv, DirectoryTypeOK, AtEntry, DirectoryPC, EntryRows
<1> QED BY <1>1, InitDirectory, NextDirectory, PTL DEF DirectorySpec

\* The request whose step writes a row that was not there.
LEMMA NewRowIsInserted ==
  ASSUME DirectoryInv, [DirectoryNext]_directoryVars, NEW d \in Entries,
         ~Written(d), Written(d)'
  PROVE  \E r \in Requests : /\ InsertEntry(r) /\ sheet[r].row = d
                             /\ entry' = [entry EXCEPT ![d] = Entry("active", sheet[r].other)]
<1>1. PICK r \in Requests : InsertEntry(r) \/ WriteEntry(r) \/ RemoveEntry(r)
  BY DEF DirectoryNext, directoryVars, BeginCreate, BeginEdit, BeginRemove, CutDirectory,
         Written
<1>2. CASE InsertEntry(r)
  <2>1. entry' = entry \/ entry' = [entry EXCEPT ![sheet[r].row] = Entry("active", sheet[r].other)]
    BY <1>2 DEF InsertEntry
  <2>2. entry' # entry
    BY DEF Written
  <2>3. sheet[r].row = d
    BY <2>1, <2>2 DEF DirectoryInv, Written
  <2> QED BY <1>2, <2>1, <2>2, <2>3
<1>3. ASSUME WriteEntry(r) \/ RemoveEntry(r) PROVE FALSE
  <2>1. Written(sheet[r].row)
    BY <1>3 DEF DirectoryInv, AtEntry, WriteEntry, RemoveEntry
  <2>2. entry' = entry \/ \E row : entry' = [entry EXCEPT ![sheet[r].row] = row]
    BY <1>3 DEF WriteEntry, RemoveEntry
  <2> QED BY <2>1, <2>2 DEF DirectoryInv, Written
<1> QED BY <1>1, <1>2, <1>3

LEMMA StepSharesNoKey ==
  ASSUME DirectoryInv, [DirectoryNext]_directoryVars, NEW d \in Entries, NEW e \in Entries,
         Shared(d, e)', ~Shared(d, e)
  PROVE  ~Indexed /\ (~Written(d) => \A r \in Requests : ~Fresh(r))
<1>1. DirectoryInv' /\ table' = table
  BY NextDirectory
     DEF DirectoryNext, directoryVars, BeginCreate, BeginEdit, BeginRemove, CutDirectory,
         InsertEntry, WriteEntry, RemoveEntry
<1>2. ~Indexed
  BY <1>1 DEF DirectoryInv, KeysApart, Shared, Indexed, Live, Written
<1>3. ASSUME ~Written(d), NEW r \in Requests, Fresh(r) PROVE FALSE
  <2>1. Written(d)'
    BY DEF Shared, Live, Written
  <2>2. PICK q \in Requests :
          /\ InsertEntry(q) /\ sheet[q].row = d
          /\ entry' = [entry EXCEPT ![d] = Entry("active", sheet[q].other)]
    BY <1>3, <2>1, NewRowIsInserted
  <2>3. Finish(q) \/ \E row : FinishWriting(q, row)
    BY <2>2 DEF InsertEntry
  <2>4. OthersStay(q)
    BY <2>3, FinishEffect DEF DirectoryInv
  <2>5. r = q /\ q \notin stale
    BY <1>3, <2>4 DEF Fresh, OthersStay
  <2>6. LiveHolders(sheet[q].other) = {}
    BY <1>2, <2>2, <2>5 DEF DirectoryInv, AtEntry, InsertEntry
  <2>7. entry'[d].key = sheet[q].other /\ entry'[e] = entry[e]
    BY <2>2, EntryMaker DEF DirectoryInv, Shared
  <2>8. e \in LiveHolders(sheet[q].other)
    BY <2>7 DEF Shared, LiveHolders, Holders, Live, Written
  <2> QED BY <2>6, <2>8
<1> QED BY <1>2, <1>3

\* The unique index keeps keys apart; for customers, who have none, nobody is
\* created with a telephone that somebody had when the request looked for it.
THEOREM KeysHaveOneHolder == DirectorySpec => OneHolderPerKey
<1>1. DirectoryInv /\ [DirectoryNext]_directoryVars =>
        [\A d, e \in Entries :
           Shared(d, e)' /\ ~Shared(d, e)
             => /\ ~Indexed
                /\ ~Written(d) => \A r \in Requests : ~Fresh(r)]_directoryVars
  BY StepSharesNoKey
<1> QED BY <1>1, InitDirectory, NextDirectory, PTL DEF DirectorySpec, OneHolderPerKey

-----------------------------------------------------------------------------
(* Files: what has become of a file whose row is being removed, and which  *)
(* documents of a bill were archived when its paths are written.           *)

USE FileStoreAssumption

RemovalPC == {"removeFile", "removeRow"}
ArchivePC == {"storeXml", "storePdf", "writePaths"}
DianKinds == {"xml", "pdf"}

\* A request that removes works on a row and its file; the row may be gone.
AtRemoval(r) ==
  pc[r] \in RemovalPC => /\ sheet[r].row \in Attachments /\ sheet[r].other \in Files
                         /\ attachment[sheet[r].row] \in {None, sheet[r].other}

AtArchive(r) ==
  pc[r] \in ArchivePC =>
    /\ sheet[r].row \in Bills /\ sheet[r].other = None /\ sheet[r].wanted \subseteq DianKinds
    /\ \A kind \in sheet[r].wanted : DianObject(kind, sheet[r].row) \in objects

AtFile(r) ==
  /\ pc[r] \in {"idle"} \cup RemovalPC \cup ArchivePC
  /\ AtRemoval(r) /\ AtArchive(r)
  /\ pc[r] = "idle" => sheet[r] = Blank

StoreTyped ==
  /\ Framed
  /\ attachment \in [Attachments -> Files \cup {None}]
  /\ upload = [u \in Uploads |-> upload[u]]
  /\ paths \in [Bills -> SUBSET DianKinds]
  /\ backed \subseteq Attachments /\ excused \subseteq Files
  /\ \A r \in Requests : AtFile(r)

\* The row has lost its file, and a request is about to drop the row.
Dropping(r, a) == pc[r] = "removeRow" /\ sheet[r].row = a

\* An attachment that is backed is the only one with its file, also among
\* those under removal, and has the file until somebody drops its row.
BackedInv ==
  \A a \in backed : attachment[a] # None =>
    /\ \A b \in Attachments : attachment[b] = attachment[a] => b = a
    /\ \A r \in Requests : pc[r] \in RemovalPC /\ sheet[r].other = attachment[a]
         => sheet[r].row = a
    /\ \/ AttachmentObject(attachment[a]) \in objects
       \/ \E r \in Requests : Dropping(r, a)

\* A file that nobody excused has a row that nobody drops.
HeldInv ==
  \A file \in Files \ excused : AttachmentObject(file) \in objects =>
    \E a \in Attachments : attachment[a] = file /\ \A r \in Requests : ~Dropping(r, a)

ArchivedInv ==
  /\ \A b \in Bills : \A kind \in paths[b] : DianObject(kind, b) \in objects
  /\ \A u \in Uploads : upload[u] # NoPath =>
       InvoiceObject(Rest(upload[u][1]), upload[u][2]) \in objects

StoreInv == StoreTyped /\ BackedInv /\ HeldInv /\ ArchivedInv

LEMMA ObjectsDiffer ==
  ASSUME NEW f, NEW g, NEW b, NEW n, NEW kind \in DianKinds
  PROVE  /\ AttachmentObject(f) = AttachmentObject(g) => f = g
         /\ AttachmentObject(f) # InvoiceObject(n, g)
         /\ AttachmentObject(f) # DianObject(kind, b)
BY DEF AttachmentObject, InvoiceObject, DianObject, DianKinds

LEMMA InitStore == StoreInit => StoreInv
<1> SUFFICES ASSUME StoreInit PROVE StoreInv
  OBVIOUS
<1>1. Framed /\ \A r \in Requests : AtFile(r)
  BY RequestsFramed
     DEF StoreInit, RequestsInit, AtFile, AtRemoval, AtArchive, RemovalPC, ArchivePC
<1>2. StoreTyped
  BY <1>1 DEF StoreInit, StoreTyped
<1> QED BY <1>2 DEF StoreInit, StoreInv, BackedInv, HeldInv, ArchivedInv

\* Documents and uploads stay: only objects of attachments are removed.
LEMMA ArchivedStays ==
  ASSUME StoreInv, NEW f, objects \ {AttachmentObject(f)} \subseteq objects',
         UNCHANGED <<upload, paths>>
  PROVE  ArchivedInv'
<1>1. \A b \in Bills : \A kind \in paths[b] : DianObject(kind, b) \in objects'
  BY ObjectsDiffer DEF StoreInv, StoreTyped, ArchivedInv
<1>2. \A u \in Uploads : upload[u] # NoPath =>
        InvoiceObject(Rest(upload[u][1]), upload[u][2]) \in objects'
  <2>1. \A n, g : AttachmentObject(f) # InvoiceObject(n, g)
    BY DEF AttachmentObject, InvoiceObject
  <2> QED BY <2>1 DEF StoreInv, ArchivedInv
<1> QED BY <1>1, <1>2 DEF ArchivedInv

LEMMA AtFileStays ==
  ASSUME StoreInv, NEW q \in Requests, pc'[q] = pc[q], sheet'[q] = sheet[q],
         NEW f, objects \ {AttachmentObject(f)} \subseteq objects',
         \/ pc[q] \notin RemovalPC
         \/ attachment'[sheet[q].row] \in {None, attachment[sheet[q].row]}
  PROVE  AtFile(q)'
<1>1. AtFile(q)
  BY DEF StoreInv, StoreTyped
<1>2. AtRemoval(q)'
  BY <1>1 DEF AtFile, AtRemoval
<1>3. AtArchive(q)'
  BY <1>1, ObjectsDiffer DEF AtFile, AtArchive
<1> QED BY <1>1, <1>2, <1>3 DEF AtFile

\* Objects that are no files of attachments are added, and one request that
\* is not removing goes on: attachments see nothing of it.
LEMMA ArchiveStep ==
  ASSUME StoreInv, NEW r \in Requests, Framed', OthersStay(r), AtFile(r)',
         pc[r] \notin RemovalPC, pc'[r] \notin RemovalPC,
         objects \subseteq objects',
         \A f \in Files : AttachmentObject(f) \in objects' => AttachmentObject(f) \in objects,
         UNCHANGED <<attachment, upload, backed, excused>>,
         paths' \in [Bills -> SUBSET DianKinds],
         \A b \in Bills : \A kind \in paths'[b] : DianObject(kind, b) \in objects'
  PROVE  StoreInv'
<1>1. \A q \in Requests \ {r} : AtFile(q)'
  BY AtFileStays DEF OthersStay
<1>2. StoreTyped'
  BY <1>1 DEF StoreInv, StoreTyped
<1>3. \A q \in Requests : \A a : Dropping(q, a)' <=> Dropping(q, a)
  BY DEF Dropping, OthersStay, RemovalPC
<1>4. BackedInv'
  <2>1. ASSUME NEW a \in backed, attachment[a] # None
        PROVE  /\ \A q \in Requests : pc'[q] \in RemovalPC /\ sheet'[q].other = attachment[a]
                    => sheet'[q].row = a
               /\ \/ AttachmentObject(attachment[a]) \in objects'
                  \/ \E q \in Requests : Dropping(q, a)'
    BY <1>3, <2>1 DEF StoreInv, BackedInv, OthersStay
  <2> QED BY <2>1 DEF StoreInv, BackedInv
<1>5. HeldInv'
  BY <1>3 DEF StoreInv, HeldInv
<1>6. ArchivedInv'
  BY DEF StoreInv, ArchivedInv
<1> QED BY <1>2, <1>4, <1>5, <1>6 DEF StoreInv

LEMMA UploadKeeps ==
  ASSUME StoreInv, NEW f \in Files, UploadAttachment(f)
  PROVE  StoreInv'
<1>1. /\ objects' = objects \cup {AttachmentObject(f)} /\ excused' = excused \cup {f}
      /\ UNCHANGED <<pc, sheet, stale, attachment, upload, paths, backed>>
  BY DEF UploadAttachment, requestVars
<1>2. \A q \in Requests : AtFile(q)'
  BY <1>1, AtFileStays
<1>3. StoreTyped'
  BY <1>1, <1>2 DEF StoreInv, StoreTyped, Framed
<1>4. \A q \in Requests : \A a : Dropping(q, a)' <=> Dropping(q, a)
  BY <1>1 DEF Dropping
<1>5. BackedInv'
  BY <1>1, <1>4 DEF StoreInv, BackedInv
<1>6. \A g \in Files \ excused' : AttachmentObject(g) \in objects' =>
         g \notin excused /\ AttachmentObject(g) \in objects
  BY <1>1 DEF AttachmentObject
<1>7. HeldInv'
  BY <1>1, <1>4, <1>6 DEF StoreInv, HeldInv
<1>8. ArchivedInv'
  BY <1>1, ArchivedStays
<1> QED BY <1>3, <1>5, <1>7, <1>8 DEF StoreInv

LEMMA CreateAttachmentKeeps ==
  ASSUME StoreInv, NEW a \in Attachments, NEW f \in Files, CreateAttachment(a, f)
  PROVE  StoreInv'
<1>1. /\ attachment[a] = None /\ attachment' = [attachment EXCEPT ![a] = f]
      /\ excused' = excused \ {f}
      /\ UNCHANGED <<pc, sheet, stale, objects, upload, paths>>
      /\ \A q \in Requests : sheet[q].row # a
  BY DEF CreateAttachment, requestVars, Free
<1>2. \A b \in Attachments : attachment'[b] = IF b = a THEN f ELSE attachment[b]
  BY <1>1 DEF StoreInv, StoreTyped
<1>3. ASSUME NEW q \in Requests PROVE AtFile(q)'
  <2>1. pc[q] \notin RemovalPC \/ attachment'[sheet[q].row] = attachment[sheet[q].row]
    BY <1>1, <1>2 DEF StoreInv, StoreTyped, AtFile, AtRemoval
  <2> QED BY <1>1, <2>1, AtFileStays
<1>4. f # None /\ backed' \subseteq Attachments
  BY DEF StoreInv, StoreTyped, CreateAttachment
<1>5. StoreTyped'
  BY <1>1, <1>3, <1>4 DEF StoreInv, StoreTyped, Framed
<1>6. \A q \in Requests : \A b : (Dropping(q, b)' <=> Dropping(q, b)) /\ ~Dropping(q, a)
  BY <1>1 DEF Dropping
<1>7. BackedInv'
  <2> SUFFICES ASSUME NEW b \in backed', attachment'[b] # None
               PROVE  /\ \A c \in Attachments : attachment'[c] = attachment'[b] => c = b
                      /\ \A q \in Requests :
                           pc[q] \in RemovalPC /\ sheet[q].other = attachment'[b]
                             => sheet[q].row = b
                      /\ \/ AttachmentObject(attachment'[b]) \in objects
                         \/ \E q \in Requests : Dropping(q, b)
    BY <1>1, <1>6 DEF BackedInv
  <2>1. b \in Attachments
    BY <1>4
  <2>2. CASE b = a
    <3>1. AttachmentObject(f) \in objects /\ RowsWith(f) = {} /\ ~Removing(f)
      BY <2>2 DEF CreateAttachment
    <3> QED BY <1>2, <2>2, <3>1 DEF RowsWith, Removing
  <2>3. CASE b # a
    <3>1. b \in backed /\ attachment[b] # f
      BY <1>4, <2>1, <2>3 DEF CreateAttachment, RowsWith
    <3> QED BY <1>2, <2>1, <2>3, <3>1 DEF StoreInv, BackedInv
  <2> QED BY <2>2, <2>3
<1>8. HeldInv'
  <2> SUFFICES ASSUME NEW g \in Files \ excused', AttachmentObject(g) \in objects
               PROVE  \E b \in Attachments : /\ attachment'[b] = g
                                             /\ \A q \in Requests : ~Dropping(q, b)
    BY <1>1, <1>6 DEF HeldInv
  <2>1. CASE g = f
    BY <1>2, <1>6, <2>1
  <2>2. CASE g # f
    <3>1. PICK b \in Attachments : attachment[b] = g /\ \A q \in Requests : ~Dropping(q, b)
      BY <1>1, <2>2 DEF StoreInv, HeldInv
    <3>2. b # a
      BY <1>1, <3>1
    <3> QED BY <1>2, <3>1, <3>2
  <2> QED BY <2>1, <2>2
<1>9. ArchivedInv'
  BY <1>1, ArchivedStays
<1> QED BY <1>5, <1>7, <1>8, <1>9 DEF StoreInv

LEMMA BeginRemovalKeeps ==
  ASSUME StoreInv, NEW r \in Requests, NEW a \in Attachments, BeginRemoval(r, a)
  PROVE  StoreInv'
<1>1. /\ Framed' /\ OthersStay(r) /\ pc[r] = "idle" /\ pc'[r] = "removeFile"
      /\ sheet'[r] = Sheet(a, attachment[a], None, 0) /\ attachment[a] # None
      /\ UNCHANGED <<objects, attachment, upload, paths, backed, excused>>
  BY BeginEffect
     DEF BeginRemoval, RemovalOrder, StoreInv, StoreTyped, storeRows, storeHistory
<1>2. sheet'[r].row = a /\ sheet'[r].other = attachment[a]
  BY <1>1, SheetFields
<1>3. \A q \in Requests \ {r} : AtFile(q)'
  BY <1>1, AtFileStays DEF OthersStay
<1>4. AtFile(r)'
  BY <1>1, <1>2 DEF AtFile, AtRemoval, AtArchive, RemovalPC, ArchivePC, StoreInv, StoreTyped
<1>5. StoreTyped'
  BY <1>1, <1>3, <1>4 DEF StoreInv, StoreTyped
<1>6. \A q \in Requests : \A b : Dropping(q, b)' <=> Dropping(q, b)
  BY <1>1 DEF Dropping, OthersStay
<1>7. BackedInv'
  <2>1. ASSUME NEW b \in backed, attachment[b] # None, NEW q \in Requests,
               pc'[q] \in RemovalPC, sheet'[q].other = attachment[b]
        PROVE  sheet'[q].row = b
    BY <1>1, <1>2, <2>1 DEF StoreInv, BackedInv, OthersStay
  <2> QED BY <1>1, <1>6, <2>1 DEF StoreInv, BackedInv
<1>8. HeldInv'
  BY <1>1, <1>6 DEF StoreInv, HeldInv
<1>9. ArchivedInv'
  BY <1>1, ArchivedStays
<1> QED BY <1>5, <1>7, <1>8, <1>9 DEF StoreInv

LEMMA RemoveFileKeeps ==
  ASSUME StoreInv, NEW r \in Requests, RemoveFile(r)
  PROVE  StoreInv'
<1>1. PICK a \in Attachments, f \in Files :
        a = sheet[r].row /\ f = sheet[r].other /\ attachment[a] \in {None, f}
  BY DEF RemoveFile, StoreInv, StoreTyped, AtFile, AtRemoval, RemovalPC
<1>2. /\ pc[r] = "removeFile" /\ Goto(r, "removeRow")
      /\ UNCHANGED <<attachment, upload, paths, backed>>
      /\ \/ objects' = objects \ {AttachmentObject(f)} /\ UNCHANGED excused
         \/ excused' = excused \cup {f} /\ UNCHANGED objects
  BY <1>1 DEF RemoveFile, GoOn, RemovalOrder
<1>3. Framed' /\ OthersStay(r) /\ pc'[r] = "removeRow" /\ sheet'[r] = sheet[r]
  BY <1>2, GotoEffect DEF StoreInv, StoreTyped
<1>4. objects \ {AttachmentObject(f)} \subseteq objects' /\ excused' \subseteq Files
      /\ excused \subseteq excused'
  BY <1>2 DEF StoreInv, StoreTyped
<1>5. \A q \in Requests \ {r} : AtFile(q)'
  BY <1>2, <1>3, <1>4, AtFileStays DEF OthersStay
<1>6. AtFile(r)'
  BY <1>1, <1>2, <1>3 DEF AtFile, AtRemoval, AtArchive, RemovalPC, ArchivePC
<1>7. StoreTyped'
  BY <1>2, <1>3, <1>4, <1>5, <1>6 DEF StoreInv, StoreTyped
<1>8. /\ Dropping(r, a)'
      /\ \A q \in Requests : \A b : Dropping(q, b) => Dropping(q, b)'
      /\ \A q \in Requests : \A b : Dropping(q, b)' => Dropping(q, b) \/ b = a
  BY <1>1, <1>2, <1>3 DEF Dropping, OthersStay
<1>9. BackedInv'
  <2> SUFFICES ASSUME NEW b \in backed, attachment[b] # None
               PROVE  /\ \A q \in Requests :
                           pc'[q] \in RemovalPC /\ sheet'[q].other = attachment[b]
                             => sheet'[q].row = b
                      /\ \/ AttachmentObject(attachment[b]) \in objects'
                         \/ \E q \in Requests : Dropping(q, b)'
    BY <1>2 DEF StoreInv, BackedInv
  <2>1. \A q \in Requests : /\ sheet'[q] = sheet[q]
                            /\ pc'[q] \in RemovalPC => pc[q] \in RemovalPC
    BY <1>2, <1>3 DEF OthersStay, RemovalPC
  <2>2. CASE attachment[b] = f
    <3>1. b = a
      BY <1>1, <1>2, <2>2 DEF StoreInv, BackedInv, RemovalPC
    <3> QED BY <1>8, <2>1, <3>1 DEF StoreInv, BackedInv
  <2>3. CASE attachment[b] # f
    <3>1. AttachmentObject(attachment[b]) # AttachmentObject(f)
      BY <2>3 DEF AttachmentObject
    <3> QED BY <1>4, <1>8, <2>1, <3>1 DEF StoreInv, BackedInv
  <2> QED BY <2>2, <2>3
<1>10. HeldInv'
  <2> SUFFICES ASSUME NEW g \in Files \ excused', AttachmentObject(g) \in objects'
               PROVE  \E b \in Attachments : /\ attachment[b] = g
                                             /\ \A q \in Requests : ~Dropping(q, b)'
    BY <1>2 DEF HeldInv
  <2>1. g # f
    BY <1>2
  <2>2. AttachmentObject(g) \in objects /\ g \notin excused
    BY <1>2
  <2>3. PICK b \in Attachments : attachment[b] = g /\ \A q \in Requests : ~Dropping(q, b)
    BY <2>2 DEF StoreInv, HeldInv
  <2>4. b # a
    BY <1>1, <2>1, <2>3
  <2> QED BY <1>8, <2>3, <2>4
<1>11. ArchivedInv'
  BY <1>2, <1>4, ArchivedStays
<1> QED BY <1>7, <1>9, <1>10, <1>11 DEF StoreInv

\* A request that drops the row, or is cut short, and ends.
LEMMA RemovalEnds ==
  ASSUME StoreInv, NEW r \in Requests, Framed', OthersStay(r),
         pc[r] \in RemovalPC, pc'[r] = "idle", sheet'[r] = Blank,
         UNCHANGED <<objects, upload, paths, excused>>,
         NEW a \in Attachments, a = sheet[r].row, backed' \subseteq backed,
         \/ pc[r] = "removeRow" /\ attachment' = [attachment EXCEPT ![a] = None]
         \/ attachment' = attachment /\ (pc[r] = "removeRow" => a \notin backed')
  PROVE  StoreInv'
<1>1. \A b \in Attachments : /\ attachment'[b] \in {None, attachment[b]}
                             /\ b # a => attachment'[b] = attachment[b]
  BY DEF StoreInv, StoreTyped
<1>2. ASSUME NEW q \in Requests \ {r} PROVE AtFile(q)'
  <2>1. pc[q] \in RemovalPC => sheet[q].row \in Attachments
    BY DEF StoreInv, StoreTyped, AtFile, AtRemoval
  <2> QED BY <1>1, <2>1, AtFileStays DEF OthersStay
<1>3. AtFile(r)'
  BY DEF AtFile, AtRemoval, AtArchive, RemovalPC, ArchivePC
<1>4. StoreTyped'
  BY <1>2, <1>3 DEF StoreInv, StoreTyped
<1>5. /\ \A q \in Requests : \A b : Dropping(q, b)' => Dropping(q, b)
      /\ \A q \in Requests : \A b : Dropping(q, b) => Dropping(q, b)' \/ (q = r /\ b = a)
  BY DEF Dropping, OthersStay
<1>6. BackedInv'
  <2> SUFFICES ASSUME NEW b \in backed', attachment'[b] # None
               PROVE  /\ \A c \in Attachments : attachment'[c] = attachment'[b] => c = b
                      /\ \A q \in Requests :
                           pc'[q] \in RemovalPC /\ sheet'[q].other = attachment'[b]
                             => sheet'[q].row = b
                      /\ \/ AttachmentObject(attachment'[b]) \in objects
                         \/ \E q \in Requests : Dropping(q, b)'
    BY DEF BackedInv
  <2>1. b \in backed /\ b \in Attachments /\ attachment'[b] = attachment[b]
    BY <1>1 DEF StoreInv, StoreTyped
  <2>2. \A c \in Attachments : attachment'[c] = attachment'[b] => c = b
    BY <1>1, <2>1 DEF StoreInv, BackedInv
  <2>3. \A q \in Requests : pc'[q] \in RemovalPC => q # r
    BY DEF RemovalPC
  <2>4. \A q \in Requests : pc'[q] \in RemovalPC /\ sheet'[q].other = attachment'[b]
          => sheet'[q].row = b
    BY <2>1, <2>3 DEF StoreInv, BackedInv, OthersStay
  <2>5. ASSUME AttachmentObject(attachment[b]) \notin objects
        PROVE  \E q \in Requests : Dropping(q, b)'
    <3>1. PICK q \in Requests : Dropping(q, b)
      BY <2>1, <2>5 DEF StoreInv, BackedInv
    <3>2. ~(q = r /\ b = a)
      <4>1. SUFFICES ASSUME q = r, b = a PROVE FALSE
        OBVIOUS
      <4>2. pc[r] = "removeRow"
        BY <3>1, <4>1 DEF Dropping
      <4>3. attachment' = [attachment EXCEPT ![a] = None]
        BY <4>1, <4>2
      <4> QED BY <4>1, <4>3 DEF StoreInv, StoreTyped
    <3> QED BY <1>5, <3>1, <3>2
  <2> QED BY <2>1, <2>2, <2>4, <2>5
<1>7. HeldInv'
  <2> SUFFICES ASSUME NEW g \in Files \ excused, AttachmentObject(g) \in objects
               PROVE  \E b \in Attachments : /\ attachment'[b] = g
                                             /\ \A q \in Requests : ~Dropping(q, b)'
    BY DEF HeldInv
  <2>1. PICK b \in Attachments : attachment[b] = g /\ \A q \in Requests : ~Dropping(q, b)
    BY DEF StoreInv, HeldInv
  <2>2. attachment'[b] = g
    BY <1>1, <2>1 DEF Dropping
  <2> QED BY <1>5, <2>1, <2>2
<1>8. ArchivedInv'
  BY ArchivedStays
<1> QED BY <1>4, <1>6, <1>7, <1>8 DEF StoreInv

LEMMA RegisterKeeps ==
  ASSUME StoreInv, NEW u \in Uploads, NEW folders \in 1 .. 2, NEW f \in InvoiceFiles,
         RegisterUpload(u, folders, f)
  PROVE  StoreInv'
<1>1. /\ upload' = [upload EXCEPT ![u] = <<folders, f>>]
      /\ InvoiceObject(Rest(folders), f) \in objects
      /\ UNCHANGED <<pc, sheet, stale, objects, attachment, paths, backed, excused>>
  BY DEF RegisterUpload, requestVars, storeHistory
<1>2. StoreTyped'
  <2>1. \A q \in Requests : AtFile(q)'
    BY <1>1, AtFileStays
  <2>2. upload' = [v \in Uploads |-> upload'[v]]
    BY <1>1 DEF StoreInv, StoreTyped
  <2> QED BY <1>1, <2>1, <2>2 DEF StoreInv, StoreTyped, Framed
<1>3. BackedInv' /\ HeldInv'
  BY <1>1 DEF StoreInv, BackedInv, HeldInv, Dropping
<1>4. ArchivedInv'
  <2>1. \A v \in Uploads : upload'[v] = IF v = u THEN <<folders, f>> ELSE upload[v]
    BY <1>1 DEF StoreInv, StoreTyped
  <2> QED BY <1>1, <2>1 DEF StoreInv, ArchivedInv
<1> QED BY <1>2, <1>3, <1>4 DEF StoreInv

LEMMA ArchiveOneKeeps ==
  ASSUME StoreInv, NEW r \in Requests, NEW kind \in DianKinds, pc[r] \in ArchivePC,
         NEW next \in {"storePdf", "writePaths"}, ArchiveOne(r, kind, next)
  PROVE  StoreInv'
<1>1. PICK b \in Bills, archived \in SUBSET DianKinds :
        /\ b = sheet[r].row /\ archived = sheet[r].wanted
        /\ \A k \in archived : DianObject(k, b) \in objects
  BY DEF StoreInv, StoreTyped, AtFile, AtArchive
<1>2. PICK label \in {"storePdf", "writePaths"}, stored \in SUBSET DianKinds :
        /\ Carry(r, label, Sheet(b, None, stored, 0))
        /\ objects' \in {objects, objects \cup {DianObject(kind, b)}}
        /\ \A k \in stored : DianObject(k, b) \in objects'
  <2>1. CASE /\ objects' = objects \cup {DianObject(kind, b)}
             /\ Carry(r, next, Sheet(b, None, archived \cup {kind}, 0))
    <3>1. archived \cup {kind} \in SUBSET DianKinds
      OBVIOUS
    <3> QED BY <1>1, <2>1, <3>1
  <2>2. CASE UNCHANGED objects /\ Carry(r, next, Sheet(b, None, archived, 0))
    BY <1>1, <2>2
  <2>3. CASE UNCHANGED objects /\ Carry(r, "writePaths", Sheet(b, None, {}, 0))
    <3>1. {} \in SUBSET DianKinds
      OBVIOUS
    <3> QED BY <2>3, <3>1
  <2> QED BY <1>1, <2>1, <2>2, <2>3 DEF ArchiveOne
<1>3. UNCHANGED <<attachment, upload, paths, backed, excused>>
  BY DEF ArchiveOne, storeHistory
<1>4. /\ Framed' /\ OthersStay(r) /\ pc'[r] = label
      /\ sheet'[r] = Sheet(b, None, stored, 0)
  BY <1>2, CarryEffect DEF StoreInv, StoreTyped
<1>5. sheet'[r].row = b /\ sheet'[r].other = None /\ sheet'[r].wanted = stored
  BY <1>4, SheetFields
<1>6. AtFile(r)'
  BY <1>2, <1>4, <1>5 DEF AtFile, AtRemoval, AtArchive, RemovalPC, ArchivePC
<1>7. objects \subseteq objects' /\
      \A f \in Files : AttachmentObject(f) \in objects' => AttachmentObject(f) \in objects
  BY <1>2, ObjectsDiffer
<1>8. pc[r] \notin RemovalPC /\ pc'[r] \notin RemovalPC
  BY <1>2, <1>4 DEF RemovalPC, ArchivePC
<1>9. /\ paths' \in [Bills -> SUBSET DianKinds]
      /\ \A c \in Bills : \A k \in paths'[c] : DianObject(k, c) \in objects'
  BY <1>3, <1>7 DEF StoreInv, StoreTyped, ArchivedInv
<1> QED BY <1>3, <1>4, <1>6, <1>7, <1>8, <1>9, ArchiveStep

LEMMA NextStore ==
  ASSUME StoreInv, [StoreNext]_storeVars
  PROVE  StoreInv'
<1>1. CASE UNCHANGED storeVars
  <2>1. UNCHANGED <<pc, sheet, stale, objects, attachment, upload, paths, backed, excused>>
    BY <1>1 DEF storeVars, requestVars, storeRows, storeHistory
  <2>2. \A q \in Requests : AtFile(q)'
    BY <2>1, AtFileStays
  <2> QED BY <2>1, <2>2 DEF StoreInv, StoreTyped, Framed, BackedInv, HeldInv, Dropping,
       ArchivedInv
<1>2. ASSUME NEW f \in InvoiceFiles, UploadInvoice(f) PROVE StoreInv'
  <2>1. /\ objects' = objects \cup {InvoiceObject(1, f)}
        /\ UNCHANGED <<pc, sheet, stale, attachment, upload, paths, backed, excused>>
    BY <1>2 DEF UploadInvoice, requestVars, storeHistory
  <2>2. \A g : AttachmentObject(g) \in objects' => AttachmentObject(g) \in objects
    BY <2>1 DEF AttachmentObject, InvoiceObject
  <2>3. \A q \in Requests : AtFile(q)'
    BY <2>1, AtFileStays
  <2>4. StoreTyped' /\ ArchivedInv'
    BY <2>1, <2>3, ArchivedStays DEF StoreInv, StoreTyped, Framed
  <2>5. BackedInv' /\ HeldInv'
    BY <2>1, <2>2 DEF StoreInv, BackedInv, HeldInv, Dropping
  <2> QED BY <2>4, <2>5 DEF StoreInv
<1>3. ASSUME NEW r \in Requests, RemoveRow(r) PROVE StoreInv'
  <2>1. /\ pc[r] = "removeRow" /\ Finish(r)
        /\ attachment' = [attachment EXCEPT ![sheet[r].row] = None]
        /\ UNCHANGED <<objects, upload, paths, backed, excused>>
    BY <1>3 DEF RemoveRow, GoOn, RemovalOrder, storeHistory
  <2>2. Framed' /\ OthersStay(r) /\ pc'[r] = "idle" /\ sheet'[r] = Blank
    BY <2>1, FinishEffect DEF StoreInv, StoreTyped
  <2>3. pc[r] \in RemovalPC /\ sheet[r].row \in Attachments
    BY <2>1 DEF StoreInv, StoreTyped, AtFile, AtRemoval, RemovalPC
  <2> QED BY <2>1, <2>2, <2>3, RemovalEnds
<1>4. ASSUME NEW r \in Requests, NEW b \in Bills, BeginArchive(r, b) PROVE StoreInv'
  <2>1. /\ Framed' /\ OthersStay(r) /\ pc[r] = "idle" /\ pc'[r] = "storeXml"
        /\ sheet'[r] = Sheet(b, None, {}, 0)
        /\ UNCHANGED <<objects, attachment, upload, paths, backed, excused>>
    BY <1>4, BeginEffect DEF BeginArchive, StoreInv, StoreTyped, storeRows, storeHistory
  <2>2. sheet'[r].row = b /\ sheet'[r].other = None /\ sheet'[r].wanted = {}
    BY <2>1, SheetFields
  <2>3. AtFile(r)'
    BY <2>1, <2>2 DEF AtFile, AtRemoval, AtArchive, RemovalPC, ArchivePC
  <2>4. pc[r] \notin RemovalPC /\ pc'[r] \notin RemovalPC
    BY <2>1 DEF RemovalPC
  <2> QED BY <2>1, <2>3, <2>4, ArchiveStep DEF StoreInv, StoreTyped, ArchivedInv
<1>5. ASSUME NEW r \in Requests, StoreXml(r) \/ StorePdf(r) PROVE StoreInv'
  BY <1>5, ArchiveOneKeeps DEF StoreXml, StorePdf, ArchivePC, DianKinds
<1>6. ASSUME NEW r \in Requests, WritePaths(r) PROVE StoreInv'
  <2>1. PICK b \in Bills, archived \in SUBSET DianKinds :
          /\ b = sheet[r].row /\ archived = sheet[r].wanted /\ pc[r] = "writePaths"
          /\ \A kind \in archived : DianObject(kind, b) \in objects
    BY <1>6 DEF WritePaths, StoreInv, StoreTyped, AtFile, AtArchive, ArchivePC
  <2>2. /\ paths' = [paths EXCEPT ![b] = archived] /\ FinishWriting(r, b)
        /\ UNCHANGED <<objects, attachment, upload, backed, excused>>
    BY <1>6, <2>1 DEF WritePaths, storeHistory
  <2>3. Framed' /\ OthersStay(r) /\ pc'[r] = "idle" /\ sheet'[r] = Blank
    BY <2>2, FinishEffect DEF StoreInv, StoreTyped
  <2>4. AtFile(r)' /\ pc[r] \notin RemovalPC /\ pc'[r] \notin RemovalPC
    BY <2>1, <2>3 DEF AtFile, AtRemoval, AtArchive, RemovalPC, ArchivePC
  <2>5. /\ paths' \in [Bills -> SUBSET DianKinds]
        /\ \A c \in Bills : \A kind \in paths'[c] : DianObject(kind, c) \in objects
    BY <2>1, <2>2 DEF StoreInv, StoreTyped, ArchivedInv
  <2> QED BY <2>2, <2>3, <2>4, <2>5, ArchiveStep
<1>7. ASSUME NEW r \in Requests, CutStore(r) PROVE StoreInv'
  <2>1. /\ Framed' /\ OthersStay(r) /\ pc'[r] = "idle" /\ sheet'[r] = Blank
        /\ UNCHANGED <<objects, attachment, upload, paths, excused>>
        /\ backed' = IF pc[r] = "removeRow" THEN backed \ {sheet[r].row} ELSE backed
    BY <1>7, FinishEffect DEF CutStore, RemovalOrder, storeRows, StoreInv, StoreTyped
  <2>2. CASE pc[r] \in RemovalPC
    <3>1. sheet[r].row \in Attachments
      BY <2>2 DEF StoreInv, StoreTyped, AtFile, AtRemoval
    <3>2. backed' \subseteq backed /\ (pc[r] = "removeRow" => sheet[r].row \notin backed')
      BY <2>1
    <3> QED BY <2>1, <2>2, <3>1, <3>2, RemovalEnds
  <2>3. CASE pc[r] \notin RemovalPC
    <3>1. AtFile(r)' /\ pc'[r] \notin RemovalPC /\ backed' = backed
      BY <2>1, <2>3 DEF AtFile, AtRemoval, AtArchive, RemovalPC, ArchivePC
    <3> QED BY <2>1, <2>3, <3>1, ArchiveStep DEF StoreInv, StoreTyped, ArchivedInv
  <2> QED BY <2>2, <2>3
<1> HIDE DEF StoreInv
<1> QED BY <1>1, <1>2, <1>3, <1>4, <1>5, <1>6, <1>7, UploadKeeps, CreateAttachmentKeeps,
     BeginRemovalKeeps, RemoveFileKeeps, RegisterKeeps DEF StoreNext

\* The store, the rows that point at it and the sheets of this desk keep
\* their types.
THEOREM StoreTypes == StoreSpec => []StoreTypeOK
<1>1. StoreInv => StoreTypeOK
  BY DEF StoreInv, StoreTyped, StoreTypeOK, AtFile, AtRemoval, AtArchive, RemovalPC,
         ArchivePC, DianKinds
<1> QED BY <1>1, InitStore, NextStore, PTL DEF StoreSpec

\* Attachments that were registered with their file keep it, files go with
\* their rows unless the store refuses, and a bill or an upload that says where
\* its document is has it there.
THEOREM FilesStayWithRows == StoreSpec => []RowsHaveFiles
<1>1. ASSUME StoreInv PROVE RowsHaveFiles
  <2>1. ASSUME NEW a \in backed, attachment[a] # None, ~Removing(attachment[a])
        PROVE  AttachmentObject(attachment[a]) \in objects
    <3>1. SUFFICES ASSUME NEW r \in Requests, Dropping(r, a) PROVE FALSE
      BY <1>1, <2>1 DEF StoreInv, BackedInv
    <3>2. sheet[r].other = attachment[a]
      BY <1>1, <2>1, <3>1 DEF Dropping, StoreInv, StoreTyped, AtFile, AtRemoval, RemovalPC
    <3> QED BY <2>1, <3>2 DEF Removing
  <2>2. \A file \in Files \ excused :
          AttachmentObject(file) \in objects => RowsWith(file) # {}
    BY <1>1 DEF StoreInv, HeldInv, RowsWith
  <2> QED BY <1>1, <2>1, <2>2 DEF StoreInv, ArchivedInv, RowsHaveFiles
<1> QED BY <1>1, InitStore, NextStore, PTL DEF StoreSpec
=============================================================================
