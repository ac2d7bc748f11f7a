------------------------------- MODULE Mailing -------------------------------
(***************************************************************************)
(* The mails with the printed copy of an invoice, a note or a quote.  The  *)
(* handler reads the document, prints it, hands the mail over and then     *)
(* writes emailSentAt, a write whose failure it ignores; meanwhile the     *)
(* document may be emitted, rejected or cancelled.  Documents are issued   *)
(* through the DIAN, and here: an invoice of a service has its status and  *)
(* its number from its creation, and without Factus an emission numbers    *)
(* the draft by itself.  What the copy says is kept as far as it tells an  *)
(* invoice that the DIAN took from another: EMITIDA stands for every       *)
(* status of one that was issued, and a quote can be mailed in any of its  *)
(* own.  Amounts are in LineMoney; the layout is left out.                 *)
(***************************************************************************)
EXTENDS OfficeRequests

CONSTANTS MailedBills,   \* invoices; a note takes part of their steps
          MailedQuotes

ASSUME MailingAssumption ==
  None \notin MailedBills \cup MailedQuotes /\ MailedBills \cap MailedQuotes = {}

VARIABLES bill,         \* what an invoice says about itself
          emitting,     \* documents with emissions under way
          emailSentAt,  \* documents that have the date
          copies,       \* history: of each document, the last copy that was
                        \* handed over, if there is one
          issuedHere    \* history: documents issued with no word of the DIAN

mailedRows == <<bill, emitting, emailSentAt>>
mailHistory == <<copies, issuedHere>>
mailVars == <<requestVars, mailedRows, mailHistory>>
Mails == MailedBills \cup MailedQuotes

MailPC == {"post", "note"}

\* The columns that a copy shows: status, dianStatus, and whether there is an
\* invoiceNumber.
BillRow(status, dian, numbered) ==
  [status |-> status, dian |-> dian, numbered |-> numbered]
NoBill == BillRow("none", "PENDIENTE", FALSE)
DraftBill == BillRow("BORRADOR", "PENDIENTE", FALSE)
IssuedBill == BillRow("EMITIDA", "PENDIENTE", TRUE)

MailInit ==
  /\ RequestsInit
  /\ bill = [d \in MailedBills |-> NoBill]
  /\ emitting = {} /\ emailSentAt = {} /\ issuedHere = {}
  /\ copies = [d \in Mails |-> {}]

-----------------------------------------------------------------------------
\* What becomes of a document meanwhile.
BillBecomes(d, row) ==
  /\ bill' = [bill EXCEPT ![d] = row]
  /\ UNCHANGED <<requestVars, emailSentAt, copies>>

\* It is written as a draft, createDraft and createNote,
CreateBill(d) ==
  /\ bill[d] = NoBill
  /\ BillBecomes(d, DraftBill) /\ UNCHANGED <<emitting, issuedHere>>

\* or is the invoice of a service, issued with a number of the company and
\* sent to nobody.
InvoiceService(d) ==
  /\ bill[d] = NoBill
  /\ BillBecomes(d, IssuedBill)
  /\ issuedHere' = issuedHere \cup {d} /\ UNCHANGED emitting

\* An emission begins with a draft, and several may, each of which ends at any
\* time or never.
BeginEmission(d) ==
  /\ bill[d].status = "BORRADOR"
  /\ emitting' = emitting \cup {d}
  /\ UNCHANGED <<requestVars, bill, emailSentAt, mailHistory>>

\* The update that ends it: a bill that was rejected has a number and is a
\* draft, and one that was cancelled since comes back.
EndEmission(d, dian) ==
  /\ d \in emitting
  /\ BillBecomes(d, BillRow(IF dian = "RECHAZADA" THEN "BORRADOR" ELSE "EMITIDA", dian, TRUE))
  /\ UNCHANGED <<emitting, issuedHere>>

\* emitLocal: without Factus, or when a statement failed and the documents
\* may be kept in memory.
EmitHere(d) ==
  /\ d \in emitting
  /\ BillBecomes(d, IssuedBill)
  /\ issuedHere' = issuedHere \cup {d} /\ UNCHANGED emitting

\* cancel takes it in any status but one.
CancelBill(d) ==
  /\ bill[d].status \notin {"none", "CANCELADA"}
  /\ BillBecomes(d, BillRow("CANCELADA", bill[d].dian, bill[d].numbered))
  /\ UNCHANGED <<emitting, issuedHere>>

-----------------------------------------------------------------------------
\* What may be mailed; also, whatever has a number.
MailableNumbered(row) == row.numbered
Mailable(row) == row.status # "BORRADOR" /\ row.numbered

\* toPdfModel: the row as it was read.
Printed(d) == IF d \in MailedBills THEN bill[d] ELSE DraftBill

\* sendInvoiceEmail and the sendEmail of quotes, up to the mail: there is an
\* address, in the request or of the customer.
BeginMail(r, d) ==
  /\ d \in MailedBills => Mailable(bill[d])
  /\ Begin(r, "post", Sheet(d, None, Printed(d), 0))
  /\ UNCHANGED <<mailedRows, mailHistory>>

\* sendMail: Resend, SMTP or, without either, nobody takes it; or it throws.
HandOver(r) ==
  /\ pc[r] = "post"
  /\ \/ /\ copies' = [copies EXCEPT ![sheet[r].row] = {sheet[r].wanted}]
        /\ Goto(r, "note") /\ UNCHANGED stale
     \/ Finish(r) /\ UNCHANGED copies
  /\ UNCHANGED <<mailedRows, issuedHere>>

\* The date is written, or cannot be and nobody is told.
NoteMail(r) ==
  /\ pc[r] = "note"
  /\ emailSentAt' \in {emailSentAt, emailSentAt \cup {sheet[r].row}}
  /\ Finish(r)
  /\ UNCHANGED <<bill, emitting, mailHistory>>

CutMail(r) == CutShort(r) /\ UNCHANGED <<mailedRows, mailHistory>>

MailNext ==
  \/ \E d \in MailedBills :
       \/ CreateBill(d) \/ InvoiceService(d) \/ BeginEmission(d) \/ EmitHere(d)
       \/ \E dian \in {"VALIDADA", "ENVIADA", "RECHAZADA"} : EndEmission(d, dian)
       \/ CancelBill(d)
  \/ \E r \in Requests :
       \/ \E d \in Mails : BeginMail(r, d)
       \/ HandOver(r) \/ NoteMail(r) \/ CutMail(r)

MailSpec == MailInit /\ [][MailNext]_mailVars

-----------------------------------------------------------------------------
\* Types of the documents and of the sheets of this desk.
MailTypeOK ==
  /\ bill \in [MailedBills ->
       [status : {"none", "BORRADOR", "EMITIDA", "CANCELADA"},
        dian : {"PENDIENTE", "VALIDADA", "ENVIADA", "RECHAZADA"},
        numbered : BOOLEAN]]
  /\ emitting \cup issuedHere \subseteq MailedBills
  /\ emailSentAt \subseteq Mails
  /\ DOMAIN copies = Mails
  /\ \A r \in Requests : pc[r] \in MailPC => sheet[r].row \in Mails

\* Nobody gets as an invoice what the DIAN rejected or has not answered yet,
\* although a rejected draft has the number that it was rejected with and may
\* be emitted again or cancelled while a mail is under way: a copy is of a
\* document that the DIAN took, or says that it is cancelled, or is of one that
\* was issued here, the invoice of a service or an emission without Factus,
\* and then says that the answer of the DIAN is pending; and a document is
\* said to have been mailed only if a copy of it was handed over
\* (sendInvoiceEmail, invoiceFromService).
MailedAsIssued ==
  /\ \A d \in MailedBills : \A copy \in copies[d] :
       /\ copy.numbered
       /\ \/ copy.status = "CANCELADA"
          \/ copy.dian \in {"VALIDADA", "ENVIADA"}
          \/ copy.dian = "PENDIENTE" /\ d \in issuedHere
  /\ \A d \in emailSentAt : copies[d] # {}
=============================================================================
