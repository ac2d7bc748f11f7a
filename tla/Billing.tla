------------------------------ MODULE Billing ------------------------------
(***************************************************************************)
(* The life of emitted documents: cashiers, credit notes, listings that    *)
(* mark overdue invoices, cancellations and the credit that emissions of   *)
(* other invoices take, all on the same rows.                              *)
(***************************************************************************)
EXTENDS Payments, CreditNotes

Next ==
  \/ \E r \in Requests :
       PaymentStep(r) \/ ReceivableStep(r) \/ NoteStep(r) \/ Crash(r)
  \/ \E d \in Invoices :
       \/ FallDue(d)
       \/ \E n \in 1..Total[d] : SpendCredit(d, n) \/ ReturnCredit(d, n)

Spec == Init /\ [][Next]_billingVars

-----------------------------------------------------------------------------
(* With one request at a time on an invoice and its notes.                 *)

\* What cashiers collect and what credit paid at the emission never exceed
\* the amount of the document: the payment rows do not show the credit.
NeverCollectsTwice ==
  \A d \in Documents : payments[d] + Compensated[d] <= Total[d]

\* Status and balance tell the same story.
SettledIffPaid ==
  \A d \in existing :
    /\ status[d] = "PAGADA" => balance[d] = 0
    /\ balance[d] = 0 /\ Compensated[d] < Total[d]
         => status[d] \in {"PAGADA", "CANCELADA"}

\* A credit note is worth its amount once: it lowers the balance, or becomes
\* credit of the customer, kept or in the hands of other emissions.
NotesCountOnce ==
  \A d \in Invoices :
    payments[d] = 0 /\ status[d] # "CANCELADA" =>
      (Total[d] - paid[d] - balance[d]) + credit[d] + taken[d] = credited[d]

-----------------------------------------------------------------------------
(* Whatever runs concurrently.                                             *)

\* Stale reads may lose payments, but the columns stay within the document.
ColumnsWithinTotal ==
  \A d \in Documents : /\ 0 <= paid[d] /\ paid[d] <= Total[d]
                       /\ 0 <= balance[d] /\ balance[d] <= Total[d]

\* A note that was emitted never becomes a draft again, not even when a
\* second emission of it, rejected, comes to write after the first.
EmittedNoteIsFinal ==
  [][\A n \in Notes : status[n] # "BORRADOR" => status'[n] # "BORRADOR"]_billingVars

\* Only notes that the DIAN validated change the invoice they correct.
OnlyValidatedNotesCount ==
  \A s \in Invoices :
    credited[s] <= SumFunctionOnSet(Total,
                     {n \in validated \cap Notes : /\ Source[n] = s
                                                   /\ KindOf[n] = "NOTA_CREDITO"})

\* No write that lands after a cancellation leaves it owing something.
CancelledOwesNothing ==
  \A d \in existing : status[d] = "CANCELADA" => balance[d] = 0

-----------------------------------------------------------------------------
(* What the code says of itself and does not keep.                         *)

\* The effect of a credit note is in the balance of the invoice: collecting
\* money lowers that balance.
PaymentLowersBalance ==
  [][\A d \in Documents : payments'[d] > payments[d]
                            => balance'[d] < balance[d]]_billingVars

\* Listing the invoices applies the rule of the receivables: looking at an
\* overdue invoice never takes its mark away.
ViewKeepsOverdue ==
  [][\A r \in Requests, d \in late :
       WriteSync(r) /\ status[d] = "VENCIDA" => status'[d] = "VENCIDA"]_billingVars
=============================================================================
