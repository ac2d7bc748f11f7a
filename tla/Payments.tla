------------------------------ MODULE Payments ------------------------------
(***************************************************************************)
(* PaymentsService.register: one transaction at READ COMMITTED that reads  *)
(* the invoice without locking it, then inserts the payment and overwrites *)
(* the money columns of the invoice.                                       *)
(***************************************************************************)
EXTENDS BillingRequests

\* paidAmount or the sum of the payments, whichever is greater: credit that
\* paid for the invoice at its emission has no payment row.
PaymentsOnly(row) == row.payments
TotalPaid(row) == IF row.paid > row.payments THEN row.paid ELSE row.payments

\* What a cashier may still collect, and what is left after a payment.
DueIgnoringLedger(d, row) == Total[d] - row.payments - row.credit
Due(d, row) == Total[d] - TotalPaid(row) - row.credit

LeftIgnoringCredit(d, row, amount) == Total[d] - TotalPaid(row) - amount
LeftAfter(d, row, amount) == Due(d, row) - amount

BeginPayment(r, d, amount) ==
  LET row == ReadRow(d) IN
  /\ row.status \notin {"BORRADOR", "CANCELADA"}
  /\ IsPayableDocument(KindOf[d])
  /\ amount <= Due(d, row)
  /\ Start(r, d, "pay")
  /\ work' = [work EXCEPT ![r] = Locals(d, None, amount, "view", row)]
  /\ UNCHANGED <<ledgerVars, existing, validated, late, payments, credited, taken>>

CommitPayment(r) ==
  LET d   == work[r].doc
      row == work[r].seen
      newPaid == TotalPaid(row) + work[r].amount
  IN
  /\ pc[r] = "pay"
  /\ payments' = [payments EXCEPT ![d] = @ + work[r].amount]
  /\ paid' = [paid EXCEPT ![d] = newPaid]
  /\ balance' = [balance EXCEPT ![d] =
       AtLeastZero(LeftAfter(d, row, work[r].amount))]
  /\ status' = [status EXCEPT ![d] =
       ResolveInvoiceStatus(Total[d] - row.credit, newPaid, d \in late, row.status)]
  /\ Finish(r)
  /\ UNCHANGED <<credit, existing, validated, late, credited, taken>>

PaymentStep(r) ==
  \/ \E d \in Documents, amount \in Amounts : BeginPayment(r, d, amount)
  \/ CommitPayment(r)
=============================================================================
