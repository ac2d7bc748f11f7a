----------------------------- MODULE Receivables -----------------------------
(***************************************************************************)
(* Reading an invoice writes it: findOne and the listings of invoices      *)
(* (syncOverdueStatus) and of the receivables mark what is overdue.        *)
(* Cancelling starts with such a read.                                     *)
(***************************************************************************)
EXTENDS BillingRequests

SyncedStatus(d, row) ==
  ResolveInvoiceStatus(Total[d], row.paid, d \in late, row.status)

NeedsSync(d, row) ==
  IsOverdue(d \in late, row.balance) /\ SyncedStatus(d, row) # row.status

\* findOne for a purpose: the status is written, if it has to be, before the
\* request goes on.  A view that writes nothing changes nothing.
Open(r, d, goal) ==
  LET row == ReadRow(d) IN
  /\ Start(r, d, IF NeedsSync(d, row) THEN "sync" ELSE goal)
  /\ work' = [work EXCEPT ![r] = Locals(d, None, 0, goal, row)]

View(r, d) ==
  /\ NeedsSync(d, ReadRow(d))
  /\ Open(r, d, "view")
  /\ UNCHANGED <<ledgerVars, existing, validated, late, payments, credited, taken>>

\* AccountsReceivableService.list: what is collectable (buildReceivableWhere),
\* overdue and not marked yet.
Receivable(d) ==
  /\ d \in validated
  /\ IsPayableDocument(KindOf[d])
  /\ status[d] \in {"EMITIDA", "PARCIALMENTE_PAGADA", "VENCIDA"}
  /\ balance[d] > 0

ListReceivable(r, d) ==
  /\ Receivable(d)
  /\ status[d] # "VENCIDA"
  /\ NeedsSync(d, ReadRow(d))
  /\ Open(r, d, "view")
  /\ UNCHANGED <<ledgerVars, existing, validated, late, payments, credited, taken>>

\* update { status }: the status that the row read deserves, written to the
\* row as it is now.
WriteSync(r) ==
  LET d == work[r].doc
      synced == SyncedStatus(d, work[r].seen)
  IN
  /\ pc[r] = "sync"
  /\ status' = [status EXCEPT ![d] = synced]
  /\ IF work[r].goal = "view"
     THEN Finish(r)
     ELSE /\ pc' = [pc EXCEPT ![r] = work[r].goal]
          /\ work' = [work EXCEPT ![r].seen.status = synced]
  /\ UNCHANGED <<paid, balance, credit, existing, validated, late, payments,
                 credited, taken>>

-----------------------------------------------------------------------------
BeginCancel(r, d) ==
  /\ Open(r, d, "cancel")
  /\ UNCHANGED <<ledgerVars, existing, validated, late, payments, credited, taken>>

MayCancel(row) == row.status # "CANCELADA" /\ row.paid <= 0

\* The balance a cancelled document is left with; and forgetting it.
KeptBalance(d) == balance[d]
CancelledBalance(d) == 0

Cancel(r) ==
  LET d == work[r].doc IN
  /\ pc[r] = "cancel"
  /\ IF MayCancel(work[r].seen)
     THEN /\ status' = [status EXCEPT ![d] = "CANCELADA"]
          /\ balance' = [balance EXCEPT ![d] = CancelledBalance(d)]
     ELSE UNCHANGED <<status, balance>>
  /\ Finish(r)
  /\ UNCHANGED <<paid, credit, existing, validated, late, payments, credited, taken>>

ReceivableStep(r) ==
  \/ \E d \in Documents : View(r, d) \/ ListReceivable(r, d) \/ BeginCancel(r, d)
  \/ WriteSync(r)
  \/ Cancel(r)
=============================================================================
