--------------------------- MODULE Billing_proofs ---------------------------
(***************************************************************************)
(* Proofs about Billing and the rules of InvoiceRules that it applies, for *)
(* every set of documents, every amount and any number of requests that    *)
(* work on the same rows at the same time.                                 *)
(***************************************************************************)
EXTENDS Billing, Sums_proofs

USE DocumentsAssumption, BillingAssumption

-----------------------------------------------------------------------------
(* What applyCreditToInvoice and resolveInvoiceStatus guarantee.           *)

\* A note never takes more from the balance than there is, nor more than it
\* is worth, and the status stays a status.
LEMMA ApplyCreditType ==
  ASSUME NEW total \in Nat, NEW overdue \in BOOLEAN,
         NEW pos \in Position(total), NEW amount \in Nat
  PROVE  ApplyCredit(total, overdue, pos, amount) \in Position(total)
<1> DEFINE covered == Lesser(amount, pos.balance)
<1>1. /\ pos.balance \in 0..total /\ pos.credit \in Nat /\ pos.status \in Status
  BY DEF Position
<1>2. covered \in Nat /\ covered <= amount /\ covered <= pos.balance
  BY <1>1 DEF Lesser
<1>3. pos.balance - covered \in 0..total /\ pos.credit + (amount - covered) \in Nat
  BY <1>1, <1>2
<1>4. ResolveInvoiceStatus(total, total - (pos.balance - covered), overdue,
                           pos.status) \in Status
  BY <1>1 DEF ResolveInvoiceStatus, IsFrozen, Status
<1>5. CASE IsFrozen(pos.status) \/ amount <= 0
  BY <1>5 DEF ApplyCredit
<1>6. CASE ~(IsFrozen(pos.status) \/ amount <= 0)
  BY <1>3, <1>4, <1>6 DEF ApplyCredit, Position
<1> QED BY <1>5, <1>6

\* What a note takes off the balance and what it leaves as credit in favour
\* of the customer are, together, exactly its amount: applying a note neither
\* loses money nor counts it twice.
THEOREM NoteIsConserved ==
  ASSUME NEW total \in Nat, NEW overdue \in BOOLEAN,
         NEW pos \in Position(total), NEW amount \in Nat,
         ~IsFrozen(pos.status)
  PROVE  LET after == ApplyCredit(total, overdue, pos, amount)
         IN  (pos.balance - after.balance) + (after.credit - pos.credit) = amount
<1> DEFINE covered == Lesser(amount, pos.balance)
<1>1. pos.balance \in 0..total /\ pos.credit \in Nat
  BY DEF Position
<1>2. covered \in Nat
  BY <1>1 DEF Lesser
<1>3. CASE amount <= 0
  <2>1. ApplyCredit(total, overdue, pos, amount) = pos /\ amount = 0
    BY <1>3 DEF ApplyCredit
  <2> QED BY <1>1, <2>1
<1>4. CASE amount > 0
  <2>1. /\ ApplyCredit(total, overdue, pos, amount).balance = pos.balance - covered
        /\ ApplyCredit(total, overdue, pos, amount).credit
             = pos.credit + (amount - covered)
    BY <1>4 DEF ApplyCredit
  <2> QED BY <1>1, <1>2, <2>1
<1> QED BY <1>3, <1>4

\* What a note of a positive amount does to an open invoice.
LEMMA NoteEffect ==
  ASSUME NEW total, NEW overdue, NEW pos, NEW amount \in Nat \ {0},
         ~IsFrozen(pos.status)
  PROVE  LET left == pos.balance - Lesser(amount, pos.balance)
         IN  ApplyCredit(total, overdue, pos, amount)
               = [balance |-> left,
                  credit  |-> pos.credit + (amount - Lesser(amount, pos.balance)),
                  status  |-> ResolveInvoiceStatus(total, total - left, overdue,
                                                   pos.status)]
BY DEF ApplyCredit

\* The order of two notes, or issuing one for both, makes no difference to
\* what the invoice still owes nor to the credit it leaves.
THEOREM NotesAddUp ==
  ASSUME NEW total \in Nat, NEW overdue \in BOOLEAN,
         NEW pos \in Position(total), NEW a \in Nat \ {0}, NEW b \in Nat \ {0},
         NEW c \in Nat, c = a + b, ~IsFrozen(pos.status)
  PROVE  LET one == ApplyCredit(total, overdue, pos, a)
             two == ApplyCredit(total, overdue, one, b)
             sum == ApplyCredit(total, overdue, pos, c)
         IN  two.balance = sum.balance /\ two.credit = sum.credit
<1> DEFINE one == ApplyCredit(total, overdue, pos, a)
           two == ApplyCredit(total, overdue, one, b)
           sum == ApplyCredit(total, overdue, pos, c)
<1>1. pos.balance \in 0..total /\ pos.credit \in Nat
  BY DEF Position
<1>2. /\ one.balance = pos.balance - Lesser(a, pos.balance)
      /\ one.credit = pos.credit + (a - Lesser(a, pos.balance))
      /\ one.status = ResolveInvoiceStatus(total, total - one.balance, overdue,
                                           pos.status)
  BY NoteEffect
<1>3. ~IsFrozen(one.status)
  BY <1>2 DEF ResolveInvoiceStatus, IsFrozen
<1>4. /\ two.balance = one.balance - Lesser(b, one.balance)
      /\ two.credit = one.credit + (b - Lesser(b, one.balance))
  BY <1>3, NoteEffect
<1>5. /\ sum.balance = pos.balance - Lesser(c, pos.balance)
      /\ sum.credit = pos.credit + (c - Lesser(c, pos.balance))
  <2>1. c \in Nat \ {0}
    OBVIOUS
  <2> QED BY <2>1, NoteEffect
<1>6. /\ Lesser(a, pos.balance) + Lesser(b, pos.balance - Lesser(a, pos.balance))
           = Lesser(c, pos.balance)
      /\ Lesser(a, pos.balance) \in Int
      /\ Lesser(b, pos.balance - Lesser(a, pos.balance)) \in Int
  BY <1>1 DEF Lesser
<1> HIDE DEF one, two, sum
<1>7. Lesser(b, one.balance) = Lesser(b, pos.balance - Lesser(a, pos.balance))
  BY <1>2
<1>8. two.balance = sum.balance
  BY <1>1, <1>2, <1>4, <1>5, <1>6, <1>7
<1>9. two.credit = sum.credit
  BY <1>1, <1>2, <1>4, <1>5, <1>6, <1>7
<1> QED BY <1>8, <1>9 DEF one, two, sum

\* After a note an open invoice is PAGADA exactly when it owes nothing.
THEOREM NoteSettles ==
  ASSUME NEW total \in Nat, NEW overdue \in BOOLEAN,
         NEW pos \in Position(total), NEW amount \in Nat \ {0},
         pos.status \in Status \ {"BORRADOR", "CANCELADA", "PAGADA"}
  PROVE  LET after == ApplyCredit(total, overdue, pos, amount)
         IN  after.status = "PAGADA" <=> after.balance = 0
<1> DEFINE left == pos.balance - Lesser(amount, pos.balance)
<1>1. pos.balance \in 0..total /\ left \in Nat /\ left <= total
  BY DEF Position, Lesser
<1>2. /\ ApplyCredit(total, overdue, pos, amount).balance = left
      /\ ApplyCredit(total, overdue, pos, amount).status
           = ResolveInvoiceStatus(total, total - left, overdue, pos.status)
  BY DEF ApplyCredit, IsFrozen
<1> HIDE DEF left
<1>3. total - (total - left) <= 0 <=> left = 0
  BY <1>1
<1> QED BY <1>2, <1>3 DEF ResolveInvoiceStatus, IsFrozen

-----------------------------------------------------------------------------
(* Facts about the operators.                                              *)

LEMMA ResolveStatusType ==
  ASSUME NEW t, NEW p, NEW overdue, NEW current \in Status
  PROVE  ResolveInvoiceStatus(t, p, overdue, current) \in Status
BY DEF ResolveInvoiceStatus, IsFrozen, Status

\* Only what is a draft, or cancelled, resolves to it.
LEMMA ResolveStatusFrozen ==
  ASSUME NEW t, NEW p, NEW overdue, NEW current \in Status,
         ~IsFrozen(current)
  PROVE  ~IsFrozen(ResolveInvoiceStatus(t, p, overdue, current))
BY DEF ResolveInvoiceStatus, IsFrozen, Status

LEMMA ReadRowType ==
  ASSUME TypeOK, NEW d \in Documents
  PROVE  ReadRow(d) \in Row
BY DEF TypeOK, LedgerTypeOK, ReadRow, Row

LEMMA NoRowType == NoRow \in Row
BY DEF NoRow, Row, Status

LEMMA LocalsType ==
  ASSUME NEW d \in Documents \cup {None}, NEW n \in Documents \cup {None},
         NEW a \in Amounts \cup {0}, NEW goal \in PC, NEW row \in Row
  PROVE  Locals(d, n, a, goal, row) \in Work
BY DEF Locals, Work

LEMMA NoWorkType == NoWork \in Work
BY NoRowType, LocalsType DEF NoWork, PC

-----------------------------------------------------------------------------
(* The invariant: the columns are within the document, and what a request  *)
(* read and is about to write back once was.                               *)

RowWithin(d, row) ==
  /\ 0 <= row.paid /\ row.paid <= Total[d]
  /\ 0 <= row.balance /\ row.balance <= Total[d]
  /\ 0 <= row.credit
  /\ row.status = "CANCELADA" => row.balance = 0

\* Documents and notes that the locals of a request name.
Named(r) ==
  /\ pc[r] \in {"sync", "pay", "note", "cancel"} => work[r].doc \in Documents
  /\ pc[r] \in {"create", "send", "persist", "reload", "apply", "note"}
       => work[r].note \in Notes
  /\ pc[r] = "sync" => /\ work[r].goal \in {"view", "note", "cancel"}
                       /\ work[r].doc \in late
                       /\ work[r].goal = "note" => work[r].note \in Notes
                       /\ ~IsFrozen(work[r].seen.status)

Read(r) ==
  /\ pc[r] = "pay" =>
       /\ RowWithin(work[r].doc, work[r].seen)
       /\ work[r].amount \in Nat
       /\ work[r].amount <= Due(work[r].doc, work[r].seen)
       /\ ~IsFrozen(work[r].seen.status)
  /\ pc[r] = "apply" => RowWithin(Source[work[r].note], work[r].seen)

BillingInv ==
  /\ TypeOK
  /\ \A d \in Documents : RowWithin(d, ReadRow(d))
  /\ \A r \in Requests : Named(r) /\ Read(r)

LEMMA BillingInit == Init => BillingInv
<1> SUFFICES ASSUME Init PROVE BillingInv
  OBVIOUS
<1>1. TypeOK
  BY NoWorkType DEF Init, TypeOK, LedgerTypeOK, Status, PC, Invoices
<1>2. \A d \in Documents : RowWithin(d, ReadRow(d))
  BY DEF Init, RowWithin, ReadRow, Notes
<1>3. \A r \in Requests : Named(r) /\ Read(r)
  BY DEF Init, Named, Read
<1> QED BY <1>1, <1>2, <1>3 DEF BillingInv

\* Requests are disturbed neither by what another one does to its locals nor
\* by more invoices falling due.
LEMMA OthersUndisturbed ==
  ASSUME BillingInv, NEW r \in Requests, late' = late,
         \A q \in Requests \ {r} : pc'[q] = pc[q] /\ work'[q] = work[q]
  PROVE  \A q \in Requests \ {r} : (Named(q) /\ Read(q))'
BY DEF BillingInv, Named, Read

LEMMA FinishUndisturbed ==
  ASSUME BillingInv, NEW r \in Requests, late' = late, Finish(r)
  PROVE  /\ pc' \in [Requests -> PC] /\ work' \in [Requests -> Work]
         /\ \A q \in Requests : (Named(q) /\ Read(q))'
<1>1. /\ pc' \in [Requests -> PC] /\ work' \in [Requests -> Work]
      /\ pc'[r] = "idle"
      /\ \A q \in Requests \ {r} : pc'[q] = pc[q] /\ work'[q] = work[q]
  BY NoWorkType DEF Finish, BillingInv, TypeOK, PC
<1>2. (Named(r) /\ Read(r))'
  BY <1>1 DEF Named, Read
<1> QED BY <1>1, <1>2, OthersUndisturbed

\* A request that starts, or goes on, with well typed locals.
LEMMA MoveUndisturbed ==
  ASSUME BillingInv, NEW r \in Requests, late' = late,
         NEW label \in PC, NEW locals \in Work,
         pc' = [pc EXCEPT ![r] = label], work' = [work EXCEPT ![r] = locals],
         (Named(r) /\ Read(r))'
  PROVE  /\ pc' \in [Requests -> PC] /\ work' \in [Requests -> Work]
         /\ \A q \in Requests : (Named(q) /\ Read(q))'
<1>1. /\ pc' \in [Requests -> PC] /\ work' \in [Requests -> Work]
      /\ \A q \in Requests \ {r} : pc'[q] = pc[q] /\ work'[q] = work[q]
  BY DEF BillingInv, TypeOK
<1> QED BY <1>1, OthersUndisturbed

\* Steps that leave the ledger alone.
LEMMA LedgerKept ==
  ASSUME BillingInv, UNCHANGED ledgerVars,
         existing' \subseteq Documents, validated' \subseteq Documents,
         UNCHANGED <<late, payments, credited, taken>>,
         pc' \in [Requests -> PC], work' \in [Requests -> Work],
         \A q \in Requests : (Named(q) /\ Read(q))'
  PROVE  BillingInv'
<1>1. TypeOK'
  BY DEF BillingInv, TypeOK, LedgerTypeOK, ledgerVars
<1>2. (\A d \in Documents : RowWithin(d, ReadRow(d)))'
  BY DEF BillingInv, RowWithin, ReadRow, ledgerVars
<1> QED BY <1>1, <1>2 DEF BillingInv

-----------------------------------------------------------------------------
(* Cashiers.                                                               *)

LEMMA PaymentPreserves ==
  ASSUME BillingInv, NEW r \in Requests, PaymentStep(r)
  PROVE  BillingInv'
<1>1. ASSUME NEW d \in Documents, NEW amount \in Amounts,
             BeginPayment(r, d, amount)
      PROVE  BillingInv'
  <2> DEFINE locals == Locals(d, None, amount, "view", ReadRow(d))
  <2>1. /\ locals \in Work /\ "pay" \in PC
        /\ pc' = [pc EXCEPT ![r] = "pay"] /\ work' = [work EXCEPT ![r] = locals]
        /\ UNCHANGED <<ledgerVars, existing, validated, late, payments, credited, taken>>
    BY <1>1, ReadRowType, LocalsType DEF BeginPayment, Start, PC, BillingInv
  <2>2. pc'[r] = "pay" /\ work'[r] = locals
    BY <2>1 DEF BillingInv, TypeOK
  <2>3. /\ locals.doc = d /\ locals.amount = amount /\ locals.seen = ReadRow(d)
        /\ RowWithin(d, ReadRow(d)) /\ amount \in Nat
        /\ amount <= Due(d, ReadRow(d)) /\ ~IsFrozen(ReadRow(d).status)
    BY <1>1 DEF BeginPayment, Locals, BillingInv, IsFrozen
  <2>4. (Named(r) /\ Read(r))'
    BY <2>2, <2>3 DEF Named, Read, RowWithin, Due, TotalPaid
  <2> QED BY <2>1, <2>4, MoveUndisturbed, LedgerKept DEF BillingInv, TypeOK
<1>2. CASE CommitPayment(r)
  <2> DEFINE d == work[r].doc
             row == work[r].seen
             amount == work[r].amount
             newPaid == TotalPaid(row) + amount
             left == AtLeastZero(LeftAfter(d, row, amount))
  <2>1. /\ d \in Documents /\ Total[d] \in Nat /\ row \in Row
        /\ RowWithin(d, row) /\ amount \in Nat /\ amount <= Due(d, row)
        /\ ~IsFrozen(row.status)
    BY <1>2 DEF CommitPayment, BillingInv, Named, Read, TypeOK, Work
  <2>2. /\ newPaid \in Int /\ 0 <= newPaid /\ newPaid <= Total[d]
        /\ left \in Int /\ 0 <= left /\ left <= Total[d]
    BY <2>1 DEF RowWithin, Row, Due, TotalPaid, LeftAfter, AtLeastZero
  <2> DEFINE resolved == ResolveInvoiceStatus(Total[d] - row.credit, newPaid,
                                              d \in late, row.status)
  <2>3. resolved \in Status /\ resolved # "CANCELADA"
    BY <2>1, ResolveStatusType, ResolveStatusFrozen DEF Row, IsFrozen
  <2>4. /\ paid' = [paid EXCEPT ![d] = newPaid]
        /\ balance' = [balance EXCEPT ![d] = left]
        /\ status' = [status EXCEPT ![d] = resolved]
        /\ payments' = [payments EXCEPT ![d] = @ + amount]
        /\ Finish(r)
        /\ UNCHANGED <<credit, existing, validated, late, credited, taken>>
    BY <1>2, Zenon DEF CommitPayment
  <2> HIDE DEF newPaid, left, resolved, amount, row, d
  <2>5. /\ paid' = [paid EXCEPT ![d] = newPaid]
        /\ balance' = [balance EXCEPT ![d] = left]
        /\ status' \in [Documents -> Status]
        /\ payments' \in [Documents -> Nat]
        /\ Finish(r)
        /\ UNCHANGED <<credit, existing, validated, late, credited, taken>>
    BY <2>1, <2>3, <2>4 DEF BillingInv, TypeOK, LedgerTypeOK
  <2>6. paid' \in [Documents -> Int] /\ balance' \in [Documents -> Int]
    BY <2>1, <2>2, <2>5 DEF BillingInv, TypeOK, LedgerTypeOK
  <2>7. (\A e \in Documents : RowWithin(e, ReadRow(e)))'
    <3> SUFFICES ASSUME NEW e \in Documents PROVE RowWithin(e, ReadRow(e))'
      OBVIOUS
    <3>1. RowWithin(e, ReadRow(e))
      BY DEF BillingInv
    <3>2. /\ paid'[e] = (IF e = d THEN newPaid ELSE paid[e])
          /\ balance'[e] = (IF e = d THEN left ELSE balance[e])
          /\ status'[e] = (IF e = d THEN resolved ELSE status[e])
      BY <2>1, <2>4 DEF BillingInv, TypeOK, LedgerTypeOK
    <3> QED BY <2>2, <2>3, <2>5, <3>1, <3>2 DEF RowWithin, ReadRow
  <2>8. TypeOK'
    BY <2>5, <2>6, FinishUndisturbed DEF BillingInv, TypeOK, LedgerTypeOK
  <2> QED BY <2>5, <2>7, <2>8, FinishUndisturbed DEF BillingInv
<1> QED BY <1>1, <1>2 DEF PaymentStep

-----------------------------------------------------------------------------
(* Listings and cancellations.                                             *)

\* What a request that opens document d is left with.
LEMMA OpenUndisturbed ==
  ASSUME BillingInv, NEW r \in Requests, NEW d \in Documents,
         NEW n \in Documents \cup {None}, NEW goal \in {"view", "note", "cancel"},
         goal = "note" => n \in Notes,
         Start(r, d, IF NeedsSync(d, ReadRow(d)) THEN "sync" ELSE goal),
         work' = [work EXCEPT ![r] = Locals(d, n, 0, goal, ReadRow(d))],
         UNCHANGED <<ledgerVars, existing, validated, late, payments, credited, taken>>
  PROVE  BillingInv'
<1> DEFINE row == ReadRow(d)
           locals == Locals(d, n, 0, goal, row)
           label == IF NeedsSync(d, row) THEN "sync" ELSE goal
<1>1. /\ label \in PC /\ locals \in Work /\ row \in Row
      /\ pc' = [pc EXCEPT ![r] = label] /\ work' = [work EXCEPT ![r] = locals]
  BY ReadRowType, LocalsType DEF BillingInv, Start, PC
<1>2. pc'[r] = label /\ work'[r] = locals
  BY <1>1 DEF BillingInv, TypeOK
<1>3. locals.doc = d /\ locals.note = n /\ locals.goal = goal /\ locals.seen = row
  BY DEF Locals
<1>4. NeedsSync(d, row) => d \in late /\ ~IsFrozen(row.status)
  BY DEF NeedsSync, IsOverdue, SyncedStatus, ResolveInvoiceStatus, IsFrozen
<1>5. (Named(r) /\ Read(r))'
  BY <1>2, <1>3, <1>4 DEF Named, Read, PC
<1> HIDE DEF locals, label
<1> QED BY <1>1, <1>5, MoveUndisturbed, LedgerKept DEF BillingInv, TypeOK

LEMMA ReceivablePreserves ==
  ASSUME BillingInv, NEW r \in Requests, ReceivableStep(r)
  PROVE  BillingInv'
<1>1. ASSUME NEW d \in Documents,
             View(r, d) \/ ListReceivable(r, d) \/ BeginCancel(r, d)
      PROVE  BillingInv'
  <2>1. CASE View(r, d) \/ ListReceivable(r, d)
    BY <2>1, OpenUndisturbed DEF View, ListReceivable, Open
  <2>2. CASE BeginCancel(r, d)
    BY <2>2, OpenUndisturbed DEF BeginCancel, Open
  <2> QED BY <1>1, <2>1, <2>2
<1>2. CASE WriteSync(r)
  <2> DEFINE d == work[r].doc
             synced == SyncedStatus(d, work[r].seen)
  <2>1. /\ pc[r] = "sync" /\ d \in Documents /\ work[r] \in Work
        /\ work[r].goal \in {"view", "note", "cancel"}
        /\ work[r].goal = "note" => work[r].note \in Notes
    BY <1>2 DEF WriteSync, BillingInv, Named, TypeOK
  <2>2. synced \in Status /\ synced # "CANCELADA"
    BY <1>2, <2>1, ResolveStatusType, ResolveStatusFrozen
    DEF SyncedStatus, Work, Row, WriteSync, BillingInv, Named, IsFrozen
  <2> HIDE DEF synced
  <2>3. /\ status' \in [Documents -> Status]
        /\ \A e \in Documents : status'[e] \in {synced, status[e]}
        /\ UNCHANGED <<paid, balance, credit, existing, validated, late,
                       payments, credited, taken>>
    BY <1>2, <2>2 DEF WriteSync, BillingInv, TypeOK, LedgerTypeOK, synced
  <2>4. (\A e \in Documents : RowWithin(e, ReadRow(e)))'
    BY <2>2, <2>3 DEF BillingInv, RowWithin, ReadRow
  <2>5. /\ pc' \in [Requests -> PC] /\ work' \in [Requests -> Work]
        /\ \A q \in Requests : (Named(q) /\ Read(q))'
    <3>1. CASE work[r].goal = "view"
      BY <1>2, <2>3, <3>1, FinishUndisturbed DEF WriteSync
    <3>2. CASE work[r].goal # "view"
      <4> DEFINE locals == [work[r] EXCEPT !.seen.status = synced]
      <4>1. /\ locals \in Work /\ locals.doc = work[r].doc
            /\ locals.note = work[r].note
        BY <2>1, <2>2 DEF Work, Row
      <4>2. /\ pc' = [pc EXCEPT ![r] = work[r].goal]
            /\ work' = [work EXCEPT ![r] = locals]
        BY <1>2, <2>1, <3>2 DEF WriteSync, synced
      <4>3. pc'[r] \in {"note", "cancel"} /\ work'[r] = locals
        BY <2>1, <3>2, <4>2 DEF BillingInv, TypeOK
      <4> HIDE DEF locals
      <4>4. (Named(r) /\ Read(r))'
        BY <2>1, <3>2, <4>1, <4>2, <4>3 DEF Named, Read, BillingInv, TypeOK
      <4>5. work[r].goal \in PC
        BY <2>1 DEF PC
      <4> QED BY <2>3, <4>1, <4>2, <4>4, <4>5, MoveUndisturbed
    <3> QED BY <3>1, <3>2
  <2> QED BY <2>3, <2>4, <2>5 DEF BillingInv, TypeOK, LedgerTypeOK
<1>3. CASE Cancel(r)
  <2>1. /\ work[r].doc \in Documents
        /\ status' \in [Documents -> Status]
        /\ balance' \in [Documents -> Int]
        /\ \A e \in Documents :
             \/ balance'[e] = balance[e] /\ status'[e] = status[e]
             \/ balance'[e] = 0
    BY <1>3 DEF Cancel, CancelledBalance, BillingInv, Named, TypeOK,
                LedgerTypeOK, Status
  <2>2. /\ Finish(r)
        /\ UNCHANGED <<paid, credit, existing, validated, late, payments, credited, taken>>
    BY <1>3 DEF Cancel
  <2>3. (\A e \in Documents : RowWithin(e, ReadRow(e)))'
    BY <2>1, <2>2 DEF BillingInv, RowWithin, ReadRow
  <2> QED BY <2>1, <2>2, <2>3, FinishUndisturbed
          DEF BillingInv, TypeOK, LedgerTypeOK
<1> QED BY <1>1, <1>2, <1>3 DEF ReceivableStep

-----------------------------------------------------------------------------
(* Notes.                                                                  *)

LEMMA DraftNotePreserves ==
  ASSUME BillingInv, NEW r \in Requests, NEW n \in Notes,
         BeginNote(r, n) \/ BeginEmitNote(r, n)
  PROVE  BillingInv'
<1>0. n \in Documents /\ Source[n] \in Documents
  BY DEF Notes
<1>1. CASE BeginNote(r, n)
  BY <1>0, <1>1, OpenUndisturbed DEF BeginNote
<1>2. CASE BeginEmitNote(r, n)
  <2> DEFINE locals == Locals(n, n, 0, "view", NoRow)
  <2>1. /\ locals \in Work /\ "send" \in PC /\ locals.note = n
        /\ pc' = [pc EXCEPT ![r] = "send"] /\ work' = [work EXCEPT ![r] = locals]
        /\ UNCHANGED <<ledgerVars, existing, validated, late, payments, credited, taken>>
    BY <1>0, <1>2, NoRowType, LocalsType DEF BeginEmitNote, Start, PC, Locals
  <2>2. pc'[r] = "send" /\ work'[r] = locals
    BY <2>1 DEF BillingInv, TypeOK
  <2> HIDE DEF locals
  <2>3. (Named(r) /\ Read(r))'
    BY <2>1, <2>2 DEF Named, Read
  <2> QED BY <2>1, <2>3, MoveUndisturbed, LedgerKept DEF BillingInv, TypeOK
<1> QED BY <1>1, <1>2

LEMMA CreateNotePreserves ==
  ASSUME BillingInv, NEW r \in Requests, CheckNote(r) \/ CreateNote(r)
  PROVE  BillingInv'
<1>1. CASE CheckNote(r)
  <2>1. UNCHANGED <<ledgerVars, existing, validated, late, payments, credited, taken>>
    BY <1>1 DEF CheckNote
  <2>2. CASE Finish(r)
    BY <2>1, <2>2, FinishUndisturbed, LedgerKept, SMTT(30) DEF BillingInv, TypeOK
  <2>3. CASE Goto(r, "create")
    <3>1. /\ pc' = [pc EXCEPT ![r] = "create"]
          /\ work' = [work EXCEPT ![r] = work[r]]
          /\ work[r] \in Work /\ "create" \in PC /\ work[r].note \in Notes
      BY <1>1, <2>3 DEF CheckNote, Goto, BillingInv, TypeOK, Named, PC
    <3>2. pc'[r] = "create" /\ work'[r] = work[r]
      BY <3>1 DEF BillingInv, TypeOK
    <3>3. (Named(r) /\ Read(r))'
      BY <3>1, <3>2 DEF Named, Read
    <3> QED BY <2>1, <3>1, <3>3, MoveUndisturbed, LedgerKept DEF BillingInv, TypeOK
  <2> QED BY <1>1, <2>2, <2>3 DEF CheckNote
<1>2. CASE CreateNote(r)
  <2>1. /\ Finish(r)
        /\ UNCHANGED <<ledgerVars, validated, late, payments, credited, taken>>
    BY <1>2 DEF CreateNote
  <2>2. existing' \subseteq Documents
    <3>1. existing \subseteq Documents /\ Named(r)
      BY DEF BillingInv, TypeOK
    <3>2. pc[r] = "create" /\ existing' = existing \cup {work[r].note}
      BY <1>2 DEF CreateNote
    <3> QED BY <3>1, <3>2 DEF Named, Notes
  <2> QED BY <2>1, <2>2, FinishUndisturbed, LedgerKept, SMTT(30) DEF BillingInv, TypeOK
<1> QED BY <1>1, <1>2

LEMMA SendNotePreserves ==
  ASSUME BillingInv, NEW r \in Requests, SendNote(r)
  PROVE  BillingInv'
<1>1. /\ UNCHANGED <<ledgerVars, existing, late, payments, credited, taken>>
      /\ validated' \subseteq Documents
      /\ work[r].note \in Notes /\ work[r] \in Work
  BY DEF SendNote, BillingInv, TypeOK, Named, Notes
<1>2. CASE Finish(r)
  BY <1>1, <1>2, FinishUndisturbed, LedgerKept, SMTT(30) DEF BillingInv, TypeOK
<1>3. ASSUME NEW v \in {"accepted", "rejected"},
             pc' = [pc EXCEPT ![r] = "persist"],
             work' = [work EXCEPT ![r].verdict = v]
      PROVE  BillingInv'
  <2> DEFINE locals == [work[r] EXCEPT !.verdict = v]
  <2>1. locals \in Work /\ locals.note = work[r].note /\ "persist" \in PC
    BY <1>1 DEF Work, PC
  <2>2. work' = [work EXCEPT ![r] = locals]
    BY <1>3
  <2>3. pc'[r] = "persist" /\ work'[r] = locals
    BY <1>3 DEF BillingInv, TypeOK
  <2> HIDE DEF locals
  <2>4. (Named(r) /\ Read(r))'
    BY <1>1, <2>1, <2>3 DEF Named, Read
  <2> QED BY <1>1, <1>3, <2>1, <2>2, <2>4, MoveUndisturbed, LedgerKept
          DEF BillingInv, TypeOK
<1> QED BY <1>2, <1>3 DEF SendNote

LEMMA PersistNotePreserves ==
  ASSUME BillingInv, NEW r \in Requests, PersistNote(r)
  PROVE  BillingInv'
<1> DEFINE n == work[r].note
<1>1. /\ UNCHANGED <<paid, balance, credit, existing, validated, late, payments,
                     credited, taken>>
      /\ n \in Notes /\ n \in Documents /\ pc[r] = "persist"
  BY DEF PersistNote, BillingInv, Named, Notes
<1>2. /\ status' \in [Documents -> Status]
      /\ \A d \in Documents : status'[d] \in {"BORRADOR", "EMITIDA", status[d]}
  BY <1>1 DEF PersistNote, WrittenStatus, BillingInv, TypeOK, LedgerTypeOK, Status
<1>3. (\A d \in Documents : RowWithin(d, ReadRow(d)))'
  BY <1>1, <1>2 DEF BillingInv, RowWithin, ReadRow
<1>4. /\ pc' \in [Requests -> PC] /\ work' \in [Requests -> Work]
      /\ \A q \in Requests : (Named(q) /\ Read(q))'
  <2>1. CASE Finish(r)
    BY <1>1, <2>1, FinishUndisturbed
  <2>2. CASE Goto(r, "reload")
    <3>1. /\ pc' = [pc EXCEPT ![r] = "reload"]
          /\ work' = [work EXCEPT ![r] = work[r]]
          /\ work[r] \in Work /\ "reload" \in PC
      BY <2>2 DEF Goto, BillingInv, TypeOK, PC
    <3>2. pc'[r] = "reload" /\ work'[r] = work[r]
      BY <3>1 DEF BillingInv, TypeOK
    <3>3. (Named(r) /\ Read(r))'
      BY <1>1, <3>2 DEF Named, Read
    <3> QED BY <1>1, <3>1, <3>3, MoveUndisturbed
  <2> QED BY <2>1, <2>2 DEF PersistNote
<1> QED BY <1>1, <1>2, <1>3, <1>4 DEF BillingInv, TypeOK, LedgerTypeOK

LEMMA ReloadPreserves ==
  ASSUME BillingInv, NEW r \in Requests, ReloadSource(r)
  PROVE  BillingInv'
<1> DEFINE n == work[r].note
           s == Source[n]
           locals == [work[r] EXCEPT !.seen = ReadRow(s)]
<1>1. /\ n \in Notes /\ s \in Documents /\ work[r] \in Work
      /\ ReadRow(s) \in Row /\ RowWithin(s, ReadRow(s))
  BY ReadRowType DEF ReloadSource, BillingInv, TypeOK, Named, Notes
<1>2. /\ locals \in Work /\ locals.note = n /\ locals.seen = ReadRow(s)
      /\ "apply" \in PC
  BY <1>1 DEF Work, PC
<1>3. /\ pc' = [pc EXCEPT ![r] = "apply"] /\ work' = [work EXCEPT ![r] = locals]
      /\ UNCHANGED <<ledgerVars, existing, validated, late, payments, credited, taken>>
  BY DEF ReloadSource
<1>4. pc'[r] = "apply" /\ work'[r] = locals
  BY <1>3 DEF BillingInv, TypeOK
<1> HIDE DEF locals
<1>5. (Named(r) /\ Read(r))'
  BY <1>1, <1>2, <1>4 DEF Named, Read, RowWithin
<1> QED BY <1>2, <1>3, <1>5, MoveUndisturbed, LedgerKept DEF BillingInv, TypeOK

LEMMA ApplyNotePreserves ==
  ASSUME BillingInv, NEW r \in Requests, ApplyNote(r)
  PROVE  BillingInv'
<1> DEFINE n == work[r].note
           s == Source[n]
           row == work[r].seen
           before == [balance |-> row.balance, credit |-> row.credit,
                      status |-> row.status]
           pos == PositionAfter(s, row, Total[n])
<1>1. /\ n \in Documents /\ s \in Documents /\ row \in Row
      /\ RowWithin(s, row) /\ Total[s] \in Nat /\ Total[n] \in Nat
  BY DEF ApplyNote, BillingInv, TypeOK, Named, Read, Notes, Work
<1>2. before \in Position(Total[s])
  BY <1>1 DEF Position, Row, RowWithin
<1>3. pos \in Position(Total[s])
  <2>1. pos = ApplyCredit(Total[s], s \in late, before, Total[n])
    BY Zenon DEF PositionAfter
  <2>2. (s \in late) \in BOOLEAN
    OBVIOUS
  <2>3. \A overdue \in BOOLEAN :
          ApplyCredit(Total[s], overdue, before, Total[n]) \in Position(Total[s])
    BY <1>1, <1>2, ApplyCreditType
  <2> HIDE DEF pos
  <2> QED BY <2>1, <2>2, <2>3, Zenon
<1>4. pos.status = "CANCELADA" => pos.balance = 0
  <2>1. CASE IsFrozen(row.status)
    <3>1. pos = before
      BY <2>1 DEF PositionAfter, ApplyCredit
    <3> QED BY <1>1, <3>1 DEF RowWithin
  <2>2. CASE ~IsFrozen(row.status)
    <3>1. row.status \in Status /\ row.status # "CANCELADA"
      BY <1>1, <2>2 DEF Row, IsFrozen
    <3>2. pos = before \/ \E p : pos.status = ResolveInvoiceStatus(Total[s], p,
                                                      s \in late, row.status)
      BY DEF PositionAfter, ApplyCredit
    <3>3. pos.status # "CANCELADA"
      BY <2>2, <3>1, <3>2, ResolveStatusFrozen DEF IsFrozen
    <3> QED BY <3>3
  <2> QED BY <2>1, <2>2
<1>5. /\ balance' = [balance EXCEPT ![s] = pos.balance]
      /\ credit' = [credit EXCEPT ![s] = pos.credit]
      /\ status' = [status EXCEPT ![s] = pos.status]
      /\ Finish(r)
      /\ UNCHANGED <<paid, existing, validated, late, payments, taken>>
  BY Zenon DEF ApplyNote
<1>6. credited' \in [Documents -> Nat]
  <2> DEFINE applied == IF IsFrozen(row.status) THEN credited[s]
                        ELSE credited[s] + Total[n]
  <2>1. applied \in Nat /\ credited \in [Documents -> Nat]
    <3>1. credited \in [Documents -> Nat]
      BY DEF BillingInv, TypeOK
    <3>2. credited[s] \in Nat
      BY <1>1, <3>1
    <3> QED BY <1>1, <3>1, <3>2 DEF IsFrozen
  <2>2. credited' = [credited EXCEPT ![s] = applied]
    BY DEF ApplyNote, IsFrozen
  <2> HIDE DEF applied
  <2> QED BY <1>1, <2>1, <2>2
<1> HIDE DEF pos, row, s, before
<1>7. /\ pos.balance \in 0..Total[s] /\ pos.credit \in Nat /\ pos.status \in Status
  BY <1>3 DEF Position
<1>8. /\ balance' \in [Documents -> Int] /\ credit' \in [Documents -> Int]
      /\ status' \in [Documents -> Status]
  BY <1>1, <1>5, <1>7 DEF BillingInv, TypeOK, LedgerTypeOK
<1>9. (\A e \in Documents : RowWithin(e, ReadRow(e)))'
  <2> SUFFICES ASSUME NEW e \in Documents PROVE RowWithin(e, ReadRow(e))'
    OBVIOUS
  <2>1. RowWithin(e, ReadRow(e))
    BY DEF BillingInv
  <2>2. /\ balance'[e] = (IF e = s THEN pos.balance ELSE balance[e])
        /\ credit'[e] = (IF e = s THEN pos.credit ELSE credit[e])
        /\ status'[e] = (IF e = s THEN pos.status ELSE status[e])
        /\ paid'[e] = paid[e]
    BY <1>5 DEF BillingInv, TypeOK, LedgerTypeOK
  <2> QED BY <1>1, <1>4, <1>7, <2>1, <2>2 DEF RowWithin, ReadRow
<1> QED BY <1>5, <1>6, <1>8, <1>9, FinishUndisturbed
        DEF BillingInv, TypeOK, LedgerTypeOK

-----------------------------------------------------------------------------
(* Time, other invoices, crashes.                                          *)

LEMMA CreditPreserves ==
  ASSUME BillingInv, NEW d \in Invoices, NEW amount \in 1..Total[d],
         SpendCredit(d, amount) \/ ReturnCredit(d, amount)
  PROVE  BillingInv'
<1>0. d \in Documents /\ Total[d] \in Nat /\ amount \in Nat
  BY DEF Invoices
<1>1. /\ UNCHANGED <<status, paid, balance, existing, validated, payments,
                     credited, pc, work>>
      /\ late' = late
  BY DEF SpendCredit, ReturnCredit, BillingInv, TypeOK
<1>2. /\ credit' \in [Documents -> Int] /\ taken' \in [Documents -> Nat]
      /\ \A e \in Documents : 0 <= credit'[e]
  <2>1. /\ credit \in [Documents -> Int] /\ taken \in [Documents -> Nat]
        /\ \A e \in Documents : 0 <= credit[e]
    BY DEF BillingInv, TypeOK, LedgerTypeOK, RowWithin, ReadRow
  <2>2. CASE SpendCredit(d, amount)
    BY <1>0, <2>1, <2>2 DEF SpendCredit
  <2>3. CASE ReturnCredit(d, amount)
    BY <1>0, <2>1, <2>3 DEF ReturnCredit
  <2> QED BY <2>2, <2>3
<1>3. TypeOK'
  BY <1>1, <1>2 DEF BillingInv, TypeOK, LedgerTypeOK
<1>4. (\A e \in Documents : RowWithin(e, ReadRow(e)))'
  BY <1>1, <1>2 DEF BillingInv, RowWithin, ReadRow
<1>5. (\A r \in Requests : Named(r) /\ Read(r))'
  BY <1>1 DEF BillingInv, Named, Read
<1> QED BY <1>3, <1>4, <1>5 DEF BillingInv

LEMMA BillingNext == BillingInv /\ [Next]_billingVars => BillingInv'
<1>1. ASSUME BillingInv, NEW r \in Requests,
             PaymentStep(r) \/ ReceivableStep(r) \/ NoteStep(r) \/ Crash(r)
      PROVE  BillingInv'
  <2>1. CASE NoteStep(r)
    BY <1>1, <2>1, DraftNotePreserves, CreateNotePreserves, SendNotePreserves,
       PersistNotePreserves, ReloadPreserves, ApplyNotePreserves DEF NoteStep
  <2>2. CASE Crash(r)
    BY <1>1, <2>2, FinishUndisturbed, LedgerKept, SMTT(30) DEF Crash, BillingInv, TypeOK
  <2> QED BY <1>1, <2>1, <2>2, PaymentPreserves, ReceivablePreserves
<1>2. ASSUME BillingInv, NEW d \in Invoices, FallDue(d)
      PROVE  BillingInv'
  <2>1. /\ UNCHANGED <<ledgerVars, existing, validated, payments, credited,
                       taken, pc, work>>
        /\ late \subseteq late' /\ late' \subseteq Invoices
    BY <1>2 DEF FallDue, BillingInv, TypeOK
  <2>2. TypeOK'
    BY <1>2, <2>1 DEF BillingInv, TypeOK, LedgerTypeOK, ledgerVars
  <2>3. (\A e \in Documents : RowWithin(e, ReadRow(e)))'
    BY <1>2, <2>1 DEF BillingInv, RowWithin, ReadRow, ledgerVars
  <2>4. (\A r \in Requests : Named(r) /\ Read(r))'
    BY <1>2, <2>1 DEF BillingInv, Named, Read
  <2> QED BY <2>2, <2>3, <2>4 DEF BillingInv
<1>3. ASSUME BillingInv, UNCHANGED billingVars
      PROVE  BillingInv'
  <2>1. TypeOK'
    BY <1>3 DEF billingVars, ledgerVars, BillingInv, TypeOK, LedgerTypeOK
  <2>2. (\A e \in Documents : RowWithin(e, ReadRow(e)))'
    BY <1>3 DEF billingVars, ledgerVars, BillingInv, RowWithin, ReadRow
  <2>3. (\A r \in Requests : Named(r) /\ Read(r))'
    BY <1>3 DEF billingVars, BillingInv, Named, Read
  <2> QED BY <2>1, <2>2, <2>3 DEF BillingInv
<1> QED BY <1>1, <1>2, <1>3, CreditPreserves DEF Next

-----------------------------------------------------------------------------
(* Theorems.                                                               *)

\* Rows, histories and the locals of every request hold values of their types
\* in every reachable state, whatever runs concurrently.
THEOREM TypeCorrect == Spec => []TypeOK
<1>1. BillingInv => TypeOK
  BY DEF BillingInv
<1> QED BY <1>1, BillingInit, BillingNext, PTL DEF Spec

\* Requests that write from stale reads may lose each other's updates, but
\* never push paidAmount or the balance below zero or beyond the total.
THEOREM ColumnsStayWithinTotal == Spec => []ColumnsWithinTotal
<1>1. BillingInv => ColumnsWithinTotal
  BY DEF BillingInv, ColumnsWithinTotal, RowWithin, ReadRow
<1> QED BY <1>1, BillingInit, BillingNext, PTL DEF Spec

\* No payment, note, listing or credit that lands after a cancellation leaves
\* a document that is cancelled and still owes money.
THEOREM CancelledStaysSettled == Spec => []CancelledOwesNothing
<1>1. BillingInv => CancelledOwesNothing
  BY DEF BillingInv, TypeOK, CancelledOwesNothing, RowWithin, ReadRow
<1> QED BY <1>1, BillingInit, BillingNext, PTL DEF Spec

-----------------------------------------------------------------------------
(* Emitted notes.                                                          *)

EmittedStays == \A n \in Notes : status[n] # "BORRADOR" => status'[n] # "BORRADOR"

\* What is written over a document that is not frozen leaves it so.
LEMMA SyncWritesNoDraft ==
  ASSUME BillingInv, NEW r \in Requests, WriteSync(r)
  PROVE  EmittedStays
<1> DEFINE d == work[r].doc
           synced == SyncedStatus(d, work[r].seen)
<1>1. ~IsFrozen(work[r].seen.status) /\ work[r].seen.status \in Status
  BY DEF WriteSync, BillingInv, Named, TypeOK, Work, Row
<1>2. synced # "BORRADOR"
  BY <1>1, ResolveStatusFrozen DEF SyncedStatus, IsFrozen
<1>3. status' = [status EXCEPT ![d] = synced]
  BY Zenon DEF WriteSync
<1> HIDE DEF synced, d
<1> QED BY <1>2, <1>3 DEF EmittedStays, BillingInv, TypeOK, LedgerTypeOK, Notes

LEMMA PaymentWritesNoDraft ==
  ASSUME BillingInv, NEW r \in Requests, CommitPayment(r)
  PROVE  EmittedStays
<1> DEFINE d == work[r].doc
           row == work[r].seen
           resolved == ResolveInvoiceStatus(Total[d] - row.credit,
                         TotalPaid(row) + work[r].amount, d \in late, row.status)
<1>1. ~IsFrozen(row.status) /\ row.status \in Status
  BY DEF CommitPayment, BillingInv, Read, TypeOK, Work, Row
<1>2. resolved # "BORRADOR"
  BY <1>1, ResolveStatusFrozen DEF IsFrozen
<1>3. status' = [status EXCEPT ![d] = resolved]
  BY Zenon DEF CommitPayment
<1> HIDE DEF resolved, d
<1> QED BY <1>2, <1>3 DEF EmittedStays, BillingInv, TypeOK, LedgerTypeOK, Notes

LEMMA NoteWritesNoDraft ==
  ASSUME BillingInv, NEW r \in Requests, PersistNote(r) \/ ApplyNote(r)
  PROVE  EmittedStays
<1>1. CASE PersistNote(r)
  BY <1>1 DEF PersistNote, StillDraft, EmittedStays, BillingInv, TypeOK,
              LedgerTypeOK, Notes
<1>2. CASE ApplyNote(r)
  <2> DEFINE s == Source[work[r].note]
             pos == PositionAfter(s, work[r].seen, Total[work[r].note])
  <2>1. s \notin Notes
    BY <1>2 DEF ApplyNote, BillingInv, Named, Notes, Invoices
  <2>2. status' = [status EXCEPT ![s] = pos.status]
    BY <1>2, Zenon DEF ApplyNote
  <2> HIDE DEF s, pos
  <2> QED BY <2>1, <2>2 DEF EmittedStays, BillingInv, TypeOK, LedgerTypeOK, Notes
<1> QED BY <1>1, <1>2

LEMMA NoStepMakesADraft ==
  BillingInv /\ [Next]_billingVars => EmittedStays
<1> SUFFICES ASSUME BillingInv, [Next]_billingVars
             PROVE  EmittedStays
  OBVIOUS
<1>1. ASSUME NEW r \in Requests, PaymentStep(r)
      PROVE  EmittedStays
  BY <1>1, PaymentWritesNoDraft
  DEF PaymentStep, BeginPayment, ledgerVars, EmittedStays
<1>2. ASSUME NEW r \in Requests, ReceivableStep(r)
      PROVE  EmittedStays
  <2>1. CASE Cancel(r)
    BY <2>1 DEF Cancel, EmittedStays, BillingInv, TypeOK, LedgerTypeOK, Notes
  <2> QED BY <1>2, <2>1, SyncWritesNoDraft
          DEF ReceivableStep, View, ListReceivable, BeginCancel, ledgerVars,
              EmittedStays
<1>3. ASSUME NEW r \in Requests, NoteStep(r)
      PROVE  EmittedStays
  BY <1>3, NoteWritesNoDraft
  DEF NoteStep, BeginNote, BeginEmitNote, CheckNote, CreateNote, SendNote,
      ReloadSource, ledgerVars, EmittedStays
<1>4. CASE UNCHANGED status
  BY <1>4 DEF EmittedStays
<1>5. ASSUME NEW r \in Requests, Crash(r)
      PROVE  UNCHANGED status
  BY <1>5 DEF Crash, ledgerVars
<1>6. ASSUME NEW d \in Invoices, NEW amount \in 1..Total[d],
             SpendCredit(d, amount) \/ ReturnCredit(d, amount)
      PROVE  UNCHANGED status
  BY <1>6 DEF SpendCredit, ReturnCredit
<1>7. ASSUME NEW d \in Invoices, FallDue(d)
      PROVE  UNCHANGED status
  BY <1>7 DEF FallDue, ledgerVars
<1>8. CASE UNCHANGED billingVars
  BY <1>4, <1>8 DEF billingVars, ledgerVars
<1> QED BY <1>1, <1>2, <1>3, <1>4, <1>5, <1>6, <1>7, <1>8 DEF Next

\* A note that was emitted is never a draft again: the answer of a duplicate
\* emission finds the guarded WHERE false, and nothing else writes a draft.
THEOREM EmittedNotesAreFinal == Spec => EmittedNoteIsFinal
<1>1. BillingInv /\ [Next]_billingVars => [EmittedStays]_billingVars
  BY NoStepMakesADraft
<1>2. EmittedNoteIsFinal <=> [][EmittedStays]_billingVars
  BY PTL DEF EmittedNoteIsFinal, EmittedStays
<1> QED BY <1>1, <1>2, BillingInit, BillingNext, PTL DEF Spec
-----------------------------------------------------------------------------
(* Only validated notes count.  A note that Factus validated is either in   *)
(* the hands of the one request it answered, or done; only what is done may  *)
(* have been counted.                                                        *)

CreditNotesOf(s) ==
  {n \in validated \cap Notes : Source[n] = s /\ KindOf[n] = "NOTA_CREDITO"}

\* The requests whose note Factus accepted and whose effect is still to come.
Working(r) == \/ pc[r] = "persist" /\ work[r].verdict = "accepted"
              \/ pc[r] \in {"reload", "apply"}
Pending == {n \in Notes : \E r \in Requests : Working(r) /\ work[r].note = n}
Done(s) == CreditNotesOf(s) \ Pending

WorkSound ==
  /\ \A r \in Requests : Working(r) =>
       /\ work[r].note \in validated
       /\ pc[r] \in {"reload", "apply"} => KindOf[work[r].note] = "NOTA_CREDITO"
  /\ \A q, r \in Requests :
       Working(q) /\ Working(r) /\ work[q].note = work[r].note => q = r

DoneCounts ==
  \A s \in Invoices : credited[s] <= SumFunctionOnSet(Total, Done(s))

CountedInv == WorkSound /\ DoneCounts

\* Documents can be counted and their totals added up.
LEMMA SomeDocuments ==
  ASSUME NEW D \in SUBSET Documents
  PROVE  IsFiniteSet(D) /\ \A n \in D : Total[n] \in Nat
<1>1. IsFiniteSet(Documents)
  OBVIOUS
<1>2. IsFiniteSet(D)
  BY <1>1, FS_Subset
<1>3. \A n \in Documents : Total[n] \in Nat
  OBVIOUS
<1> QED BY <1>2, <1>3

LEMMA NoteSets ==
  \A s : /\ CreditNotesOf(s) \in SUBSET Documents
         /\ Done(s) \in SUBSET CreditNotesOf(s) /\ Done(s) \in SUBSET Documents
         /\ Done(s)' \in SUBSET Documents
BY DEF CreditNotesOf, Done, Notes

LEMMA NoteNames ==
  ASSUME NEW n \in Notes
  PROVE  /\ n \in Documents /\ Total[n] \in Nat
         /\ Source[n] \in Invoices /\ Source[n] \in Documents
<1>1. n \in Documents
  BY DEF Notes
<1> QED BY <1>1

LEMMA CountedInit == Init => CountedInv
<1> SUFFICES ASSUME Init PROVE CountedInv
  OBVIOUS
<1>1. WorkSound
  BY DEF Init, WorkSound, Working
<1>2. ASSUME NEW s \in Invoices
      PROVE  credited[s] <= SumFunctionOnSet(Total, Done(s))
  <2>1. Done(s) = {} /\ credited[s] = 0
    BY DEF Init, Done, CreditNotesOf, Invoices
  <2> QED BY <2>1, SumEmpty
<1> QED BY <1>1, <1>2 DEF CountedInv, DoneCounts

\* Nothing is counted and no note that was done is pending again.
LEMMA DoneGrows ==
  ASSUME TypeOK, TypeOK', DoneCounts, credited' = credited,
         validated \subseteq validated',
         \A n \in Pending' : n \in Pending \/ n \notin validated
  PROVE  DoneCounts'
<1> SUFFICES ASSUME NEW s \in Invoices
             PROVE  credited[s] <= SumFunctionOnSet(Total, Done(s)')
  BY DEF DoneCounts
<1>1. Done(s) \in SUBSET (Done(s)')
  BY DEF Done, CreditNotesOf
<1>2. IsFiniteSet(Done(s)') /\ \A n \in Done(s)' : Total[n] \in Nat
  BY NoteSets, SomeDocuments
<1>3. /\ SumFunctionOnSet(Total, Done(s)) <= SumFunctionOnSet(Total, Done(s)')
      /\ SumFunctionOnSet(Total, Done(s)) \in Nat
      /\ SumFunctionOnSet(Total, Done(s)') \in Nat
  BY <1>1, <1>2, SumSubset
<1>4. credited[s] <= SumFunctionOnSet(Total, Done(s)) /\ credited[s] \in Nat
  BY DEF DoneCounts, TypeOK, Invoices
<1> QED BY <1>3, <1>4

\* A request that is over, or does nothing for a note that was accepted,
\* leaves the others as they were.
LEMMA LetGo ==
  ASSUME TypeOK, TypeOK', CountedInv, NEW r \in Requests,
         credited' = credited, validated \subseteq validated',
         ~Working(r)',
         \A q \in Requests \ {r} : pc'[q] = pc[q] /\ work'[q] = work[q]
  PROVE  CountedInv'
<1>1. \A q \in Requests : Working(q)' => q # r /\ Working(q) /\ work'[q] = work[q]
                                         /\ pc'[q] = pc[q]
  BY DEF Working
<1>2. WorkSound'
  BY <1>1 DEF CountedInv, WorkSound
<1>3. \A n \in Pending' : n \in Pending
  BY <1>1 DEF Pending
<1> QED BY <1>2, <1>3, DoneGrows DEF CountedInv

\* A request that goes on with the note it works for.
LEMMA GoOn ==
  ASSUME TypeOK, TypeOK', CountedInv, NEW r \in Requests,
         credited' = credited, validated \subseteq validated',
         Working(r), work'[r].note = work[r].note,
         pc'[r] \in {"reload", "apply"} => KindOf[work[r].note] = "NOTA_CREDITO",
         \A q \in Requests \ {r} : pc'[q] = pc[q] /\ work'[q] = work[q]
  PROVE  CountedInv'
<1>1. \A q \in Requests : Working(q)' => Working(q) /\ work'[q].note = work[q].note
  BY DEF Working
<1>2. WorkSound'
  BY <1>1 DEF CountedInv, WorkSound
<1>3. \A n \in Pending' : n \in Pending
  BY <1>1 DEF Pending
<1> QED BY <1>2, <1>3, DoneGrows DEF CountedInv

\* What a request does to its own entry, and to nobody else's.
LEMMA OwnEntry ==
  ASSUME TypeOK, NEW r \in Requests, NEW label, NEW locals,
         pc' = [pc EXCEPT ![r] = label], work' = [work EXCEPT ![r] = locals]
  PROVE  /\ pc'[r] = label /\ work'[r] = locals
         /\ \A q \in Requests \ {r} : pc'[q] = pc[q] /\ work'[q] = work[q]
BY DEF TypeOK

LEMMA FinishLetsGo ==
  ASSUME TypeOK, TypeOK', CountedInv, NEW r \in Requests, Finish(r),
         credited' = credited, validated \subseteq validated'
  PROVE  CountedInv'
<1>1. /\ pc'[r] = "idle"
      /\ \A q \in Requests \ {r} : pc'[q] = pc[q] /\ work'[q] = work[q]
  BY DEF Finish, TypeOK
<1>2. ~Working(r)'
  BY <1>1 DEF Working
<1> QED BY <1>1, <1>2, LetGo

LEMMA SendCounts ==
  ASSUME BillingInv, BillingInv', CountedInv, NEW r \in Requests, SendNote(r)
  PROVE  CountedInv'
<1> DEFINE n == work[r].note
<1>0. /\ TypeOK /\ TypeOK' /\ credited' = credited
      /\ validated \subseteq validated'
      /\ pc[r] = "send" /\ n \in Notes /\ n \in Documents
  BY DEF SendNote, BillingInv, Named, Notes
<1>1. CASE Finish(r)
  BY <1>0, <1>1, FinishLetsGo
<1>2. ASSUME n \notin validated, validated' = validated \cup {n},
             pc' = [pc EXCEPT ![r] = "persist"],
             work' = [work EXCEPT ![r].verdict = "accepted"]
      PROVE  CountedInv'
  <2>1. /\ pc'[r] = "persist" /\ work'[r].note = n
        /\ \A q \in Requests \ {r} : pc'[q] = pc[q] /\ work'[q] = work[q]
    BY <1>0, <1>2 DEF TypeOK, Work
  <2>2. \A q \in Requests : Working(q)' =>
          \/ q = r
          \/ Working(q) /\ work'[q] = work[q] /\ pc'[q] = pc[q]
    BY <2>1 DEF Working
  <2>3. \A q \in Requests : Working(q) => work[q].note # n
    BY <1>2 DEF CountedInv, WorkSound
  <2>4. WorkSound'
    <3>1. \A q \in Requests : Working(q)' =>
            /\ work'[q].note \in validated'
            /\ pc'[q] \in {"reload", "apply"}
                 => KindOf[work'[q].note] = "NOTA_CREDITO"
      BY <1>2, <2>1, <2>2 DEF CountedInv, WorkSound
    <3>2. \A p, q \in Requests :
            Working(p)' /\ Working(q)' /\ work'[p].note = work'[q].note => p = q
      BY <2>1, <2>2, <2>3 DEF CountedInv, WorkSound
    <3> QED BY <3>1, <3>2 DEF WorkSound
  <2>5. \A m \in Pending' : m \in Pending \/ m \notin validated
    BY <1>2, <2>1, <2>2 DEF Pending
  <2> QED BY <1>0, <2>4, <2>5, DoneGrows DEF CountedInv
<1>3. ASSUME pc' = [pc EXCEPT ![r] = "persist"],
             work' = [work EXCEPT ![r].verdict = "rejected"]
      PROVE  CountedInv'
  <2>1. /\ pc'[r] = "persist" /\ work'[r].verdict = "rejected"
        /\ \A q \in Requests \ {r} : pc'[q] = pc[q] /\ work'[q] = work[q]
    BY <1>0, <1>3 DEF TypeOK, Work
  <2>2. ~Working(r)'
    BY <2>1 DEF Working
  <2> QED BY <1>0, <2>1, <2>2, LetGo
<1> QED BY <1>1, <1>2, <1>3 DEF SendNote

LEMMA PersistCounts ==
  ASSUME BillingInv, BillingInv', CountedInv, NEW r \in Requests, PersistNote(r)
  PROVE  CountedInv'
<1>0. /\ TypeOK /\ TypeOK' /\ credited' = credited /\ validated' = validated
      /\ pc[r] = "persist"
  BY DEF PersistNote, BillingInv
<1>1. CASE Finish(r)
  BY <1>0, <1>1, FinishLetsGo
<1>2. CASE Goto(r, "reload") /\ Applies(r)
  <2>1. /\ pc'[r] = "reload" /\ work' = work
        /\ \A q \in Requests \ {r} : pc'[q] = pc[q]
    BY <1>0, <1>2 DEF Goto, TypeOK
  <2>2. Working(r) /\ KindOf[work[r].note] = "NOTA_CREDITO"
    BY <1>0, <1>2 DEF Working, Applies
  <2> QED BY <1>0, <2>1, <2>2, GoOn
<1> QED BY <1>1, <1>2 DEF PersistNote

LEMMA ReloadCounts ==
  ASSUME BillingInv, BillingInv', CountedInv, NEW r \in Requests, ReloadSource(r)
  PROVE  CountedInv'
<1>0. /\ TypeOK /\ TypeOK' /\ credited' = credited /\ validated' = validated
      /\ pc[r] = "reload" /\ Working(r)
      /\ KindOf[work[r].note] = "NOTA_CREDITO"
  BY DEF ReloadSource, BillingInv, CountedInv, WorkSound, Working
<1>1. /\ work'[r].note = work[r].note
      /\ \A q \in Requests \ {r} : pc'[q] = pc[q] /\ work'[q] = work[q]
  BY <1>0 DEF ReloadSource, TypeOK, Work
<1> QED BY <1>0, <1>1, GoOn

LEMMA ApplyCounts ==
  ASSUME BillingInv, BillingInv', CountedInv, NEW r \in Requests, ApplyNote(r)
  PROVE  CountedInv'
<1> DEFINE n == work[r].note
           s == Source[n]
<1>0. /\ TypeOK /\ TypeOK' /\ validated' = validated /\ pc[r] = "apply"
      /\ n \in Notes /\ n \in Documents /\ s \in Invoices /\ s \in Documents
      /\ n \in CreditNotesOf(s) /\ Total[n] \in Nat
      /\ \E m \in Nat : /\ m <= Total[n]
                        /\ credited' = [credited EXCEPT ![s] = @ + m]
  <2>1. TypeOK /\ TypeOK' /\ validated' = validated /\ pc[r] = "apply"
    BY DEF ApplyNote, BillingInv
  <2>2. n \in Notes /\ n \in Documents /\ s \in Invoices /\ s \in Documents
    <3>1. n \in Notes
      BY <2>1 DEF BillingInv, Named
    <3> QED BY <3>1, NoteNames
  <2>3. n \in CreditNotesOf(s)
    BY <2>1, <2>2 DEF CountedInv, WorkSound, Working, CreditNotesOf
  <2>4. Total[n] \in Nat
    BY <2>2, NoteNames
  <2>5. credited[s] \in Nat
    BY <2>1, <2>2 DEF TypeOK
  <2>6. \/ credited' = [credited EXCEPT ![s] = @ + Total[n]]
        \/ credited' = [credited EXCEPT ![s] = @]
    BY DEF ApplyNote
  <2> QED BY <2>1, <2>2, <2>3, <2>4, <2>5, <2>6
<1>1. /\ pc'[r] = "idle"
      /\ \A q \in Requests \ {r} : pc'[q] = pc[q] /\ work'[q] = work[q]
  BY <1>0 DEF ApplyNote, Finish, TypeOK
<1>2. \A q \in Requests : Working(q)' => q # r /\ Working(q) /\ work'[q] = work[q]
                                         /\ pc'[q] = pc[q]
  BY <1>1 DEF Working
<1>3. WorkSound'
  BY <1>0, <1>2 DEF CountedInv, WorkSound
<1>4. Working(r) /\ n \in Pending /\ n \notin Pending'
  BY <1>0, <1>2 DEF CountedInv, WorkSound, Working, Pending
<1>5. \A m \in Pending' : m \in Pending
  BY <1>2 DEF Pending
<1>6. ASSUME NEW t \in Invoices
      PROVE  credited'[t] <= SumFunctionOnSet(Total, Done(t)')
  <2> DEFINE D == Done(t)
             D1 == Done(t)'
  <2>1. /\ IsFiniteSet(D1) /\ D \in SUBSET D1
        /\ \A m \in D1 : Total[m] \in Nat
    <3>1. D \in SUBSET D1
      BY <1>0, <1>5 DEF Done, CreditNotesOf
    <3>2. IsFiniteSet(Done(t)') /\ \A m \in Done(t)' : Total[m] \in Nat
      BY NoteSets, SomeDocuments
    <3> QED BY <3>1, <3>2
  <2>2. /\ SumFunctionOnSet(Total, D) <= SumFunctionOnSet(Total, D1)
        /\ SumFunctionOnSet(Total, D) \in Nat
        /\ SumFunctionOnSet(Total, D1) \in Nat
    <3> HIDE DEF D, D1
    <3> QED BY <2>1, SumSubset
  <2>3. credited[t] <= SumFunctionOnSet(Total, D) /\ credited[t] \in Nat
    BY <1>0 DEF CountedInv, DoneCounts, TypeOK, Invoices
  <2>4. CASE t = s
    <3>1. n \in D1 /\ D \in SUBSET (D1 \ {n})
      BY <1>0, <1>4, <2>1, <2>4 DEF Done, CreditNotesOf
    <3> HIDE DEF D, D1
    <3>2. /\ SumFunctionOnSet(Total, D1)
               = Total[n] + SumFunctionOnSet(Total, D1 \ {n})
      BY <2>1, <3>1, SumWithout
    <3>3. IsFiniteSet(D1 \ {n}) /\ \A m \in D1 \ {n} : Total[m] \in Nat
      BY <2>1, FS_Subset
    <3>4. /\ SumFunctionOnSet(Total, D) <= SumFunctionOnSet(Total, D1 \ {n})
          /\ SumFunctionOnSet(Total, D1 \ {n}) \in Nat
      BY <3>1, <3>3, SumSubset
    <3>5. \E m \in Nat : m <= Total[n] /\ credited'[t] = credited[t] + m
      BY <1>0, <2>4 DEF TypeOK
    <3>6. credited'[t] <= SumFunctionOnSet(Total, D1)
      BY <1>0, <2>2, <2>3, <3>2, <3>4, <3>5
    <3> QED BY <3>6 DEF D1
  <2>5. CASE t # s
    <3>1. credited'[t] = credited[t]
      BY <1>0, <2>5 DEF TypeOK, Invoices
    <3> HIDE DEF D, D1
    <3>2. credited'[t] <= SumFunctionOnSet(Total, D1)
      BY <2>2, <2>3, <3>1
    <3> QED BY <3>2 DEF D1
  <2> QED BY <2>4, <2>5
<1> QED BY <1>3, <1>6 DEF CountedInv, DoneCounts

\* Requests that work on something else start, go on or end.
LEMMA ElsewhereCounts ==
  ASSUME BillingInv, BillingInv', CountedInv, NEW r \in Requests,
         \/ PaymentStep(r) \/ ReceivableStep(r) \/ Crash(r)
         \/ \E n \in Notes : BeginNote(r, n) \/ BeginEmitNote(r, n)
         \/ CheckNote(r) \/ CreateNote(r)
  PROVE  CountedInv'
<1>0. /\ TypeOK /\ TypeOK' /\ Named(r)
      /\ credited' = credited /\ validated' = validated
  BY DEF BillingInv, PaymentStep, BeginPayment, CommitPayment, ReceivableStep,
         View, ListReceivable, WriteSync, BeginCancel, Cancel, Crash, BeginNote,
         BeginEmitNote, CheckNote, CreateNote
<1>1. CASE Finish(r)
  BY <1>0, <1>1, FinishLetsGo
<1>2. ASSUME NEW label \in PC \ {"persist", "reload", "apply"},
             pc' = [pc EXCEPT ![r] = label],
             \A q \in Requests \ {r} : work'[q] = work[q]
      PROVE  CountedInv'
  <2>1. pc'[r] = label /\ \A q \in Requests \ {r} : pc'[q] = pc[q]
    BY <1>0, <1>2 DEF TypeOK
  <2>2. ~Working(r)'
    BY <2>1 DEF Working
  <2> QED BY <1>0, <1>2, <2>1, <2>2, LetGo
<1>3. ASSUME NEW d \in Documents, NEW n, NEW a, NEW goal, NEW row,
             NEW label \in {"sync", "view", "note", "cancel", "pay", "send"},
             Start(r, d, label),
             work' = [work EXCEPT ![r] = Locals(d, n, a, goal, row)]
      PROVE  CountedInv'
  <2>1. label \in PC \ {"persist", "reload", "apply"}
    BY DEF PC
  <2>2. \A q \in Requests \ {r} : work'[q] = work[q]
    BY <1>0, <1>3 DEF TypeOK
  <2> QED BY <1>2, <1>3, <2>1, <2>2 DEF Start
<1>4. CASE PaymentStep(r)
  BY <1>1, <1>3, <1>4 DEF PaymentStep, BeginPayment, CommitPayment
<1>5. CASE ReceivableStep(r)
  <2>1. ASSUME NEW d \in Documents, NEW goal \in {"view", "cancel"},
               Open(r, d, goal)
        PROVE  CountedInv'
    BY <1>3, <2>1 DEF Open
  <2>2. CASE WriteSync(r)
    <3>1. CASE work[r].goal = "view"
      BY <1>1, <2>2, <3>1 DEF WriteSync
    <3>2. CASE work[r].goal # "view"
      <4>1. work[r].goal \in PC \ {"persist", "reload", "apply"}
        BY <1>0, <2>2 DEF WriteSync, Named, PC
      <4>2. /\ pc' = [pc EXCEPT ![r] = work[r].goal]
            /\ \A q \in Requests \ {r} : work'[q] = work[q]
        BY <1>0, <2>2, <3>2 DEF WriteSync, TypeOK
      <4> QED BY <1>2, <4>1, <4>2
    <3> QED BY <3>1, <3>2
  <2>3. CASE Cancel(r)
    BY <1>1, <2>3 DEF Cancel
  <2> QED BY <1>5, <2>1, <2>2, <2>3 DEF ReceivableStep, View, ListReceivable,
                                        BeginCancel
<1>6. ASSUME NEW n \in Notes, BeginNote(r, n) \/ BeginEmitNote(r, n)
      PROVE  CountedInv'
  <2>1. n \in Documents /\ Source[n] \in Documents
    BY NoteNames
  <2>2. CASE BeginNote(r, n)
    <3>1. \/ Start(r, Source[n], "sync") \/ Start(r, Source[n], "note")
      BY <2>2 DEF BeginNote
    <3> QED BY <1>3, <2>1, <2>2, <3>1 DEF BeginNote
  <2>3. CASE BeginEmitNote(r, n)
    BY <1>3, <2>1, <2>3 DEF BeginEmitNote
  <2> QED BY <1>6, <2>2, <2>3
<1>7. CASE CheckNote(r) \/ CreateNote(r) \/ Crash(r)
  <2>1. CASE Goto(r, "create")
    BY <1>2, <2>1 DEF Goto, PC
  <2> QED BY <1>1, <1>7, <2>1 DEF CheckNote, CreateNote, Crash
<1> QED BY <1>4, <1>5, <1>6, <1>7

LEMMA CountedNext ==
  BillingInv /\ BillingInv' /\ CountedInv /\ [Next]_billingVars => CountedInv'
<1> SUFFICES ASSUME BillingInv, BillingInv', CountedInv, [Next]_billingVars
             PROVE  CountedInv'
  OBVIOUS
<1>1. ASSUME NEW r \in Requests,
             PaymentStep(r) \/ ReceivableStep(r) \/ NoteStep(r) \/ Crash(r)
      PROVE  CountedInv'
  BY <1>1, ElsewhereCounts, SendCounts, PersistCounts, ReloadCounts, ApplyCounts
  DEF NoteStep
<1>2. CASE /\ pc' = pc /\ work' = work
           /\ credited' = credited /\ validated' = validated
  <2>1. WorkSound' /\ Pending' = Pending
    BY <1>2 DEF CountedInv, WorkSound, Working, Pending
  <2> QED BY <1>2, <2>1, DoneGrows DEF CountedInv, BillingInv
<1>3. ASSUME NEW d \in Invoices,
             \/ FallDue(d)
             \/ \E m \in 1..Total[d] : SpendCredit(d, m) \/ ReturnCredit(d, m)
      PROVE  CountedInv'
  BY <1>2, <1>3 DEF FallDue, SpendCredit, ReturnCredit
<1>4. CASE UNCHANGED billingVars
  BY <1>2, <1>4 DEF billingVars
<1> QED BY <1>1, <1>3, <1>4 DEF Next

\* Whatever emissions of notes race, crash, are rejected or answered twice,
\* only notes that the DIAN validated change the invoice they correct, each of
\* them once.
THEOREM ValidatedNotesCount == Spec => []OnlyValidatedNotesCount
<1>1. BillingInv /\ CountedInv => OnlyValidatedNotesCount
  <2> SUFFICES ASSUME BillingInv, CountedInv, NEW s \in Invoices
               PROVE  credited[s] <= SumFunctionOnSet(Total, CreditNotesOf(s))
    BY DEF OnlyValidatedNotesCount, CreditNotesOf
  <2>1. /\ SumFunctionOnSet(Total, Done(s))
             <= SumFunctionOnSet(Total, CreditNotesOf(s))
        /\ SumFunctionOnSet(Total, Done(s)) \in Nat
        /\ SumFunctionOnSet(Total, CreditNotesOf(s)) \in Nat
    <3>1. /\ IsFiniteSet(CreditNotesOf(s))
          /\ \A n \in CreditNotesOf(s) : Total[n] \in Nat
          /\ Done(s) \in SUBSET CreditNotesOf(s)
      BY NoteSets, SomeDocuments
    <3> QED BY <3>1, SumSubset
  <2>2. credited[s] <= SumFunctionOnSet(Total, Done(s)) /\ credited[s] \in Nat
    BY DEF CountedInv, DoneCounts, BillingInv, TypeOK, Invoices
  <2> QED BY <2>1, <2>2
<1> QED BY <1>1, CountedInit, CountedNext, BillingInit, BillingNext, PTL DEF Spec
-----------------------------------------------------------------------------
(* One request at a time on an invoice and its notes.  Two requests in      *)
(* flight then work on different invoices, so that what a request read is    *)
(* still what the row holds when it writes, and the columns of every row can *)
(* be told from its payments, its credit and its notes.                      *)

Apart ==
  \A q, r \in Requests :
    q # r /\ pc[q] # "idle" /\ pc[r] # "idle"
      => Source[work[q].doc] # Source[work[r].doc]

UpToDate(r) ==
  pc[r] # "idle" =>
    /\ work[r].doc \in Documents
    /\ pc[r] \in {"sync", "pay"} => work[r].seen = ReadRow(work[r].doc)
    /\ pc[r] = "sync" => work[r].seen.balance > 0
    /\ pc[r] = "pay" => work[r].amount > 0
    /\ pc[r] \in {"send", "persist", "reload", "apply"}
         => work[r].doc = work[r].note
    /\ pc[r] = "apply" => work[r].seen = ReadRow(Source[work[r].note])

\* The columns of a document.
PaidSound(d) == /\ paid[d] = payments[d] + Compensated[d]
                /\ balance[d] <= Total[d] - paid[d]
SettledSound(d) ==
  /\ status[d] = "BORRADOR" => d \in Notes /\ balance[d] = Total[d]
  /\ status[d] = "PAGADA" => balance[d] = 0
  /\ balance[d] = 0 /\ Compensated[d] < Total[d]
       => status[d] \in {"PAGADA", "CANCELADA"}
NotesSound(d) ==
  d \in Invoices /\ payments[d] = 0 /\ status[d] # "CANCELADA" =>
    (Total[d] - paid[d] - balance[d]) + credit[d] + taken[d] = credited[d]

Sound(d) == PaidSound(d) /\ SettledSound(d) /\ NotesSound(d)

TurnInv ==
  /\ Apart
  /\ \A r \in Requests : UpToDate(r)
  /\ \A d \in Documents : Sound(d)

LEMMA TurnInit == Init => TurnInv
<1> SUFFICES ASSUME Init PROVE TurnInv
  OBVIOUS
<1>1. Apart /\ \A r \in Requests : UpToDate(r)
  BY DEF Init, Apart, UpToDate
<1>2. ASSUME NEW d \in Documents PROVE Sound(d)
  <2>1. /\ Total[d] \in Nat /\ Compensated[d] \in Nat
        /\ Compensated[d] <= Total[d] /\ d \in Notes => Compensated[d] = 0
    OBVIOUS
  <2>2. /\ paid[d] = Compensated[d] /\ payments[d] = 0
        /\ balance[d] = Total[d] - Compensated[d]
        /\ credit[d] = 0 /\ taken[d] = 0 /\ credited[d] = 0
        /\ status[d] = IF d \in Notes THEN "BORRADOR" ELSE "EMITIDA"
    BY DEF Init
  <2> QED BY <2>1, <2>2 DEF Sound, PaidSound, SettledSound, NotesSound
<1> QED BY <1>1, <1>2 DEF TurnInv

-----------------------------------------------------------------------------
(* Frames.                                                                 *)

\* A step that leaves a row as it is.
Kept(d) ==
  /\ status'[d] = status[d] /\ paid'[d] = paid[d] /\ balance'[d] = balance[d]
  /\ credit'[d] = credit[d] /\ payments'[d] = payments[d]

Booked(d) == Kept(d) /\ credited'[d] = credited[d] /\ taken'[d] = taken[d]

LEMMA SoundKept ==
  ASSUME NEW d \in Documents, Sound(d), Booked(d)
  PROVE  Sound(d)'
BY DEF Sound, PaidSound, SettledSound, NotesSound, Booked, Kept

LEMMA SourceFacts ==
  ASSUME NEW d \in Documents
  PROVE  /\ Source[d] \in Documents /\ Source[Source[d]] = Source[d]
         /\ Source[d] \in Invoices
         /\ Total[d] \in Nat /\ Compensated[d] \in Nat
         /\ d \in Notes => Compensated[d] = 0
OBVIOUS

\* The locals of a request whose row and whose source's row are left alone.
LEMMA StillUpToDate ==
  ASSUME NEW q \in Requests, UpToDate(q), pc'[q] = pc[q], work'[q] = work[q],
         pc[q] # "idle" => \A d \in Documents :
                             Source[d] = Source[work[q].doc] => Kept(d)
  PROVE  UpToDate(q)'
<1>1. CASE pc[q] = "idle"
  BY <1>1 DEF UpToDate
<1>2. CASE pc[q] # "idle"
  <2>1. work[q].doc \in Documents
    BY <1>2 DEF UpToDate
  <2>2. Kept(work[q].doc) /\ Kept(Source[work[q].doc])
    BY <1>2, <2>1, SourceFacts
  <2> QED BY <1>2, <2>2 DEF UpToDate, Kept, ReadRow
<1> QED BY <1>1, <1>2

\* Request r goes on with its document, or ends, and writes no other row than
\* those of the invoice it works on.
LEMMA TurnGoesOn ==
  ASSUME TurnInv, NEW r \in Requests, pc[r] # "idle", UpToDate(r)',
         \/ pc'[r] = "idle"
         \/ Source[work'[r].doc] = Source[work[r].doc],
         \A q \in Requests \ {r} : pc'[q] = pc[q] /\ work'[q] = work[q],
         \A d \in Documents : Booked(d) \/ (/\ Source[d] = Source[work[r].doc]
                                            /\ Sound(d)')
  PROVE  TurnInv'
<1>1. Apart'
  BY DEF TurnInv, Apart
<1>2. ASSUME NEW q \in Requests \ {r} PROVE UpToDate(q)'
  <2>1. pc[q] # "idle" =>
          \A d \in Documents : Source[d] = Source[work[q].doc] => Kept(d)
    BY DEF TurnInv, Apart, Booked
  <2> QED BY <2>1, StillUpToDate DEF TurnInv
<1>3. \A d \in Documents : Sound(d)'
  BY SoundKept DEF TurnInv
<1> QED BY <1>1, <1>2, <1>3 DEF TurnInv

LEMMA TurnEnds ==
  ASSUME BillingInv, TurnInv, NEW r \in Requests, pc[r] # "idle", Finish(r),
         \A d \in Documents : Booked(d) \/ (/\ Source[d] = Source[work[r].doc]
                                            /\ Sound(d)')
  PROVE  TurnInv'
<1>1. /\ pc'[r] = "idle"
      /\ \A q \in Requests \ {r} : pc'[q] = pc[q] /\ work'[q] = work[q]
  BY DEF Finish, BillingInv, TypeOK
<1>2. UpToDate(r)'
  BY <1>1 DEF UpToDate
<1> QED BY <1>1, <1>2, TurnGoesOn

LEMMA RowsKept ==
  ASSUME UNCHANGED <<ledgerVars, payments, credited, taken>>
  PROVE  \A d \in Documents : Booked(d)
BY DEF ledgerVars, Booked, Kept

\* A request starts where no other one works.
LEMMA TurnStarts ==
  ASSUME OneAtATime, BillingInv, TurnInv, NEW r \in Requests,
         NEW d \in Documents, NEW label, NEW locals, Start(r, d, label),
         work' = [work EXCEPT ![r] = locals], locals.doc = d, UpToDate(r)',
         UNCHANGED <<ledgerVars, payments, credited, taken>>
  PROVE  TurnInv'
<1>1. /\ pc[r] = "idle" /\ work'[r] = locals
      /\ \A q \in Requests \ {r} : pc'[q] = pc[q] /\ work'[q] = work[q]
  BY DEF Start, BillingInv, TypeOK
<1>2. \A q \in Requests : pc[q] # "idle" => Source[work[q].doc] # Source[d]
  BY DEF Start, Free
<1>3. Apart'
  BY <1>1, <1>2 DEF TurnInv, Apart
<1>4. \A e \in Documents : Booked(e)
  BY RowsKept
<1>5. \A q \in Requests \ {r} : UpToDate(q)'
  BY <1>1, <1>4, StillUpToDate DEF TurnInv, Booked
<1>6. \A e \in Documents : Sound(e)'
  BY <1>4, SoundKept DEF TurnInv
<1> QED BY <1>3, <1>5, <1>6 DEF TurnInv

\* Nobody works on the invoice whose row changes.
LEMMA NoTurn ==
  ASSUME OneAtATime, TurnInv, NEW d \in Documents, Free(d),
         pc' = pc, work' = work, Sound(d)',
         \A e \in Documents \ {d} : Booked(e)
  PROVE  TurnInv'
<1>1. Apart'
  BY DEF TurnInv, Apart
<1>2. ASSUME NEW q \in Requests PROVE UpToDate(q)'
  <2>1. pc[q] # "idle" =>
          \A e \in Documents : Source[e] = Source[work[q].doc] => Kept(e)
    BY DEF Free, Booked
  <2> QED BY <2>1, StillUpToDate DEF TurnInv
<1>3. \A e \in Documents : Sound(e)'
  BY SoundKept DEF TurnInv
<1> QED BY <1>1, <1>2, <1>3 DEF TurnInv

-----------------------------------------------------------------------------
(* Cashiers.                                                               *)

LEMMA PaymentTurn ==
  ASSUME OneAtATime, BillingInv, BillingInv', TurnInv, NEW r \in Requests,
         PaymentStep(r)
  PROVE  TurnInv'
<1>1. ASSUME NEW d \in Documents, NEW amount \in Amounts,
             BeginPayment(r, d, amount)
      PROVE  TurnInv'
  <2> DEFINE locals == Locals(d, None, amount, "view", ReadRow(d))
  <2>1. /\ Start(r, d, "pay") /\ work' = [work EXCEPT ![r] = locals]
        /\ UNCHANGED <<ledgerVars, payments, credited, taken>>
    BY <1>1 DEF BeginPayment
  <2>2. pc'[r] = "pay" /\ work'[r] = locals
    BY <2>1 DEF Start, BillingInv, TypeOK
  <2>3. /\ locals.doc = d /\ locals.seen = ReadRow(d) /\ locals.amount = amount
        /\ amount > 0
    BY DEF Locals
  <2>4. ReadRow(d)' = ReadRow(d)
    BY <2>1 DEF ReadRow, ledgerVars
  <2> HIDE DEF locals
  <2>5. UpToDate(r)'
    BY <2>2, <2>3, <2>4 DEF UpToDate
  <2> QED BY <2>1, <2>3, <2>5, TurnStarts
<1>2. CASE CommitPayment(r)
  <2>0. PICK d \in Documents : d = work[r].doc
    BY <1>2 DEF CommitPayment, TurnInv, UpToDate
  <2> DEFINE amount == work[r].amount
             left == AtLeastZero(LeftAfter(d, ReadRow(d), amount))
             resolved == ResolveInvoiceStatus(Total[d] - credit[d],
                           paid[d] + amount, d \in late, status[d])
  <2>1. /\ pc[r] = "pay" /\ work[r].seen = ReadRow(d)
        /\ amount \in Nat /\ amount > 0 /\ amount <= Due(d, ReadRow(d))
        /\ ~IsFrozen(status[d])
    <3>1. /\ pc[r] = "pay" /\ work[r].seen = ReadRow(d) /\ amount > 0
      BY <1>2, <2>0 DEF CommitPayment, TurnInv, UpToDate
    <3>2. /\ amount \in Nat /\ amount <= Due(d, work[r].seen)
          /\ ~IsFrozen(work[r].seen.status)
      BY <2>0, <3>1 DEF BillingInv, Read
    <3>3. ReadRow(d).status = status[d]
      BY DEF ReadRow
    <3> QED BY <3>1, <3>2, <3>3
  <2>2. /\ Total[d] \in Nat /\ Compensated[d] \in Nat /\ Sound(d)
        /\ paid[d] \in Int /\ payments[d] \in Nat /\ credit[d] \in Int
        /\ RowWithin(d, ReadRow(d))
    BY SourceFacts DEF TurnInv, BillingInv, TypeOK, LedgerTypeOK
  <2>3. TotalPaid(ReadRow(d)) = paid[d]
    BY <2>2 DEF Sound, PaidSound, TotalPaid, ReadRow
  <2>4. /\ paid' = [paid EXCEPT ![d] = paid[d] + amount]
        /\ payments' = [payments EXCEPT ![d] = @ + amount]
        /\ balance' = [balance EXCEPT ![d] = left]
        /\ status' = [status EXCEPT ![d] = resolved]
        /\ Finish(r)
        /\ UNCHANGED <<credit, credited, taken>>
    <3>1. ReadRow(d).credit = credit[d] /\ ReadRow(d).status = status[d]
      BY DEF ReadRow
    <3>2. /\ paid' = [paid EXCEPT ![d] = TotalPaid(ReadRow(d)) + amount]
          /\ payments' = [payments EXCEPT ![d] = @ + amount]
          /\ balance' = [balance EXCEPT ![d] = left]
          /\ status' = [status EXCEPT ![d] =
               ResolveInvoiceStatus(Total[d] - ReadRow(d).credit,
                 TotalPaid(ReadRow(d)) + amount, d \in late, ReadRow(d).status)]
          /\ Finish(r)
          /\ UNCHANGED <<credit, credited, taken>>
      BY <1>2, <2>0, <2>1 DEF CommitPayment
    <3> QED BY <2>3, <3>1, <3>2
  <2>5. /\ amount <= Total[d] - paid[d] - credit[d] /\ 0 <= credit[d]
        /\ left = Total[d] - paid[d] - credit[d] - amount
    BY <2>1, <2>2, <2>3 DEF Due, LeftAfter, AtLeastZero, RowWithin, ReadRow
  <2>6. /\ resolved # "BORRADOR" /\ resolved # "CANCELADA"
        /\ resolved = "PAGADA" <=> left = 0
    BY <2>1, <2>2, <2>5 DEF ResolveInvoiceStatus, IsFrozen, Sound, PaidSound
  <2> HIDE DEF amount, left, resolved
  <2>7. /\ paid'[d] = paid[d] + amount /\ payments'[d] = payments[d] + amount
        /\ balance'[d] = left /\ status'[d] = resolved
        /\ \A e \in Documents \ {d} : Booked(e)
    <3>1. /\ status \in [Documents -> Status] /\ paid \in [Documents -> Int]
          /\ balance \in [Documents -> Int] /\ payments \in [Documents -> Nat]
      BY DEF BillingInv, TypeOK, LedgerTypeOK
    <3> QED BY <2>1, <2>4, <3>1 DEF Booked, Kept
  <2>8. Sound(d)'
    <3>1. PaidSound(d)'
      BY <2>1, <2>2, <2>5, <2>7 DEF Sound, PaidSound
    <3>2. SettledSound(d)'
      BY <2>6, <2>7 DEF SettledSound
    <3>3. NotesSound(d)'
      BY <2>1, <2>2, <2>7 DEF NotesSound
    <3> QED BY <3>1, <3>2, <3>3 DEF Sound
  <2>9. \A e \in Documents :
          Booked(e) \/ (Source[e] = Source[work[r].doc] /\ Sound(e)')
    BY <2>0, <2>7, <2>8
  <2> QED BY <2>1, <2>4, <2>9, TurnEnds
<1> QED BY <1>1, <1>2 DEF PaymentStep

-----------------------------------------------------------------------------
(* Listings and cancellations.                                             *)

LEMMA OpenTurn ==
  ASSUME OneAtATime, BillingInv, TurnInv, NEW r \in Requests,
         NEW d \in Documents, NEW n, NEW goal \in {"view", "note", "cancel"},
         Start(r, d, IF NeedsSync(d, ReadRow(d)) THEN "sync" ELSE goal),
         work' = [work EXCEPT ![r] = Locals(d, n, 0, goal, ReadRow(d))],
         UNCHANGED <<ledgerVars, payments, credited, taken>>
  PROVE  TurnInv'
<1> DEFINE locals == Locals(d, n, 0, goal, ReadRow(d))
           label == IF NeedsSync(d, ReadRow(d)) THEN "sync" ELSE goal
<1>1. pc'[r] = label /\ work'[r] = locals
  BY DEF Start, BillingInv, TypeOK
<1>2. locals.doc = d /\ locals.seen = ReadRow(d)
  BY DEF Locals
<1>3. ReadRow(d)' = ReadRow(d)
  BY DEF ReadRow, ledgerVars
<1>4. NeedsSync(d, ReadRow(d)) => ReadRow(d).balance > 0
  BY DEF NeedsSync, IsOverdue
<1> HIDE DEF locals
<1>5. UpToDate(r)'
  BY <1>1, <1>2, <1>3, <1>4 DEF UpToDate
<1> QED BY <1>2, <1>5, TurnStarts DEF locals

LEMMA ReceivableTurn ==
  ASSUME OneAtATime, BillingInv, BillingInv', TurnInv, NEW r \in Requests,
         ReceivableStep(r)
  PROVE  TurnInv'
<1>1. ASSUME NEW d \in Documents,
             View(r, d) \/ ListReceivable(r, d) \/ BeginCancel(r, d)
      PROVE  TurnInv'
  <2>1. UNCHANGED <<ledgerVars, payments, credited, taken>>
    BY <1>1 DEF View, ListReceivable, BeginCancel
  <2>2. CASE View(r, d) \/ ListReceivable(r, d)
    BY <2>1, <2>2, OpenTurn DEF View, ListReceivable, Open
  <2>3. CASE BeginCancel(r, d)
    BY <2>1, <2>3, OpenTurn DEF BeginCancel, Open
  <2> QED BY <1>1, <2>2, <2>3
<1>2. CASE WriteSync(r)
  <2>0. PICK d \in Documents : d = work[r].doc
    BY <1>2 DEF WriteSync, TurnInv, UpToDate
  <2> DEFINE synced == SyncedStatus(d, ReadRow(d))
  <2>1. /\ pc[r] = "sync" /\ work[r].seen = ReadRow(d)
        /\ ReadRow(d).balance > 0 /\ ~IsFrozen(ReadRow(d).status)
        /\ work[r].goal \in {"view", "note", "cancel"} /\ work[r] \in Work
    BY <1>2, <2>0 DEF WriteSync, TurnInv, UpToDate, BillingInv, Named, TypeOK
  <2>2. /\ Sound(d) /\ Total[d] \in Nat /\ Compensated[d] \in Nat
        /\ paid[d] \in Int /\ balance[d] \in Int /\ balance[d] > 0
        /\ ~IsFrozen(status[d]) /\ status[d] \in Status
    BY <2>1, SourceFacts DEF TurnInv, BillingInv, TypeOK, LedgerTypeOK, ReadRow
  <2>3. synced \notin {"BORRADOR", "CANCELADA", "PAGADA"}
    BY <2>2 DEF SyncedStatus, ResolveInvoiceStatus, IsFrozen, ReadRow, Sound,
                PaidSound, SettledSound
  <2>4. /\ status' = [status EXCEPT ![d] = synced]
        /\ UNCHANGED <<paid, balance, credit, payments, credited, taken>>
    BY <1>2, <2>0, <2>1 DEF WriteSync
  <2> HIDE DEF synced
  <2>5. /\ status'[d] = synced
        /\ \A e \in Documents \ {d} : Booked(e)
    BY <2>1, <2>4 DEF BillingInv, TypeOK, LedgerTypeOK, Booked, Kept
  <2>6. Sound(d)'
    BY <2>2, <2>3, <2>4, <2>5 DEF Sound, PaidSound, SettledSound, NotesSound,
                                  IsFrozen
  <2>7. \A e \in Documents :
          Booked(e) \/ (Source[e] = Source[work[r].doc] /\ Sound(e)')
    BY <2>0, <2>5, <2>6
  <2>8. CASE work[r].goal = "view"
    BY <1>2, <2>1, <2>7, <2>8, TurnEnds DEF WriteSync
  <2>9. CASE work[r].goal # "view"
    <3>1. /\ pc' = [pc EXCEPT ![r] = work[r].goal]
          /\ work' = [work EXCEPT ![r].seen.status = SyncedStatus(d, work[r].seen)]
      BY <1>2, <2>0, <2>9 DEF WriteSync
    <3>2. /\ pc'[r] \in {"note", "cancel"} /\ work'[r].doc = d
          /\ \A q \in Requests \ {r} : pc'[q] = pc[q] /\ work'[q] = work[q]
      BY <2>0, <2>1, <2>9, <3>1 DEF BillingInv, TypeOK, Work
    <3>3. UpToDate(r)'
      BY <2>1, <3>2 DEF UpToDate
    <3> QED BY <2>0, <2>1, <2>7, <3>2, <3>3, TurnGoesOn
  <2> QED BY <2>8, <2>9
<1>3. CASE Cancel(r)
  <2>0. PICK d \in Documents : d = work[r].doc
    BY <1>3 DEF Cancel, TurnInv, UpToDate
  <2>1. /\ pc[r] = "cancel" /\ Finish(r)
        /\ UNCHANGED <<paid, credit, payments, credited, taken>>
    BY <1>3 DEF Cancel, TurnInv, UpToDate
  <2>2. CASE UNCHANGED <<status, balance>>
    <3>1. \A e \in Documents : Booked(e)
      BY <2>1, <2>2 DEF Booked, Kept
    <3> QED BY <2>1, <3>1, TurnEnds
  <2>3. CASE /\ status' = [status EXCEPT ![d] = "CANCELADA"]
             /\ balance' = [balance EXCEPT ![d] = 0]
    <3>1. /\ status'[d] = "CANCELADA" /\ balance'[d] = 0
          /\ \A e \in Documents \ {d} : Booked(e)
      BY <2>1, <2>3 DEF BillingInv, TypeOK, LedgerTypeOK, Booked, Kept
    <3>2. /\ Sound(d) /\ RowWithin(d, ReadRow(d)) /\ Total[d] \in Nat
          /\ paid[d] \in Int
      BY <2>1, SourceFacts DEF TurnInv, BillingInv, TypeOK, LedgerTypeOK
    <3>3. Sound(d)'
      BY <2>1, <3>1, <3>2 DEF Sound, PaidSound, SettledSound, NotesSound,
                              RowWithin, ReadRow
    <3>4. \A e \in Documents :
            Booked(e) \/ (Source[e] = Source[work[r].doc] /\ Sound(e)')
      BY <2>0, <3>1, <3>3
    <3> QED BY <2>1, <3>4, TurnEnds
  <2> QED BY <1>3, <2>0, <2>2, <2>3 DEF Cancel, CancelledBalance
<1> QED BY <1>1, <1>2, <1>3 DEF ReceivableStep

-----------------------------------------------------------------------------
(* Notes.                                                                  *)

LEMMA NoteTurn ==
  ASSUME OneAtATime, BillingInv, BillingInv', TurnInv, NEW r \in Requests,
         \/ \E n \in Notes : BeginNote(r, n) \/ BeginEmitNote(r, n)
         \/ CheckNote(r) \/ CreateNote(r) \/ SendNote(r) \/ ReloadSource(r)
         \/ Crash(r)
  PROVE  TurnInv'
<1>0. /\ UNCHANGED <<ledgerVars, payments, credited, taken>>
      /\ \A d \in Documents : Booked(d)
  <2>1. UNCHANGED <<ledgerVars, payments, credited, taken>>
    BY DEF BeginNote, BeginEmitNote, CheckNote, CreateNote, SendNote,
           ReloadSource, Crash
  <2> QED BY <2>1, RowsKept
<1>1. ASSUME NEW n \in Notes, BeginNote(r, n)
      PROVE  TurnInv'
  <2>1. Source[n] \in Documents
    BY NoteNames
  <2> QED BY <1>0, <1>1, <2>1, OpenTurn DEF BeginNote
<1>2. ASSUME NEW n \in Notes, BeginEmitNote(r, n)
      PROVE  TurnInv'
  <2> DEFINE locals == Locals(n, n, 0, "view", NoRow)
  <2>1. /\ n \in Documents /\ Start(r, n, "send")
        /\ work' = [work EXCEPT ![r] = locals]
    BY <1>2, NoteNames DEF BeginEmitNote
  <2>2. /\ pc'[r] = "send" /\ work'[r] = locals
        /\ locals.doc = n /\ locals.note = n
    BY <2>1 DEF Start, BillingInv, TypeOK, Locals
  <2> HIDE DEF locals
  <2>3. UpToDate(r)'
    BY <2>1, <2>2 DEF UpToDate
  <2> QED BY <1>0, <2>1, <2>2, <2>3, TurnStarts
<1>3. CASE Finish(r) /\ pc[r] # "idle"
  BY <1>0, <1>3, TurnEnds
<1>4. ASSUME pc[r] # "idle", work'[r].doc = work[r].doc, UpToDate(r)',
             \A q \in Requests \ {r} : pc'[q] = pc[q] /\ work'[q] = work[q]
      PROVE  TurnInv'
  BY <1>0, <1>4, TurnGoesOn
<1>5. CASE CheckNote(r) \/ CreateNote(r) \/ Crash(r)
  <2>1. CASE Goto(r, "create") /\ CheckNote(r)
    <3>1. /\ pc[r] = "note" /\ pc'[r] = "create" /\ work' = work
          /\ \A q \in Requests \ {r} : pc'[q] = pc[q]
      BY <2>1 DEF CheckNote, Goto, BillingInv, TypeOK
    <3>2. UpToDate(r)'
      BY <3>1 DEF UpToDate, TurnInv
    <3> QED BY <1>4, <3>1, <3>2
  <2> QED BY <1>3, <1>5, <2>1 DEF CheckNote, CreateNote, Crash
<1>6. CASE SendNote(r)
  <2>1. ASSUME NEW v, pc' = [pc EXCEPT ![r] = "persist"],
               work' = [work EXCEPT ![r].verdict = v]
        PROVE  TurnInv'
    <3>1. pc[r] = "send" /\ work \in [Requests -> Work] /\ pc \in [Requests -> PC]
      BY <1>6 DEF SendNote, BillingInv, TypeOK
    <3>2. /\ pc'[r] = "persist" /\ work'[r].doc = work[r].doc
          /\ work'[r].note = work[r].note
          /\ \A q \in Requests \ {r} : pc'[q] = pc[q] /\ work'[q] = work[q]
      BY <2>1, <3>1 DEF Work
    <3>3. UpToDate(r)'
      BY <3>1, <3>2 DEF UpToDate, TurnInv
    <3> QED BY <1>4, <3>1, <3>2, <3>3
  <2>2. pc[r] # "idle"
    BY <1>6 DEF SendNote
  <2> QED BY <1>3, <1>6, <2>1, <2>2 DEF SendNote
<1>7. CASE ReloadSource(r)
  <2> DEFINE s == Source[work[r].note]
  <2>1. /\ pc[r] = "reload" /\ work \in [Requests -> Work] /\ pc \in [Requests -> PC]
        /\ UpToDate(r)
    BY <1>7 DEF ReloadSource, BillingInv, TypeOK, TurnInv
  <2>2. /\ pc'[r] = "apply" /\ work'[r].doc = work[r].doc
        /\ work'[r].note = work[r].note /\ work'[r].seen = ReadRow(s)
        /\ \A q \in Requests \ {r} : pc'[q] = pc[q] /\ work'[q] = work[q]
    BY <1>7, <2>1 DEF ReloadSource, Work
  <2>3. ReadRow(s)' = ReadRow(s)
    BY <1>0, <2>2 DEF ReadRow, ledgerVars
  <2>4. UpToDate(r)'
    BY <2>1, <2>2, <2>3 DEF UpToDate
  <2> QED BY <1>4, <2>1, <2>2, <2>4
<1> QED BY <1>1, <1>2, <1>5, <1>6, <1>7

LEMMA PersistTurn ==
  ASSUME OneAtATime, BillingInv, BillingInv', TurnInv, NEW r \in Requests,
         PersistNote(r)
  PROVE  TurnInv'
<1>0. PICK n \in Notes : n = work[r].note
  BY DEF PersistNote, BillingInv, Named
<1>1. /\ pc[r] = "persist" /\ n \in Documents
      /\ work[r].doc = n /\ UpToDate(r) /\ Sound(n)
      /\ Total[n] \in Nat /\ Compensated[n] = 0
      /\ UNCHANGED <<paid, balance, credit, payments, credited, taken>>
  <2>1. n \in Documents /\ Total[n] \in Nat /\ Compensated[n] = 0
    BY NoteNames
  <2> QED BY <1>0, <2>1 DEF PersistNote, TurnInv, UpToDate
<1>2. \/ UNCHANGED status
      \/ /\ status[n] = "BORRADOR"
         /\ \E w \in {"BORRADOR", "EMITIDA"} : status' = [status EXCEPT ![n] = w]
  BY <1>0 DEF PersistNote, StillDraft, WrittenStatus
<1>3. \A d \in Documents : Booked(d) \/ (Source[d] = Source[n] /\ Sound(d)')
  <2>1. CASE UNCHANGED status
    BY <1>1, <2>1 DEF Booked, Kept
  <2>2. ASSUME NEW w \in {"BORRADOR", "EMITIDA"}, status[n] = "BORRADOR",
               status' = [status EXCEPT ![n] = w]
        PROVE  \A d \in Documents : Booked(d) \/ (/\ Source[d] = Source[n]
                                                  /\ Sound(d)')
    <3>1. /\ status'[n] = w
          /\ \A d \in Documents \ {n} : Booked(d)
      BY <1>1, <2>2 DEF BillingInv, TypeOK, LedgerTypeOK, Booked, Kept
    <3>2. balance[n] = Total[n]
      BY <1>1, <2>2 DEF Sound, SettledSound
    <3>3. Sound(n)'
      BY <1>1, <3>1, <3>2 DEF Sound, PaidSound, SettledSound, NotesSound, Invoices
    <3> QED BY <3>1, <3>3
  <2> QED BY <1>2, <2>1, <2>2
<1>4. CASE Finish(r)
  BY <1>1, <1>3, <1>4, TurnEnds
<1>5. CASE Goto(r, "reload")
  <2>1. /\ pc'[r] = "reload" /\ work' = work
        /\ \A q \in Requests \ {r} : pc'[q] = pc[q]
    BY <1>5 DEF Goto, BillingInv, TypeOK
  <2>2. UpToDate(r)'
    BY <1>1, <2>1 DEF UpToDate
  <2> QED BY <1>1, <1>3, <2>1, <2>2, TurnGoesOn
<1> QED BY <1>4, <1>5 DEF PersistNote

\* What a note leaves of a position that is not frozen.
LEMMA ApplyCreditFacts ==
  ASSUME NEW total \in Nat, NEW overdue \in BOOLEAN, NEW amount \in Nat,
         NEW bal \in 0..total, NEW cred \in Nat, NEW current \in Status,
         ~IsFrozen(current), current = "PAGADA" => bal = 0
  PROVE  LET pos == ApplyCredit(total, overdue,
                      [balance |-> bal, credit |-> cred, status |-> current],
                      amount)
         IN  /\ pos.balance <= bal
             /\ (bal - pos.balance) + (pos.credit - cred) = amount
             /\ \/ pos.status = current /\ pos.balance = bal
                \/ /\ pos.status \notin {"BORRADOR", "CANCELADA"}
                   /\ pos.status = "PAGADA" <=> pos.balance = 0
<1> DEFINE covered == Lesser(amount, bal)
           new == bal - covered
           resolved == ResolveInvoiceStatus(total, total - new, overdue, current)
<1>1. CASE amount = 0
  BY <1>1 DEF ApplyCredit
<1>2. CASE amount > 0
  <2>1. /\ covered \in Nat /\ covered <= bal /\ new \in Nat /\ new <= bal
        /\ new # 0 => total - new > 0
    BY <1>2 DEF Lesser
  <2>2. /\ resolved \notin {"BORRADOR", "CANCELADA"}
        /\ resolved = "PAGADA" <=> new = 0
    <3> HIDE DEF covered
    <3> QED BY <2>1 DEF ResolveInvoiceStatus, IsFrozen, Status
  <2>3. ApplyCredit(total, overdue,
                    [balance |-> bal, credit |-> cred, status |-> current], amount)
          = [balance |-> new, credit |-> cred + (amount - covered),
             status |-> resolved]
    BY <1>2 DEF ApplyCredit
  <2> HIDE DEF covered, resolved
  <2> QED BY <2>1, <2>2, <2>3
<1> QED BY <1>1, <1>2

LEMMA ApplyTurn ==
  ASSUME OneAtATime, BillingInv, BillingInv', TurnInv, NEW r \in Requests,
         ApplyNote(r)
  PROVE  TurnInv'
<1>0. PICK n \in Notes : n = work[r].note
  BY DEF ApplyNote, BillingInv, Named
<1>00. PICK s \in Documents : s = Source[n]
  BY NoteNames
<1> DEFINE pos == PositionAfter(s, ReadRow(s), Total[n])
<1>1. /\ pc[r] = "apply" /\ n \in Documents
      /\ s \in Invoices /\ Source[s] = s
      /\ Total[n] \in Nat /\ Total[s] \in Nat /\ Compensated[s] \in Nat
      /\ work[r].doc = n /\ work[r].seen = ReadRow(s)
  BY <1>0, <1>00, NoteNames, SourceFacts DEF ApplyNote, TurnInv, UpToDate
<1>2. /\ Sound(s) /\ RowWithin(s, ReadRow(s)) /\ status[s] \in Status
      /\ balance[s] \in Int /\ credit[s] \in Int /\ paid[s] \in Int
      /\ payments[s] \in Nat /\ credited[s] \in Nat /\ taken[s] \in Nat
  BY <1>1 DEF TurnInv, BillingInv, TypeOK, LedgerTypeOK
<1>3. /\ balance[s] \in 0..Total[s] /\ credit[s] \in Nat
  BY <1>1, <1>2 DEF RowWithin, ReadRow
<1>4. pos = ApplyCredit(Total[s], s \in late,
              [balance |-> balance[s], credit |-> credit[s], status |-> status[s]],
              Total[n])
  BY DEF PositionAfter, ReadRow
<1>5. /\ balance' = [balance EXCEPT ![s] = pos.balance]
      /\ credit' = [credit EXCEPT ![s] = pos.credit]
      /\ status' = [status EXCEPT ![s] = pos.status]
      /\ credited' = [credited EXCEPT ![s] =
           IF IsFrozen(status[s]) THEN @ ELSE @ + Total[n]]
      /\ Finish(r)
      /\ UNCHANGED <<paid, payments, taken>>
  <2>1. ReadRow(s).status = status[s]
    BY DEF ReadRow
  <2> HIDE DEF pos
  <2> QED BY <1>0, <1>00, <1>1, <2>1 DEF ApplyNote, pos
<1>6. /\ balance'[s] = pos.balance /\ credit'[s] = pos.credit
      /\ status'[s] = pos.status
      /\ credited'[s] = IF IsFrozen(status[s]) THEN credited[s]
                        ELSE credited[s] + Total[n]
      /\ \A d \in Documents \ {s} : Booked(d)
  <2> HIDE DEF pos
  <2>1. /\ status \in [Documents -> Status] /\ credit \in [Documents -> Int]
        /\ balance \in [Documents -> Int] /\ credited \in [Documents -> Nat]
    BY DEF BillingInv, TypeOK, LedgerTypeOK
  <2> QED BY <1>1, <1>5, <2>1 DEF Booked, Kept
<1>7. Sound(s)' \/ Booked(s)
  <2>1. CASE IsFrozen(status[s])
    <3>1. /\ pos.balance = balance[s] /\ pos.credit = credit[s]
          /\ pos.status = status[s]
      BY <1>4, <2>1 DEF ApplyCredit
    <3> QED BY <1>5, <1>6, <2>1, <3>1 DEF Booked, Kept
  <2>2. CASE ~IsFrozen(status[s])
    <3>1. status[s] = "PAGADA" => balance[s] = 0
      BY <1>2 DEF Sound, SettledSound
    <3>2. (s \in late) \in BOOLEAN
      OBVIOUS
    <3>3. /\ pos.balance <= balance[s]
          /\ (balance[s] - pos.balance) + (pos.credit - credit[s]) = Total[n]
          /\ \/ pos.status = status[s] /\ pos.balance = balance[s]
             \/ /\ pos.status \notin {"BORRADOR", "CANCELADA"}
                /\ pos.status = "PAGADA" <=> pos.balance = 0
      <4>1. \A overdue \in BOOLEAN :
              LET p == ApplyCredit(Total[s], overdue,
                         [balance |-> balance[s], credit |-> credit[s],
                          status |-> status[s]], Total[n])
              IN  /\ p.balance <= balance[s]
                  /\ (balance[s] - p.balance) + (p.credit - credit[s]) = Total[n]
                  /\ \/ p.status = status[s] /\ p.balance = balance[s]
                     \/ /\ p.status \notin {"BORRADOR", "CANCELADA"}
                        /\ p.status = "PAGADA" <=> p.balance = 0
        BY <1>1, <1>2, <1>3, <2>2, <3>1, ApplyCreditFacts
      <4> HIDE DEF pos
      <4> QED BY <1>4, <3>2, <4>1, Zenon
    <3>4. /\ balance'[s] \in Int /\ credit'[s] \in Int
      BY <1>1 DEF BillingInv, TypeOK, LedgerTypeOK
    <3> HIDE DEF pos
    <3>5. PaidSound(s)'
      BY <1>1, <1>2, <1>5, <1>6, <3>3, <3>4 DEF Sound, PaidSound
    <3>6. SettledSound(s)'
      BY <1>1, <1>2, <1>5, <1>6, <2>2, <3>3 DEF Sound, SettledSound, IsFrozen
    <3>7. NotesSound(s)'
      BY <1>1, <1>2, <1>5, <1>6, <2>2, <3>3, <3>4 DEF Sound, NotesSound, IsFrozen
    <3> QED BY <3>5, <3>6, <3>7 DEF Sound
  <2> QED BY <2>1, <2>2
<1>8. \A d \in Documents :
        Booked(d) \/ (Source[d] = Source[work[r].doc] /\ Sound(d)')
  BY <1>00, <1>1, <1>6, <1>7
<1> HIDE DEF pos
<1> QED BY <1>1, <1>5, <1>8, TurnEnds

-----------------------------------------------------------------------------
LEMMA CreditTurn ==
  ASSUME OneAtATime, BillingInv, TurnInv, NEW d \in Invoices,
         NEW amount \in 1..Total[d],
         SpendCredit(d, amount) \/ ReturnCredit(d, amount)
  PROVE  TurnInv'
<1>1. /\ d \in Documents /\ amount \in Int /\ Free(d)
      /\ pc' = pc /\ work' = work
      /\ UNCHANGED <<status, paid, balance, payments, credited>>
  BY DEF Invoices, SpendCredit, ReturnCredit
<1>2. /\ credit \in [Documents -> Int] /\ taken \in [Documents -> Nat]
      /\ paid[d] \in Int /\ balance[d] \in Int /\ Total[d] \in Int
      /\ credited[d] \in Int
  BY <1>1 DEF BillingInv, TypeOK, LedgerTypeOK
<1>3. /\ credit'[d] + taken'[d] = credit[d] + taken[d]
      /\ credit'[d] \in Int /\ taken'[d] \in Int
      /\ \A e \in Documents \ {d} : credit'[e] = credit[e] /\ taken'[e] = taken[e]
  BY <1>1, <1>2 DEF SpendCredit, ReturnCredit
<1>4. \A e \in Documents \ {d} : Booked(e)
  BY <1>1, <1>3 DEF Booked, Kept
<1>5. Sound(d)'
  BY <1>1, <1>2, <1>3 DEF TurnInv, Sound, PaidSound, SettledSound, NotesSound
<1> QED BY <1>1, <1>4, <1>5, NoTurn

LEMMA TurnNext ==
  ASSUME OneAtATime
  PROVE  BillingInv /\ BillingInv' /\ TurnInv /\ [Next]_billingVars => TurnInv'
<1> SUFFICES ASSUME BillingInv, BillingInv', TurnInv, [Next]_billingVars
             PROVE  TurnInv'
  OBVIOUS
<1>1. ASSUME NEW r \in Requests,
             PaymentStep(r) \/ ReceivableStep(r) \/ NoteStep(r) \/ Crash(r)
      PROVE  TurnInv'
  BY <1>1, PaymentTurn, ReceivableTurn, NoteTurn, PersistTurn, ApplyTurn
  DEF NoteStep
<1>2. CASE UNCHANGED <<ledgerVars, payments, credited, taken, pc, work>>
  <2>1. \A d \in Documents : Booked(d)
    BY <1>2, RowsKept
  <2>2. (\A d \in Documents : Sound(d)') /\ Apart'
    BY <1>2, <2>1, SoundKept DEF TurnInv, Apart
  <2>3. \A r \in Requests : UpToDate(r)'
    BY <1>2, <2>1, StillUpToDate DEF TurnInv, Booked
  <2> QED BY <2>2, <2>3 DEF TurnInv
<1>3. ASSUME NEW d \in Invoices, FallDue(d)
      PROVE  TurnInv'
  BY <1>2, <1>3 DEF FallDue
<1> QED BY <1>1, <1>2, <1>3, CreditTurn DEF Next, billingVars

\* With one request at a time on an invoice and its notes, what cashiers
\* collect and what credit paid at the emission never exceed its amount.
THEOREM MoneyIsCollectedOnce ==
  ASSUME OneAtATime
  PROVE  Spec => []NeverCollectsTwice
<1>1. BillingInv /\ TurnInv => NeverCollectsTwice
  BY DEF BillingInv, TurnInv, Sound, PaidSound, RowWithin, ReadRow,
         NeverCollectsTwice
<1> QED BY <1>1, TurnInit, TurnNext, BillingInit, BillingNext, PTL DEF Spec

\* Status and balance then tell the same story whatever payments, notes,
\* listings, cancellations and crashes come in whatever order.
THEOREM StatusTellsTheBalance ==
  ASSUME OneAtATime
  PROVE  Spec => []SettledIffPaid
<1>1. BillingInv /\ TurnInv => SettledIffPaid
  BY DEF BillingInv, TypeOK, TurnInv, Sound, SettledSound, SettledIffPaid
<1> QED BY <1>1, TurnInit, TurnNext, BillingInit, BillingNext, PTL DEF Spec

\* And every credit note is worth its amount exactly once.
THEOREM NotesAreWorthTheirAmount ==
  ASSUME OneAtATime
  PROVE  Spec => []NotesCountOnce
<1>1. TurnInv => NotesCountOnce
  BY DEF TurnInv, Sound, NotesSound, NotesCountOnce, Invoices
<1> QED BY <1>1, TurnInit, TurnNext, BillingInit, BillingNext, PTL DEF Spec
=============================================================================
