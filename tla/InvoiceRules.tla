---------------------------- MODULE InvoiceRules ----------------------------
(***************************************************************************)
(* The pure rules every service applies to an invoice: which status a      *)
(* ledger position deserves, how a credit note lowers the balance of the   *)
(* invoice it corrects, which documents admit payments and notes.  Money   *)
(* is a natural number of units (Decimal arithmetic is exact, only order,  *)
(* addition and subtraction matter here); `late' stands for the test       *)
(* dueDate < startOfDay(now).                                              *)
(***************************************************************************)
EXTENDS Integers

Status == {"BORRADOR", "EMITIDA", "PARCIALMENTE_PAGADA", "PAGADA",
           "VENCIDA", "CANCELADA"}

Kind == {"FACTURA", "NOTA_CREDITO", "NOTA_DEBITO"}

\* Decimal.min, and the clamp `x.lessThan(0) ? 0 : x` of the balance writes.
Lesser(a, b) == IF a <= b THEN a ELSE b
AtLeastZero(n) == IF n < 0 THEN 0 ELSE n

\* Neither a draft nor a cancelled document changes status by being paid.
IsFrozen(status) == status \in {"CANCELADA", "BORRADOR"}

\* resolveInvoiceStatus: note that a partially paid invoice that is already
\* VENCIDA goes back to PARCIALMENTE_PAGADA the next time it is resolved.
ResolveInvoiceStatus(total, paid, late, current) ==
  IF IsFrozen(current) THEN current
  ELSE IF total - paid <= 0 THEN "PAGADA"
  ELSE IF paid > 0 THEN
         IF late /\ current # "VENCIDA" THEN "VENCIDA"
         ELSE "PARCIALMENTE_PAGADA"
  ELSE IF late THEN "VENCIDA"
  ELSE IF current = "VENCIDA" THEN "EMITIDA"
  ELSE current

IsOverdue(late, balance) == late /\ balance > 0

IsPayableDocument(kind) == kind # "NOTA_CREDITO"

IsNoteSourceStatus(status) ==
  status \in {"EMITIDA", "PARCIALMENTE_PAGADA", "PAGADA", "VENCIDA"}

(***************************************************************************)
(* applyCreditToInvoice: the position after a credit note of `amount' is   *)
(* applied to a position [balance, credit, status] of an invoice of value  *)
(* `total'.  What the balance cannot absorb becomes credit in favour of    *)
(* the customer.                                                           *)
(***************************************************************************)
ApplyCredit(total, late, pos, amount) ==
  IF IsFrozen(pos.status) \/ amount <= 0 THEN pos
  ELSE LET covered    == Lesser(amount, pos.balance)
           newBalance == pos.balance - covered
       IN  [balance |-> newBalance,
            credit  |-> pos.credit + (amount - covered),
            status  |-> ResolveInvoiceStatus(total, total - newBalance,
                                             late, pos.status)]

Position(total) == [balance : 0..total, credit : Nat, status : Status]
=============================================================================
