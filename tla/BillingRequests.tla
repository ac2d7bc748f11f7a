-------------------------- MODULE BillingRequests --------------------------
(***************************************************************************)
(* What the services that work on emitted documents share: the ledger, the *)
(* rows of payments, the notes of each invoice, and requests that read a   *)
(* row, decide on what they read and write later.  None of these writes is *)
(* conditional on the row still being what was read, except where a module *)
(* says so.                                                                *)
(***************************************************************************)
EXTENDS InvoiceLedger, Functions

CONSTANTS
  Requests,     \* slots for requests in flight
  KindOf,       \* documentKind
  Source,       \* Source[n]: redSourceId of a note, itself for an invoice
  Compensated,  \* Compensated[d]: what the emission of d paid with credit
  Amounts,      \* amounts that cashiers enter
  OneAtATime,   \* TRUE: one request at a time works on an invoice or its notes
  CanCrash      \* whether server instances stop

Notes == {d \in Documents : KindOf[d] # "FACTURA"}
Invoices == Documents \ Notes

ASSUME BillingAssumption ==
  /\ IsFiniteSet(Requests)
  /\ KindOf \in [Documents -> Kind]
  /\ Source \in [Documents -> Documents]
  /\ \A d \in Documents : /\ Source[d] \in Invoices
                          /\ d \in Invoices => Source[d] = d
                          /\ Customer[Source[d]] = Customer[d]
  /\ Compensated \in [Documents -> Nat]
  /\ \A d \in Documents : Compensated[d] <= Total[d]
  /\ \A d \in Notes : Compensated[d] = 0
  /\ Amounts \subseteq Nat \ {0}
  /\ OneAtATime \in BOOLEAN /\ CanCrash \in BOOLEAN

VARIABLES
  existing,   \* the documents created so far
  validated,  \* Factus: the documents it validated
  late,       \* the documents whose dueDate is past
  payments,   \* payments[d]: sum of the payment rows of d
  credited,   \* history: notes applied to d, in money
  taken,      \* credit of d that emissions of other invoices hold
  pc, work    \* a request: its next statement, and its locals

billingVars ==
  <<ledgerVars, existing, validated, late, payments, credited, taken, pc, work>>

None == -1
PC == {"idle", "sync", "view", "pay", "note", "create", "emit", "send",
       "persist", "reload", "apply", "cancel"}
Row == [status : Status, paid : Int, balance : Int, credit : Int,
        payments : Int]
NoRow == [status |-> "BORRADOR", paid |-> 0, balance |-> 0, credit |-> 0,
          payments |-> 0]
\* The locals of a request on document d, on note n of it, for an amount,
\* that goes on with goal and has read row.
Locals(d, n, amount, goal, row) ==
  [doc |-> d, note |-> n, amount |-> amount, goal |-> goal,
   verdict |-> "none", seen |-> row]
NoWork == Locals(None, None, 0, "view", NoRow)

\* findUnique including the payments.
ReadRow(d) == [status |-> status[d], paid |-> paid[d], balance |-> balance[d],
               credit |-> credit[d], payments |-> payments[d]]

Work == [doc : Documents \cup {None}, note : Documents \cup {None},
         amount : Amounts \cup {0}, goal : PC, seen : Row,
         verdict : {"none", "accepted", "rejected"}]

TypeOK ==
  /\ LedgerTypeOK
  /\ existing \subseteq Documents /\ validated \subseteq Documents
  /\ late \subseteq Invoices
  /\ payments \in [Documents -> Nat]
  /\ credited \in [Documents -> Nat]
  /\ taken \in [Documents -> Nat]
  /\ pc \in [Requests -> PC]
  /\ work \in [Requests -> Work]

\* The invoices were emitted, some of them paid in part with credit.
Init ==
  /\ status = [d \in Documents |-> IF d \in Notes THEN "BORRADOR"
                                                  ELSE "EMITIDA"]
  /\ paid = Compensated
  /\ balance = [d \in Documents |-> Total[d] - Compensated[d]]
  /\ credit = [d \in Documents |-> 0]
  /\ existing = Invoices
  /\ validated = Invoices
  /\ late = {}
  /\ payments = [d \in Documents |-> 0]
  /\ credited = [d \in Documents |-> 0]
  /\ taken = [d \in Documents |-> 0]
  /\ pc = [r \in Requests |-> "idle"]
  /\ work = [r \in Requests |-> NoWork]

-----------------------------------------------------------------------------
Free(d) ==
  OneAtATime =>
    \A q \in Requests : pc[q] # "idle" => Source[work[q].doc] # Source[d]

\* Request r starts on document d, which exists, with what it just read.
Start(r, d, label) ==
  /\ pc[r] = "idle"
  /\ d \in existing
  /\ Free(d)
  /\ pc' = [pc EXCEPT ![r] = label]

Goto(r, label) == pc' = [pc EXCEPT ![r] = label] /\ UNCHANGED work
Finish(r) ==
  pc' = [pc EXCEPT ![r] = "idle"] /\ work' = [work EXCEPT ![r] = NoWork]

Crash(r) ==
  /\ CanCrash
  /\ pc[r] # "idle"
  /\ Finish(r)
  /\ UNCHANGED <<ledgerVars, existing, validated, late, payments, credited, taken>>

-----------------------------------------------------------------------------
\* The due date of an invoice passes; notes have none.
FallDue(d) ==
  /\ d \in Invoices \ late
  /\ late' = late \cup {d}
  /\ UNCHANGED <<ledgerVars, existing, validated, payments, credited, taken,
                 pc, work>>

\* compensateWithCustomerCredit, when it commits, and refundCustomerCredit:
\* the emission of another invoice takes credit of d, or gives it back.
SpendCredit(d, n) ==
  /\ Free(d)
  /\ n <= credit[d]
  /\ credit' = [credit EXCEPT ![d] = @ - n]
  /\ taken' = [taken EXCEPT ![d] = @ + n]
  /\ UNCHANGED <<status, paid, balance, existing, validated, late, payments,
                 credited, pc, work>>

ReturnCredit(d, n) ==
  /\ Free(d)
  /\ n <= taken[d]
  /\ credit' = [credit EXCEPT ![d] = @ + n]
  /\ taken' = [taken EXCEPT ![d] = @ - n]
  /\ UNCHANGED <<status, paid, balance, existing, validated, late, payments,
                 credited, pc, work>>
=============================================================================
