--------------------------- MODULE InvoiceLedger ---------------------------
(***************************************************************************)
(* The invoices table: the money columns and the status of every document, *)
(* shared by the services that read and write them.  Documents are natural *)
(* numbers in order of creation (createdAt).                               *)
(***************************************************************************)
EXTENDS InvoiceRules, FiniteSets

CONSTANTS
  Documents,   \* the rows of the table
  Total,       \* Total[d]: the amount of document d, fixed at creation
  Customer     \* Customer[d]: whom document d bills

ASSUME DocumentsAssumption ==
  /\ Documents \subseteq Nat /\ IsFiniteSet(Documents)
  /\ Total \in [Documents -> Nat]
  /\ DOMAIN Customer = Documents

VARIABLES
  status,      \* invoice.status
  paid,        \* invoice.paidAmount
  balance,     \* invoice.balance
  credit       \* invoice.creditBalance: credit it left in the customer's favour

ledgerVars == <<status, paid, balance, credit>>

LedgerTypeOK ==
  /\ status \in [Documents -> Status]
  /\ paid \in [Documents -> Int]
  /\ balance \in [Documents -> Int]
  /\ credit \in [Documents -> Int]
=============================================================================
