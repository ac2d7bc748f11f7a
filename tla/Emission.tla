------------------------------ MODULE Emission ------------------------------
(***************************************************************************)
(* Emission of invoices through Factus (InvoicesService.emit and           *)
(* emitViaFactus): a request claims the customer's credit for the draft in *)
(* a transaction, sends the draft to Factus and writes the answer back.    *)
(* Each request is a process that advances one database statement or one   *)
(* call at a time.  PostgreSQL runs it at READ COMMITTED: a statement sees *)
(* what was committed before it, the row a transaction updates stays       *)
(* locked until the transaction ends, and an update that waited for a lock *)
(* re-evaluates its WHERE.  What a transaction has not committed is in     *)
(* claim[r] and not yet in the table.                                      *)
(***************************************************************************)
EXTENDS InvoiceLedger, Functions

CONSTANTS
  Requests,     \* slots for requests in flight
  Drafts,       \* the documents that start as drafts
  Granted,      \* Granted[d]: credit that earlier credit notes left on d
  From, To,     \* the numbers authorised by the resolution in use
  MaxAttempts,  \* MAX_ATTEMPTS of the claiming loop
  OneAtATime,   \* TRUE: nobody emits a draft that is already being emitted
  Faults        \* which of the faults below may happen

Fault == {"crash", "lost_reply", "db_error"}

ASSUME EmissionAssumption ==
  /\ IsFiniteSet(Requests)
  /\ Drafts \subseteq Documents
  /\ Granted \in [Documents -> Nat]
  /\ \A d \in Drafts : Granted[d] = 0
  /\ From \in Nat /\ To \in Nat /\ From <= To
  /\ MaxAttempts \in Nat
  /\ OneAtATime \in BOOLEAN
  /\ Faults \subseteq Fault

VARIABLES
  next,     \* resolution.next
  dian,     \* Factus: payment form of the bill it validated for a document
  pc,       \* the statement a request is about to execute
  job,      \* a request's document, and what it learnt outside the transaction
  tx,       \* locals of compensateWithCustomerCredit
  claim,    \* claim[r][s]: what request r took of the credit of s (`consumed')
  spent     \* history: credit of s taken for good by requests that are over

requestVars == <<pc, job, tx, claim, spent>>
vars == <<ledgerVars, next, dian, requestVars>>

None == -1   \* no document, no source: null
NoClaim == [s \in Documents |-> 0]
NoJob == [doc |-> None, range |-> 0, form |-> "none", verdict |-> "none"]
NoTx == [seenPaid |-> 0, seenStatus |-> "BORRADOR", need |-> 0, tries |-> 0,
         source |-> None, wanted |-> 0]

PaymentForm == {"none", "contado", "credito"}

InTransaction == {"pick", "claim", "commit"}
PC == InTransaction \cup
      {"idle", "compensate", "resolution", "payload", "send", "refund",
       "refundRejected", "persist", "consume", "recover"}

Job == [doc : Documents \cup {None}, range : Nat, form : PaymentForm,
        verdict : {"none", "accepted", "rejected"}]
Locals == [seenPaid : Int, seenStatus : Status, need : Int, tries : Nat,
           source : Documents \cup {None}, wanted : Int]

TypeOK ==
  /\ LedgerTypeOK
  /\ next \in Nat
  /\ dian \in [Documents -> PaymentForm]
  /\ pc \in [Requests -> PC]
  /\ job \in [Requests -> Job]
  /\ \A r \in Requests : pc[r] # "idle" => job[r].doc \in Documents
  /\ tx \in [Requests -> Locals]
  /\ \A r \in Requests : pc[r] = "claim" => tx[r].source \in Documents
  /\ claim \in [Requests -> [Documents -> Int]]
  /\ spent \in [Documents -> Int]

\* A source of credit is an invoice that was paid and then credited.
Init ==
  /\ status = [d \in Documents |-> IF d \in Drafts THEN "BORRADOR"
                                                   ELSE "PAGADA"]
  /\ paid = [d \in Documents |-> IF d \in Drafts THEN 0 ELSE Total[d]]
  /\ balance = [d \in Documents |-> IF d \in Drafts THEN Total[d] ELSE 0]
  /\ credit = Granted
  /\ next = From
  /\ dian = [d \in Documents |-> IF d \in Drafts THEN "none" ELSE "credito"]
  /\ pc = [r \in Requests |-> "idle"]
  /\ job = [r \in Requests |-> NoJob]
  /\ tx = [r \in Requests |-> NoTx]
  /\ claim = [r \in Requests |-> NoClaim]
  /\ spent = [d \in Documents |-> 0]

-----------------------------------------------------------------------------
\* Row locks: what an open transaction has decremented, nobody else updates.
Locked(r, s) ==
  \E q \in Requests \ {r} : pc[q] \in InTransaction /\ claim[q][s] > 0

Goto(r, label) == pc' = [pc EXCEPT ![r] = label]

\* The request is over: `consumed' and every other local are gone.
Finish(r) ==
  /\ pc' = [pc EXCEPT ![r] = "idle"]
  /\ job' = [job EXCEPT ![r] = NoJob]
  /\ tx' = [tx EXCEPT ![r] = NoTx]
  /\ claim' = [claim EXCEPT ![r] = NoClaim]

-----------------------------------------------------------------------------
\* emit: findOne, the check that the document is a draft, and no lock on it.
Emit(r, d) ==
  /\ pc[r] = "idle"
  /\ status[d] = "BORRADOR"
  /\ OneAtATime => \A q \in Requests : job[q].doc # d
  /\ Goto(r, "compensate")
  /\ job' = [job EXCEPT ![r].doc = d]
  /\ UNCHANGED <<ledgerVars, next, dian, tx, claim, spent>>

\* compensateWithCustomerCredit, first statement: the target is read.
Opened(d) ==
  [seenPaid |-> paid[d], seenStatus |-> status[d], need |-> Total[d] - paid[d],
   tries |-> 0, source |-> None, wanted |-> 0]

OpenCompensation(r) ==
  LET d == job[r].doc IN
  /\ pc[r] = "compensate"
  /\ \/ /\ Total[d] - paid[d] <= 0
        /\ Goto(r, "resolution")
        /\ UNCHANGED tx
     \/ /\ Total[d] - paid[d] > 0
        /\ Goto(r, "pick")
        /\ tx' = [tx EXCEPT ![r] = Opened(d)]
  /\ UNCHANGED <<ledgerVars, next, dian, job, claim, spent>>

\* findFirst: documents of the customer with credit, not yet claimed by r.
Sources(r) ==
  LET d == job[r].doc IN
  {s \in Documents \ {d} : /\ Customer[s] = Customer[d]
                           /\ claim[r][s] = 0
                           /\ credit[s] > 0}

MayClaimMore(r) == tx[r].need > 0 /\ tx[r].tries < MaxAttempts

PickSource(r) ==
  /\ pc[r] = "pick"
  /\ MayClaimMore(r)
  /\ \E s \in Sources(r) :
       /\ \A t \in Sources(r) : s <= t
       /\ tx' = [tx EXCEPT ![r].source = s,
                           ![r].wanted = Lesser(credit[s], tx[r].need),
                           ![r].tries = @ + 1]
  /\ Goto(r, "claim")
  /\ UNCHANGED <<ledgerVars, next, dian, job, claim, spent>>

StopClaiming(r) ==
  /\ pc[r] = "pick"
  /\ ~MayClaimMore(r) \/ Sources(r) = {}
  /\ IF \E s \in Documents : claim[r][s] > 0
     THEN Goto(r, "commit") /\ UNCHANGED tx
     ELSE Goto(r, "resolution") /\ tx' = [tx EXCEPT ![r] = NoTx]
  /\ UNCHANGED <<ledgerVars, next, dian, job, claim, spent>>

\* where creditBalance >= wanted, evaluated on the row as it is now; and the
\* same update guarded like the read, by creditBalance > 0.
CoversSome(r) == credit[tx[r].source] > 0
CoversWanted(r) == credit[tx[r].source] >= tx[r].wanted

\* A claim that came too late: `continue' reads again; and trying it again.
SameClaim == "claim"
AfterLateClaim == "pick"

\* updateMany: takes the row's lock.
ClaimSource(r) ==
  LET s == tx[r].source IN
  /\ pc[r] = "claim"
  /\ ~Locked(r, s)
  /\ IF CoversWanted(r)
     THEN /\ Goto(r, "pick")
          /\ claim' = [claim EXCEPT ![r][s] = tx[r].wanted]
          /\ tx' = [tx EXCEPT ![r].need = @ - tx[r].wanted,
                              ![r].source = None, ![r].wanted = 0]
     ELSE Goto(r, AfterLateClaim) /\ UNCHANGED <<claim, tx>>
  /\ UNCHANGED <<ledgerVars, next, dian, job, spent>>

\* appliedTotal is what the loop took off the initial need; and the amount of
\* the newest source alone.
NewestClaim(r) ==
  LET s == CHOOSE s \in Documents :
             claim[r][s] > 0 /\ \A t \in Documents : claim[r][t] > 0 => t <= s
  IN  claim[r][s]
AppliedTotal(r) == Total[job[r].doc] - tx[r].seenPaid - tx[r].need

\* paidAmount of the target, from the value read when the transaction opened;
\* and as an increment of the current value.
PaidIncrement(r) == paid[job[r].doc] + AppliedTotal(r)
NewPaid(r) == tx[r].seenPaid + AppliedTotal(r)

\* The target is written and the transaction commits.
CommitCompensation(r) ==
  LET d       == job[r].doc
      newPaid == NewPaid(r)
  IN
  /\ pc[r] = "commit"
  /\ ~Locked(r, d)
  /\ credit' = [s \in Documents |-> credit[s] - claim[r][s]]
  /\ paid' = [paid EXCEPT ![d] = newPaid]
  /\ balance' = [balance EXCEPT ![d] = AtLeastZero(Total[d] - newPaid)]
  /\ status' = [status EXCEPT ![d] =
       ResolveInvoiceStatus(Total[d], newPaid, FALSE, tx[r].seenStatus)]
  /\ Goto(r, "resolution")
  /\ tx' = [tx EXCEPT ![r] = NoTx]
  /\ UNCHANGED <<next, dian, job, claim, spent>>

\* The transaction is rolled back (deadlock victim, 5 s limit of Prisma's
\* transactions, lost connection): nothing was consumed, the error goes out.
AbortCompensation(r) ==
  /\ pc[r] \in InTransaction
  /\ Finish(r)
  /\ UNCHANGED <<ledgerVars, next, dian, spent>>

-----------------------------------------------------------------------------
\* emitViaFactus after the compensation.  The resolution is read once: the
\* test `next < to' of the consumption uses the value read here.
ReadResolution(r) ==
  /\ pc[r] = "resolution"
  /\ \/ /\ Goto(r, "payload")
        /\ job' = [job EXCEPT ![r].range = next]
     \/ Goto(r, "refund") /\ UNCHANGED job      \* none is synchronised
  /\ UNCHANGED <<ledgerVars, next, dian, tx, claim, spent>>

\* The draft is read again, after the compensation, and buildPayload derives
\* the payment form from it; also, a form that any payment makes "contado".
AnyPaymentForm(total, done) == IF done > 0 THEN "contado" ELSE "credito"
DianForm(total, done) ==
  IF done > 0 /\ total - done <= 0 THEN "contado" ELSE "credito"

BuildPayload(r) ==
  LET d == job[r].doc IN
  /\ pc[r] = "payload"
  /\ \/ /\ Goto(r, "send")
        /\ job' = [job EXCEPT ![r].form = DianForm(Total[d], paid[d])]
     \/ Goto(r, "refund") /\ UNCHANGED job      \* no company settings
  /\ UNCHANGED <<ledgerVars, next, dian, tx, claim, spent>>

\* Factus knows a document by its referenceCode: a second bill with the code
\* of a validated one is refused as already existing.
Accepted(r) ==
  LET d == job[r].doc IN
  /\ dian[d] = "none"
  /\ dian' = [dian EXCEPT ![d] = job[r].form]
  /\ job' = [job EXCEPT ![r].verdict = "accepted"]
  /\ Goto(r, "persist")

Rejected(r) ==
  /\ dian[job[r].doc] = "none"
  /\ job' = [job EXCEPT ![r].verdict = "rejected"]
  /\ Goto(r, "refundRejected")
  /\ UNCHANGED dian

\* An error of the call, a bill that already exists, an answer without number.
SendFailed(r) ==
  Goto(r, "refund") /\ UNCHANGED <<dian, job>>

\* The call fails on our side and the bill was validated all the same.
ReplyLost(r) ==
  LET d == job[r].doc IN
  /\ "lost_reply" \in Faults
  /\ dian[d] = "none"
  /\ dian' = [dian EXCEPT ![d] = job[r].form]
  /\ Goto(r, "refund")
  /\ UNCHANGED job

Send(r) ==
  /\ pc[r] = "send"
  /\ Accepted(r) \/ Rejected(r) \/ SendFailed(r) \/ ReplyLost(r)
  /\ UNCHANGED <<ledgerVars, next, tx, claim, spent>>

-----------------------------------------------------------------------------
\* refundCustomerCredit: every claim goes back to its source, and nothing
\* else; the paidAmount the claim had paid for is not touched.  And a refund
\* that returns after the first entry.
RefundedFirst(r) ==
  [s \in Documents |->
     credit[s] + (IF \E t \in Documents : t < s /\ claim[r][t] > 0
                  THEN 0 ELSE claim[r][s])]
Refunded(r) == [s \in Documents |-> credit[s] + claim[r][s]]

MayRefund(r) == \A s \in Documents : claim[r][s] > 0 => ~Locked(r, s)

\* Before anything was validated: refund, and BadRequestException.
Refund(r) ==
  /\ pc[r] = "refund"
  /\ MayRefund(r)
  /\ credit' = Refunded(r)
  /\ Finish(r)
  /\ UNCHANGED <<status, paid, balance, next, dian, spent>>

\* The DIAN rejected the bill: refund, and go on to write the draft back.
RefundRejected(r) ==
  /\ pc[r] = "refundRejected"
  /\ MayRefund(r)
  /\ credit' = Refunded(r)
  /\ Goto(r, "persist")
  /\ UNCHANGED <<status, paid, balance, next, dian, job, tx, claim, spent>>

\* What request r took and has not given back is gone when r is over.
Held(r) ==
  [s \in Documents |->
     IF pc[r] \in InTransaction \/ (pc[r] = "persist"
                                    /\ job[r].verdict = "rejected")
     THEN 0 ELSE claim[r][s]]

Keep(r) == spent' = [s \in Documents |-> spent[s] + Held(r)[s]]

\* The answer is written unconditionally: status BORRADOR when rejected.  And
\* two slips: the verdict not looked at, the DIAN's own word written.
AlwaysEmitted(r) == "EMITIDA"
DianWord(r) == IF job[r].verdict = "rejected" THEN "RECHAZADA" ELSE "EMITIDA"
WrittenStatus(r) ==
  IF job[r].verdict = "rejected" THEN "BORRADOR" ELSE "EMITIDA"

\* Only a valid document uses its number up; and a test of the range alone.
ConsumesInRange(r) == job[r].range < To
Consumes(r) == job[r].verdict = "accepted" /\ job[r].range < To

Persist(r) ==
  LET d == job[r].doc IN
  /\ pc[r] = "persist"
  /\ ~Locked(r, d)
  /\ status' = [status EXCEPT ![d] = WrittenStatus(r)]
  /\ IF Consumes(r)
     THEN Goto(r, "consume") /\ UNCHANGED <<job, tx, claim, spent>>
     ELSE Finish(r) /\ Keep(r)
  /\ UNCHANGED <<paid, balance, credit, next, dian>>

\* resolution.update next increment 1: no condition on the current value.
Consume(r) ==
  /\ pc[r] = "consume"
  /\ next' = next + 1
  /\ Finish(r)
  /\ Keep(r)
  /\ UNCHANGED <<ledgerVars, dian>>

\* The catch of emitViaFactus refunds whatever statement failed before it,
\* and swallows the failure of this refund.
Recover(r) ==
  /\ pc[r] = "recover"
  /\ \/ MayRefund(r) /\ credit' = Refunded(r) /\ UNCHANGED spent
     \/ Keep(r) /\ UNCHANGED credit
  /\ Finish(r)
  /\ UNCHANGED <<status, paid, balance, next, dian>>

-----------------------------------------------------------------------------
\* A statement fails.
DbError(r) ==
  /\ "db_error" \in Faults
  /\ pc[r] \in {"resolution", "payload", "refund", "refundRejected",
                "persist", "consume"}
  /\ Goto(r, "recover")
  /\ UNCHANGED <<ledgerVars, next, dian, job, tx, claim, spent>>

\* The server instance that runs r stops.
Crash(r) ==
  /\ "crash" \in Faults
  /\ pc[r] # "idle"
  /\ Finish(r)
  /\ Keep(r)
  /\ UNCHANGED <<ledgerVars, next, dian>>

\* One statement of request r.
Advance(r) ==
  \/ OpenCompensation(r) \/ PickSource(r) \/ StopClaiming(r)
  \/ ClaimSource(r) \/ CommitCompensation(r)
  \/ ReadResolution(r) \/ BuildPayload(r) \/ Send(r)
  \/ Refund(r) \/ RefundRejected(r) \/ Persist(r) \/ Consume(r) \/ Recover(r)

Next ==
  \E r \in Requests :
    \/ \E d \in Drafts : Emit(r, d)
    \/ Advance(r)
    \/ AbortCompensation(r)
    \/ DbError(r)
    \/ Crash(r)

Spec == Init /\ [][Next]_vars

\* A transaction that waits for a row longer than 5 s is closed by Prisma.
AbortBlocked(r) == pc[r] = "claim" /\ Locked(r, tx[r].source)
                   /\ AbortCompensation(r)

\* The event loop gets to every statement that can run and every call to
\* Factus ends.  Strong fairness, because PostgreSQL queues those that wait for
\* a row: others cannot take it again and again before them.  Nobody has to
\* emit, and nothing has to fail.
Fairness == \A r \in Requests : SF_vars(Advance(r)) /\ WF_vars(AbortBlocked(r))

FairSpec == Spec /\ Fairness

-----------------------------------------------------------------------------
(* Safety.                                                                 *)

\* The `gte' of the claim's updateMany: however claims interleave, the credit
\* of an invoice is never overdrawn.
CreditNeverNegative == \A d \in Documents : credit[d] >= 0

\* Every unit of credit is either still on its source, held by one request in
\* flight, or taken by one that is over: emissions that race for it, fail,
\* are rejected or refunded neither lose nor mint credit.
RefundExactlyOnce ==
  \A s \in Documents :
    credit[s] + SumFunction([r \in Requests |-> Held(r)[s]]) + spent[s]
      = Granted[s]

\* The two money columns the emission writes agree, and the compensation never
\* pays more than the draft is worth.
LedgerBalanced ==
  \A d \in Documents : /\ paid[d] + balance[d] = Total[d]
                       /\ 0 <= paid[d] /\ paid[d] <= Total[d]

\* A document leaves the draft status only if the DIAN validated it: no
\* rejection, lost answer or race of two emissions makes it look emitted.
EmittedIsValidated ==
  \A d \in Documents : status[d] # "BORRADOR" => dian[d] # "none"

\* `next' mirrors what Factus numbered: it never counts a bill that was
\* rejected, failed or answered twice.
NextNeverAhead ==
  next - From <= Cardinality({d \in Drafts : dian[d] # "none"})

\* What the DIAN was told agrees with the ledger the emission left: "contado"
\* exactly for an invoice that the credit paid in full.
FormMatchesLedger ==
  \A d \in Drafts : status[d] = "EMITIDA" =>
    (dian[d] = "contado" <=> paid[d] > 0 /\ balance[d] = 0)

\* Credit leaves a source only to pay for a draft of the same customer, in
\* the same transaction: no crash and no failed statement loses it.
CustomerDocuments(c) == {d \in Documents : Customer[d] = c}
CompensatedBy(c) == SumFunctionOnSet(paid, CustomerDocuments(c) \cap Drafts)
CreditOf(c) == SumFunctionOnSet(credit, CustomerDocuments(c))
GrantedTo(c) == SumFunctionOnSet(Granted, CustomerDocuments(c))

CreditNeverVanishes ==
  \A d \in Documents :
    LET c == Customer[d]
    IN  CompensatedBy(c) + CreditOf(c) >= GrantedTo(c)

\* The other half, which the code documents and does not keep (a rejected
\* document does not spend the customer's credit, nor is it spent twice): what
\* is marked as paid with credit is not available as credit any more.
CreditNotSpentTwice ==
  \A d \in Documents :
    LET c == Customer[d]
    IN  CompensatedBy(c) + CreditOf(c) <= GrantedTo(c)

\* `next' must not pass `to', the last number the DIAN authorised.
NextWithinRange == next <= To

(* Liveness.                                                               *)

\* Every emission ends, with or without credit to be had: the loop gives up
\* after MAX_ATTEMPTS, the locks of two transactions do not wait forever.
EmissionTerminates == \A r \in Requests : pc[r] # "idle" ~> pc[r] = "idle"
=============================================================================
