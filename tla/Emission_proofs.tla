--------------------------- MODULE Emission_proofs ---------------------------
(***************************************************************************)
(* Proofs about Emission, for every set of documents, every amount, every  *)
(* number of requests and every combination of faults.                     *)
(***************************************************************************)
EXTENDS Emission, Sums_proofs

USE DocumentsAssumption, EmissionAssumption

-----------------------------------------------------------------------------
(* Facts about the operators.                                              *)

\* Resolving a status yields a status, whatever the amounts.
LEMMA ResolveStatusType ==
  ASSUME NEW t, NEW p, NEW late, NEW current \in Status
  PROVE  ResolveInvoiceStatus(t, p, late, current) \in Status
BY DEF ResolveInvoiceStatus, IsFrozen, Status

\* The locals of a request that is not in flight have the right types.
LEMMA EmptyLocals ==
  NoJob \in Job /\ NoTx \in Locals /\ NoClaim \in [Documents -> Int]
BY DEF NoJob, Job, NoTx, Locals, NoClaim, PaymentForm, Status

\* Claims, refunds and histories are maps from documents to integers.
LEMMA MoneyMaps ==
  ASSUME TypeOK, NEW r \in Requests
  PROVE  /\ Refunded(r) \in [Documents -> Int]
         /\ Held(r) \in [Documents -> Int]
         /\ Keep(r) => spent' \in [Documents -> Int]
BY DEF TypeOK, LedgerTypeOK, Refunded, Held, Keep

\* A request that is over leaves well typed locals behind.
LEMMA FinishType ==
  ASSUME TypeOK, NEW r \in Requests, Finish(r)
  PROVE  /\ pc' \in [Requests -> PC]
         /\ job' \in [Requests -> Job]
         /\ tx' \in [Requests -> Locals]
         /\ claim' \in [Requests -> [Documents -> Int]]
         /\ \A q \in Requests : pc'[q] # "idle" => job'[q].doc \in Documents
         /\ \A q \in Requests : pc'[q] = "claim" => tx'[q].source \in Documents
BY EmptyLocals DEF Finish, TypeOK, PC

\* A jump moves one request.
LEMMA GotoType ==
  ASSUME TypeOK, NEW r \in Requests, NEW label \in PC, Goto(r, label)
  PROVE  /\ pc' \in [Requests -> PC]
         /\ pc'[r] = label
         /\ \A q \in Requests \ {r} : pc'[q] = pc[q]
BY DEF Goto, TypeOK

\* What a request learns outside the transaction never changes its document.
LEMMA JobType ==
  ASSUME TypeOK, NEW r \in Requests,
         \/ job' = [job EXCEPT ![r].range = next]
         \/ \E f \in PaymentForm : job' = [job EXCEPT ![r].form = f]
         \/ \E v \in {"accepted", "rejected"} :
              job' = [job EXCEPT ![r].verdict = v]
  PROVE  /\ job' \in [Requests -> Job]
         /\ \A q \in Requests : job'[q].doc = job[q].doc
<1>1. job \in [Requests -> Job] /\ next \in Nat
  BY DEF TypeOK
<1>2. CASE job' = [job EXCEPT ![r].range = next]
  BY <1>1, <1>2 DEF Job
<1>3. CASE \E f \in PaymentForm : job' = [job EXCEPT ![r].form = f]
  BY <1>1, <1>3 DEF Job
<1>4. CASE \E v \in {"accepted", "rejected"} :
             job' = [job EXCEPT ![r].verdict = v]
  BY <1>1, <1>4 DEF Job
<1> QED BY <1>2, <1>3, <1>4

-----------------------------------------------------------------------------
(* Type correctness.                                                       *)

LEMMA TypeInit == Init => TypeOK
<1> SUFFICES ASSUME Init PROVE TypeOK
  OBVIOUS
<1>1. LedgerTypeOK
  BY DEF Init, LedgerTypeOK, Status
<1>2. dian \in [Documents -> PaymentForm]
  BY DEF Init, PaymentForm
<1>3. /\ pc \in [Requests -> PC]
      /\ job \in [Requests -> Job]
      /\ tx \in [Requests -> Locals]
      /\ claim \in [Requests -> [Documents -> Int]]
  BY EmptyLocals DEF Init, PC
<1> QED BY <1>1, <1>2, <1>3 DEF Init, TypeOK

\* The statements of a request.
LEMMA TypeAdvance ==
  ASSUME TypeOK, NEW r \in Requests, Advance(r)
  PROVE  TypeOK'
<1> DEFINE d == job[r].doc
<1>1. CASE OpenCompensation(r)
  <2>1. /\ pc[r] # "idle" /\ d \in Documents
        /\ paid[d] \in Int /\ Total[d] \in Nat /\ status[d] \in Status
    BY <1>1 DEF OpenCompensation, TypeOK, LedgerTypeOK
  <2>2. Opened(d) \in Locals /\ NoTx \in Locals
    BY <2>1, EmptyLocals DEF Opened, Locals
  <2>3. tx' \in [Requests -> Locals] /\ \E l \in {"resolution", "pick"} : Goto(r, l)
    BY <1>1, <2>2 DEF OpenCompensation, TypeOK
  <2>4. {"resolution", "pick"} \subseteq PC
    BY DEF PC, InTransaction
  <2> QED BY <1>1, <2>1, <2>3, <2>4, GotoType
      DEF OpenCompensation, TypeOK, LedgerTypeOK, ledgerVars
<1>2. CASE PickSource(r)
  <2>1. PICK s \in Sources(r) :
          tx' = [tx EXCEPT ![r].source = s,
                           ![r].wanted = Lesser(credit[s], tx[r].need),
                           ![r].tries = @ + 1]
    BY <1>2 DEF PickSource
  <2>2. s \in Documents /\ Lesser(credit[s], tx[r].need) \in Int
    BY DEF Sources, Lesser, TypeOK, LedgerTypeOK, Locals
  <2>3. tx' \in [Requests -> Locals] /\ tx'[r].source \in Documents
    BY <2>1, <2>2 DEF TypeOK, Locals
  <2> QED BY <1>2, <2>1, <2>3
      DEF PickSource, Goto, TypeOK, LedgerTypeOK, ledgerVars, PC, InTransaction
<1>3. CASE StopClaiming(r)
  BY <1>3, EmptyLocals
  DEF StopClaiming, Goto, TypeOK, LedgerTypeOK, ledgerVars, PC, InTransaction
<1>4. CASE ClaimSource(r)
  <2>1. tx[r].source \in Documents /\ tx[r].wanted \in Int /\ tx[r] \in Locals
    BY <1>4 DEF ClaimSource, TypeOK, Locals
  <2>2. /\ tx' \in [Requests -> Locals]
        /\ \A q \in Requests \ {r} : tx'[q] = tx[q]
    BY <1>4, <2>1 DEF ClaimSource, TypeOK, Locals
  <2>3. claim' \in [Requests -> [Documents -> Int]]
    <3>1. claim[r] \in [Documents -> Int]
      BY DEF TypeOK
    <3>2. [claim[r] EXCEPT ![tx[r].source] = tx[r].wanted] \in [Documents -> Int]
      BY <2>1, <3>1
    <3> QED BY <1>4, <2>1, <3>2, SMTT(30) DEF ClaimSource, TypeOK
  <2>4. /\ pc' \in [Requests -> PC] /\ pc'[r] = "pick"
        /\ \A q \in Requests \ {r} : pc'[q] = pc[q]
    BY <1>4 DEF ClaimSource, AfterLateClaim, Goto, TypeOK, PC, InTransaction
  <2> QED BY <1>4, <2>2, <2>3, <2>4 DEF ClaimSource, TypeOK, LedgerTypeOK, ledgerVars
<1>5. CASE CommitCompensation(r)
  <2>1. d \in Documents /\ Total[d] \in Nat /\ tx[r] \in Locals
    BY <1>5 DEF CommitCompensation, TypeOK
  <2>2. NewPaid(r) \in Int
    BY <2>1 DEF NewPaid, AppliedTotal, Locals
  <2>3. AtLeastZero(Total[d] - NewPaid(r)) \in Int
    BY <2>1, <2>2 DEF AtLeastZero
  <2>4. ResolveInvoiceStatus(Total[d], NewPaid(r), FALSE, tx[r].seenStatus)
          \in Status
    BY <2>1, ResolveStatusType DEF Locals
  <2>5. LedgerTypeOK'
    <3>1. credit' \in [Documents -> Int]
      BY <1>5 DEF CommitCompensation, TypeOK, LedgerTypeOK
    <3>2. paid' \in [Documents -> Int] /\ balance' \in [Documents -> Int]
      BY <1>5, <2>2, <2>3 DEF CommitCompensation, TypeOK, LedgerTypeOK
    <3>3. status' \in [Documents -> Status]
      BY <1>5, <2>4 DEF CommitCompensation, TypeOK, LedgerTypeOK
    <3> QED BY <3>1, <3>2, <3>3 DEF LedgerTypeOK
  <2>6. tx' \in [Requests -> Locals] /\ "resolution" \in PC
    BY <1>5, EmptyLocals DEF CommitCompensation, TypeOK, PC
  <2> QED BY <1>5, <2>1, <2>5, <2>6, GotoType DEF CommitCompensation, TypeOK
<1>6. CASE ReadResolution(r)
  <2>1. {"payload", "refund"} \subseteq PC
    BY DEF PC
  <2>2. /\ job' \in [Requests -> Job]
        /\ \A q \in Requests : job'[q].doc = job[q].doc
    BY <1>6, JobType DEF ReadResolution, TypeOK
  <2>3. /\ pc' \in [Requests -> PC] /\ pc'[r] \in {"payload", "refund"}
        /\ pc[r] = "resolution"
        /\ \A q \in Requests \ {r} : pc'[q] = pc[q]
    BY <1>6, <2>1, GotoType DEF ReadResolution
  <2>4. UNCHANGED <<ledgerVars, next, dian, tx, claim, spent>>
    BY <1>6 DEF ReadResolution
  <2> QED BY <2>2, <2>3, <2>4 DEF TypeOK, LedgerTypeOK, ledgerVars
<1>7. CASE BuildPayload(r)
  <2>1. DianForm(Total[d], paid[d]) \in PaymentForm
    BY DEF DianForm, PaymentForm
  <2>2. {"send", "refund"} \subseteq PC
    BY DEF PC
  <2>3. job' \in [Requests -> Job] /\ \A q \in Requests : job'[q].doc = job[q].doc
    BY <1>7, <2>1, JobType DEF BuildPayload, TypeOK
  <2> QED BY <1>7, <2>2, <2>3, GotoType
      DEF BuildPayload, TypeOK, LedgerTypeOK, ledgerVars
<1>8. CASE Send(r)
  <2>1. job[r].form \in PaymentForm /\ d \in Documents
    BY <1>8 DEF Send, TypeOK, Job
  <2> {"persist", "refundRejected", "refund"} \subseteq PC
    BY DEF PC
  <2>2. CASE Accepted(r)
    <3>1. job' \in [Requests -> Job] /\ \A q \in Requests : job'[q].doc = job[q].doc
      BY <2>2, JobType DEF Accepted
    <3>2. dian' \in [Documents -> PaymentForm]
      BY <2>1, <2>2 DEF Accepted, TypeOK
    <3> QED BY <1>8, <2>2, <3>1, <3>2, GotoType
        DEF Send, Accepted, TypeOK, LedgerTypeOK, ledgerVars
  <2>3. CASE Rejected(r)
    <3>1. job' \in [Requests -> Job] /\ \A q \in Requests : job'[q].doc = job[q].doc
      BY <2>3, JobType DEF Rejected
    <3> QED BY <1>8, <2>3, <3>1, GotoType
        DEF Send, Rejected, TypeOK, LedgerTypeOK, ledgerVars
  <2>4. CASE SendFailed(r)
    BY <1>8, <2>4, GotoType
    DEF Send, SendFailed, TypeOK, LedgerTypeOK, ledgerVars
  <2>5. CASE ReplyLost(r)
    BY <1>8, <2>1, <2>5, GotoType
    DEF Send, ReplyLost, TypeOK, LedgerTypeOK, ledgerVars
  <2> QED BY <1>8, <2>2, <2>3, <2>4, <2>5 DEF Send
<1>9. CASE Refund(r)
  BY <1>9, FinishType, MoneyMaps DEF Refund, TypeOK, LedgerTypeOK
<1>10. CASE RefundRejected(r)
  BY <1>10, MoneyMaps
  DEF RefundRejected, Goto, TypeOK, LedgerTypeOK, ledgerVars, PC, InTransaction
<1>11. CASE Persist(r)
  <2>1. status' \in [Documents -> Status]
    BY <1>11 DEF Persist, WrittenStatus, TypeOK, LedgerTypeOK, Status
  <2>2. CASE Consumes(r)
    BY <1>11, <2>1, <2>2
    DEF Persist, Goto, TypeOK, LedgerTypeOK, ledgerVars, PC, InTransaction
  <2>3. CASE ~Consumes(r)
    BY <1>11, <2>1, <2>3, FinishType, MoneyMaps
    DEF Persist, TypeOK, LedgerTypeOK
  <2> QED BY <2>2, <2>3
<1>12. CASE Consume(r)
  BY <1>12, FinishType, MoneyMaps
  DEF Consume, TypeOK, LedgerTypeOK, ledgerVars
<1>13. CASE Recover(r)
  BY <1>13, FinishType, MoneyMaps DEF Recover, TypeOK, LedgerTypeOK
<1> QED BY <1>1, <1>2, <1>3, <1>4, <1>5, <1>6, <1>7, <1>8, <1>9, <1>10,
           <1>11, <1>12, <1>13 DEF Advance

\* Faults, and a rolled back transaction.
LEMMA TypeFault ==
  ASSUME TypeOK, NEW r \in Requests,
         AbortCompensation(r) \/ DbError(r) \/ Crash(r)
  PROVE  TypeOK'
<1>1. CASE AbortCompensation(r)
  BY <1>1, FinishType
  DEF AbortCompensation, TypeOK, LedgerTypeOK, ledgerVars
<1>2. CASE DbError(r)
  <2>1. "recover" \in PC /\ pc[r] # "idle"
    BY <1>2 DEF DbError, PC
  <2> QED BY <1>2, <2>1, GotoType
      DEF DbError, TypeOK, LedgerTypeOK, ledgerVars
<1>3. CASE Crash(r)
  BY <1>3, FinishType, MoneyMaps DEF Crash, TypeOK, LedgerTypeOK, ledgerVars
<1> QED BY <1>1, <1>2, <1>3

LEMMA TypeEmit ==
  ASSUME TypeOK, NEW r \in Requests, NEW d \in Drafts, Emit(r, d)
  PROVE  TypeOK'
<1>1. job' \in [Requests -> Job] /\ job'[r].doc \in Documents
      /\ \A q \in Requests \ {r} : job'[q] = job[q]
  <2>1. job \in [Requests -> Job] /\ d \in Documents
    BY DEF TypeOK
  <2> QED BY <2>1 DEF Emit, Job
<1>2. "compensate" \in PC
  BY DEF PC
<1> QED BY <1>1, <1>2, GotoType DEF Emit, TypeOK, LedgerTypeOK, ledgerVars

\* TypeOK is preserved by every step.
LEMMA TypeNext == TypeOK /\ [Next]_vars => TypeOK'
<1> SUFFICES ASSUME TypeOK, [Next]_vars PROVE TypeOK'
  OBVIOUS
<1>1. CASE Next
  BY <1>1, TypeEmit, TypeAdvance, TypeFault DEF Next
<1>2. CASE UNCHANGED vars
  BY <1>2 DEF vars, ledgerVars, requestVars, TypeOK, LedgerTypeOK
<1> QED BY <1>1, <1>2

\* In every reachable state the columns, the program counters and the locals
\* of the requests hold values of their types: amounts are numbers, a request
\* in flight has a document, a claim about to be made has a source.
THEOREM TypeCorrect == Spec => []TypeOK
BY TypeInit, TypeNext, PTL DEF Spec

-----------------------------------------------------------------------------
(* Credit is never overdrawn.  Inductive only together with what an open   *)
(* transaction knows: the rows it decremented are locked, so what it took  *)
(* is still there when it commits, and no other transaction took it too.   *)

ClaimSound(r) ==
  /\ \A s \in Documents : claim[r][s] >= 0
  /\ pc[r] \in {"idle", "compensate"} => claim[r] = NoClaim
  /\ pc[r] \in InTransaction => \A s \in Documents : claim[r][s] <= credit[s]
  /\ pc[r] = "claim" => tx[r].wanted > 0

ClaimsSound == \A r \in Requests : ClaimSound(r)

ClaimsExclusive ==
  \A q, r \in Requests :
    q # r /\ pc[q] \in InTransaction /\ pc[r] \in InTransaction =>
      \A s \in Documents : claim[q][s] = 0 \/ claim[r][s] = 0

CreditInv == TypeOK /\ CreditNeverNegative /\ ClaimsSound /\ ClaimsExclusive

LEMMA CreditInit == Init => CreditInv
<1> SUFFICES ASSUME Init PROVE CreditInv
  OBVIOUS
<1>1. TypeOK
  BY TypeInit
<1>2. CreditNeverNegative
  BY DEF Init, CreditNeverNegative
<1>3. ClaimsSound /\ ClaimsExclusive
  BY DEF Init, ClaimsSound, ClaimSound, ClaimsExclusive, NoClaim, InTransaction
<1> QED BY <1>1, <1>2, <1>3 DEF CreditInv

\* A request outside a transaction, and one that is over, disturbs nothing as
\* long as no credit is taken away.
LEMMA OutsideTransaction ==
  ASSUME CreditInv, TypeOK', NEW r \in Requests,
         \A s \in Documents : credit'[s] >= credit[s],
         \/ Finish(r)
         \/ /\ \A q \in Requests \ {r} : pc'[q] = pc[q]
            /\ pc'[r] \notin InTransaction \cup {"idle", "compensate"}
            /\ claim' = claim
            /\ \A q \in Requests \ {r} : tx'[q] = tx[q]
  PROVE  CreditInv'
<1>1. /\ \A q \in Requests \ {r} : /\ pc'[q] = pc[q] /\ tx'[q] = tx[q]
                                   /\ claim'[q] = claim[q]
      /\ claim'[r] = claim[r] \/ claim'[r] = NoClaim
      /\ pc'[r] \notin InTransaction
      /\ pc'[r] \in {"idle", "compensate"} => claim'[r] = NoClaim
  BY DEF Finish, InTransaction, CreditInv, TypeOK
<1>2. CreditNeverNegative'
  BY DEF CreditInv, CreditNeverNegative, TypeOK, LedgerTypeOK
<1>3. ClaimsSound'
  <2> SUFFICES ASSUME NEW q \in Requests PROVE ClaimSound(q)'
    BY DEF ClaimsSound
  <2>1. ClaimSound(q)
    BY DEF CreditInv, ClaimsSound
  <2>2. CASE q = r
    BY <1>1, <2>1, <2>2 DEF ClaimSound, NoClaim, InTransaction
  <2>3. CASE q # r
    <3>1. /\ claim[q] \in [Documents -> Int]
          /\ credit \in [Documents -> Int] /\ credit' \in [Documents -> Int]
      BY DEF CreditInv, TypeOK, LedgerTypeOK
    <3> QED BY <1>1, <2>1, <2>3, <3>1 DEF ClaimSound
  <2> QED BY <2>2, <2>3
<1>4. ClaimsExclusive'
  <2> SUFFICES ASSUME NEW q \in Requests, NEW p \in Requests, q # p,
                      pc'[q] \in InTransaction, pc'[p] \in InTransaction,
                      NEW s \in Documents
               PROVE  claim'[q][s] = 0 \/ claim'[p][s] = 0
    BY DEF ClaimsExclusive
  <2>1. q # r /\ p # r
    BY <1>1
  <2>2. /\ pc[q] \in InTransaction /\ pc[p] \in InTransaction
        /\ claim'[q] = claim[q] /\ claim'[p] = claim[p]
    BY <1>1, <2>1
  <2>3. claim[q][s] = 0 \/ claim[p][s] = 0
    BY <2>2 DEF CreditInv, ClaimsExclusive
  <2> QED BY <2>2, <2>3
<1> QED BY <1>2, <1>3, <1>4 DEF CreditInv

\* Inside its transaction a request takes what nobody holds, and only the
\* commit changes the table.
LEMMA InsideTransaction ==
  ASSUME CreditInv, TypeOK', NEW r \in Requests,
         \/ OpenCompensation(r) \/ PickSource(r) \/ StopClaiming(r)
         \/ ClaimSource(r) \/ CommitCompensation(r)
  PROVE  CreditInv'
<1> USE DEF CreditInv
<1>0. /\ TypeOK /\ TypeOK'
      /\ \A q \in Requests : ClaimSound(q)
      /\ \A q \in Requests : claim[q] \in [Documents -> Int]
      /\ \A q \in Requests : claim'[q] \in [Documents -> Int]
      /\ credit \in [Documents -> Int] /\ credit' \in [Documents -> Int]
  BY DEF ClaimsSound, TypeOK, LedgerTypeOK
<1>1. CASE OpenCompensation(r)
  <2>1. /\ claim' = claim /\ credit' = credit /\ claim[r] = NoClaim
        /\ pc'[r] \in {"resolution", "pick"}
        /\ \A q \in Requests \ {r} : pc'[q] = pc[q] /\ tx'[q] = tx[q]
    BY <1>0, <1>1 DEF OpenCompensation, Goto, ClaimSound, TypeOK, ledgerVars
  <2>2. ClaimsSound'
    <3>1. ClaimSound(r)'
      BY <1>0, <2>1 DEF ClaimSound, NoClaim, CreditNeverNegative
    <3>2. \A q \in Requests \ {r} : ClaimSound(q)'
      BY <1>0, <2>1 DEF ClaimSound
    <3> QED BY <3>1, <3>2 DEF ClaimsSound
  <2>3. ASSUME NEW q \in Requests, NEW p \in Requests, q # p, NEW s \in Documents,
               pc'[q] \in InTransaction, pc'[p] \in InTransaction
        PROVE  claim'[q][s] = 0 \/ claim'[p][s] = 0
    <3>1. claim'[r][s] = 0
      BY <2>1 DEF NoClaim
    <3>2. CASE q = r \/ p = r
      BY <3>1, <3>2
    <3>3. CASE q # r /\ p # r
      <4>1. pc[q] \in InTransaction /\ pc[p] \in InTransaction
        BY <2>1, <2>3, <3>3
      <4>2. claim[q][s] = 0 \/ claim[p][s] = 0
        BY <2>3, <4>1 DEF ClaimsExclusive
      <4> QED BY <2>1, <4>2
    <3> QED BY <3>2, <3>3
  <2>4. ClaimsExclusive'
    BY <2>3 DEF ClaimsExclusive
  <2> QED BY <1>0, <2>1, <2>2, <2>4 DEF CreditNeverNegative
<1>2. CASE PickSource(r)
  <2>1. /\ claim' = claim /\ credit' = credit
        /\ pc[r] = "pick" /\ pc'[r] = "claim"
        /\ \A q \in Requests \ {r} : pc'[q] = pc[q] /\ tx'[q] = tx[q]
    BY <1>0, <1>2 DEF PickSource, Goto, TypeOK, ledgerVars
  <2>2. tx'[r].wanted > 0
    <3>1. PICK s \in Sources(r) :
            tx' = [tx EXCEPT ![r].source = s,
                             ![r].wanted = Lesser(credit[s], tx[r].need),
                             ![r].tries = @ + 1]
      BY <1>2 DEF PickSource
    <3>2. tx[r].need \in Int /\ tx[r].need > 0
      BY <1>0, <1>2 DEF PickSource, MayClaimMore, TypeOK, Locals
    <3>3. s \in Documents /\ credit[s] \in Int /\ credit[s] > 0
      BY <1>0 DEF Sources
    <3>4. Lesser(credit[s], tx[r].need) > 0
      BY <3>2, <3>3 DEF Lesser
    <3> QED BY <1>0, <3>1, <3>4 DEF TypeOK, Locals
  <2>3. ClaimsSound'
    BY <1>0, <2>1, <2>2 DEF ClaimsSound, ClaimSound, InTransaction
  <2>4. ClaimsExclusive'
    BY <2>1 DEF ClaimsExclusive, InTransaction
  <2> QED BY <1>0, <2>1, <2>3, <2>4 DEF CreditNeverNegative
<1>3. CASE StopClaiming(r)
  <2>1. /\ claim' = claim /\ credit' = credit
        /\ pc[r] = "pick" /\ pc'[r] \in {"commit", "resolution"}
        /\ \A q \in Requests \ {r} : pc'[q] = pc[q] /\ tx'[q] = tx[q]
    BY <1>0, <1>3 DEF StopClaiming, Goto, TypeOK, ledgerVars
  <2>2. ClaimsSound'
    BY <1>0, <2>1 DEF ClaimsSound, ClaimSound, InTransaction
  <2>3. ClaimsExclusive'
    BY <2>1 DEF ClaimsExclusive, InTransaction
  <2> QED BY <1>0, <2>1, <2>2, <2>3 DEF CreditNeverNegative
<1>4. CASE ClaimSource(r)
  <2> DEFINE s == tx[r].source
  <2>1. /\ credit' = credit /\ s \in Documents
        /\ pc[r] = "claim" /\ pc'[r] = "pick"
        /\ \A q \in Requests \ {r} : /\ pc'[q] = pc[q] /\ tx'[q] = tx[q]
                                     /\ claim'[q] = claim[q]
        /\ tx[r].wanted > 0 /\ tx[r].wanted \in Int
    BY <1>0, <1>4 DEF ClaimSource, AfterLateClaim, Goto, TypeOK, ledgerVars,
                      ClaimSound, Locals
  <2>2. \/ claim' = claim
        \/ /\ tx[r].wanted <= credit[s]
           /\ claim'[r] = [claim[r] EXCEPT ![s] = tx[r].wanted]
    BY <1>0, <1>4, <2>1 DEF ClaimSource, CoversWanted, TypeOK
  <2>3. \A q \in Requests \ {r} : pc[q] \in InTransaction => claim[q][s] = 0
    BY <1>0, <1>4, <2>1 DEF ClaimSource, Locked, ClaimSound
  <2>4. \A t \in Documents : claim'[r][t] >= 0 /\ claim'[r][t] <= credit[t]
    BY <1>0, <2>1, <2>2 DEF ClaimSound, InTransaction
  <2>5. ClaimsSound'
    <3>1. ClaimSound(r)'
      BY <2>1, <2>4 DEF ClaimSound
    <3>2. \A q \in Requests \ {r} : ClaimSound(q)'
      BY <1>0, <2>1 DEF ClaimSound
    <3> QED BY <3>1, <3>2 DEF ClaimsSound
  <2>6. \A q \in Requests \ {r} : pc[q] \in InTransaction =>
          \A t \in Documents : claim[q][t] = 0 \/ claim'[r][t] = 0
    BY <1>0, <2>1, <2>2, <2>3 DEF ClaimsExclusive, InTransaction
  <2>7. ClaimsExclusive'
    BY <2>1, <2>6 DEF ClaimsExclusive, InTransaction
  <2> QED BY <1>0, <2>1, <2>5, <2>7 DEF CreditNeverNegative
<1>5. CASE CommitCompensation(r)
  <2>1. /\ claim' = claim /\ pc[r] = "commit" /\ pc'[r] = "resolution"
        /\ credit' = [s \in Documents |-> credit[s] - claim[r][s]]
        /\ \A q \in Requests \ {r} : pc'[q] = pc[q] /\ tx'[q] = tx[q]
    BY <1>0, <1>5 DEF CommitCompensation, Goto, TypeOK
  <2>2. \A s \in Documents : credit'[s] >= 0
    <3>1. \A s \in Documents : claim[r][s] <= credit[s]
      BY <1>0, <2>1 DEF ClaimSound, InTransaction
    <3>2. \A s \in Documents : claim[r][s] \in Int /\ credit[s] \in Int
      BY <1>0 DEF TypeOK, LedgerTypeOK, ClaimSound
    <3>3. \A s \in Documents : credit'[s] = credit[s] - claim[r][s]
      BY <2>1
    <3> QED BY <3>1, <3>2, <3>3
  <2>3. ClaimsSound'
    <3>1. ClaimSound(r)'
      BY <1>0, <2>1 DEF ClaimSound, InTransaction
    <3>2. ASSUME NEW q \in Requests \ {r} PROVE ClaimSound(q)'
      <4>1. pc[q] \in InTransaction => \A s \in Documents :
              claim[q][s] = 0 \/ claim[r][s] = 0
        BY <2>1 DEF ClaimsExclusive, InTransaction
      <4>2. pc[q] \in InTransaction => \A s \in Documents :
              claim[q][s] <= credit'[s]
        <5> SUFFICES ASSUME pc[q] \in InTransaction, NEW s \in Documents
                     PROVE  claim[q][s] <= credit'[s]
          OBVIOUS
        <5>1. /\ claim[q][s] \in Int /\ claim[r][s] \in Int /\ credit[s] \in Int
              /\ claim[q][s] <= credit[s]
              /\ credit'[s] = credit[s] - claim[r][s] /\ credit'[s] >= 0
          BY <1>0, <2>1, <2>2 DEF ClaimSound
        <5>2. claim[q][s] = 0 \/ claim[r][s] = 0
          BY <4>1
        <5> QED BY <5>1, <5>2
      <4> QED BY <1>0, <2>1, <4>2 DEF ClaimSound
    <3> QED BY <3>1, <3>2 DEF ClaimsSound
  <2>4. ClaimsExclusive'
    BY <2>1 DEF ClaimsExclusive, InTransaction
  <2> QED BY <1>0, <2>2, <2>3, <2>4 DEF CreditNeverNegative
<1> QED BY <1>1, <1>2, <1>3, <1>4, <1>5

\* Every other action leaves the transaction or was never in one.
LEMMA CreditNext == CreditInv /\ [Next]_vars => CreditInv'
<1> SUFFICES ASSUME CreditInv, [Next]_vars PROVE CreditInv'
  OBVIOUS
<1>0. /\ TypeOK /\ TypeOK'
      /\ credit \in [Documents -> Int]
      /\ \A r \in Requests, s \in Documents :
           claim[r][s] \in Int /\ claim[r][s] >= 0
  BY TypeNext DEF CreditInv, ClaimsSound, ClaimSound, TypeOK, LedgerTypeOK
<1>1. ASSUME NEW r \in Requests, NEW d \in Drafts, Emit(r, d) PROVE CreditInv'
  <2>1. /\ claim' = claim /\ credit' = credit /\ tx' = tx
        /\ pc[r] = "idle" /\ pc'[r] = "compensate"
        /\ \A q \in Requests \ {r} : pc'[q] = pc[q]
    BY <1>0, <1>1 DEF Emit, Goto, TypeOK, ledgerVars
  <2>2. ClaimsSound' /\ ClaimsExclusive'
    BY <2>1 DEF CreditInv, ClaimsSound, ClaimSound, ClaimsExclusive,
                InTransaction
  <2> QED BY <1>0, <2>1, <2>2 DEF CreditInv, CreditNeverNegative
<1>2. ASSUME NEW r \in Requests,
             \/ ReadResolution(r) \/ BuildPayload(r) \/ Send(r)
             \/ Refund(r) \/ RefundRejected(r) \/ Persist(r) \/ Consume(r)
             \/ Recover(r) \/ AbortCompensation(r) \/ DbError(r) \/ Crash(r)
      PROVE  CreditInv'
  <2>1. \/ credit' = credit
        \/ credit' = Refunded(r)
    BY <1>2 DEF ReadResolution, BuildPayload, Send, Refund, RefundRejected,
                Persist, Consume, Recover, AbortCompensation, DbError, Crash,
                ledgerVars
  <2>2. \A s \in Documents : credit'[s] >= credit[s]
    <3> SUFFICES ASSUME NEW s \in Documents PROVE credit'[s] >= credit[s]
      OBVIOUS
    <3>1. credit[s] \in Int /\ claim[r][s] \in Int /\ claim[r][s] >= 0
      BY <1>0
    <3> QED BY <2>1, <3>1 DEF Refunded
  <2>3. CASE Finish(r)
    BY <1>0, <2>2, <2>3, OutsideTransaction
  <2>4. CASE ~Finish(r)
    <3>1. /\ claim' = claim
          /\ \E l \in {"payload", "send", "refund", "refundRejected",
                       "persist", "consume", "recover"} : Goto(r, l)
          /\ tx' = tx
      BY <1>2, <2>4
      DEF ReadResolution, BuildPayload, Send, Accepted, Rejected, SendFailed,
          ReplyLost, Refund, RefundRejected, Persist, Consume, Recover,
          AbortCompensation, DbError, Crash
    <3>2. /\ \A q \in Requests \ {r} : pc'[q] = pc[q]
          /\ pc'[r] \notin InTransaction \cup {"idle", "compensate"}
      BY <1>0, <3>1 DEF Goto, TypeOK, InTransaction
    <3> QED BY <1>0, <2>2, <3>1, <3>2, OutsideTransaction
  <2> QED BY <2>3, <2>4
<1>3. CASE UNCHANGED vars
  BY <1>3 DEF vars, ledgerVars, requestVars, CreditInv, CreditNeverNegative,
              ClaimsSound, ClaimSound, ClaimsExclusive, TypeOK, LedgerTypeOK
<1>4. CASE Next
  BY <1>0, <1>1, <1>2, <1>4, InsideTransaction DEF Next, Advance
<1> QED BY <1>3, <1>4

\* However many emissions race for the credit of a customer, whatever fails
\* and whenever a server stops, no source of credit is ever overdrawn.
THEOREM CreditIsNeverNegative == Spec => []CreditNeverNegative
<1>1. CreditInv => CreditNeverNegative
  BY DEF CreditInv
<1> QED BY <1>1, CreditInit, CreditNext, PTL DEF Spec

-----------------------------------------------------------------------------
(* The money columns.  Inductive with the bounds the loop keeps on what is *)
(* still needed; the values read when the transaction opened may be stale, *)
(* they still describe a balanced position.                                *)

NeedBounded(r) ==
  LET total == Total[job[r].doc] IN
  /\ 0 <= tx[r].need
  /\ 0 <= tx[r].seenPaid
  /\ tx[r].need + tx[r].seenPaid <= total
  /\ pc[r] = "claim" => tx[r].wanted <= tx[r].need

LedgerInv ==
  /\ TypeOK
  /\ LedgerBalanced
  /\ ClaimsSound
  /\ \A r \in Requests : pc[r] \in InTransaction => NeedBounded(r)

LEMMA LedgerInit == Init => LedgerInv
<1> SUFFICES ASSUME Init PROVE LedgerInv
  OBVIOUS
<1>1. TypeOK /\ ClaimsSound
  BY CreditInit DEF CreditInv
<1>2. LedgerBalanced
  BY DEF Init, LedgerBalanced
<1>3. \A r \in Requests : pc[r] \notin InTransaction
  BY DEF Init, InTransaction
<1> QED BY <1>1, <1>2, <1>3 DEF LedgerInv

\* The ledger columns of a request that does not commit stay as they are.
LEMMA LedgerFrame ==
  ASSUME LedgerInv, TypeOK', ClaimsSound', NEW r \in Requests,
         paid' = paid, balance' = balance,
         \A q \in Requests \ {r} : /\ pc'[q] = pc[q] /\ tx'[q] = tx[q]
                                   /\ job'[q] = job[q],
         pc'[r] \in InTransaction => NeedBounded(r)'
  PROVE  LedgerInv'
<1>1. LedgerBalanced'
  BY DEF LedgerInv, LedgerBalanced
<1>2. \A q \in Requests : pc'[q] \in InTransaction => NeedBounded(q)'
  BY DEF LedgerInv, NeedBounded
<1> QED BY <1>1, <1>2 DEF LedgerInv

LEMMA LedgerNext == LedgerInv /\ CreditInv /\ [Next]_vars => LedgerInv'
<1> SUFFICES ASSUME LedgerInv, CreditInv, [Next]_vars PROVE LedgerInv'
  OBVIOUS
<1>0. TypeOK /\ TypeOK' /\ CreditInv' /\ ClaimsSound /\ ClaimsSound'
  BY CreditNext DEF CreditInv
<1>1. ASSUME NEW r \in Requests, OpenCompensation(r) PROVE LedgerInv'
  <2> DEFINE d == job[r].doc
  <2>1. /\ d \in Documents /\ Total[d] \in Nat /\ paid[d] \in Int
        /\ 0 <= paid[d] /\ paid[d] <= Total[d]
    BY <1>0, <1>1 DEF OpenCompensation, LedgerInv, LedgerBalanced, TypeOK,
                      LedgerTypeOK
  <2>2. pc'[r] \in InTransaction => NeedBounded(r)'
    BY <1>0, <1>1, <2>1
    DEF OpenCompensation, Goto, NeedBounded, Opened, TypeOK, InTransaction
  <2>3. /\ paid' = paid /\ balance' = balance /\ job' = job
        /\ \A q \in Requests \ {r} : pc'[q] = pc[q] /\ tx'[q] = tx[q]
    BY <1>0, <1>1 DEF OpenCompensation, Goto, TypeOK, ledgerVars
  <2> QED BY <1>0, <2>2, <2>3, LedgerFrame
<1>2. ASSUME NEW r \in Requests, PickSource(r) PROVE LedgerInv'
  <2>1. PICK s \in Sources(r) :
          tx' = [tx EXCEPT ![r].source = s,
                           ![r].wanted = Lesser(credit[s], tx[r].need),
                           ![r].tries = @ + 1]
    BY <1>2 DEF PickSource
  <2>2. /\ credit[s] \in Int /\ tx[r] \in Locals
        /\ tx'[r].need = tx[r].need /\ tx'[r].seenPaid = tx[r].seenPaid
        /\ tx'[r].wanted = Lesser(credit[s], tx[r].need)
        /\ \A q \in Requests \ {r} : tx'[q] = tx[q]
    BY <1>0, <2>1 DEF Sources, TypeOK, LedgerTypeOK, Locals
  <2>3. /\ pc[r] = "pick" /\ paid' = paid /\ balance' = balance /\ job' = job
        /\ \A q \in Requests \ {r} : pc'[q] = pc[q]
    BY <1>0, <1>2 DEF PickSource, Goto, TypeOK, ledgerVars
  <2>4. NeedBounded(r)'
    <3>1. NeedBounded(r)
      BY <2>3 DEF LedgerInv, InTransaction
    <3>2. Lesser(credit[s], tx[r].need) <= tx[r].need
      BY <2>2 DEF Lesser, Locals
    <3> QED BY <2>2, <2>3, <3>1, <3>2 DEF NeedBounded
  <2> QED BY <1>0, <2>2, <2>3, <2>4, LedgerFrame
<1>3. ASSUME NEW r \in Requests, StopClaiming(r) PROVE LedgerInv'
  <2>1. /\ pc[r] = "pick" /\ paid' = paid /\ balance' = balance /\ job' = job
        /\ \A q \in Requests \ {r} : pc'[q] = pc[q] /\ tx'[q] = tx[q]
        /\ pc'[r] = "resolution" \/ (pc'[r] = "commit" /\ tx'[r] = tx[r])
    BY <1>0, <1>3 DEF StopClaiming, Goto, TypeOK, ledgerVars
  <2>2. pc'[r] \in InTransaction => NeedBounded(r)'
    BY <2>1 DEF LedgerInv, NeedBounded, InTransaction
  <2> QED BY <1>0, <2>1, <2>2, LedgerFrame
<1>4. ASSUME NEW r \in Requests, ClaimSource(r) PROVE LedgerInv'
  <2>1. /\ pc[r] = "claim" /\ pc'[r] = "pick"
        /\ paid' = paid /\ balance' = balance /\ job' = job
        /\ \A q \in Requests \ {r} : pc'[q] = pc[q] /\ tx'[q] = tx[q]
        /\ tx[r] \in Locals /\ tx[r].wanted > 0
    BY <1>0, <1>4 DEF ClaimSource, AfterLateClaim, Goto, TypeOK, ledgerVars,
                      ClaimsSound, ClaimSound
  <2>2. /\ tx'[r].seenPaid = tx[r].seenPaid
        /\ tx'[r].need \in {tx[r].need, tx[r].need - tx[r].wanted}
    BY <1>0, <1>4, <2>1 DEF ClaimSource, TypeOK, Locals
  <2>3. NeedBounded(r)
    BY <2>1 DEF LedgerInv, InTransaction
  <2>4. NeedBounded(r)'
    <3>1. job[r].doc \in Documents /\ Total[job[r].doc] \in Nat
      BY <1>0, <2>1 DEF TypeOK
    <3> QED BY <2>1, <2>2, <2>3, <3>1 DEF NeedBounded, Locals
  <2> QED BY <1>0, <2>1, <2>4, LedgerFrame
<1>5. ASSUME NEW r \in Requests, CommitCompensation(r) PROVE LedgerInv'
  <2> DEFINE d == job[r].doc
  <2>1. /\ pc[r] = "commit" /\ pc'[r] = "resolution" /\ job' = job
        /\ \A q \in Requests \ {r} : pc'[q] = pc[q] /\ tx'[q] = tx[q]
        /\ d \in Documents /\ Total[d] \in Nat /\ tx[r] \in Locals
    BY <1>0, <1>5 DEF CommitCompensation, Goto, TypeOK
  <2>2. /\ NewPaid(r) = Total[d] - tx[r].need
        /\ 0 <= NewPaid(r) /\ NewPaid(r) <= Total[d]
        /\ AtLeastZero(Total[d] - NewPaid(r)) = Total[d] - NewPaid(r)
    <3>1. NeedBounded(r)
      BY <2>1 DEF LedgerInv, InTransaction
    <3> QED BY <2>1, <3>1 DEF NeedBounded, NewPaid, AppliedTotal, Locals,
                              AtLeastZero
  <2>3. /\ paid' = [paid EXCEPT ![d] = NewPaid(r)]
        /\ balance' = [balance EXCEPT ![d] = AtLeastZero(Total[d] - NewPaid(r))]
    BY <1>5 DEF CommitCompensation
  <2>4. LedgerBalanced'
    BY <1>0, <2>1, <2>2, <2>3 DEF LedgerInv, LedgerBalanced, TypeOK, LedgerTypeOK
  <2>5. \A q \in Requests : pc'[q] \in InTransaction => NeedBounded(q)'
    BY <2>1 DEF LedgerInv, NeedBounded, InTransaction
  <2> QED BY <1>0, <2>4, <2>5 DEF LedgerInv
<1>6. ASSUME NEW r \in Requests,
             \/ \E d \in Drafts : Emit(r, d)
             \/ ReadResolution(r) \/ BuildPayload(r) \/ Send(r)
             \/ Refund(r) \/ RefundRejected(r) \/ Persist(r) \/ Consume(r)
             \/ Recover(r) \/ AbortCompensation(r) \/ DbError(r) \/ Crash(r)
      PROVE  LedgerInv'
  <2>1. paid' = paid /\ balance' = balance
    BY <1>6 DEF Emit, ReadResolution, BuildPayload, Send, Refund,
                RefundRejected, Persist, Consume, Recover, AbortCompensation,
                DbError, Crash, ledgerVars
  <2>2. \/ Finish(r)
        \/ /\ \E l \in {"compensate", "payload", "send", "refund",
                        "refundRejected", "persist", "consume", "recover"} :
                Goto(r, l)
           /\ tx' = tx
           /\ \A q \in Requests \ {r} : job'[q] = job[q]
    <3>1. CASE Finish(r)
      BY <3>1
    <3>2. CASE Send(r)
      BY <1>0, <3>2
      DEF Send, Accepted, Rejected, SendFailed, ReplyLost, TypeOK
    <3>3. CASE ~Finish(r) /\ ~Send(r)
      BY <1>0, <1>6, <3>3
      DEF Emit, ReadResolution, BuildPayload, Refund, RefundRejected, Persist,
          Consume, Recover, AbortCompensation, DbError, Crash, TypeOK
    <3> QED BY <3>1, <3>2, <3>3
  <2>3. /\ pc'[r] \notin InTransaction
        /\ \A q \in Requests \ {r} : /\ pc'[q] = pc[q] /\ tx'[q] = tx[q]
                                     /\ job'[q] = job[q]
    BY <1>0, <2>2 DEF Finish, Goto, TypeOK, InTransaction
  <2> QED BY <1>0, <2>1, <2>3, LedgerFrame
<1>7. CASE UNCHANGED vars
  BY <1>0, <1>7 DEF vars, ledgerVars, requestVars, LedgerInv, LedgerBalanced,
                    NeedBounded
<1>8. CASE Next
  BY <1>1, <1>2, <1>3, <1>4, <1>5, <1>6, <1>8 DEF Next, Advance
<1> QED BY <1>7, <1>8

\* Two emissions of one draft may compensate from the same stale read, and
\* still the columns agree and no draft is marked as paid beyond its total.
THEOREM LedgerIsBalanced == Spec => []LedgerBalanced
<1>1. LedgerInv => LedgerBalanced
  BY DEF LedgerInv
<1> QED BY <1>1, LedgerInit, LedgerNext, CreditInit, CreditNext, PTL DEF Spec

-----------------------------------------------------------------------------
(* What looks emitted was validated.                                       *)

VerdictSound(r) ==
  LET d == job[r].doc IN
  /\ pc[r] = "send" => job[r].form # "none"
  /\ pc[r] \in {"refundRejected", "persist", "consume"}
       => job[r].verdict # "none"
  /\ pc[r] = "idle" => job[r].verdict = "none"
  /\ job[r].verdict = "accepted" => dian[d] # "none"
  /\ pc[r] \in InTransaction /\ tx[r].seenStatus # "BORRADOR"
       => dian[d] # "none"

VerdictInv ==
  TypeOK /\ EmittedIsValidated /\ \A r \in Requests : VerdictSound(r)

LEMMA VerdictInit == Init => VerdictInv
<1> SUFFICES ASSUME Init PROVE VerdictInv
  OBVIOUS
<1>1. TypeOK
  BY TypeInit
<1>2. EmittedIsValidated
  BY DEF Init, EmittedIsValidated
<1>3. \A r \in Requests : VerdictSound(r)
  BY DEF Init, VerdictSound, NoJob, InTransaction
<1> QED BY <1>1, <1>2, <1>3 DEF VerdictInv

\* Validations are never undone, so what the other requests know stays true.
LEMMA VerdictFrame ==
  ASSUME VerdictInv, TypeOK', NEW r \in Requests,
         \A d \in Documents : dian[d] # "none" => dian'[d] # "none",
         \A d \in Documents :
           status'[d] = status[d] \/ status'[d] = "BORRADOR"
                                  \/ dian'[d] # "none",
         \A q \in Requests \ {r} : /\ pc'[q] = pc[q] /\ tx'[q] = tx[q]
                                   /\ job'[q] = job[q],
         VerdictSound(r)'
  PROVE  VerdictInv'
<1>1. EmittedIsValidated'
  BY DEF VerdictInv, EmittedIsValidated
<1>2. \A q \in Requests \ {r} : VerdictSound(q)'
  <2> SUFFICES ASSUME NEW q \in Requests \ {r} PROVE VerdictSound(q)'
    OBVIOUS
  <2>1. /\ VerdictSound(q)
        /\ pc'[q] = pc[q] /\ tx'[q] = tx[q] /\ job'[q] = job[q]
        /\ pc[q] # "idle" => job[q].doc \in Documents
    BY DEF VerdictInv, TypeOK
  <2>2. CASE pc[q] = "idle"
    BY <2>1, <2>2 DEF VerdictSound, InTransaction
  <2>3. CASE pc[q] # "idle"
    BY <2>1, <2>3 DEF VerdictSound
  <2> QED BY <2>2, <2>3
<1> QED BY <1>1, <1>2 DEF VerdictInv

LEMMA VerdictNext == VerdictInv /\ [Next]_vars => VerdictInv'
<1> SUFFICES ASSUME VerdictInv, [Next]_vars PROVE VerdictInv'
  OBVIOUS
<1>0. /\ TypeOK /\ TypeOK'
      /\ \A r \in Requests : VerdictSound(r)
      /\ \A r \in Requests : pc[r] # "idle" => job[r].doc \in Documents
  BY TypeNext DEF VerdictInv, TypeOK
<1>1. ASSUME NEW r \in Requests, NEW d \in Drafts, Emit(r, d)
      PROVE  VerdictInv'
  <2>1. /\ pc[r] = "idle" /\ pc'[r] = "compensate"
        /\ job'[r].verdict = job[r].verdict
        /\ \A q \in Requests \ {r} : pc'[q] = pc[q] /\ tx'[q] = tx[q]
                                     /\ job'[q] = job[q]
        /\ dian' = dian /\ status' = status
    BY <1>0, <1>1 DEF Emit, Goto, TypeOK, Job, ledgerVars
  <2>2. VerdictSound(r)'
    BY <1>0, <2>1 DEF VerdictSound, InTransaction
  <2> QED BY <1>0, <2>1, <2>2, VerdictFrame
<1>2. ASSUME NEW r \in Requests, OpenCompensation(r) PROVE VerdictInv'
  <2> DEFINE d == job[r].doc
  <2>1. /\ pc[r] = "compensate" /\ job' = job /\ dian' = dian
        /\ status' = status /\ d \in Documents
        /\ \A q \in Requests \ {r} : pc'[q] = pc[q] /\ tx'[q] = tx[q]
        /\ \/ pc'[r] = "resolution"
           \/ pc'[r] = "pick" /\ tx'[r].seenStatus = status[d]
    BY <1>0, <1>2 DEF OpenCompensation, Opened, Goto, TypeOK, ledgerVars
  <2>2. VerdictSound(r)'
    BY <1>0, <2>1 DEF VerdictInv, EmittedIsValidated, VerdictSound,
                      InTransaction
  <2> QED BY <1>0, <2>1, <2>2, VerdictFrame
<1>3. ASSUME NEW r \in Requests,
             PickSource(r) \/ StopClaiming(r) \/ ClaimSource(r)
      PROVE  VerdictInv'
  <2>1. /\ pc[r] \in {"pick", "claim"} /\ job' = job /\ dian' = dian
        /\ status' = status
        /\ \A q \in Requests \ {r} : pc'[q] = pc[q]
    BY <1>0, <1>3 DEF PickSource, StopClaiming, ClaimSource, AfterLateClaim,
                      Goto, TypeOK, ledgerVars
  <2>2. /\ pc'[r] \in InTransaction \cup {"resolution"}
        /\ \A q \in Requests \ {r} : tx'[q] = tx[q]
        /\ pc'[r] \in InTransaction => tx'[r].seenStatus = tx[r].seenStatus
    <3>1. CASE PickSource(r)
      BY <1>0, <3>1 DEF PickSource, Goto, TypeOK, Locals, InTransaction
    <3>2. CASE StopClaiming(r)
      BY <1>0, <3>2 DEF StopClaiming, Goto, TypeOK, InTransaction
    <3>3. CASE ClaimSource(r)
      BY <1>0, <3>3 DEF ClaimSource, AfterLateClaim, Goto, TypeOK, Locals,
                        InTransaction
    <3> QED BY <1>3, <3>1, <3>2, <3>3
  <2>3. VerdictSound(r)'
    BY <1>0, <2>1, <2>2 DEF VerdictSound, InTransaction
  <2> QED BY <1>0, <2>1, <2>2, <2>3, VerdictFrame
<1>4. ASSUME NEW r \in Requests, CommitCompensation(r) PROVE VerdictInv'
  <2> DEFINE d == job[r].doc
  <2>1. /\ pc[r] = "commit" /\ pc'[r] = "resolution" /\ job' = job
        /\ dian' = dian /\ d \in Documents
        /\ \A q \in Requests \ {r} : pc'[q] = pc[q] /\ tx'[q] = tx[q]
        /\ status' = [status EXCEPT ![d] =
             ResolveInvoiceStatus(Total[d], NewPaid(r), FALSE,
                                  tx[r].seenStatus)]
    BY <1>0, <1>4 DEF CommitCompensation, Goto, TypeOK
  <2>2. tx[r].seenStatus # "BORRADOR" => dian[d] # "none"
    BY <1>0, <2>1 DEF VerdictSound, InTransaction
  <2>3. \A e \in Documents :
          status'[e] = status[e] \/ status'[e] = "BORRADOR"
                                 \/ dian'[e] # "none"
    BY <1>0, <2>1, <2>2
    DEF ResolveInvoiceStatus, IsFrozen, TypeOK, LedgerTypeOK
  <2>4. VerdictSound(r)'
    BY <1>0, <2>1 DEF VerdictSound, InTransaction
  <2> QED BY <1>0, <2>1, <2>3, <2>4, VerdictFrame
<1>5. ASSUME NEW r \in Requests, Send(r) PROVE VerdictInv'
  <2> DEFINE d == job[r].doc
  <2>1. /\ pc[r] = "send" /\ status' = status /\ tx' = tx
        /\ d \in Documents /\ job[r].form # "none"
    BY <1>0, <1>5 DEF Send, VerdictSound, ledgerVars
  <2>2. /\ dian' = dian \/ dian' = [dian EXCEPT ![d] = job[r].form]
        /\ job'[r].doc = d
        /\ \A q \in Requests \ {r} : pc'[q] = pc[q] /\ job'[q] = job[q]
        /\ \/ pc'[r] = "refund" /\ job'[r] = job[r]
           \/ pc'[r] = "refundRejected" /\ job'[r].verdict = "rejected"
           \/ /\ pc'[r] = "persist" /\ job'[r].verdict = "accepted"
              /\ dian' = [dian EXCEPT ![d] = job[r].form]
    <3>1. CASE Accepted(r)
      BY <1>0, <3>1 DEF Accepted, Goto, TypeOK, Job
    <3>2. CASE Rejected(r)
      BY <1>0, <3>2 DEF Rejected, Goto, TypeOK, Job
    <3>3. CASE SendFailed(r)
      BY <1>0, <3>3 DEF SendFailed, Goto, TypeOK
    <3>4. CASE ReplyLost(r)
      BY <1>0, <3>4 DEF ReplyLost, Goto, TypeOK
    <3> QED BY <1>5, <3>1, <3>2, <3>3, <3>4 DEF Send
  <2>3. \A e \in Documents : dian[e] # "none" => dian'[e] # "none"
    BY <1>0, <2>1, <2>2 DEF TypeOK
  <2>4. VerdictSound(r)'
    BY <1>0, <2>1, <2>2, <2>3 DEF VerdictSound, InTransaction, TypeOK
  <2> QED BY <1>0, <2>1, <2>2, <2>3, <2>4, VerdictFrame
<1>6. ASSUME NEW r \in Requests, Persist(r) PROVE VerdictInv'
  <2> DEFINE d == job[r].doc
  <2>1. /\ pc[r] = "persist" /\ dian' = dian /\ d \in Documents
        /\ status' = [status EXCEPT ![d] = WrittenStatus(r)]
        /\ WrittenStatus(r) # "BORRADOR" => job[r].verdict # "rejected"
    BY <1>0, <1>6 DEF Persist, WrittenStatus
  <2>2. WrittenStatus(r) # "BORRADOR" => dian[d] # "none"
    BY <1>0, <2>1 DEF VerdictSound, TypeOK, Job
  <2>3. \A e \in Documents :
          status'[e] = status[e] \/ status'[e] = "BORRADOR"
                                 \/ dian'[e] # "none"
    BY <1>0, <2>1, <2>2 DEF TypeOK, LedgerTypeOK
  <2>4. /\ \A q \in Requests \ {r} : pc'[q] = pc[q] /\ tx'[q] = tx[q]
                                     /\ job'[q] = job[q]
        /\ \/ pc'[r] = "consume" /\ job' = job
           \/ pc'[r] = "idle" /\ job'[r].verdict = "none"
    BY <1>0, <1>6 DEF Persist, Finish, NoJob, Goto, TypeOK
  <2>5. VerdictSound(r)'
    BY <1>0, <2>1, <2>4 DEF VerdictSound, InTransaction
  <2> QED BY <1>0, <2>1, <2>3, <2>4, <2>5, VerdictFrame
<1>7. ASSUME NEW r \in Requests,
             \/ ReadResolution(r) \/ BuildPayload(r) \/ Refund(r)
             \/ RefundRejected(r) \/ Consume(r) \/ Recover(r)
             \/ AbortCompensation(r) \/ DbError(r) \/ Crash(r)
      PROVE  VerdictInv'
  <2>1. dian' = dian /\ status' = status
    BY <1>7 DEF ReadResolution, BuildPayload, Refund, RefundRejected, Consume,
                Recover, AbortCompensation, DbError, Crash, ledgerVars
  <2>2. CASE Finish(r)
    <3>1. /\ pc'[r] = "idle" /\ job'[r] = NoJob
          /\ \A q \in Requests \ {r} : pc'[q] = pc[q] /\ tx'[q] = tx[q]
                                       /\ job'[q] = job[q]
      BY <1>0, <2>2 DEF Finish, TypeOK
    <3>2. VerdictSound(r)'
      BY <3>1 DEF VerdictSound, NoJob, InTransaction
    <3> QED BY <1>0, <2>1, <3>1, <3>2, VerdictFrame
  <2>3. CASE ReadResolution(r)
    <3>1. /\ pc'[r] \in {"payload", "refund"} /\ tx' = tx
          /\ job'[r].verdict = job[r].verdict /\ job'[r].doc = job[r].doc
          /\ \A q \in Requests \ {r} : pc'[q] = pc[q] /\ job'[q] = job[q]
      BY <1>0, <2>3 DEF ReadResolution, Goto, TypeOK, Job
    <3>2. VerdictSound(r)'
      BY <1>0, <2>1, <3>1 DEF VerdictSound, InTransaction
    <3> QED BY <1>0, <2>1, <3>1, <3>2, VerdictFrame
  <2>4. CASE BuildPayload(r)
    <3>1. /\ tx' = tx
          /\ \/ pc'[r] = "refund" /\ job' = job
             \/ pc'[r] = "send" /\ job'[r].form # "none"
          /\ job'[r].verdict = job[r].verdict /\ job'[r].doc = job[r].doc
          /\ \A q \in Requests \ {r} : pc'[q] = pc[q] /\ job'[q] = job[q]
      BY <1>0, <2>4 DEF BuildPayload, DianForm, Goto, TypeOK, Job
    <3>2. VerdictSound(r)'
      BY <1>0, <2>1, <3>1 DEF VerdictSound, InTransaction
    <3> QED BY <1>0, <2>1, <3>1, <3>2, VerdictFrame
  <2>5. CASE RefundRejected(r)
    <3>1. /\ pc[r] = "refundRejected" /\ pc'[r] = "persist"
          /\ tx' = tx /\ job' = job
          /\ \A q \in Requests \ {r} : pc'[q] = pc[q]
      BY <1>0, <2>5 DEF RefundRejected, Goto, TypeOK
    <3>2. VerdictSound(r)'
      BY <1>0, <2>1, <3>1 DEF VerdictSound, InTransaction
    <3> QED BY <1>0, <2>1, <3>1, <3>2, VerdictFrame
  <2>6. CASE DbError(r)
    <3>1. /\ pc'[r] = "recover" /\ tx' = tx /\ job' = job
          /\ \A q \in Requests \ {r} : pc'[q] = pc[q]
          /\ pc[r] # "idle"
      BY <1>0, <2>6 DEF DbError, Goto, TypeOK
    <3>2. VerdictSound(r)'
      BY <1>0, <2>1, <3>1 DEF VerdictSound, InTransaction
    <3> QED BY <1>0, <2>1, <3>1, <3>2, VerdictFrame
  <2> QED BY <1>7, <2>2, <2>3, <2>4, <2>5, <2>6
          DEF Refund, Consume, Recover, AbortCompensation, Crash
<1>8. CASE UNCHANGED vars
  BY <1>0, <1>8 DEF vars, ledgerVars, requestVars, VerdictInv,
                    EmittedIsValidated, VerdictSound
<1>9. CASE Next
  BY <1>1, <1>2, <1>3, <1>4, <1>5, <1>6, <1>7, <1>9 DEF Next, Advance
<1> QED BY <1>8, <1>9

\* Rejections, lost answers and emissions of one draft at the same time never
\* make a document look emitted that the DIAN did not validate.
THEOREM EmittedMeansValidated == Spec => []EmittedIsValidated
<1>1. VerdictInv => EmittedIsValidated
  BY DEF VerdictInv
<1> QED BY <1>1, VerdictInit, VerdictNext, PTL DEF Spec

-----------------------------------------------------------------------------
(* Conservation of credit.  Inductive with the claims of CreditInv and with *)
(* what a request that refunds a rejection knows.                           *)

HeldOf(s) == [r \in Requests |-> Held(r)[s]]
Books(s) == credit[s] + SumFunctionOnSet(HeldOf(s), Requests) + spent[s]

RefundSound(r) == pc[r] = "refundRejected" => job[r].verdict = "rejected"

BooksInv ==
  /\ \A r \in Requests : RefundSound(r)
  /\ \A s \in Documents : /\ Books(s) >= Granted[s]
                          /\ "db_error" \notin Faults => Books(s) = Granted[s]

\* What one request holds of a source.
LEMMA HeldValue ==
  ASSUME TypeOK, NEW r \in Requests, NEW s \in Documents
  PROVE  /\ HeldOf(s)[r] \in Int
         /\ HeldOf(s)[r] = IF \/ pc[r] \in InTransaction
                              \/ pc[r] = "persist" /\ job[r].verdict = "rejected"
                           THEN 0 ELSE claim[r][s]
BY DEF Held, HeldOf, TypeOK

\* A step of one request moves what it holds of a source.
LEMMA HeldChanges ==
  ASSUME TypeOK, TypeOK', NEW r \in Requests, NEW s \in Documents,
         \A q \in Requests \ {r} : /\ pc'[q] = pc[q] /\ job'[q] = job[q]
                                   /\ claim'[q] = claim[q]
  PROVE  /\ Books(s)' - Books(s) =
              (credit'[s] - credit[s]) + (HeldOf(s)'[r] - HeldOf(s)[r])
                + (spent'[s] - spent[s])
         /\ Books(s) \in Int /\ Books(s)' \in Int
<1> DEFINE f == HeldOf(s)
           g == HeldOf(s)'
<1>1. \A q \in Requests : f[q] \in Int
  BY HeldValue
<1>2. \A q \in Requests : /\ g[q] \in Int
                          /\ g[q] = IF \/ pc'[q] \in InTransaction
                                       \/ pc'[q] = "persist"
                                          /\ job'[q].verdict = "rejected"
                                    THEN 0 ELSE claim'[q][s]
  BY DEF Held, HeldOf, TypeOK, InTransaction
<1>3. \A q \in Requests \ {r} : g[q] = f[q]
  BY <1>2, HeldValue
<1> HIDE DEF f, g
<1>4. /\ SumFunctionOnSet(g, Requests)
           = SumFunctionOnSet(f, Requests) + (g[r] - f[r])
      /\ SumFunctionOnSet(f, Requests) \in Int
  BY <1>1, <1>2, <1>3, SumUpdate, EmissionAssumption
<1>5. /\ credit[s] \in Int /\ credit'[s] \in Int
      /\ spent[s] \in Int /\ spent'[s] \in Int
      /\ f[r] \in Int /\ g[r] \in Int
  BY <1>1, <1>2 DEF TypeOK, LedgerTypeOK
<1>6. /\ Books(s) = credit[s] + SumFunctionOnSet(f, Requests) + spent[s]
      /\ Books(s)' = credit'[s] + SumFunctionOnSet(g, Requests) + spent'[s]
  BY DEF Books, f, g
<1> QED BY <1>4, <1>5, <1>6 DEF f, g

\* A step that leaves everything but request r alone, and moves credit from
\* one place to another.
LEMMA BooksFrame ==
  ASSUME TypeOK, TypeOK', BooksInv, NEW r \in Requests,
         \A q \in Requests \ {r} : /\ pc'[q] = pc[q] /\ job'[q] = job[q]
                                   /\ claim'[q] = claim[q],
         RefundSound(r)',
         \A s \in Documents :
           \/ (credit'[s] - credit[s]) + (HeldOf(s)'[r] - HeldOf(s)[r])
                + (spent'[s] - spent[s]) = 0
           \/ /\ "db_error" \in Faults
              /\ (credit'[s] - credit[s]) + (HeldOf(s)'[r] - HeldOf(s)[r])
                   + (spent'[s] - spent[s]) >= 0
  PROVE  BooksInv'
<1>1. \A q \in Requests : RefundSound(q)'
  BY DEF BooksInv, RefundSound
<1>2. ASSUME NEW s \in Documents
      PROVE  /\ Books(s)' >= Granted[s]
             /\ "db_error" \notin Faults => Books(s)' = Granted[s]
  <2> DEFINE moved == (credit'[s] - credit[s]) + (HeldOf(s)'[r] - HeldOf(s)[r])
                        + (spent'[s] - spent[s])
  <2>1. /\ Books(s)' - Books(s) = moved
        /\ Books(s) \in Int /\ Books(s)' \in Int
    BY HeldChanges
  <2>2. moved = 0 \/ ("db_error" \in Faults /\ moved >= 0)
    OBVIOUS
  <2>3. /\ Books(s) >= Granted[s]
        /\ "db_error" \notin Faults => Books(s) = Granted[s]
    BY DEF BooksInv
  <2>4. Granted[s] \in Int
    BY EmissionAssumption
  <2> HIDE DEF moved
  <2> QED BY <2>1, <2>2, <2>3, <2>4
<1> QED BY <1>1, <1>2 DEF BooksInv

LEMMA BooksInit == Init => BooksInv
<1> SUFFICES ASSUME Init PROVE BooksInv
  OBVIOUS
<1>1. TypeOK
  BY TypeInit
<1>2. \A r \in Requests : RefundSound(r)
  BY DEF Init, RefundSound
<1>3. ASSUME NEW s \in Documents PROVE Books(s) = Granted[s]
  <2> DEFINE f == HeldOf(s)
  <2>1. \A r \in Requests : f[r] = 0
    BY <1>1, HeldValue DEF Init, NoClaim
  <2> HIDE DEF f
  <2>2. SumFunctionOnSet(f, Requests) = 0
    BY <2>1, SumZero, EmissionAssumption
  <2>3. credit[s] = Granted[s] /\ spent[s] = 0 /\ Granted[s] \in Int
    BY EmissionAssumption DEF Init
  <2> QED BY <2>2, <2>3 DEF f, Books
<1> QED BY <1>2, <1>3, EmissionAssumption DEF BooksInv

\* What every statement does to the books.
LEMMA BooksNext == CreditInv /\ CreditInv' /\ BooksInv /\ [Next]_vars => BooksInv'
<1> SUFFICES ASSUME CreditInv, CreditInv', BooksInv, [Next]_vars PROVE BooksInv'
  OBVIOUS
<1>0. /\ TypeOK /\ TypeOK'
      /\ \A r \in Requests : RefundSound(r) /\ ClaimSound(r)
      /\ \A s \in Documents : credit[s] \in Int /\ spent[s] \in Int
      /\ \A r \in Requests : \A s \in Documents : claim[r][s] \in Int
                                                  /\ claim[r][s] >= 0
  BY DEF CreditInv, BooksInv, ClaimsSound, ClaimSound, TypeOK, LedgerTypeOK
<1>h. ASSUME NEW r \in Requests, NEW s \in Documents
      PROVE  /\ HeldOf(s)[r] =
                  IF \/ pc[r] \in InTransaction
                     \/ pc[r] = "persist" /\ job[r].verdict = "rejected"
                  THEN 0 ELSE claim[r][s]
             /\ HeldOf(s)'[r] =
                  IF \/ pc'[r] \in InTransaction
                     \/ pc'[r] = "persist" /\ job'[r].verdict = "rejected"
                  THEN 0 ELSE claim'[r][s]
  BY <1>0 DEF HeldOf, Held, InTransaction, TypeOK
<1>1. ASSUME NEW r \in Requests,
             \/ \E d \in Drafts : Emit(r, d)
             \/ ReadResolution(r) \/ BuildPayload(r) \/ Send(r)
      PROVE  BooksInv'
  <2>1. /\ claim' = claim /\ credit' = credit /\ spent' = spent
        /\ \A q \in Requests \ {r} : pc'[q] = pc[q] /\ job'[q] = job[q]
        /\ pc[r] \notin InTransaction \cup {"persist"}
    BY <1>0, <1>1 DEF Emit, ReadResolution, BuildPayload, Send, Accepted, Rejected,
       SendFailed, ReplyLost, Goto, TypeOK, InTransaction, ledgerVars
  <2>2. /\ pc'[r] \notin InTransaction
        /\ pc'[r] = "persist" => job'[r].verdict = "accepted"
        /\ pc'[r] = "refundRejected" => job'[r].verdict = "rejected"
    <3>1. CASE Send(r)
      BY <1>0, <3>1 DEF Send, Accepted, Rejected, SendFailed, ReplyLost, Goto,
         TypeOK, Job, InTransaction
    <3>2. CASE ~Send(r)
      BY <1>0, <1>1, <3>2 DEF Emit, ReadResolution, BuildPayload, Goto, TypeOK,
         InTransaction
    <3> QED BY <3>1, <3>2
  <2>3. \A s \in Documents : HeldOf(s)'[r] = HeldOf(s)[r]
    BY <1>h, <2>1, <2>2
  <2>4. \A s \in Documents : HeldOf(s)[r] \in Int
    BY <1>0, HeldValue
  <2>5. RefundSound(r)'
    BY <2>2 DEF RefundSound
  <2> QED BY <1>0, <2>1, <2>3, <2>4, <2>5, BooksFrame
<1>2. ASSUME NEW r \in Requests,
             \/ OpenCompensation(r) \/ PickSource(r) \/ StopClaiming(r)
             \/ ClaimSource(r) \/ AbortCompensation(r)
      PROVE  BooksInv'
  <2>1. /\ credit' = credit /\ spent' = spent
        /\ \A q \in Requests \ {r} : /\ pc'[q] = pc[q] /\ job'[q] = job[q]
                                     /\ claim'[q] = claim[q]
        /\ pc'[r] \in InTransaction \cup {"resolution", "idle"}
        /\ pc[r] \in InTransaction \cup {"compensate"}
    BY <1>0, <1>2 DEF OpenCompensation, PickSource, StopClaiming, ClaimSource,
       AbortCompensation, AfterLateClaim, Finish, Goto, TypeOK, InTransaction,
       ledgerVars
  <2>2. pc'[r] \notin InTransaction => \A s \in Documents : claim'[r][s] = 0
    <3>1. CASE OpenCompensation(r)
      BY <1>0, <3>1 DEF OpenCompensation, ClaimSound, NoClaim
    <3>2. CASE StopClaiming(r)
      BY <1>0, <3>2 DEF StopClaiming, Goto, TypeOK, InTransaction
    <3>3. CASE AbortCompensation(r)
      BY <1>0, <3>3 DEF AbortCompensation, Finish, NoClaim, TypeOK
    <3>4. CASE PickSource(r) \/ ClaimSource(r)
      BY <1>0, <3>4 DEF PickSource, ClaimSource, AfterLateClaim, Goto, TypeOK,
         InTransaction
    <3> QED BY <1>2, <3>1, <3>2, <3>3, <3>4
  <2>3. pc[r] \notin InTransaction => \A s \in Documents : claim[r][s] = 0
    BY <1>0, <2>1 DEF ClaimSound, NoClaim
  <2>4. \A s \in Documents : HeldOf(s)'[r] = 0 /\ HeldOf(s)[r] = 0
    BY <1>h, <2>1, <2>2, <2>3
  <2>5. RefundSound(r)'
    BY <2>1 DEF RefundSound, InTransaction
  <2> QED BY <1>0, <2>1, <2>4, <2>5, BooksFrame
<1>3. ASSUME NEW r \in Requests, CommitCompensation(r) PROVE BooksInv'
  <2>1. /\ pc[r] = "commit" /\ pc'[r] = "resolution"
        /\ job' = job /\ claim' = claim /\ spent' = spent
        /\ \A q \in Requests \ {r} : pc'[q] = pc[q]
        /\ \A s \in Documents : credit'[s] = credit[s] - claim[r][s]
    BY <1>0, <1>3 DEF CommitCompensation, Goto, TypeOK
  <2>2. \A s \in Documents : HeldOf(s)'[r] = claim[r][s] /\ HeldOf(s)[r] = 0
    BY <1>h, <2>1 DEF InTransaction
  <2>3. RefundSound(r)'
    BY <2>1 DEF RefundSound
  <2> QED BY <1>0, <2>1, <2>2, <2>3, BooksFrame
<1>4. ASSUME NEW r \in Requests, RefundRejected(r) PROVE BooksInv'
  <2>1. /\ pc[r] = "refundRejected" /\ pc'[r] = "persist"
        /\ job' = job /\ claim' = claim /\ spent' = spent
        /\ \A q \in Requests \ {r} : pc'[q] = pc[q]
        /\ \A s \in Documents : credit'[s] = credit[s] + claim[r][s]
    BY <1>0, <1>4 DEF RefundRejected, Refunded, Goto, TypeOK
  <2>2. \A s \in Documents : HeldOf(s)'[r] = 0 /\ HeldOf(s)[r] = claim[r][s]
    BY <1>0, <1>h, <2>1 DEF InTransaction, RefundSound
  <2>3. RefundSound(r)'
    BY <2>1 DEF RefundSound
  <2> QED BY <1>0, <2>1, <2>2, <2>3, BooksFrame
<1>5. ASSUME NEW r \in Requests, Persist(r) /\ Consumes(r) PROVE BooksInv'
  <2>1. /\ pc[r] = "persist" /\ pc'[r] = "consume"
        /\ job[r].verdict = "accepted"
        /\ job' = job /\ claim' = claim /\ spent' = spent /\ credit' = credit
        /\ \A q \in Requests \ {r} : pc'[q] = pc[q]
    BY <1>0, <1>5 DEF Persist, Consumes, Goto, TypeOK
  <2>2. \A s \in Documents :
          HeldOf(s)'[r] = claim[r][s] /\ HeldOf(s)[r] = claim[r][s]
    BY <1>h, <2>1 DEF InTransaction
  <2>3. RefundSound(r)'
    BY <2>1 DEF RefundSound
  <2> QED BY <1>0, <2>1, <2>2, <2>3, BooksFrame
<1>6. ASSUME NEW r \in Requests,
             \/ Refund(r) \/ Consume(r) \/ Recover(r) \/ Crash(r)
             \/ Persist(r) /\ ~Consumes(r)
      PROVE  BooksInv'
  <2>1. /\ pc'[r] = "idle"
        /\ \A s \in Documents : claim'[r][s] = 0
        /\ \A q \in Requests \ {r} : /\ pc'[q] = pc[q] /\ job'[q] = job[q]
                                     /\ claim'[q] = claim[q]
    BY <1>0, <1>6 DEF Refund, Consume, Recover, Crash, Persist, Finish, NoClaim,
                      TypeOK
  <2>2. \A s \in Documents : HeldOf(s)'[r] = 0 /\ HeldOf(s)[r] = Held(r)[s]
    BY <1>h, <2>1 DEF InTransaction, HeldOf
  <2>3. \A s \in Documents :
          (credit'[s] - credit[s]) + (0 - Held(r)[s]) + (spent'[s] - spent[s]) = 0
    <3>1. CASE Keep(r) /\ credit' = credit
      BY <1>0, <3>1, HeldValue DEF Keep, HeldOf
    <3>2. CASE /\ pc[r] \in {"refund", "recover"} /\ spent' = spent
               /\ credit' = Refunded(r)
      BY <1>0, <1>h, <2>2, <3>2 DEF Refunded, InTransaction
    <3> QED BY <1>6, <3>1, <3>2
        DEF Refund, Consume, Recover, Crash, Persist, ledgerVars
  <2>4. RefundSound(r)'
    BY <2>1 DEF RefundSound
  <2> QED BY <1>0, <2>1, <2>2, <2>3, <2>4, BooksFrame
<1>7. ASSUME NEW r \in Requests, DbError(r) PROVE BooksInv'
  <2>1. /\ pc[r] \notin InTransaction /\ pc'[r] = "recover"
        /\ "db_error" \in Faults
        /\ job' = job /\ claim' = claim /\ spent' = spent /\ credit' = credit
        /\ \A q \in Requests \ {r} : pc'[q] = pc[q]
    BY <1>0, <1>7 DEF DbError, Goto, TypeOK, InTransaction, ledgerVars
  <2>2. \A s \in Documents :
          HeldOf(s)'[r] = claim[r][s] /\ HeldOf(s)[r] \in {0, claim[r][s]}
    BY <1>h, <2>1 DEF InTransaction
  <2>3. RefundSound(r)'
    BY <2>1 DEF RefundSound
  <2> QED BY <1>0, <2>1, <2>2, <2>3, BooksFrame
<1>8. CASE UNCHANGED vars
  BY <1>8 DEF vars, ledgerVars, requestVars, BooksInv, Books, HeldOf, Held,
              RefundSound
<1>9. CASE Next
  BY <1>1, <1>2, <1>3, <1>4, <1>5, <1>6, <1>7, <1>9 DEF Next, Advance
<1> QED BY <1>8, <1>9

\* No race of emissions, rejection, lost answer or crash loses credit or makes
\* some: as long as no statement of the database fails, what a source was
\* granted is on it, held by a request in flight, or spent by one that is over.
THEOREM CreditIsConserved ==
  ASSUME "db_error" \notin Faults
  PROVE  Spec => []RefundExactlyOnce
<1>1. BooksInv => RefundExactlyOnce
  BY DEF BooksInv, Books, HeldOf, RefundExactlyOnce, SumFunction
<1> QED BY <1>1, BooksInit, BooksNext, CreditInit, CreditNext, PTL DEF Spec

\* Even when statements fail at any point, credit does not disappear: a failure
\* can only leave a source with more than it was granted.
THEOREM CreditIsNotLost ==
  Spec => [](\A s \in Documents : Books(s) >= Granted[s])
<1>1. BooksInv => \A s \in Documents : Books(s) >= Granted[s]
  BY DEF BooksInv
<1> QED BY <1>1, BooksInit, BooksNext, CreditInit, CreditNext, PTL DEF Spec

-----------------------------------------------------------------------------
(* The mirror of the numbers.  Inductive with the requests that know of a   *)
(* validation and have not counted it: each of them will count it once.     *)

Step(r) ==
  \/ \E d \in Drafts : Emit(r, d)
  \/ Advance(r) \/ AbortCompensation(r) \/ DbError(r) \/ Crash(r)

\* The locals of the other requests are their own.
LEMMA OthersUntouched ==
  ASSUME TypeOK, NEW r \in Requests, Step(r), NEW q \in Requests \ {r}
  PROVE  /\ pc'[q] = pc[q] /\ job'[q] = job[q]
         /\ tx'[q] = tx[q] /\ claim'[q] = claim[q]
<1>1. CASE Send(r)
  BY <1>1 DEF Send, Accepted, Rejected, SendFailed, ReplyLost, Goto, TypeOK
<1>2. CASE OpenCompensation(r) \/ StopClaiming(r) \/ CommitCompensation(r)
  BY <1>2 DEF OpenCompensation, StopClaiming, CommitCompensation, Goto, TypeOK
<1>3. CASE PickSource(r)
  BY <1>3 DEF PickSource, Goto, TypeOK
<1>4. CASE ClaimSource(r)
  BY <1>4 DEF ClaimSource, AfterLateClaim, Goto, TypeOK
<1>5. CASE \/ \E d \in Drafts : Emit(r, d)
           \/ ReadResolution(r) \/ BuildPayload(r) \/ DbError(r)
           \/ RefundRejected(r)
  BY <1>5 DEF Emit, ReadResolution, BuildPayload, DbError, RefundRejected, Goto,
              TypeOK
<1>6. CASE \/ Refund(r) \/ Persist(r) \/ Consume(r) \/ Recover(r)
           \/ AbortCompensation(r) \/ Crash(r)
  BY <1>6 DEF Refund, Persist, Consume, Recover, AbortCompensation, Crash,
              Finish, Goto, TypeOK
<1> QED BY <1>1, <1>2, <1>3, <1>4, <1>5, <1>6 DEF Step, Advance

Holders == {r \in Requests : /\ pc[r] \in {"persist", "consume"}
                             /\ job[r].verdict = "accepted"}
ValidatedDrafts == {d \in Drafts : dian[d] # "none"}

\* What a request knows when it counts.
CountSound(r) ==
  /\ pc[r] # "idle" => job[r].doc \in Drafts
  /\ pc[r] = "consume" => job[r].verdict = "accepted"
  /\ pc[r] = "refundRejected" => job[r].verdict = "rejected"

CountInv ==
  /\ \A r \in Requests : CountSound(r)
  /\ next - From + Cardinality(Holders) <= Cardinality(ValidatedDrafts)

\* Both sets are finite, so that counting them makes sense.
LEMMA CountedSets ==
  /\ IsFiniteSet(Holders) /\ Cardinality(Holders) \in Nat
  /\ IsFiniteSet(ValidatedDrafts) /\ Cardinality(ValidatedDrafts) \in Nat
<1>1. Holders \in SUBSET Requests /\ ValidatedDrafts \in SUBSET Documents
  BY EmissionAssumption DEF Holders, ValidatedDrafts
<1> QED BY <1>1, FS_Subset, FS_CardinalityType, DocumentsAssumption,
           EmissionAssumption

LEMMA CountInit == Init => CountInv
<1> SUFFICES ASSUME Init PROVE CountInv
  OBVIOUS
<1>1. Holders = {} /\ \A r \in Requests : CountSound(r)
  BY DEF Init, Holders, CountSound
<1>2. next - From = 0
  BY EmissionAssumption DEF Init
<1> QED BY <1>1, <1>2, CountedSets, FS_EmptySet DEF CountInv

\* A step that counts nothing.
LEMMA CountFrame ==
  ASSUME TypeOK, CountInv, NEW r \in Requests, Step(r), CountSound(r)',
         next' = next,
         \A d \in Documents : dian[d] # "none" => dian'[d] # "none",
         r \in Holders' => r \in Holders
  PROVE  CountInv'
<1>1. \A q \in Requests : CountSound(q)'
  BY OthersUntouched DEF CountInv, CountSound
<1>2. Holders' \in SUBSET Holders
  BY OthersUntouched DEF Holders
<1>3. ValidatedDrafts \in SUBSET ValidatedDrafts'
  BY EmissionAssumption DEF ValidatedDrafts
<1>4. IsFiniteSet(ValidatedDrafts')
  <2>1. ValidatedDrafts' \in SUBSET Documents
    BY EmissionAssumption DEF ValidatedDrafts
  <2> QED BY <2>1, FS_Subset, DocumentsAssumption
<1>5. /\ Cardinality(Holders') <= Cardinality(Holders)
      /\ Cardinality(ValidatedDrafts) <= Cardinality(ValidatedDrafts')
      /\ Cardinality(Holders') \in Nat /\ Cardinality(ValidatedDrafts') \in Nat
  BY <1>2, <1>3, <1>4, CountedSets, FS_Subset, FS_CardinalityType
<1>6. next \in Int /\ From \in Int
  BY EmissionAssumption DEF TypeOK
<1> QED BY <1>1, <1>5, <1>6, CountedSets DEF CountInv

LEMMA CountNext ==
  TypeOK /\ TypeOK' /\ VerdictInv /\ CountInv /\ [Next]_vars => CountInv'
<1> SUFFICES ASSUME TypeOK, TypeOK', VerdictInv, CountInv, [Next]_vars
             PROVE  CountInv'
  OBVIOUS
<1>0. /\ \A r \in Requests : CountSound(r) /\ VerdictSound(r)
      /\ next \in Nat /\ From \in Nat
  BY EmissionAssumption DEF CountInv, VerdictInv, TypeOK
<1>1. ASSUME NEW r \in Requests, NEW d \in Drafts, Emit(r, d)
      PROVE  CountInv'
  <2>1. /\ pc'[r] = "compensate" /\ job'[r].doc = d
        /\ dian' = dian /\ next' = next
    BY <1>1 DEF Emit, Goto, TypeOK, Job
  <2>2. CountSound(r)' /\ r \notin Holders'
    BY <2>1 DEF CountSound, Holders
  <2> QED BY <1>1, <2>1, <2>2, CountFrame DEF Step
<1>2. ASSUME NEW r \in Requests, Send(r), ~Accepted(r)
      PROVE  CountInv'
  <2>1. /\ pc[r] = "send" /\ next' = next
        /\ job'[r].doc = job[r].doc
        /\ \/ pc'[r] = "refund"
           \/ pc'[r] = "refundRejected" /\ job'[r].verdict = "rejected"
    BY <1>2 DEF Send, Rejected, SendFailed, ReplyLost, Goto, TypeOK, Job
  <2>2. \A d \in Documents : dian[d] # "none" => dian'[d] # "none"
    BY <1>2 DEF Send, Rejected, SendFailed, ReplyLost, TypeOK
  <2>3. CountSound(r)' /\ r \notin Holders'
    BY <1>0, <2>1 DEF CountSound, Holders
  <2> QED BY <1>2, <2>1, <2>2, <2>3, CountFrame DEF Step, Advance
<1>3. ASSUME NEW r \in Requests, Send(r), Accepted(r)
      PROVE  CountInv'
  <2> DEFINE d == job[r].doc
  <2>1. /\ pc[r] = "send" /\ next' = next /\ d \in Drafts
        /\ pc'[r] = "persist" /\ job'[r].verdict = "accepted"
        /\ job'[r].doc = d
        /\ dian[d] = "none" /\ dian' = [dian EXCEPT ![d] = job[r].form]
        /\ job[r].form # "none"
    BY <1>0, <1>3 DEF Send, Accepted, Goto, TypeOK, Job, CountSound, VerdictSound
  <2>2. r \notin Holders /\ Holders' = Holders \cup {r}
    BY <1>3, <2>1, OthersUntouched DEF Holders, Step, Advance
  <2>3. d \notin ValidatedDrafts /\ ValidatedDrafts' = ValidatedDrafts \cup {d}
    BY <2>1, EmissionAssumption DEF ValidatedDrafts, TypeOK
  <2>4. /\ Cardinality(Holders') = Cardinality(Holders) + 1
        /\ Cardinality(ValidatedDrafts') = Cardinality(ValidatedDrafts) + 1
    BY <2>2, <2>3, CountedSets, FS_AddElement
  <2>5. \A q \in Requests : CountSound(q)'
    BY <1>0, <1>3, <2>1, OthersUntouched DEF CountSound, Step, Advance
  <2> QED BY <1>0, <2>1, <2>4, <2>5, CountedSets DEF CountInv
<1>4. ASSUME NEW r \in Requests, Consume(r)
      PROVE  CountInv'
  <2>1. /\ pc[r] = "consume" /\ next' = next + 1 /\ dian' = dian
        /\ pc'[r] = "idle" /\ job[r].verdict = "accepted"
    BY <1>0, <1>4 DEF Consume, Finish, TypeOK, CountSound
  <2>2. r \in Holders /\ Holders' = Holders \ {r}
    BY <1>4, <2>1, OthersUntouched DEF Holders, Step, Advance
  <2>3. Cardinality(Holders') = Cardinality(Holders) - 1
    BY <2>2, CountedSets, FS_RemoveElement
  <2>4. ValidatedDrafts' = ValidatedDrafts
    BY <2>1 DEF ValidatedDrafts
  <2>5. \A q \in Requests : CountSound(q)'
    BY <1>0, <1>4, <2>1, OthersUntouched DEF CountSound, Step, Advance
  <2>6. Cardinality(ValidatedDrafts') = Cardinality(ValidatedDrafts)
    BY <2>4
  <2> QED BY <1>0, <2>1, <2>3, <2>5, <2>6, CountedSets DEF CountInv
<1>5. ASSUME NEW r \in Requests,
             \/ OpenCompensation(r) \/ PickSource(r) \/ StopClaiming(r)
             \/ ClaimSource(r) \/ CommitCompensation(r)
             \/ ReadResolution(r) \/ BuildPayload(r) \/ RefundRejected(r)
             \/ DbError(r)
             \/ Persist(r) /\ Consumes(r)
      PROVE  CountInv'
  <2>1. /\ next' = next /\ dian' = dian /\ pc[r] # "idle"
        /\ job'[r].doc = job[r].doc /\ job'[r].verdict = job[r].verdict
    <3>1. next' = next /\ dian' = dian /\ pc[r] # "idle"
      BY <1>5 DEF OpenCompensation, PickSource, StopClaiming, ClaimSource,
         CommitCompensation, ReadResolution, BuildPayload, RefundRejected,
         Persist, DbError, InTransaction
    <3>2. job'[r].doc = job[r].doc /\ job'[r].verdict = job[r].verdict
      <4>1. CASE ReadResolution(r)
        BY <4>1 DEF ReadResolution, TypeOK, Job
      <4>2. CASE BuildPayload(r)
        BY <4>2 DEF BuildPayload, TypeOK, Job
      <4>3. CASE \/ OpenCompensation(r) \/ PickSource(r) \/ StopClaiming(r)
                 \/ ClaimSource(r) \/ CommitCompensation(r)
        BY <4>3 DEF OpenCompensation, PickSource, StopClaiming, ClaimSource,
           CommitCompensation
      <4>4. CASE RefundRejected(r) \/ DbError(r) \/ (Persist(r) /\ Consumes(r))
        BY <4>4 DEF RefundRejected, Persist, Consumes, DbError, InTransaction
      <4> QED BY <1>5, <4>1, <4>2, <4>3, <4>4
    <3> QED BY <3>1, <3>2
  <2>2. /\ pc'[r] # "refundRejected"
        /\ pc'[r] = "persist" => pc[r] = "refundRejected"
        /\ pc'[r] = "consume" => pc[r] = "persist" /\ job[r].verdict = "accepted"
    BY <1>5 DEF OpenCompensation, PickSource, StopClaiming, ClaimSource,
       AfterLateClaim, CommitCompensation, ReadResolution, BuildPayload,
       RefundRejected, Persist, Consumes, DbError, Goto, TypeOK
  <2>3. CountSound(r)'
    BY <1>0, <2>1, <2>2 DEF CountSound
  <2>4. r \in Holders' => r \in Holders
    BY <1>0, <2>1, <2>2 DEF Holders, CountSound
  <2> QED BY <1>5, <2>1, <2>3, <2>4, CountFrame DEF Step, Advance
<1>6. ASSUME NEW r \in Requests,
             \/ Refund(r) \/ Recover(r) \/ AbortCompensation(r) \/ Crash(r)
             \/ Persist(r) /\ ~Consumes(r)
      PROVE  CountInv'
  <2>1. next' = next /\ dian' = dian /\ pc'[r] = "idle"
    BY <1>6 DEF Refund, Persist, Recover, AbortCompensation, Crash, Finish, TypeOK
  <2>2. CountSound(r)' /\ r \notin Holders'
    BY <2>1 DEF CountSound, Holders
  <2> QED BY <1>6, <2>1, <2>2, CountFrame DEF Step, Advance
<1>7. CASE UNCHANGED vars
  BY <1>7 DEF vars, requestVars, CountInv, CountSound, Holders, ValidatedDrafts
<1>8. CASE Next
  <2>1. PICK r \in Requests : Step(r)
    BY <1>8 DEF Next, Step
  <2>2. Persist(r) => CountInv'
    BY <1>5, <1>6
  <2>3. Send(r) => CountInv'
    BY <1>2, <1>3
  <2> QED BY <1>1, <1>4, <1>5, <1>6, <2>1, <2>2, <2>3 DEF Step, Advance
<1> QED BY <1>7, <1>8

\* `next' counts no rejected, failed, lost or repeated bill, whatever happens
\* to the requests: it never gets ahead of what Factus numbered.
THEOREM NextIsNeverAhead == Spec => []NextNeverAhead
<1>1. TypeOK /\ CountInv => NextNeverAhead
  <2> SUFFICES ASSUME TypeOK, CountInv PROVE NextNeverAhead
    OBVIOUS
  <2>1. next \in Int /\ From \in Int
    BY EmissionAssumption DEF TypeOK
  <2> QED BY <2>1, CountedSets DEF CountInv, NextNeverAhead, ValidatedDrafts
<1>2. VerdictInv => TypeOK
  BY DEF VerdictInv
<1> QED BY <1>1, <1>2, CountInit, CountNext, VerdictInit, VerdictNext, PTL
        DEF Spec

-----------------------------------------------------------------------------
(* What the DIAN was told.  With one emission of a draft at a time, the     *)
(* draft a request works on is its own from the claim to the last write.    *)

Alone ==
  \A q, r \in Requests :
    q # r /\ pc[q] # "idle" /\ pc[r] # "idle" => job[q].doc # job[r].doc

FormOf(d) == DianForm(Total[d], paid[d])

FormSound(r) ==
  LET d == job[r].doc IN
  /\ pc[r] \notin {"idle", "consume", "recover"} => status[d] = "BORRADOR"
  /\ pc[r] \in InTransaction => /\ tx[r].seenStatus = "BORRADOR"
                                /\ tx[r].seenPaid = paid[d]
  /\ pc[r] = "send" => job[r].form = FormOf(d)
  /\ pc[r] = "persist" /\ job[r].verdict = "accepted" => dian[d] = FormOf(d)
  /\ pc[r] = "refundRejected" => job[r].verdict = "rejected"

ToldSound == \A d \in Documents : status[d] = "EMITIDA" => dian[d] = FormOf(d)

FormInv == Alone /\ ToldSound /\ \A r \in Requests : FormSound(r)

LEMMA FormInit == Init => FormInv
<1> SUFFICES ASSUME Init PROVE FormInv
  OBVIOUS
<1>1. \A r \in Requests : pc[r] = "idle"
  BY DEF Init
<1>2. \A d \in Documents : status[d] # "EMITIDA"
  BY DEF Init
<1> QED BY <1>1, <1>2 DEF FormInv, Alone, ToldSound, FormSound, InTransaction

\* A step of a request touches the row of its own document only.
LEMMA FormFrame ==
  ASSUME TypeOK, FormInv, NEW r \in Requests, Step(r), NEW d \in Documents,
         \A q \in Requests \ {r} : pc[q] # "idle" => job[q].doc # d,
         pc'[r] # "idle" => job'[r].doc = d,
         \A e \in Documents \ {d} : /\ status'[e] = status[e]
                                    /\ paid'[e] = paid[e] /\ dian'[e] = dian[e],
         status'[d] = "EMITIDA" => dian'[d] = DianForm(Total[d], paid'[d]),
         FormSound(r)'
  PROVE  FormInv'
<1>1. Alone'
  BY OthersUntouched DEF FormInv, Alone
<1>2. ToldSound'
  BY DEF FormInv, ToldSound, FormOf
<1>3. \A q \in Requests \ {r} : FormSound(q)'
  <2> SUFFICES ASSUME NEW q \in Requests \ {r} PROVE FormSound(q)'
    OBVIOUS
  <2>1. /\ FormSound(q) /\ pc'[q] = pc[q] /\ job'[q] = job[q] /\ tx'[q] = tx[q]
    BY OthersUntouched DEF FormInv
  <2>2. CASE pc[q] = "idle"
    BY <2>1, <2>2 DEF FormSound, InTransaction
  <2>3. CASE pc[q] # "idle"
    <3>1. job[q].doc \in Documents \ {d}
      BY <2>3 DEF TypeOK
    <3> QED BY <2>1, <3>1 DEF FormSound, FormOf
  <2> QED BY <2>2, <2>3
<1> QED BY <1>1, <1>2, <1>3 DEF FormInv

\* The rows stay as they are.
LEMMA FormQuiet ==
  ASSUME TypeOK, FormInv, NEW r \in Requests, Step(r),
         pc[r] # "idle", pc'[r] # "idle" => job'[r].doc = job[r].doc,
         status' = status, paid' = paid, dian' = dian, FormSound(r)'
  PROVE  FormInv'
<1> DEFINE d == job[r].doc
<1>1. d \in Documents /\ \A q \in Requests \ {r} : pc[q] # "idle" => job[q].doc # d
  BY DEF TypeOK, FormInv, Alone
<1>2. status'[d] = "EMITIDA" => dian'[d] = DianForm(Total[d], paid'[d])
  BY <1>1 DEF FormInv, ToldSound, FormOf
<1> HIDE DEF d
<1>3. pc'[r] # "idle" => job'[r].doc = d
  BY DEF d
<1> QED BY <1>1, <1>2, <1>3, FormFrame

LEMMA FormNext ==
  OneAtATime /\ TypeOK /\ VerdictInv /\ FormInv /\ [Next]_vars => FormInv'
<1> SUFFICES ASSUME OneAtATime, TypeOK, VerdictInv, FormInv, [Next]_vars
             PROVE  FormInv'
  OBVIOUS
<1>0. \A r \in Requests :
        /\ FormSound(r)
        /\ pc[r] # "idle" =>
             /\ job[r].doc \in Documents
             /\ \A q \in Requests \ {r} : pc[q] # "idle" => job[q].doc # job[r].doc
  BY DEF FormInv, Alone, TypeOK
<1>1. ASSUME NEW r \in Requests, NEW d \in Drafts, Emit(r, d) PROVE FormInv'
  <2>1. /\ pc'[r] = "compensate" /\ job'[r].doc = d /\ status[d] = "BORRADOR"
        /\ dian' = dian /\ status' = status /\ paid' = paid
        /\ \A q \in Requests : job[q].doc # d
        /\ d \in Documents
    BY <1>1, EmissionAssumption DEF Emit, Goto, TypeOK, Job, ledgerVars
  <2>2. FormSound(r)'
    BY <2>1 DEF FormSound, InTransaction
  <2> QED BY <1>1, <2>1, <2>2, FormFrame DEF Step
<1>2. ASSUME NEW r \in Requests, OpenCompensation(r) PROVE FormInv'
  <2> DEFINE d == job[r].doc
  <2>1. /\ pc[r] = "compensate" /\ job' = job /\ d \in Documents
        /\ dian' = dian /\ status' = status /\ paid' = paid
        /\ \/ pc'[r] = "resolution"
           \/ /\ pc'[r] = "pick" /\ tx'[r].seenStatus = status[d]
              /\ tx'[r].seenPaid = paid[d]
    BY <1>0, <1>2 DEF OpenCompensation, Opened, Goto, TypeOK, ledgerVars
  <2>2. FormSound(r)'
    BY <1>0, <2>1 DEF FormSound, InTransaction
  <2> QED BY <1>2, <2>1, <2>2, FormQuiet DEF Step, Advance
<1>3. ASSUME NEW r \in Requests,
             PickSource(r) \/ StopClaiming(r) \/ ClaimSource(r)
      PROVE  FormInv'
  <2>1. /\ pc[r] \in InTransaction /\ job' = job
        /\ dian' = dian /\ status' = status /\ paid' = paid
    BY <1>3 DEF PickSource, StopClaiming, ClaimSource, InTransaction, ledgerVars
  <2>2. /\ pc'[r] \in InTransaction \cup {"resolution"}
        /\ pc'[r] \in InTransaction => /\ tx'[r].seenStatus = tx[r].seenStatus
                                       /\ tx'[r].seenPaid = tx[r].seenPaid
    <3>1. CASE PickSource(r)
      BY <3>1 DEF PickSource, Goto, TypeOK, Locals, InTransaction
    <3>2. CASE StopClaiming(r)
      BY <3>2 DEF StopClaiming, Goto, TypeOK, InTransaction
    <3>3. CASE ClaimSource(r)
      BY <3>3 DEF ClaimSource, AfterLateClaim, Goto, TypeOK, Locals,
                  InTransaction
    <3> QED BY <1>3, <3>1, <3>2, <3>3
  <2>3. FormSound(r)'
    BY <1>0, <2>1, <2>2 DEF FormSound, FormOf, InTransaction
  <2> QED BY <1>3, <2>1, <2>3, FormQuiet DEF Step, Advance, InTransaction
<1>4. ASSUME NEW r \in Requests, CommitCompensation(r) PROVE FormInv'
  <2> DEFINE d == job[r].doc
  <2>1. /\ pc[r] = "commit" /\ pc'[r] = "resolution" /\ job' = job
        /\ dian' = dian /\ d \in Documents
        /\ paid' = [paid EXCEPT ![d] = NewPaid(r)]
        /\ status' = [status EXCEPT ![d] =
             ResolveInvoiceStatus(Total[d], NewPaid(r), FALSE,
                                  tx[r].seenStatus)]
        /\ tx[r].seenStatus = "BORRADOR"
    BY <1>0, <1>4 DEF CommitCompensation, Goto, TypeOK, FormSound, InTransaction
  <2>2. /\ status'[d] = "BORRADOR"
        /\ \A e \in Documents \ {d} : /\ status'[e] = status[e]
                                      /\ paid'[e] = paid[e] /\ dian'[e] = dian[e]
    BY <2>1 DEF ResolveInvoiceStatus, IsFrozen, TypeOK, LedgerTypeOK
  <2>3. FormSound(r)'
    BY <2>1, <2>2 DEF FormSound, InTransaction
  <2>4. /\ Step(r) /\ (pc'[r] # "idle" => job'[r].doc = d)
        /\ \A q \in Requests \ {r} : pc[q] # "idle" => job[q].doc # d
        /\ (status'[d] = "EMITIDA" => dian'[d] = DianForm(Total[d], paid'[d]))
    BY <1>0, <1>4, <2>1, <2>2 DEF Step, Advance
  <2> HIDE DEF d
  <2> QED BY <2>1, <2>2, <2>3, <2>4, FormFrame
<1>5. ASSUME NEW r \in Requests, Send(r) PROVE FormInv'
  <2> DEFINE d == job[r].doc
  <2>1. /\ pc[r] = "send" /\ status' = status /\ paid' = paid /\ d \in Documents
        /\ job[r].form = FormOf(d) /\ status[d] = "BORRADOR"
    BY <1>0, <1>5 DEF Send, FormSound, ledgerVars, InTransaction
  <2>2. /\ dian' = dian \/ dian' = [dian EXCEPT ![d] = job[r].form]
        /\ job'[r].doc = d
        /\ \/ pc'[r] = "refund"
           \/ pc'[r] = "refundRejected" /\ job'[r].verdict = "rejected"
           \/ /\ pc'[r] = "persist"
              /\ dian' = [dian EXCEPT ![d] = job[r].form]
    <3>1. CASE Accepted(r)
      BY <3>1 DEF Accepted, Goto, TypeOK, Job
    <3>2. CASE Rejected(r)
      BY <3>2 DEF Rejected, Goto, TypeOK, Job
    <3>3. CASE SendFailed(r)
      BY <3>3 DEF SendFailed, Goto, TypeOK
    <3>4. CASE ReplyLost(r)
      BY <3>4 DEF ReplyLost, Goto, TypeOK
    <3> QED BY <1>5, <3>1, <3>2, <3>3, <3>4 DEF Send
  <2>3. FormSound(r)'
    BY <2>1, <2>2 DEF FormSound, FormOf, InTransaction, TypeOK
  <2>4. /\ Step(r) /\ (pc'[r] # "idle" => job'[r].doc = d)
        /\ \A q \in Requests \ {r} : pc[q] # "idle" => job[q].doc # d
        /\ (status'[d] = "EMITIDA" => dian'[d] = DianForm(Total[d], paid'[d]))
        /\ \A e \in Documents \ {d} : /\ status'[e] = status[e]
                                      /\ paid'[e] = paid[e] /\ dian'[e] = dian[e]
    BY <1>0, <1>5, <2>1, <2>2 DEF Step, Advance, TypeOK
  <2> HIDE DEF d
  <2> QED BY <2>1, <2>3, <2>4, FormFrame
<1>6. ASSUME NEW r \in Requests, Persist(r) PROVE FormInv'
  <2> DEFINE d == job[r].doc
  <2>1. /\ pc[r] = "persist" /\ dian' = dian /\ paid' = paid /\ d \in Documents
        /\ status' = [status EXCEPT ![d] = WrittenStatus(r)]
        /\ \/ pc'[r] = "idle"
           \/ pc'[r] = "consume" /\ job' = job
    BY <1>0, <1>6 DEF Persist, Goto, Finish, TypeOK
  <2>2. job[r].verdict \in {"none", "accepted", "rejected"}
    BY DEF TypeOK, Job
  <2>3. VerdictSound(r) => (status'[d] = "EMITIDA" => dian'[d] = DianForm(Total[d], paid'[d]))
    BY <1>0, <2>1, <2>2 DEF WrittenStatus, FormSound, FormOf, VerdictSound,
       TypeOK, LedgerTypeOK
  <2>4. FormSound(r)'
    BY <2>1 DEF FormSound, InTransaction
  <2>5. /\ Step(r) /\ (pc'[r] # "idle" => job'[r].doc = d)
        /\ \A q \in Requests \ {r} : pc[q] # "idle" => job[q].doc # d
        /\ \A e \in Documents \ {d} : /\ status'[e] = status[e]
                                      /\ paid'[e] = paid[e] /\ dian'[e] = dian[e]
    BY <1>0, <1>6, <2>1 DEF Step, Advance, TypeOK, LedgerTypeOK
  <2>6. VerdictSound(r)
    BY DEF VerdictInv
  <2> HIDE DEF d
  <2> QED BY <2>1, <2>3, <2>4, <2>5, <2>6, FormFrame
<1>7. ASSUME NEW r \in Requests,
             \/ ReadResolution(r) \/ BuildPayload(r) \/ RefundRejected(r)
             \/ DbError(r)
      PROVE  FormInv'
  <2>1. /\ pc[r] # "idle" /\ job'[r].doc = job[r].doc
        /\ job'[r].verdict = job[r].verdict
        /\ dian' = dian /\ status' = status /\ paid' = paid
    BY <1>7 DEF ReadResolution, BuildPayload, RefundRejected, DbError, TypeOK,
                Job, ledgerVars
  <2>2. \/ pc'[r] \in {"payload", "refund"} /\ pc[r] \in {"resolution", "payload"}
        \/ /\ pc'[r] = "send" /\ pc[r] = "payload"
           /\ job'[r].form = FormOf(job[r].doc)
        \/ pc'[r] = "persist" /\ pc[r] = "refundRejected"
        \/ pc'[r] = "recover"
    BY <1>7 DEF ReadResolution, BuildPayload, RefundRejected, DbError, Goto,
                TypeOK, Job, FormOf
  <2>3. FormSound(r)'
    BY <1>0, <2>1, <2>2 DEF FormSound, FormOf, InTransaction
  <2> QED BY <1>7, <2>1, <2>3, FormQuiet DEF Step, Advance
<1>8. ASSUME NEW r \in Requests,
             \/ Refund(r) \/ Consume(r) \/ Recover(r)
             \/ AbortCompensation(r) \/ Crash(r)
      PROVE  FormInv'
  <2>1. /\ pc[r] # "idle" /\ pc'[r] = "idle"
        /\ dian' = dian /\ status' = status /\ paid' = paid
    BY <1>8 DEF Refund, Consume, Recover, AbortCompensation, Crash, Finish,
                TypeOK, InTransaction, ledgerVars
  <2>2. FormSound(r)'
    BY <2>1 DEF FormSound, InTransaction
  <2> QED BY <1>8, <2>1, <2>2, FormQuiet DEF Step, Advance
<1>9. CASE UNCHANGED vars
  BY <1>9 DEF vars, ledgerVars, requestVars, FormInv, Alone, ToldSound,
              FormSound, FormOf
<1>10. CASE Next
  BY <1>1, <1>2, <1>3, <1>4, <1>5, <1>6, <1>7, <1>8, <1>10 DEF Next, Advance
<1> QED BY <1>9, <1>10

\* With one emission of a draft at a time, whatever fails, is lost or stops:
\* an emitted invoice was declared as paid ("contado") exactly if its credit
\* paid it in full.
THEOREM DeclaredFormIsRight ==
  ASSUME OneAtATime
  PROVE  Spec => []FormMatchesLedger
<1>1. TypeOK /\ LedgerBalanced /\ FormInv => FormMatchesLedger
  <2> SUFFICES ASSUME TypeOK, LedgerBalanced, FormInv,
                      NEW d \in Drafts, status[d] = "EMITIDA"
               PROVE  dian[d] = "contado" <=> paid[d] > 0 /\ balance[d] = 0
    BY DEF FormMatchesLedger
  <2>1. /\ d \in Documents /\ dian[d] = DianForm(Total[d], paid[d])
        /\ paid[d] \in Int /\ balance[d] \in Int /\ Total[d] \in Int
        /\ paid[d] + balance[d] = Total[d] /\ paid[d] <= Total[d]
    BY DocumentsAssumption, EmissionAssumption
       DEF FormInv, ToldSound, FormOf, LedgerBalanced, TypeOK, LedgerTypeOK
  <2> QED BY <2>1 DEF DianForm
<1>2. LedgerInv => LedgerBalanced
  BY DEF LedgerInv
<1>3. VerdictInv => TypeOK
  BY DEF VerdictInv
<1> QED BY <1>1, <1>2, <1>3, FormInit, FormNext, LedgerInit, LedgerNext,
           CreditInit, CreditNext, VerdictInit, VerdictNext, PTL DEF Spec

-----------------------------------------------------------------------------
(* Credit pays or stays.  With one emission of a draft at a time, what a    *)
(* transaction has claimed adds up to what it is about to write as paid, and *)
(* all of it comes from documents of the customer of the draft.             *)

Payer(r) == CustomerDocuments(Customer[job[r].doc])
Claimed(r) == SumFunctionOnSet(claim[r], Payer(r))

ClaimedSound(r) ==
  pc[r] \in InTransaction =>
    /\ Claimed(r) = AppliedTotal(r)
    /\ \A s \in Documents \ Payer(r) : claim[r][s] = 0
    /\ pc[r] = "claim" => /\ tx[r].source \in Payer(r)
                          /\ claim[r][tx[r].source] = 0

PaysOrStays ==
  \A c : CompensatedBy(c) + CreditOf(c) >= GrantedTo(c)

VanishInv == PaysOrStays /\ \A r \in Requests : ClaimedSound(r)

\* The documents of a customer can be counted and added up.
LEMMA CustomerSets ==
  ASSUME NEW c
  PROVE  /\ IsFiniteSet(CustomerDocuments(c))
         /\ IsFiniteSet(CustomerDocuments(c) \cap Drafts)
         /\ CustomerDocuments(c) \in SUBSET Documents
BY FS_Subset, FS_Intersection, DocumentsAssumption DEF CustomerDocuments

LEMMA CustomerSums ==
  ASSUME TypeOK, NEW c
  PROVE  CompensatedBy(c) \in Int /\ CreditOf(c) \in Int /\ GrantedTo(c) \in Int
<1>0. \A d \in Documents : /\ credit[d] \in Int /\ paid[d] \in Int
                           /\ Granted[d] \in Int
  BY EmissionAssumption DEF TypeOK, LedgerTypeOK
<1>1. /\ \A d \in CustomerDocuments(c) : credit[d] \in Int /\ Granted[d] \in Int
      /\ \A d \in CustomerDocuments(c) \cap Drafts : paid[d] \in Int
  BY <1>0, CustomerSets
<1> QED BY <1>1, CustomerSets, SumInt DEF CompensatedBy, CreditOf, GrantedTo

LEMMA VanishInit == Init => VanishInv
<1> SUFFICES ASSUME Init PROVE VanishInv
  OBVIOUS
<1>1. TypeOK
  BY TypeInit
<1>2. ASSUME NEW c PROVE CompensatedBy(c) + CreditOf(c) >= GrantedTo(c)
  <2>1. \A d \in CustomerDocuments(c) \cap Drafts : paid[d] = 0
    BY CustomerSets DEF Init
  <2>2. CompensatedBy(c) = 0
    BY <2>1, CustomerSets, SumZero DEF CompensatedBy
  <2>3. CreditOf(c) = GrantedTo(c)
    BY DEF Init, CreditOf, GrantedTo
  <2> QED BY <1>1, <2>2, <2>3, CustomerSums
<1>3. \A r \in Requests : ClaimedSound(r)
  BY DEF Init, ClaimedSound, InTransaction
<1> QED BY <1>2, <1>3 DEF VanishInv, PaysOrStays

\* Nothing is taken from any source and no draft loses its payment.
LEMMA VanishFrame ==
  ASSUME TypeOK, TypeOK', VanishInv, NEW r \in Requests, Step(r),
         paid' = paid, \A s \in Documents : credit'[s] >= credit[s],
         ClaimedSound(r)'
  PROVE  VanishInv'
<1>1. ASSUME NEW c PROVE CompensatedBy(c)' + CreditOf(c)' >= GrantedTo(c)'
  <2>1. CompensatedBy(c)' = CompensatedBy(c) /\ GrantedTo(c)' = GrantedTo(c)
    BY DEF CompensatedBy, GrantedTo, CustomerDocuments
  <2>2. \A s \in CustomerDocuments(c) :
          credit[s] \in Int /\ credit'[s] \in Int /\ credit[s] <= credit'[s]
    BY CustomerSets DEF TypeOK, LedgerTypeOK
  <2>3. CreditOf(c) <= CreditOf(c)' /\ CreditOf(c)' \in Int
    BY <2>2, CustomerSets, SumMonotone, SumInt DEF CreditOf, CustomerDocuments
  <2>4. CompensatedBy(c) + CreditOf(c) >= GrantedTo(c)
    BY DEF VanishInv, PaysOrStays
  <2> QED BY <2>1, <2>3, <2>4, CustomerSums
<1>2. ASSUME NEW q \in Requests \ {r} PROVE ClaimedSound(q)'
  <2>1. /\ pc'[q] = pc[q] /\ job'[q] = job[q]
        /\ tx'[q] = tx[q] /\ claim'[q] = claim[q]
    BY OthersUntouched
  <2>2. ClaimedSound(q)
    BY DEF VanishInv
  <2> QED BY <2>1, <2>2 DEF ClaimedSound, Claimed, Payer, CustomerDocuments,
                            AppliedTotal
<1> QED BY <1>1, <1>2 DEF VanishInv, PaysOrStays

LEMMA VanishNext ==
  /\ CreditInv /\ CreditInv' /\ FormInv /\ CountInv /\ VanishInv /\ [Next]_vars
  => VanishInv'
<1> SUFFICES ASSUME CreditInv, CreditInv', FormInv, CountInv, VanishInv,
                    [Next]_vars
             PROVE  VanishInv'
  OBVIOUS
<1>0. /\ TypeOK /\ TypeOK'
      /\ \A r \in Requests :
           /\ ClaimedSound(r) /\ ClaimSound(r) /\ FormSound(r) /\ CountSound(r)
           /\ pc[r] # "idle" => job[r].doc \in Documents
           /\ claim[r] \in [Documents -> Int] /\ tx[r] \in Locals
  BY DEF CreditInv, VanishInv, ClaimsSound, FormInv, CountInv, TypeOK
<1>1. ASSUME NEW r \in Requests, OpenCompensation(r) PROVE VanishInv'
  <2> DEFINE d == job[r].doc
  <2>1. /\ pc[r] = "compensate" /\ job' = job /\ claim' = claim
        /\ paid' = paid /\ credit' = credit
        /\ d \in Documents /\ Total[d] \in Int /\ paid[d] \in Int
        /\ \/ pc'[r] = "resolution"
           \/ pc'[r] = "pick" /\ tx'[r] = Opened(d)
    <3>1. /\ pc[r] = "compensate" /\ job' = job /\ claim' = claim
          /\ paid' = paid /\ credit' = credit
      BY <1>1 DEF OpenCompensation, ledgerVars
    <3>2. d \in Documents
      BY <1>0, <3>1
    <3>3. Total[d] \in Int /\ paid[d] \in Int
      <4>1. \A s \in Documents : Total[s] \in Int /\ paid[s] \in Int
        BY <1>0, DocumentsAssumption DEF TypeOK, LedgerTypeOK
      <4> QED BY <3>2, <4>1
    <3>4. \/ pc'[r] = "resolution"
          \/ pc'[r] = "pick" /\ tx'[r] = Opened(d)
      <4>1. /\ pc \in [Requests -> PC] /\ tx \in [Requests -> Locals]
        BY <1>0 DEF TypeOK
      <4> HIDE DEF d
      <4>2. \/ pc' = [pc EXCEPT ![r] = "resolution"]
            \/ /\ pc' = [pc EXCEPT ![r] = "pick"]
               /\ tx' = [tx EXCEPT ![r] = Opened(job[r].doc)]
        BY <1>1 DEF OpenCompensation, Goto
      <4> QED BY <4>1, <4>2 DEF d
    <3> QED BY <3>1, <3>2, <3>3, <3>4
  <2>2. claim'[r] = NoClaim
    BY <1>0, <2>1 DEF ClaimSound
  <2>3. SumFunctionOnSet(NoClaim, Payer(r)) = 0
    BY CustomerSets, SumZero DEF Payer, NoClaim
  <2>4. pc'[r] = "pick" => AppliedTotal(r)' = 0
    <3> SUFFICES ASSUME pc'[r] = "pick" PROVE AppliedTotal(r)' = 0
      OBVIOUS
    <3>1. AppliedTotal(r)' = Total[d] - paid[d] - (Total[d] - paid[d])
      BY <2>1 DEF AppliedTotal, Opened
    <3> QED BY <2>1, <3>1
  <2>5. ClaimedSound(r)'
    BY <2>1, <2>2, <2>3, <2>4
       DEF ClaimedSound, Claimed, Payer, CustomerDocuments, NoClaim, InTransaction
  <2>6. \A s \in Documents : credit'[s] >= credit[s]
    BY <1>0, <2>1 DEF TypeOK, LedgerTypeOK
  <2> QED BY <1>0, <1>1, <2>1, <2>5, <2>6, VanishFrame DEF Step, Advance
<1>2. ASSUME NEW r \in Requests, PickSource(r) \/ StopClaiming(r)
      PROVE  VanishInv'
  <2>1. /\ pc[r] = "pick" /\ job' = job /\ claim' = claim
        /\ paid' = paid /\ credit' = credit
    BY <1>2 DEF PickSource, StopClaiming, ledgerVars
  <2>2. /\ pc'[r] \in InTransaction =>
             /\ tx'[r].need = tx[r].need /\ tx'[r].seenPaid = tx[r].seenPaid
        /\ pc'[r] = "claim" => tx'[r].source \in Sources(r)
    <3>1. CASE PickSource(r)
      BY <1>0, <3>1 DEF PickSource, Goto, TypeOK, Locals
    <3>2. CASE StopClaiming(r)
      BY <1>0, <3>2 DEF StopClaiming, Goto, TypeOK, InTransaction
    <3> QED BY <1>2, <3>1, <3>2
  <2>3. pc'[r] = "claim" => /\ tx'[r].source \in Payer(r)
                            /\ claim[r][tx'[r].source] = 0
    BY <2>2 DEF Sources, Payer, CustomerDocuments
  <2>4. ClaimedSound(r)
    BY <1>0
  <2>5. ClaimedSound(r)'
    BY <2>1, <2>2, <2>3, <2>4
       DEF ClaimedSound, Claimed, Payer, CustomerDocuments, AppliedTotal,
           InTransaction
  <2>6. \A s \in Documents : credit'[s] >= credit[s]
    BY <1>0, <2>1 DEF TypeOK, LedgerTypeOK
  <2> QED BY <1>0, <1>2, <2>1, <2>5, <2>6, VanishFrame DEF Step, Advance
<1>3. ASSUME NEW r \in Requests, ClaimSource(r) PROVE VanishInv'
  <2> DEFINE s == tx[r].source
             d == job[r].doc
  <2>1. /\ pc[r] = "claim" /\ pc'[r] = "pick" /\ job' = job
        /\ paid' = paid /\ credit' = credit
        /\ s \in Payer(r) /\ claim[r][s] = 0
        /\ d \in Documents /\ Total[d] \in Int
        /\ tx[r].seenPaid \in Int /\ tx[r].need \in Int /\ tx[r].wanted \in Int
    BY <1>0, <1>3, DocumentsAssumption
       DEF ClaimSource, AfterLateClaim, Goto, TypeOK, ClaimedSound,
           InTransaction, Locals, ledgerVars
  <2>2. CASE CoversWanted(r)
    <3>1. /\ claim'[r] = [claim[r] EXCEPT ![s] = tx[r].wanted]
          /\ tx'[r].need = tx[r].need - tx[r].wanted
          /\ tx'[r].seenPaid = tx[r].seenPaid
      BY <1>0, <1>3, <2>2 DEF ClaimSource, TypeOK, Locals
    <3>2. /\ \A x \in Payer(r) : claim[r][x] \in Int /\ claim'[r][x] \in Int
          /\ \A x \in Payer(r) \ {s} : claim'[r][x] = claim[r][x]
          /\ claim'[r][s] = tx[r].wanted
          /\ IsFiniteSet(Payer(r)) /\ Payer(r) \in SUBSET Documents
      <4>1. IsFiniteSet(Payer(r)) /\ Payer(r) \in SUBSET Documents
        BY CustomerSets DEF Payer
      <4>2. claim[r] \in [Documents -> Int] /\ s \in Documents /\ s \in Payer(r)
        BY <1>0, <2>1, <4>1 DEF TypeOK
      <4>3. /\ \A x \in Documents : claim[r][x] \in Int
            /\ \A x \in Documents \ {s} : claim'[r][x] = claim[r][x]
            /\ claim'[r][s] = tx[r].wanted /\ tx[r].wanted \in Int
        <5> HIDE DEF s
        <5> QED BY <2>1, <3>1, <4>2
      <4>4. \A x \in Documents : claim'[r][x] \in Int
        <5> HIDE DEF s
        <5> QED BY <4>3
      <4> HIDE DEF s
      <4> QED BY <4>1, <4>2, <4>3, <4>4
    <3>3. /\ SumFunctionOnSet(claim'[r], Payer(r))
               = SumFunctionOnSet(claim[r], Payer(r)) + (claim'[r][s] - claim[r][s])
          /\ SumFunctionOnSet(claim[r], Payer(r)) \in Int
      <4> HIDE DEF s
      <4> QED BY <2>1, <3>2, SumUpdate
    <3>4. SumFunctionOnSet(claim[r], Payer(r)) = Total[d] - tx[r].seenPaid - tx[r].need
      BY <1>0, <2>1 DEF ClaimedSound, Claimed, AppliedTotal, InTransaction
    <3>5. SumFunctionOnSet(claim'[r], Payer(r))
            = Total[d] - tx'[r].seenPaid - tx'[r].need
      BY <2>1, <3>1, <3>2, <3>3, <3>4
    <3>6. \A x \in Documents \ Payer(r) : claim'[r][x] = 0
      BY <1>0, <2>1, <3>1, <3>2 DEF ClaimedSound, InTransaction
    <3>7. Payer(r)' = Payer(r)
      BY <2>1 DEF Payer, CustomerDocuments
    <3>8. ClaimedSound(r)'
      BY <2>1, <3>5, <3>6, <3>7 DEF ClaimedSound, Claimed, AppliedTotal,
                                    InTransaction
    <3>9. \A x \in Documents : credit'[x] >= credit[x]
      BY <1>0, <2>1 DEF TypeOK, LedgerTypeOK
    <3> QED BY <1>0, <1>3, <2>1, <3>8, <3>9, VanishFrame DEF Step, Advance
  <2>3. CASE ~CoversWanted(r)
    <3>1. claim' = claim /\ tx' = tx
      BY <1>3, <2>3 DEF ClaimSource
    <3>2. ClaimedSound(r)
      BY <1>0
    <3>3. ClaimedSound(r)'
      BY <2>1, <3>1, <3>2 DEF ClaimedSound, Claimed, Payer, CustomerDocuments,
                              AppliedTotal, InTransaction
    <3>4. \A x \in Documents : credit'[x] >= credit[x]
      BY <1>0, <2>1 DEF TypeOK, LedgerTypeOK
    <3> QED BY <1>0, <1>3, <2>1, <3>3, <3>4, VanishFrame DEF Step, Advance
  <2> QED BY <2>2, <2>3
<1>4. ASSUME NEW r \in Requests, CommitCompensation(r) PROVE VanishInv'
  <2>0. PICK d \in Drafts : d = job[r].doc /\ d \in Documents
    BY <1>0, <1>4, EmissionAssumption DEF CommitCompensation, CountSound
  <2>1. /\ pc[r] = "commit" /\ pc'[r] = "resolution"
        /\ job' = job /\ claim' = claim
        /\ paid' = [paid EXCEPT ![d] = NewPaid(r)]
        /\ \A s \in Documents : credit'[s] = credit[s] - claim[r][s]
        /\ \A q \in Requests \ {r} : pc'[q] = pc[q] /\ tx'[q] = tx[q]
    BY <1>0, <1>4, <2>0 DEF CommitCompensation, Goto, TypeOK
  <2>2. /\ Claimed(r) = NewPaid(r) - paid[d] /\ NewPaid(r) \in Int
        /\ paid[d] \in Int
        /\ \A s \in Documents \ Payer(r) : claim[r][s] = 0
        /\ Payer(r) = CustomerDocuments(Customer[d])
    <3>1. /\ tx[r].seenPaid = paid[d] /\ Claimed(r) = AppliedTotal(r)
          /\ \A s \in Documents \ Payer(r) : claim[r][s] = 0
      BY <1>0, <2>0, <2>1 DEF ClaimedSound, FormSound, InTransaction
    <3>2. /\ Total[d] \in Int /\ tx[r].seenPaid \in Int /\ tx[r].need \in Int
          /\ AppliedTotal(r) = Total[d] - tx[r].seenPaid - tx[r].need
          /\ NewPaid(r) = tx[r].seenPaid + AppliedTotal(r)
      <4>1. tx[r] \in Locals
        BY <1>0 DEF TypeOK
      <4>2. /\ AppliedTotal(r) = Total[d] - tx[r].seenPaid - tx[r].need
            /\ NewPaid(r) = tx[r].seenPaid + AppliedTotal(r)
        BY <2>0 DEF AppliedTotal, NewPaid
      <4> QED BY <2>0, <4>1, <4>2, DocumentsAssumption DEF Locals
    <3> QED BY <2>0, <3>1, <3>2 DEF Payer
  <2>3. ASSUME NEW c PROVE CompensatedBy(c)' + CreditOf(c)' >= GrantedTo(c)'
    <3> DEFINE C == CustomerDocuments(c)
    <3>1. /\ C \in SUBSET Documents /\ IsFiniteSet(C) /\ IsFiniteSet(C \cap Drafts)
          /\ \A s \in C : /\ credit[s] \in Int /\ credit'[s] \in Int
                          /\ claim[r][s] \in Int
                          /\ paid[s] \in Int /\ paid'[s] \in Int
                          /\ credit[s] = credit'[s] + claim[r][s]
      <4>1. C \in SUBSET Documents /\ IsFiniteSet(C) /\ IsFiniteSet(C \cap Drafts)
        BY CustomerSets
      <4>2. \A s \in Documents : /\ credit[s] \in Int /\ credit'[s] \in Int
                                /\ paid[s] \in Int /\ paid'[s] \in Int
        BY <1>0 DEF TypeOK, LedgerTypeOK
      <4>3. \A s \in Documents : claim[r][s] \in Int
        BY <1>0
      <4>4. \A s \in Documents : credit[s] = credit'[s] + claim[r][s]
        BY <2>1, <4>2, <4>3
      <4> HIDE DEF C
      <4> QED BY <4>1, <4>2, <4>3, <4>4
    <3>2. /\ CompensatedBy(c)' = SumFunctionOnSet(paid', C \cap Drafts)
          /\ CompensatedBy(c) = SumFunctionOnSet(paid, C \cap Drafts)
          /\ CreditOf(c)' = SumFunctionOnSet(credit', C)
          /\ CreditOf(c) = SumFunctionOnSet(credit, C)
          /\ GrantedTo(c)' = GrantedTo(c)
      BY DEF CompensatedBy, CreditOf, GrantedTo, CustomerDocuments
    <3>3. /\ SumFunctionOnSet(credit, C)
               = SumFunctionOnSet(credit', C) + SumFunctionOnSet(claim[r], C)
          /\ SumFunctionOnSet(credit', C) \in Int
          /\ SumFunctionOnSet(claim[r], C) \in Int
      BY <3>1, SumAdd, SumInt
    <3>4. CompensatedBy(c) + CreditOf(c) >= GrantedTo(c)
      BY DEF VanishInv, PaysOrStays
    <3>5. CASE c = Customer[d]
      <4>1. SumFunctionOnSet(claim[r], C) = NewPaid(r) - paid[d]
        BY <2>2, <3>5 DEF Claimed
      <4>2. /\ d \in C \cap Drafts
            /\ \A x \in (C \cap Drafts) \ {d} : paid'[x] = paid[x]
            /\ paid'[d] = NewPaid(r)
        BY <1>0, <2>0, <2>1, <3>1, <3>5
           DEF CustomerDocuments, TypeOK, LedgerTypeOK
      <4>3. /\ SumFunctionOnSet(paid', C \cap Drafts)
                 = SumFunctionOnSet(paid, C \cap Drafts) + (paid'[d] - paid[d])
            /\ SumFunctionOnSet(paid, C \cap Drafts) \in Int
        <5> HIDE DEF C
        <5>1. \A x \in C \cap Drafts : paid[x] \in Int /\ paid'[x] \in Int
          BY <3>1
        <5>2. IsFiniteSet(C \cap Drafts)
          BY <3>1
        <5> QED BY <4>2, <5>1, <5>2, SumUpdate
      <4> HIDE DEF C
      <4> QED BY <1>0, <2>2, <3>2, <3>3, <3>4, <4>1, <4>2, <4>3, CustomerSums
    <3>6. CASE c # Customer[d]
      <4>1. /\ \A s \in C : claim[r][s] = 0
            /\ \A s \in C \cap Drafts : paid[s] \in Int /\ paid'[s] = paid[s]
        BY <1>0, <2>1, <2>2, <3>1, <3>6
           DEF CustomerDocuments, TypeOK, LedgerTypeOK
      <4>2. /\ SumFunctionOnSet(claim[r], C) = 0
            /\ SumFunctionOnSet(paid', C \cap Drafts)
                 = SumFunctionOnSet(paid, C \cap Drafts)
        <5> HIDE DEF C
        <5>1. IsFiniteSet(C) /\ IsFiniteSet(C \cap Drafts)
          BY <3>1
        <5>2. SumFunctionOnSet(claim[r], C) = 0
          BY <4>1, <5>1, SumZero
        <5>3. SumFunctionOnSet(paid', C \cap Drafts)
                 = SumFunctionOnSet(paid, C \cap Drafts)
          BY <4>1, <5>1, SumSame
        <5> QED BY <5>2, <5>3
      <4> HIDE DEF C
      <4> QED BY <1>0, <3>2, <3>3, <3>4, <4>2, CustomerSums
    <3> QED BY <3>5, <3>6
  <2>4. ASSUME NEW q \in Requests PROVE ClaimedSound(q)'
    <3>1. ClaimedSound(q)
      BY <1>0
    <3> QED BY <2>1, <3>1 DEF ClaimedSound, Claimed, Payer, CustomerDocuments,
                              AppliedTotal, InTransaction
  <2> QED BY <2>3, <2>4 DEF VanishInv, PaysOrStays
<1>5. ASSUME NEW r \in Requests,
             \/ \E d \in Drafts : Emit(r, d)
             \/ ReadResolution(r) \/ BuildPayload(r) \/ Send(r)
             \/ Persist(r) \/ Consume(r)
             \/ AbortCompensation(r) \/ DbError(r) \/ Crash(r)
      PROVE  VanishInv'
  <2>1. paid' = paid /\ credit' = credit
    BY <1>5 DEF Emit, ReadResolution, BuildPayload, Send, Persist, Consume,
                AbortCompensation, DbError, Crash, ledgerVars
  <2>2. pc'[r] \notin InTransaction
    BY <1>0, <1>5 DEF Emit, ReadResolution, BuildPayload, Send, Accepted,
       Rejected, SendFailed, ReplyLost, Persist, Consume, AbortCompensation,
       DbError, Crash, Finish, Goto, TypeOK, InTransaction
  <2>3. ClaimedSound(r)' /\ \A s \in Documents : credit'[s] >= credit[s]
    BY <1>0, <2>1, <2>2 DEF ClaimedSound, TypeOK, LedgerTypeOK
  <2> QED BY <1>0, <1>5, <2>1, <2>3, VanishFrame DEF Step, Advance
<1>6. ASSUME NEW r \in Requests, Refund(r) \/ RefundRejected(r) \/ Recover(r)
      PROVE  VanishInv'
  <2>1. paid' = paid /\ (credit' = Refunded(r) \/ credit' = credit)
    BY <1>6 DEF Refund, RefundRejected, Recover
  <2>2. pc'[r] \notin InTransaction
    BY <1>0, <1>6 DEF Refund, RefundRejected, Recover, Finish, Goto, TypeOK,
                      InTransaction
  <2>3. \A s \in Documents : credit'[s] >= credit[s]
    BY <1>0, <2>1 DEF Refunded, ClaimSound, TypeOK, LedgerTypeOK
  <2>4. ClaimedSound(r)'
    BY <2>2 DEF ClaimedSound
  <2> QED BY <1>0, <1>6, <2>1, <2>3, <2>4, VanishFrame DEF Step, Advance
<1>7. CASE UNCHANGED vars
  BY <1>7 DEF vars, ledgerVars, requestVars, VanishInv, PaysOrStays,
     CompensatedBy, CreditOf, GrantedTo, CustomerDocuments, ClaimedSound,
     Claimed, Payer, AppliedTotal
<1>8. CASE Next
  <2>1. PICK r \in Requests : Step(r)
    BY <1>8 DEF Next, Step
  <2> QED BY <1>1, <1>2, <1>3, <1>4, <1>5, <1>6, <2>1 DEF Step, Advance
<1> QED BY <1>7, <1>8

\* With one emission of a draft at a time, no crash and no failed statement
\* makes credit vanish: what left the sources of a customer is marked as paid
\* on drafts of that customer.
THEOREM CreditPaysOrStays ==
  ASSUME OneAtATime
  PROVE  Spec => []CreditNeverVanishes
<1>1. VanishInv => CreditNeverVanishes
  BY DEF VanishInv, PaysOrStays, CreditNeverVanishes
<1>2. VerdictInv => TypeOK
  BY DEF VerdictInv
<1> QED BY <1>1, <1>2, VanishInit, VanishNext, FormInit, FormNext, CountInit,
           CountNext, CreditInit, CreditNext, VerdictInit, VerdictNext, PTL
        DEF Spec
=============================================================================
