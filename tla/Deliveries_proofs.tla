------------------------- MODULE Deliveries_proofs -------------------------
(***************************************************************************)
(* Proofs about Deliveries, for every set of orders, items, plans and any  *)
(* number of requests.                                                     *)
(***************************************************************************)
EXTENDS Deliveries, SequenceTheorems, Sums_proofs

USE DeliveriesAssumption

-----------------------------------------------------------------------------
(* Facts about the operators.                                              *)

LEMMA WorkType ==
  ASSUME NEW o \in Orders, NEW lines \in Quantities, NEW wanted \in Status,
         NEW i \in Invoices \cup {NoInvoice}
  PROVE  Work(o, lines, wanted, i) \in Job
BY DEF Work, Job

\* What a request learns never changes its order.
LEMMA FieldTypes ==
  ASSUME NEW j \in Job
  PROVE  /\ \A lines \in Quantities : [j EXCEPT !.lines = lines] \in Job
         /\ \A wanted \in Status : [j EXCEPT !.wanted = wanted] \in Job
         /\ \A i \in Invoices : [j EXCEPT !.invoice = i] \in Job
         /\ \A known \in SUBSET Items : [j EXCEPT !.known = known] \in Job
BY DEF Job

LEMMA NothingType == Nothing \in Quantities
BY DEF Nothing, Quantities

LEMMA NoJobType == NoJob \in Job
BY WorkType, NothingType DEF NoJob, Status

LEMMA PlusType ==
  ASSUME NEW done \in Quantities, NEW lines \in Quantities
  PROVE  /\ Plus(done, lines) \in Quantities
         /\ \A x \in Items : Plus(done, lines)[x] = done[x] + lines[x]
BY DEF Plus, Quantities

LEMMA PlannedType ==
  ASSUME NEW o \in Orders, NEW x \in Items
  PROVE  Planned(o, x) \in Nat
BY DEF Planned

\* What is missing never takes the order beyond its plan, and completes a
\* plan without repeated descriptions.
LEMMA RemainingFits ==
  ASSUME NEW o \in Orders, NEW done \in Quantities, NEW x \in Items
  PROVE  /\ Remaining(o, done, x) \in Nat
         /\ done[x] <= Planned(o, x)
              => done[x] + Remaining(o, done, x) <= Planned(o, x)
         /\ PlainPlan(o) => done[x] + Remaining(o, done, x) >= Planned(o, x)
<1>1. Plan[o][x].line \in Nat /\ Plan[o][x].again \in Nat /\ done[x] \in Nat
  BY DEF Quantities
<1>2. PlainPlan(o) => Plan[o][x].again = 0
  BY DEF PlainPlan
<1> QED BY <1>1, <1>2 DEF Remaining, Left, Planned

\* The lines of one item: the first is replaced, or another is added.
LEMMA LineReplaced ==
  ASSUME NEW lines \in Seq(Nat), NEW n \in Nat
  PROVE  /\ [lines EXCEPT ![1] = n] \in Seq(Nat)
         /\ DOMAIN [lines EXCEPT ![1] = n] = DOMAIN lines
         /\ \A k \in DOMAIN lines :
              [lines EXCEPT ![1] = n][k] \in {n, lines[k]}
<1> DEFINE after == [lines EXCEPT ![1] = n]
<1>1. DOMAIN after = DOMAIN lines /\ DOMAIN lines = 1..Len(lines)
  OBVIOUS
<1>2. \A k \in DOMAIN lines : after[k] = IF k = 1 THEN n ELSE lines[k]
  OBVIOUS
<1>3. after \in Seq(Nat)
  <2>1. CASE 1 \in 1..Len(lines)
    BY <2>1, ExceptSeq
  <2>2. CASE 1 \notin 1..Len(lines)
    <3>1. after = [k \in DOMAIN lines |-> IF k = 1 THEN n ELSE lines[k]]
      OBVIOUS
    <3>2. lines = [k \in DOMAIN lines |-> lines[k]]
      OBVIOUS
    <3>3. \A k \in DOMAIN lines : k # 1
      BY <1>1, <2>2
    <3>4. after = lines
      BY <3>1, <3>2, <3>3
    <3> QED BY <3>4
  <2> QED BY <2>1, <2>2
<1> QED BY <1>1, <1>2, <1>3

LEMMA LineAdded ==
  ASSUME NEW lines \in Seq(Nat), NEW n \in Nat
  PROVE  /\ Append(lines, n) \in Seq(Nat)
         /\ \A k \in DOMAIN Append(lines, n) :
              \/ Append(lines, n)[k] = n
              \/ k \in DOMAIN lines /\ Append(lines, n)[k] = lines[k]
<1>1. /\ Append(lines, n) \in Seq(Nat)
      /\ Len(Append(lines, n)) = Len(lines) + 1
      /\ \A k \in 1..Len(lines) : Append(lines, n)[k] = lines[k]
      /\ Append(lines, n)[Len(lines) + 1] = n
  BY AppendProperties
<1>2. DOMAIN lines = 1..Len(lines) /\ Len(lines) \in Nat
  OBVIOUS
<1>3. DOMAIN Append(lines, n) = 1..(Len(lines) + 1)
  BY <1>1
<1> QED BY <1>1, <1>2, <1>3

-----------------------------------------------------------------------------
(* Type correctness.                                                       *)

LEMMA TypeInit == Init => TypeOK
<1> SUFFICES ASSUME Init PROVE TypeOK
  OBVIOUS
<1>1. NoLines \in [Items -> Seq(Nat)]
  BY DEF NoLines
<1>2. delivered \in [Orders -> Quantities] /\ job \in [Requests -> Job]
  BY NothingType, NoJobType DEF Init
<1> QED BY <1>1, <1>2 DEF Init, TypeOK, Status, PC

\* A request that starts, goes on or ends.
LEMMA StartType ==
  ASSUME TypeOK, NEW r \in Requests, NEW o \in Orders, NEW label \in PC,
         Start(r, o, label)
  PROVE  pc' \in [Requests -> PC] /\ crossed' \subseteq Orders
BY DEF Start, TypeOK

LEMMA GotoType ==
  ASSUME TypeOK, NEW r \in Requests, NEW label \in PC, Goto(r, label)
  PROVE  pc' \in [Requests -> PC]
BY DEF Goto, TypeOK

LEMMA FinishType ==
  ASSUME TypeOK, NEW r \in Requests, Finish(r)
  PROVE  pc' \in [Requests -> PC] /\ job' \in [Requests -> Job]
BY NoJobType, GotoType DEF Finish, TypeOK, PC

\* The lines that a growing draft ends with.
LEMMA GrowType ==
  ASSUME TypeOK, NEW r \in Requests, GrowDraft(r)
  PROVE  billed' \in [Invoices -> [Items -> Seq(Nat)]]
<1> DEFINE grown(i) ==
      [x \in Items |->
         IF job[r].lines[x] = 0 THEN billed[i][x]
         ELSE IF x \in job[r].known
              THEN [billed[i][x] EXCEPT ![1] = job[r].lines[x]]
              ELSE Append(billed[i][x], job[r].lines[x])]
<1>1. ASSUME NEW i \in Invoices
      PROVE  grown(i) \in [Items -> Seq(Nat)]
  <2>1. ASSUME NEW x \in Items PROVE grown(i)[x] \in Seq(Nat)
    <3>1. billed[i][x] \in Seq(Nat) /\ job[r].lines[x] \in Nat
      BY DEF TypeOK, Job, Quantities
    <3> DEFINE old == billed[i][x]
               n   == job[r].lines[x]
    <3>2. /\ [old EXCEPT ![1] = n] \in Seq(Nat)
          /\ Append(old, n) \in Seq(Nat)
      <4> HIDE DEF old, n
      <4> QED BY <3>1, LineReplaced, LineAdded DEF old, n
    <3> QED BY <3>1, <3>2
  <2> QED BY <2>1
<1>2. billed' = [billed EXCEPT ![job[r].invoice] = grown(job[r].invoice)]
  BY DEF Grown, GrowDraft
<1> HIDE DEF grown
<1> QED BY <1>1, <1>2 DEF TypeOK

\* A request that starts: it has no lines yet, or those of its delivery.
LEMMA TypeBegin ==
  ASSUME TypeOK, NEW r \in Requests, NEW o \in Orders, Begin(r, o)
  PROVE  TypeOK'
<1>1. [Items -> 0..MaxUnits] \subseteq Quantities
  BY DEF Quantities
<1>2. {"PENDIENTE"} \subseteq Status
        /\ {"register", "mark", "check", "close", "sync", "issue"} \subseteq PC
        /\ link[o] \in Invoices \cup {NoInvoice}
  BY DEF Status, PC, TypeOK
<1>3. ASSUME NEW lines \in [Items -> 0..MaxUnits], BeginRegister(r, o, lines)
      PROVE  TypeOK'
  <2>1. Work(o, lines, "PENDIENTE", NoInvoice) \in Job
    BY <1>1, <1>2, WorkType
  <2> QED BY <1>2, <1>3, <2>1, StartType
          DEF BeginRegister, TypeOK, orderVars, invoiceVars
<1>4. CASE BeginMark(r, o)
  <2>1. Work(o, Nothing, "PENDIENTE", NoInvoice) \in Job
    BY <1>2, WorkType, NothingType
  <2> QED BY <1>2, <1>4, <2>1, StartType
          DEF BeginMark, TypeOK, orderVars, invoiceVars
<1>5. ASSUME NEW wanted \in Status, BeginStatus(r, o, wanted)
      PROVE  TypeOK'
  <2>1. Work(o, Nothing, wanted, NoInvoice) \in Job
    BY WorkType, NothingType
  <2> QED BY <1>2, <1>5, <2>1, StartType
          DEF BeginStatus, TypeOK, orderVars, invoiceVars
<1>6. CASE BeginSync(r, o)
  <2>1. Work(o, Nothing, "PENDIENTE", link[o]) \in Job
    BY <1>2, WorkType, NothingType
  <2> QED BY <1>2, <1>6, <2>1, StartType
          DEF BeginSync, TypeOK, orderVars, invoiceVars
<1>7. CASE BeginIssue(r, o)
  <2>1. Work(o, Nothing, "PENDIENTE", link[o]) \in Job
    BY <1>2, WorkType, NothingType
  <2>2. link[o] \in Invoices /\ declared' = [declared EXCEPT ![link[o]] = billed[link[o]]]
    BY <1>2, <1>7 DEF BeginIssue
  <2>3. declared' \in [Invoices -> [Items -> Seq(Nat)]]
    BY <2>2 DEF TypeOK
  <2> QED BY <1>2, <1>7, <2>1, <2>3, StartType DEF BeginIssue, TypeOK, orderVars
<1> QED BY <1>3, <1>4, <1>5, <1>6, <1>7 DEF Begin

\* Deliveries and the status of the order.
LEMMA TypeDelivery ==
  ASSUME TypeOK, NEW r \in Requests, Deliver(r)
  PROVE  TypeOK'
<1>1. /\ job[r].order \in Orders /\ job[r].lines \in Quantities
      /\ job[r].wanted \in Status
      /\ {"record", "close"} \subseteq PC
      /\ delivered[job[r].order] \in Quantities
  BY DEF TypeOK, Job, PC
<1>2. CASE CheckDelivery(r)
  <2>1. job' \in [Requests -> Job] /\ pc' \in [Requests -> PC]
    <3>1. CASE Finish(r)
      BY <3>1, FinishType
    <3>2. CASE Goto(r, "record")
      <4>1. PICK w \in Status : job' = [job EXCEPT ![r].wanted = w] \/ Finish(r)
        BY <1>2 DEF CheckDelivery, Status
      <4>2. [job[r] EXCEPT !.wanted = w] \in Job
        BY FieldTypes, <1>1 DEF TypeOK
      <4>3. job' \in [Requests -> Job]
        BY <4>1, <4>2, FinishType DEF TypeOK
      <4> QED BY <1>1, <3>2, <4>3, GotoType
    <3> QED BY <1>2, <3>1, <3>2 DEF CheckDelivery
  <2> QED BY <1>2, <2>1 DEF CheckDelivery, TypeOK, orderVars, invoiceVars
<1>3. CASE FindRemaining(r)
  <2> DEFINE left == [x \in Items |-> Remaining(job[r].order, delivered[job[r].order], x)]
  <2>1. left \in Quantities
    BY <1>1, RemainingFits DEF Quantities
  <2>2. /\ job' = [job EXCEPT ![r].lines = left, ![r].wanted = "ENTREGADA"]
        /\ Goto(r, "close") \/ Goto(r, "record")
        /\ UNCHANGED <<orderVars, invoiceVars, crossed, orphaned>>
    BY <1>3 DEF FindRemaining
  <2> HIDE DEF left
  <2>3. job' \in [Requests -> Job]
    <3>1. [job[r] EXCEPT !.lines = left] \in Job
      BY <2>1, FieldTypes, <1>1 DEF TypeOK
    <3>2. [[job[r] EXCEPT !.lines = left] EXCEPT !.wanted = "ENTREGADA"] \in Job
      BY <2>1, <3>1, FieldTypes, <1>1 DEF Status
    <3> QED BY <2>2, <3>2 DEF TypeOK
  <2> QED BY <1>1, <2>2, <2>3, GotoType DEF TypeOK, orderVars, invoiceVars
<1>4. CASE RecordDelivery(r)
  <2>1. Plus(delivered[job[r].order], job[r].lines) \in Quantities
    BY <1>1, PlusType
  <2>2. delivered' \in [Orders -> Quantities] /\ registered' \subseteq Orders
    BY <1>1, <1>4, <2>1 DEF RecordDelivery, TypeOK
  <2>3. job' \in [Requests -> Job]
    <3>1. [job[r] EXCEPT !.lines = Nothing] \in Job
      BY <1>1, NothingType, FieldTypes DEF TypeOK
    <3>2. job' = [job EXCEPT ![r].lines = Nothing]
      BY <1>4 DEF RecordDelivery
    <3> QED BY <3>1, <3>2 DEF TypeOK
  <2> QED BY <1>1, <1>4, <2>2, <2>3, GotoType DEF RecordDelivery, TypeOK, invoiceVars
<1>5. CASE CheckComplete(r)
  <2>1. job' \in [Requests -> Job] /\ pc' \in [Requests -> PC]
    BY <1>1, <1>5, FinishType, GotoType DEF CheckComplete, TypeOK
  <2> QED BY <1>5, <2>1 DEF CheckComplete, TypeOK, orderVars, invoiceVars
<1>6. CASE CloseOrder(r)
  <2>1. status' \in [Orders -> Status]
    BY <1>1, <1>6 DEF CloseOrder, TypeOK
  <2> QED BY <1>6, <2>1, FinishType DEF CloseOrder, TypeOK, invoiceVars
<1> QED BY <1>2, <1>3, <1>4, <1>5, <1>6 DEF Deliver

\* Requests that work on an invoice name one.
Names(r) == pc[r] \in {"link", "draft", "grow", "issue"}
              => job[r].invoice \in made[job[r].order]

\* The invoice of an order is one that was made for it, and exists.
LinksInv ==
  /\ TypeOK
  /\ \A r \in Requests : Names(r)
  /\ \A r \in Requests : pc[r] = "sync" /\ job[r].invoice # NoInvoice
                           => job[r].invoice \in made[job[r].order]
  /\ \A o \in Orders : link[o] # NoInvoice => link[o] \in made[o]
  /\ \A o, p \in Orders : \A i \in made[o] : i \in made[p] => o = p
  /\ \A o \in Orders : \A i \in made[o] : invoice[i] # "none"

LEMMA TypeInvoice ==
  ASSUME LinksInv, NEW r \in Requests, Bill(r) \/ Crash(r)
  PROVE  TypeOK'
<1> USE DEF LinksInv
<1>1. /\ job[r].order \in Orders /\ job[r].lines \in Quantities
      /\ job[r].invoice \in Invoices \cup {NoInvoice}
      /\ {"bill", "draft", "link", "grow"} \subseteq PC
      /\ delivered[job[r].order] \in Quantities
  BY DEF TypeOK, Job, PC
<1>2. CASE AddUp(r)
  <2>1. job' \in [Requests -> Job] /\ pc' \in [Requests -> PC]
    <3>1. CASE Finish(r)
      BY <3>1, FinishType
    <3>2. CASE job' = [job EXCEPT ![r].lines = delivered[job[r].order]]
      <4>1. [job[r] EXCEPT !.lines = delivered[job[r].order]] \in Job
        BY <1>1, FieldTypes DEF TypeOK
      <4>2. job' \in [Requests -> Job]
        BY <3>2, <4>1 DEF TypeOK
      <4> QED BY <1>1, <1>2, <3>1, <4>2, GotoType DEF AddUp
    <3> QED BY <1>2, <3>1, <3>2 DEF Billable, AddUp
  <2> QED BY <1>2, <2>1 DEF AddUp, TypeOK, orderVars, invoiceVars
<1>3. ASSUME NEW i \in Invoices, CreateDraft(r, i)
      PROVE  TypeOK'
  <2> DEFINE lines == [x \in Items |-> IF job[r].lines[x] > 0
                                       THEN <<job[r].lines[x]>> ELSE <<>>]
  <2>1. lines \in [Items -> Seq(Nat)]
    BY <1>1 DEF Quantities
  <2>2. /\ billed' = [billed EXCEPT ![i] = lines]
        /\ invoice' = [invoice EXCEPT ![i] = "BORRADOR"]
        /\ job' = [job EXCEPT ![r].invoice = i, ![r].lines = Nothing]
        /\ made' = [made EXCEPT ![job[r].order] = @ \cup {i}]
        /\ Goto(r, "link")
        /\ UNCHANGED <<orderVars, declared, crossed, orphaned>>
    BY <1>3 DEF DraftLines, CreateDraft
  <2> HIDE DEF lines
  <2>3. /\ billed' \in [Invoices -> [Items -> Seq(Nat)]]
        /\ invoice' \in [Invoices -> {"none", "BORRADOR", "EMITIDA"}]
        /\ made' \in [Orders -> SUBSET Invoices]
    BY <1>1, <2>1, <2>2 DEF TypeOK
  <2>4. job' \in [Requests -> Job]
    <3>1. [job[r] EXCEPT !.invoice = i] \in Job
      BY FieldTypes, <1>1 DEF TypeOK
    <3>2. [[job[r] EXCEPT !.invoice = i] EXCEPT !.lines = Nothing] \in Job
      BY <3>1, FieldTypes, NothingType, <1>1
    <3> QED BY <2>2, <3>2 DEF TypeOK
  <2> QED BY <1>1, <2>2, <2>3, <2>4, GotoType DEF TypeOK, orderVars
<1>4. CASE LinkInvoice(r)
  <2>1. link' \in [Orders -> Invoices \cup {NoInvoice}]
    BY <1>1, <1>4 DEF LinkInvoice, TypeOK
  <2> QED BY <1>4, <2>1, FinishType DEF LinkInvoice, TypeOK, invoiceVars
<1>5. CASE ReadDraft(r)
  <2> DEFINE known == {x \in Items : billed[job[r].invoice][x] # <<>>}
  <2>1. \/ Finish(r)
        \/ job' = [job EXCEPT ![r].known = known] /\ Goto(r, "grow")
    BY <1>5 DEF ReadDraft
  <2>2. known \in SUBSET Items
    OBVIOUS
  <2> HIDE DEF known
  <2>3. job' \in [Requests -> Job] /\ pc' \in [Requests -> PC]
    <3>1. [job[r] EXCEPT !.known = known] \in Job
      BY <1>1, <2>2, FieldTypes DEF TypeOK
    <3>2. CASE job' = [job EXCEPT ![r].known = known] /\ Goto(r, "grow")
      <4>1. job' \in [Requests -> Job]
        BY <3>1, <3>2 DEF TypeOK
      <4> QED BY <1>1, <3>2, <4>1, GotoType
    <3> QED BY <2>1, <3>2, FinishType
  <2> QED BY <1>5, <2>3 DEF ReadDraft, TypeOK, orderVars, invoiceVars
<1>6. CASE GrowDraft(r)
  <2>1. /\ Finish(r)
        /\ UNCHANGED <<orderVars, invoice, declared, made, crossed, orphaned>>
    BY <1>6 DEF GrowDraft
  <2> QED BY <1>6, <2>1, GrowType, FinishType DEF TypeOK, orderVars
<1>7. CASE Issue(r)
  <2>1. NoLines \in [Items -> Seq(Nat)]
    BY DEF NoLines
  <2>2. job[r].invoice \in Invoices
    BY <1>1, <1>7 DEF Issue, Names, TypeOK
  <2>3. /\ invoice' \in [Invoices -> {"none", "BORRADOR", "EMITIDA"}]
        /\ declared' \in [Invoices -> [Items -> Seq(Nat)]]
    <3>1. CASE invoice' = [invoice EXCEPT ![job[r].invoice] = "EMITIDA"]
               /\ UNCHANGED declared
      BY <2>2, <3>1 DEF TypeOK
    <3>2. CASE declared' = [declared EXCEPT ![job[r].invoice] = NoLines]
               /\ UNCHANGED invoice
      BY <2>1, <2>2, <3>2 DEF TypeOK
    <3> QED BY <1>7, <3>1, <3>2 DEF Issue
  <2> QED BY <1>7, <2>3, FinishType DEF Issue, TypeOK, orderVars
<1>8. CASE Crash(r)
  <2>1. orphaned' \subseteq Orders
    BY <1>1, <1>8 DEF Crash, TypeOK
  <2> QED BY <1>8, <2>1, FinishType DEF Crash, TypeOK, orderVars, invoiceVars
<1> QED BY <1>2, <1>3, <1>4, <1>5, <1>6, <1>7, <1>8 DEF Bill

-----------------------------------------------------------------------------
(* Invoices belong to the order they were made for.                        *)

Step(r) == (\E o \in Orders : Begin(r, o)) \/ Deliver(r) \/ Bill(r) \/ Crash(r)

LEMMA OthersKept ==
  ASSUME TypeOK, NEW r \in Requests, Step(r)
  PROVE  \A q \in Requests \ {r} : pc'[q] = pc[q] /\ job'[q] = job[q]
<1>1. CASE \E o \in Orders : Begin(r, o)
  BY <1>1 DEF Begin, BeginRegister, BeginMark, BeginStatus, BeginSync,
              BeginIssue, Start, TypeOK
<1>2. CASE Deliver(r)
  BY <1>2 DEF Deliver, CheckDelivery, FindRemaining, RecordDelivery,
              CheckComplete, CloseOrder, Goto, Finish, TypeOK
<1>3. CASE Bill(r)
  BY <1>3 DEF Bill, AddUp, CreateDraft, LinkInvoice, ReadDraft, GrowDraft,
              Issue, Goto, Finish, TypeOK
<1>4. CASE Crash(r)
  BY <1>4 DEF Crash, Goto, Finish, TypeOK
<1> QED BY <1>1, <1>2, <1>3, <1>4 DEF Step

\* Where a request that started is, and what it holds.
LEMMA Begun ==
  ASSUME TypeOK, NEW r \in Requests, NEW o \in Orders, Begin(r, o)
  PROVE  /\ pc[r] = "idle"
         /\ pc'[r] \in {"register", "mark", "check", "close", "sync", "issue"}
         /\ job'[r].order = o
         /\ pc'[r] = "sync" => job'[r].invoice = link[o]
         /\ pc'[r] = "issue" => /\ link[o] # NoInvoice
                                /\ job'[r].invoice = link[o]
         /\ UNCHANGED <<orderVars, invoice, billed, made, orphaned>>
         /\ crossed' = IF \E q \in Requests : pc[q] # "idle" /\ job[q].order = o
                       THEN crossed \cup {o} ELSE crossed
<1>1. CASE \E lines \in [Items -> 0..MaxUnits] : BeginRegister(r, o, lines)
  BY <1>1 DEF BeginRegister, Start, Work, TypeOK, invoiceVars
<1>2. CASE BeginMark(r, o)
  BY <1>2 DEF BeginMark, Start, Work, TypeOK, invoiceVars
<1>3. CASE \E wanted \in Status : BeginStatus(r, o, wanted)
  BY <1>3 DEF BeginStatus, Start, Work, TypeOK, invoiceVars
<1>4. CASE BeginSync(r, o)
  BY <1>4 DEF BeginSync, Start, Work, TypeOK, invoiceVars
<1>5. CASE BeginIssue(r, o)
  BY <1>5 DEF BeginIssue, Start, Work, TypeOK
<1> QED BY <1>1, <1>2, <1>3, <1>4, <1>5 DEF Begin

\* A request on deliveries goes on, or ends, without touching invoices.
LEMMA Delivering ==
  ASSUME TypeOK, NEW r \in Requests, Deliver(r)
  PROVE  /\ pc[r] \in {"register", "mark", "record", "check", "close"}
         /\ pc'[r] \in {"record", "close", "idle"}
         /\ pc'[r] # "idle" => job'[r].order = job[r].order
         /\ UNCHANGED <<link, invoiceVars, crossed, orphaned>>
<1>1. job[r] \in Job
  BY DEF TypeOK
<1>2. CASE CheckDelivery(r)
  BY <1>1, <1>2 DEF CheckDelivery, Goto, Finish, TypeOK, Job, orderVars
<1>3. CASE FindRemaining(r)
  BY <1>1, <1>3 DEF FindRemaining, Goto, TypeOK, Job, orderVars
<1>4. CASE RecordDelivery(r)
  BY <1>1, <1>4 DEF RecordDelivery, Goto, TypeOK, Job
<1>5. CASE CheckComplete(r)
  BY <1>1, <1>5 DEF CheckComplete, Goto, Finish, TypeOK, orderVars
<1>6. CASE CloseOrder(r)
  BY <1>1, <1>6 DEF CloseOrder, Goto, Finish, TypeOK
<1> QED BY <1>2, <1>3, <1>4, <1>5, <1>6 DEF Deliver

\* The invoices of a request that starts or ends, or only moves.
LEMMA LinksKept ==
  ASSUME LinksInv, TypeOK', NEW r \in Requests, Step(r),
         UNCHANGED <<link, made>>,
         \A i \in Invoices : invoice[i] # "none" => invoice'[i] # "none",
         Names(r)',
         pc'[r] = "sync" /\ job'[r].invoice # NoInvoice
           => job'[r].invoice \in made[job'[r].order]
  PROVE  LinksInv'
<1>1. \A q \in Requests \ {r} : pc'[q] = pc[q] /\ job'[q] = job[q]
  BY OthersKept DEF LinksInv
<1>2. \A q \in Requests : Names(q)'
  BY <1>1 DEF LinksInv, Names
<1>3. \A q \in Requests : pc'[q] = "sync" /\ job'[q].invoice # NoInvoice
                            => job'[q].invoice \in made'[job'[q].order]
  BY <1>1 DEF LinksInv
<1>4. \A o \in Orders : \A i \in made'[o] : invoice'[i] # "none"
  BY DEF LinksInv, TypeOK
<1> QED BY <1>2, <1>3, <1>4 DEF LinksInv

LEMMA LinksNext ==
  ASSUME LinksInv, NEW r \in Requests, Step(r)
  PROVE  LinksInv'
<1> USE DEF Step
<1>1. ASSUME NEW o \in Orders, Begin(r, o)
      PROVE  LinksInv'
  <2>1. TypeOK'
    BY <1>1, TypeBegin DEF LinksInv
  <2>2. Names(r)'
    BY <1>1, Begun DEF Names, LinksInv, orderVars
  <2> QED BY <1>1, <2>1, <2>2, Begun, LinksKept DEF LinksInv, orderVars
<1>2. CASE Deliver(r)
  <2>1. TypeOK'
    BY <1>2, TypeDelivery DEF LinksInv
  <2>2. Names(r)'
    BY <1>2, Delivering DEF Names, LinksInv
  <2> QED BY <1>2, <2>1, <2>2, Delivering, LinksKept DEF LinksInv, invoiceVars
<1>3. CASE Bill(r) \/ Crash(r)
  <2>1. TypeOK'
    BY <1>3, TypeInvoice
  <2>2. job[r] \in Job /\ TypeOK /\ job[r].order \in Orders
    BY DEF LinksInv, TypeOK, Job
  <2>3. CASE Finish(r) /\ UNCHANGED <<link, made, invoice>>
    <3>1. pc'[r] = "idle"
      BY <2>2, <2>3 DEF Finish, Goto, TypeOK
    <3> QED BY <1>3, <2>1, <2>3, <3>1, LinksKept DEF Names
  <2>4. CASE AddUp(r)
    <3>1. CASE Finish(r)
      BY <2>3, <2>4, <3>1 DEF AddUp, orderVars, invoiceVars
    <3>2. CASE job' = [job EXCEPT ![r].lines = delivered[job[r].order]]
      <4>1. /\ job'[r].invoice = job[r].invoice
            /\ job'[r].order = job[r].order
        BY <2>2, <3>2 DEF TypeOK, Job
      <4>2. /\ pc[r] = "sync"
            /\ UNCHANGED <<link, made, invoice>>
        BY <2>4 DEF AddUp, orderVars, invoiceVars
      <4>3. \/ pc'[r] \in {"bill", "idle"}
            \/ pc'[r] = "draft" /\ job[r].invoice # NoInvoice
        BY <2>2, <2>4, <3>1 DEF AddUp, Goto, Finish, TypeOK
      <4>4. Names(r)' /\ pc'[r] # "sync"
        BY <4>1, <4>2, <4>3 DEF Names, LinksInv
      <4> QED BY <1>3, <2>1, <4>2, <4>4, LinksKept
    <3> QED BY <2>4, <3>1, <3>2 DEF Billable, AddUp
  <2>5. ASSUME NEW i \in Invoices, CreateDraft(r, i)
        PROVE  LinksInv'
    <3> DEFINE o == job[r].order
    <3>1. /\ invoice[i] = "none"
          /\ invoice' = [invoice EXCEPT ![i] = "BORRADOR"]
          /\ made' = [made EXCEPT ![o] = made[o] \cup {i}]
          /\ job' = [job EXCEPT ![r].invoice = i, ![r].lines = Nothing]
          /\ Goto(r, "link") /\ UNCHANGED link
      BY <2>5 DEF CreateDraft, orderVars
    <3>2. pc'[r] = "link" /\ job'[r].invoice = i /\ job'[r].order = o
      BY <2>2, <3>1 DEF Goto, TypeOK, Job
    <3>3. \A q \in Requests \ {r} : pc'[q] = pc[q] /\ job'[q] = job[q]
      BY <1>3, <2>2, OthersKept
    <3>4. /\ \A p \in Orders : i \notin made[p]
          /\ \A p \in Orders : made'[p] = IF p = o THEN made[p] \cup {i}
                                                   ELSE made[p]
      BY <2>2, <3>1 DEF LinksInv, TypeOK
    <3>5. \A q \in Requests : job[q].order \in Orders
      BY <2>2 DEF TypeOK, Job
    <3>6. /\ \A p \in Orders : made[p] \subseteq made'[p]
           /\ i \in made'[o] /\ o \in Orders
      BY <2>2, <3>4
    <3>7. \A q \in Requests : Names(q)'
      <4>1. Names(r)'
        BY <3>2, <3>6 DEF Names
      <4>2. ASSUME NEW q \in Requests \ {r} PROVE Names(q)'
        BY <3>3, <3>5, <3>6 DEF LinksInv, Names
      <4> QED BY <4>1, <4>2
    <3>8. ASSUME NEW q \in Requests, pc'[q] = "sync", job'[q].invoice # NoInvoice
          PROVE  job'[q].invoice \in made'[job'[q].order]
      <4>1. q # r
        BY <3>2, <3>8
      <4> QED BY <3>3, <3>5, <3>8, <3>6, <4>1 DEF LinksInv
    <3>9. \A p \in Orders : \A k \in made'[p] : invoice'[k] # "none"
      BY <2>2, <3>1, <3>4 DEF LinksInv, TypeOK
    <3>10. \A p \in Orders : link'[p] # NoInvoice => link'[p] \in made'[p]
      BY <3>1, <3>4 DEF LinksInv
    <3>11. \A p, q \in Orders : \A k \in made'[p] : k \in made'[q] => p = q
      <4> HIDE DEF o
      <4>1. \A p \in Orders : \A k : k \in made'[p] /\ k # i => k \in made[p]
        BY <3>4
      <4>2. ASSUME NEW p \in Orders, NEW q \in Orders,
                   NEW k \in made'[p], k \in made'[q]
            PROVE  p = q
        <5>1. CASE k = i
          BY <3>4, <4>2, <5>1
        <5>2. CASE k # i
          <6>1. k \in made[p] /\ k \in made[q]
            BY <4>2, <4>1, <5>2
          <6> QED BY <6>1 DEF LinksInv
        <5> QED BY <5>1, <5>2
      <4> QED BY <4>2
    <3> QED BY <2>1, <3>7, <3>8, <3>9, <3>10, <3>11 DEF LinksInv
  <2>6. CASE LinkInvoice(r)
    <3>1. pc'[r] = "idle" /\ UNCHANGED <<made, invoice>>
      BY <2>2, <2>6 DEF LinkInvoice, Finish, Goto, TypeOK, invoiceVars
    <3>2. \A q \in Requests \ {r} : pc'[q] = pc[q] /\ job'[q] = job[q]
      BY <1>3, <2>2, OthersKept
    <3>3. job[r].invoice \in made[job[r].order]
      BY <2>6 DEF LinkInvoice, LinksInv, Names
    <3>4. \A p \in Orders : link'[p] # NoInvoice => link'[p] \in made'[p]
      BY <2>2, <2>6, <3>1, <3>3 DEF LinkInvoice, LinksInv, TypeOK
    <3>5. \A q \in Requests : Names(q)'
      BY <3>1, <3>2 DEF LinksInv, Names
    <3> QED BY <2>1, <3>1, <3>2, <3>4, <3>5 DEF LinksInv
  <2>7. CASE ReadDraft(r)
    <3>1. CASE Finish(r)
      BY <2>3, <2>7, <3>1 DEF ReadDraft, orderVars, invoiceVars
    <3>2. CASE ~Finish(r)
      <4> DEFINE known == {x \in Items : billed[job[r].invoice][x] # <<>>}
      <4>1. /\ pc[r] = "draft" /\ UNCHANGED <<link, made, invoice>>
            /\ job' = [job EXCEPT ![r].known = known] /\ Goto(r, "grow")
        BY <2>7, <3>2 DEF ReadDraft, orderVars, invoiceVars
      <4> HIDE DEF known
      <4>2. /\ job'[r].invoice = job[r].invoice
            /\ job'[r].order = job[r].order /\ pc'[r] = "grow"
        BY <2>2, <4>1 DEF TypeOK, Job, Goto
      <4>3. Names(r)'
        BY <4>1, <4>2 DEF Names, LinksInv
      <4> QED BY <1>3, <2>1, <4>1, <4>2, <4>3, LinksKept
    <3> QED BY <3>1, <3>2
  <2>8. CASE GrowDraft(r)
    BY <2>3, <2>8 DEF GrowDraft, orderVars
  <2>9. CASE Issue(r)
    <3>1. /\ pc'[r] = "idle" /\ UNCHANGED <<link, made>>
          /\ \A i \in Invoices : invoice[i] # "none" => invoice'[i] # "none"
      BY <2>2, <2>9 DEF Issue, Finish, Goto, TypeOK, orderVars
    <3> QED BY <1>3, <2>1, <3>1, LinksKept DEF Names
  <2>10. CASE Crash(r)
    BY <2>3, <2>10 DEF Crash, orderVars, invoiceVars
  <2> QED BY <1>3, <2>4, <2>5, <2>6, <2>7, <2>8, <2>9, <2>10 DEF Bill
<1> QED BY <1>1, <1>2, <1>3

LEMMA LinksInit == Init => LinksInv
BY TypeInit DEF Init, LinksInv, Names

LEMMA LinksStutter == LinksInv /\ UNCHANGED vars => LinksInv'
BY DEF LinksInv, TypeOK, Names, vars, orderVars, invoiceVars

LEMMA LinksAlways == Spec => []LinksInv
<1>1. LinksInv /\ [Next]_vars => LinksInv'
  BY LinksNext, LinksStutter DEF Next, Step
<1> QED BY <1>1, LinksInit, PTL DEF Spec

\* Delivery orders, their invoices and the requests are always well formed,
\* whatever interleaves and crashes.
THEOREM TypeCorrect == Spec => []TypeOK
BY LinksAlways, PTL DEF LinksInv

-----------------------------------------------------------------------------
(* Every unit on the lines of an invoice was delivered.                    *)

\* What a request added up is at most what was delivered since.
AddedUp(r) ==
  pc[r] \in {"bill", "draft", "grow"} =>
    \A x \in Items : job[r].lines[x] <= delivered[job[r].order][x]

LinesInv ==
  /\ LinksInv
  /\ \A r \in Requests : AddedUp(r)
  /\ LinesWereDelivered

\* Deliveries are never taken back.
LEMMA DeliveredGrows ==
  ASSUME TypeOK, NEW r \in Requests, Step(r)
  PROVE  \A o \in Orders, x \in Items : delivered[o][x] <= delivered'[o][x]
<1>1. \A o \in Orders, x \in Items : delivered[o][x] \in Nat
  BY DEF TypeOK, Quantities
<1>2. CASE UNCHANGED delivered
  BY <1>1, <1>2
<1>3. CASE RecordDelivery(r)
  <2> DEFINE o == job[r].order
  <2>1. o \in Orders /\ job[r].lines \in Quantities /\ delivered[o] \in Quantities
    BY DEF TypeOK, Job
  <2>2. delivered' = [delivered EXCEPT ![o] = Plus(delivered[o], job[r].lines)]
    BY <1>3 DEF RecordDelivery
  <2>3. \A x \in Items : delivered[o][x] <= Plus(delivered[o], job[r].lines)[x]
    <3>1. ASSUME NEW x \in Items
          PROVE  delivered[o][x] <= Plus(delivered[o], job[r].lines)[x]
      <4>1. delivered[o][x] \in Nat /\ job[r].lines[x] \in Nat
        BY <2>1 DEF Quantities
      <4>2. Plus(delivered[o], job[r].lines)[x] = delivered[o][x] + job[r].lines[x]
        BY <2>1, PlusType
      <4> QED BY <4>1, <4>2
    <3> QED BY <3>1
  <2> HIDE DEF o
  <2> QED BY <1>1, <2>1, <2>2, <2>3 DEF TypeOK
<1>4. UNCHANGED delivered \/ RecordDelivery(r)
  BY Begun DEF Step, Deliver, CheckDelivery, FindRemaining, CheckComplete,
     CloseOrder, Bill, AddUp, CreateDraft, LinkInvoice, ReadDraft, GrowDraft,
     Issue, Crash, orderVars
<1> QED BY <1>2, <1>3, <1>4

\* Steps that leave the lines of the invoices alone.
LEMMA LinesKept ==
  ASSUME LinesInv, NEW r \in Requests, Step(r), UNCHANGED <<billed, made>>,
         AddedUp(r)'
  PROVE  LinesInv'
<1>1. TypeOK /\ LinksInv'
  BY LinksNext DEF LinesInv, LinksInv
<1>2. \A o \in Orders, x \in Items : /\ delivered[o][x] <= delivered'[o][x]
                                     /\ delivered[o][x] \in Nat
                                     /\ delivered'[o][x] \in Nat
  BY <1>1, DeliveredGrows DEF TypeOK, LinksInv, Quantities
<1>3. ASSUME NEW q \in Requests \ {r} PROVE AddedUp(q)'
  <2>1. pc'[q] = pc[q] /\ job'[q] = job[q] /\ job[q] \in Job
    BY <1>1, OthersKept DEF TypeOK
  <2>2. job[q].order \in Orders /\ \A x \in Items : job[q].lines[x] \in Nat
    BY <2>1 DEF Job, Quantities
  <2>3. AddedUp(q)
    BY DEF LinesInv
  <2> QED BY <1>2, <2>1, <2>2, <2>3 DEF AddedUp
<1>4. LinesWereDelivered'
  <2>1. ASSUME NEW o \in Orders, NEW i \in made[o], NEW x \in Items,
               NEW n \in DOMAIN billed[i][x]
        PROVE  billed[i][x][n] <= delivered'[o][x]
    <3>1. billed[i][x] \in Seq(Nat)
      BY <1>1 DEF TypeOK
    <3>2. billed[i][x][n] <= delivered[o][x] /\ billed[i][x][n] \in Nat
      BY <3>1 DEF LinesInv, LinesWereDelivered
    <3> QED BY <1>2, <3>2
  <2> QED BY <2>1 DEF LinesWereDelivered
<1> QED BY <1>1, <1>3, <1>4 DEF LinesInv

\* A request that ends, or holds no lines.
LEMMA LinesDropped ==
  ASSUME LinesInv, NEW r \in Requests, Step(r), UNCHANGED <<billed, made>>,
         pc'[r] \notin {"bill", "draft", "grow"}
  PROVE  LinesInv'
<1>1. AddedUp(r)'
  BY DEF AddedUp
<1> QED BY <1>1, LinesKept

\* The steps of the synchronisation of an invoice.
LEMMA LinesBill ==
  ASSUME LinesInv, NEW r \in Requests, Bill(r)
  PROVE  LinesInv'
<1>1. /\ TypeOK /\ Step(r) /\ LinksInv'
      /\ job[r] \in Job /\ job[r].order \in Orders /\ job[r].lines \in Quantities
  BY LinksNext DEF LinesInv, LinksInv, TypeOK, Job, Step
<1>2. CASE Finish(r) /\ UNCHANGED <<billed, made>>
  <2>1. pc'[r] = "idle"
    BY <1>1, <1>2 DEF Finish, Goto, TypeOK
  <2> QED BY <1>1, <1>2, <2>1, LinesDropped
<1>3. CASE AddUp(r)
  <2>1. CASE Finish(r)
    BY <1>2, <1>3, <2>1 DEF AddUp, invoiceVars
  <2>2. CASE job' = [job EXCEPT ![r].lines = delivered[job[r].order]]
    <3>1. /\ job'[r].lines = delivered[job[r].order]
          /\ job'[r].order = job[r].order
      BY <1>1, <2>2 DEF TypeOK, Job
    <3>2. UNCHANGED <<billed, made, delivered>>
      BY <1>3 DEF AddUp, orderVars, invoiceVars
    <3>3. \A x \in Items : delivered[job[r].order][x] \in Nat
      BY <1>1 DEF TypeOK, Quantities
    <3>4. AddedUp(r)'
      BY <3>1, <3>2, <3>3 DEF AddedUp
    <3> QED BY <1>1, <3>2, <3>4, LinesKept
  <2> QED BY <1>3, <2>1, <2>2 DEF Billable, AddUp
<1>4. ASSUME NEW i \in Invoices, CreateDraft(r, i)
      PROVE  LinesInv'
  <2> DEFINE o == job[r].order
             lines == [x \in Items |-> IF job[r].lines[x] > 0
                                       THEN <<job[r].lines[x]>> ELSE <<>>]
  <2>1. /\ billed' = [billed EXCEPT ![i] = lines]
        /\ made' = [made EXCEPT ![o] = made[o] \cup {i}]
        /\ Goto(r, "link")
        /\ UNCHANGED delivered
        /\ pc[r] = "bill" /\ invoice[i] = "none"
    BY <1>4 DEF DraftLines, CreateDraft, orderVars
  <2>2. \A x \in Items : \A n \in DOMAIN lines[x] : lines[x][n] <= delivered[o][x]
    <3>1. \A x \in Items : job[r].lines[x] <= delivered[o][x]
      BY <2>1 DEF LinesInv, AddedUp
    <3>2. ASSUME NEW x \in Items, NEW n \in DOMAIN lines[x]
          PROVE  lines[x][n] = job[r].lines[x]
      <4>1. lines[x] = <<>> \/ lines[x] = <<job[r].lines[x]>>
        OBVIOUS
      <4>2. DOMAIN <<>> = {} /\ DOMAIN <<job[r].lines[x]>> = {1}
        OBVIOUS
      <4> HIDE DEF lines
      <4> QED BY <3>2, <4>1, <4>2
    <3> QED BY <3>1, <3>2
  <2>3. pc'[r] = "link" /\ \A q \in Requests \ {r} : pc'[q] = pc[q] /\ job'[q] = job[q]
    BY <1>1, <2>1, OthersKept DEF Goto, TypeOK
  <2> HIDE DEF lines, o
  <2>4. \A p \in Orders : i \notin made[p]
    BY <2>1 DEF LinesInv, LinksInv
  <2>5. LinesWereDelivered'
    <3>1. ASSUME NEW p \in Orders, NEW k \in made'[p], NEW x \in Items,
                 NEW n \in DOMAIN billed'[k][x]
          PROVE  billed'[k][x][n] <= delivered'[p][x]
      <4>0. k \in Invoices /\ made' \in [Orders -> SUBSET Invoices]
        BY <1>1 DEF LinksInv, TypeOK
      <4>1. CASE k = i
        <5>1. p = o
          BY <1>1, <2>1, <2>4, <4>1 DEF TypeOK, o
        <5>2. billed'[k] = lines
          BY <2>1, <4>1 DEF LinesInv, LinksInv, TypeOK
        <5> QED BY <2>1, <2>2, <5>1, <5>2
      <4>2. CASE k # i
        <5>1. k \in made[p]
          BY <1>1, <2>1, <4>2 DEF TypeOK
        <5>2. billed'[k] = billed[k]
          BY <1>1, <2>1, <4>0, <4>2 DEF TypeOK
        <5> QED BY <2>1, <5>1, <5>2 DEF LinesInv, LinesWereDelivered
      <4> QED BY <4>1, <4>2
    <3> QED BY <3>1 DEF LinesWereDelivered
  <2>6. \A q \in Requests : AddedUp(q)'
    BY <2>1, <2>3 DEF LinesInv, AddedUp
  <2> QED BY <1>1, <2>5, <2>6 DEF LinesInv
<1>5. CASE LinkInvoice(r)
  BY <1>2, <1>5 DEF LinkInvoice, invoiceVars
<1>6. CASE ReadDraft(r)
  <2>1. CASE Finish(r)
    BY <1>2, <1>6, <2>1 DEF ReadDraft, invoiceVars
  <2>2. CASE ~Finish(r)
    <3> DEFINE known == {x \in Items : billed[job[r].invoice][x] # <<>>}
    <3>1. /\ job' = [job EXCEPT ![r].known = known]
          /\ UNCHANGED <<billed, made, delivered>> /\ pc[r] = "draft"
      BY <1>6, <2>2 DEF ReadDraft, orderVars, invoiceVars
    <3> HIDE DEF known
    <3>2. job'[r].lines = job[r].lines /\ job'[r].order = job[r].order
      BY <1>1, <3>1 DEF TypeOK, Job
    <3>3. AddedUp(r)'
      BY <3>1, <3>2 DEF AddedUp, LinesInv
    <3> QED BY <1>1, <3>1, <3>3, LinesKept
  <2> QED BY <2>1, <2>2
<1>7. CASE GrowDraft(r)
  <2> DEFINE o == job[r].order
             b == job[r].invoice
             grown == [x \in Items |->
               IF job[r].lines[x] = 0 THEN billed[b][x]
               ELSE IF x \in job[r].known
                    THEN [billed[b][x] EXCEPT ![1] = job[r].lines[x]]
                    ELSE Append(billed[b][x], job[r].lines[x])]
  <2>1. /\ billed' = [billed EXCEPT ![b] = grown] /\ pc[r] = "grow"
        /\ Finish(r) /\ UNCHANGED <<delivered, made>>
    BY <1>7 DEF Grown, GrowDraft, orderVars
  <2>2. b \in made[o] /\ b \in Invoices
    BY <1>1, <2>1 DEF LinesInv, LinksInv, Names, TypeOK
  <2>3. ASSUME NEW x \in Items, NEW n \in DOMAIN grown[x]
        PROVE  grown[x][n] <= delivered[o][x]
    <3>1. /\ billed[b][x] \in Seq(Nat) /\ job[r].lines[x] \in Nat
          /\ job[r].lines[x] <= delivered[o][x]
          /\ \A k \in DOMAIN billed[b][x] : billed[b][x][k] <= delivered[o][x]
      BY <1>1, <2>1, <2>2 DEF TypeOK, Quantities, LinesInv, AddedUp, LinesWereDelivered
    <3> DEFINE old == billed[b][x]
               m   == job[r].lines[x]
    <3>2. grown[x] \in {old, [old EXCEPT ![1] = m], Append(old, m)}
      OBVIOUS
    <3>3. n \in DOMAIN grown[x]
      BY <2>3
    <3> HIDE DEF grown, o, b, old, m
    <3>4. old \in Seq(Nat) /\ m \in Nat
      BY <3>1 DEF old, m
    <3>5. m <= delivered[o][x] /\ \A k \in DOMAIN old : old[k] <= delivered[o][x]
      BY <3>1 DEF old, m
    <3>6. CASE grown[x] = old
      BY <3>3, <3>5, <3>6
    <3>7. CASE grown[x] = [old EXCEPT ![1] = m]
      BY <3>3, <3>4, <3>5, <3>7, LineReplaced
    <3>8. CASE grown[x] = Append(old, m)
      BY <3>3, <3>4, <3>5, <3>8, LineAdded
    <3> QED BY <3>2, <3>6, <3>7, <3>8
  <2>4. pc'[r] = "idle" /\ \A q \in Requests \ {r} : pc'[q] = pc[q] /\ job'[q] = job[q]
    BY <1>1, <2>1, OthersKept DEF Finish, Goto, TypeOK
  <2> HIDE DEF grown, o, b
  <2>5. LinesWereDelivered'
    <3>1. ASSUME NEW p \in Orders, NEW k \in made[p], NEW x \in Items,
                 NEW n \in DOMAIN billed'[k][x]
          PROVE  billed'[k][x][n] <= delivered[p][x]
      <4>0. k \in Invoices /\ o \in Orders
        BY <1>1 DEF TypeOK, o
      <4>1. CASE k = b
        <5>1. p = o
          BY <2>2, <4>0, <4>1 DEF LinesInv, LinksInv
        <5>2. billed'[k] = grown
          BY <1>1, <2>1, <4>0, <4>1 DEF TypeOK
        <5> QED BY <2>3, <3>1, <5>1, <5>2
      <4>2. CASE k # b
        <5>1. billed'[k] = billed[k]
          BY <1>1, <2>1, <4>0, <4>2 DEF TypeOK
        <5> QED BY <5>1 DEF LinesInv, LinesWereDelivered
      <4> QED BY <4>1, <4>2
    <3> QED BY <2>1, <3>1 DEF LinesWereDelivered
  <2>6. \A q \in Requests : AddedUp(q)'
    BY <2>1, <2>4 DEF LinesInv, AddedUp
  <2> QED BY <1>1, <2>5, <2>6 DEF LinesInv
<1>8. CASE Issue(r)
  BY <1>2, <1>8 DEF Issue
<1> QED BY <1>3, <1>4, <1>5, <1>6, <1>7, <1>8 DEF Bill

LEMMA LinesInit == Init => LinesInv
<1> SUFFICES ASSUME Init PROVE LinesInv
  OBVIOUS
<1>1. LinesWereDelivered
  BY DEF Init, LinesWereDelivered
<1> QED BY <1>1, LinksInit DEF Init, LinesInv, AddedUp

LEMMA LinesNext == LinesInv /\ [Next]_vars => LinesInv'
<1> SUFFICES ASSUME LinesInv, [Next]_vars PROVE LinesInv'
  OBVIOUS
<1>0. TypeOK
  BY DEF LinesInv, LinksInv
<1>1. ASSUME NEW r \in Requests, NEW o \in Orders, Begin(r, o)
      PROVE  LinesInv'
  BY <1>0, <1>1, Begun, LinesDropped DEF Step
<1>2. ASSUME NEW r \in Requests, Deliver(r)
      PROVE  LinesInv'
  BY <1>0, <1>2, Delivering, LinesDropped DEF Step, invoiceVars
<1>3. ASSUME NEW r \in Requests, Crash(r)
      PROVE  LinesInv'
  <2>1. pc'[r] = "idle" /\ UNCHANGED <<billed, made>>
    BY <1>0, <1>3 DEF Crash, Finish, Goto, TypeOK, invoiceVars
  <2> QED BY <1>3, <2>1, LinesDropped DEF Step
<1>4. CASE UNCHANGED vars
  <2>1. LinksInv'
    BY <1>4, LinksStutter DEF LinesInv
  <2> QED BY <1>4, <2>1 DEF LinesInv, AddedUp, LinesWereDelivered, vars,
                            orderVars, invoiceVars
<1> QED BY <1>1, <1>2, <1>3, <1>4, LinesBill DEF Next

\* No line of an invoice ever holds more units than were delivered, however
\* many requests deliver, synchronise and emit at a time.
THEOREM BilledLinesWereDelivered == Spec => []LinesWereDelivered
BY LinesInit, LinesNext, PTL DEF Spec, LinesInv

-----------------------------------------------------------------------------
(* An order that one request at a time works on.                           *)

Busy(r) == pc[r] # "idle"

\* Two requests are on one order only after they crossed.
Solo ==
  \A r, q \in Requests :
    r # q /\ Busy(r) /\ Busy(q) /\ job[r].order = job[q].order
      => job[r].order \in crossed

\* What the request of a quiet order found is still so.
SoundAt(r, o) ==
  /\ pc[r] \in {"register", "mark", "record"} => status[o] \notin Closed
  /\ pc[r] \notin {"idle", "issue"} => status[o] # "CANCELADA"
  /\ pc[r] = "record" =>
       \A x \in Items :
         /\ delivered[o][x] + job[r].lines[x] <= Planned(o, x)
         /\ job[r].wanted = "ENTREGADA" /\ PlainPlan(o)
              => delivered[o][x] + job[r].lines[x] >= Planned(o, x)
  /\ pc[r] = "close" /\ job[r].wanted = "ENTREGADA" /\ PlainPlan(o)
       /\ o \in registered
       => Complete(o, delivered[o])
Sound(r) == Quiet(job[r].order) => SoundAt(r, job[r].order)

\* A quiet order is within its plan, and in full when it says so.
OrderAt(o) ==
  /\ \A x \in Items : delivered[o][x] <= Planned(o, x)
  /\ PlainPlan(o) /\ status[o] = "ENTREGADA" /\ o \in registered
       => Complete(o, delivered[o])

QuietInv ==
  /\ LinksInv
  /\ Solo
  /\ \A r \in Requests : Sound(r)
  /\ \A o \in Orders : Quiet(o) => OrderAt(o)

LEMMA QuietImplies == QuietInv => NeverOverDelivered /\ DeliveredInFull
BY DEF QuietInv, OrderAt, NeverOverDelivered, DeliveredInFull

LEMMA QuietInit == Init => QuietInv
<1> SUFFICES ASSUME Init PROVE QuietInv
  OBVIOUS
<1>1. LinksInv
  BY LinksInit
<1>2. ASSUME NEW o \in Orders PROVE OrderAt(o)
  <2>1. ASSUME NEW x \in Items PROVE delivered[o][x] <= Planned(o, x)
    <3>1. delivered[o][x] = 0
      BY DEF Init, Nothing
    <3> QED BY <3>1, PlannedType
  <2> QED BY <2>1 DEF Init, OrderAt
<1>3. Solo /\ \A r \in Requests : Sound(r)
  BY DEF Init, Solo, Busy, Sound, SoundAt
<1> QED BY <1>1, <1>2, <1>3 DEF QuietInv

\* A request that starts on a quiet order is alone there.
LEMMA QuietBegin ==
  ASSUME QuietInv, NEW r \in Requests, NEW o \in Orders, Begin(r, o)
  PROVE  QuietInv'
<1>1. TypeOK /\ LinksInv' /\ Step(r) /\ crossed \subseteq crossed'
      /\ UNCHANGED orderVars
  BY LinksNext, Begun DEF QuietInv, LinksInv, Step
<1>2. \A q \in Requests \ {r} : pc'[q] = pc[q] /\ job'[q] = job[q]
  BY <1>1, OthersKept
<1>3. job'[r].order = o /\ pc[r] = "idle"
  BY <1>1, Begun
<1>4. \A q \in Requests \ {r} : Busy(q) /\ job[q].order = o => o \in crossed'
  BY <1>1, Begun DEF Busy
<1>5. Solo'
  <2>1. ASSUME NEW q \in Requests, NEW s \in Requests, q # s,
               Busy(q)', Busy(s)', job'[q].order = job'[s].order
        PROVE  job'[q].order \in crossed'
    <3>1. CASE q = r
      BY <1>2, <1>3, <1>4, <2>1, <3>1 DEF Busy
    <3>2. CASE s = r
      BY <1>2, <1>3, <1>4, <2>1, <3>2 DEF Busy
    <3>3. CASE q # r /\ s # r
      BY <1>1, <1>2, <2>1, <3>3 DEF QuietInv, Solo, Busy
    <3> QED BY <3>1, <3>2, <3>3
  <2> QED BY <2>1 DEF Solo
<1>6. ASSUME NEW q \in Requests \ {r} PROVE Sound(q)'
  BY <1>1, <1>2 DEF QuietInv, Sound, SoundAt, Quiet, orderVars
<1>7. SoundAt(r, o)'
  <2>1. CASE \E lines \in [Items -> 0..MaxUnits] : BeginRegister(r, o, lines)
    BY <1>1, <2>1
      DEF MayDeliver, BeginRegister, Start, SoundAt, TypeOK, Closed, orderVars
  <2>2. CASE BeginMark(r, o)
    BY <1>1, <2>2
      DEF MayDeliver, BeginMark, Start, SoundAt, TypeOK, Closed, orderVars
  <2>3. ASSUME NEW wanted \in Status, BeginStatus(r, o, wanted)
        PROVE  SoundAt(r, o)'
    <3>1. /\ pc'[r] = IF wanted = "ENTREGADA" THEN "check" ELSE "close"
          /\ job'[r].wanted = wanted /\ status'[o] # "CANCELADA"
      BY <1>1, <2>3 DEF BeginStatus, Start, Work, TypeOK, orderVars
    <3> QED BY <3>1 DEF SoundAt
  <2>4. CASE BeginSync(r, o)
    BY <1>1, <2>4 DEF BeginSync, Start, SoundAt, TypeOK, orderVars
  <2>5. CASE BeginIssue(r, o)
    BY <1>1, <2>5 DEF BeginIssue, Start, SoundAt, TypeOK, orderVars
  <2> QED BY <2>1, <2>2, <2>3, <2>4, <2>5 DEF Begin
<1>8. ASSUME NEW p \in Orders, Quiet(p)' PROVE OrderAt(p)'
  BY <1>1, <1>8 DEF QuietInv, OrderAt, Quiet, orderVars
<1> QED BY <1>1, <1>3, <1>5, <1>6, <1>7, <1>8 DEF QuietInv, Sound

\* A step of a request is sound if it is for its own order.
LEMMA QuietKept ==
  ASSUME QuietInv, NEW r \in Requests, Deliver(r) \/ Bill(r) \/ Crash(r),
         NEW o \in Orders, job[r].order = o,
         Busy(r), Busy(r)' => job'[r].order = o,
         UNCHANGED crossed,
         \A p \in Orders \ {o} :
           /\ status'[p] = status[p] /\ delivered'[p] = delivered[p]
           /\ p \in registered' <=> p \in registered,
         Quiet(o) => (Busy(r)' => SoundAt(r, o)') /\ OrderAt(o)'
  PROVE  QuietInv'
<1>1. /\ TypeOK /\ TypeOK' /\ LinksInv' /\ Step(r)
      /\ \A q \in Requests : job[q].order \in Orders /\ job'[q].order \in Orders
  BY LinksNext DEF QuietInv, LinksInv, Step, TypeOK, Job
<1>2. \A q \in Requests \ {r} : pc'[q] = pc[q] /\ job'[q] = job[q]
  BY <1>1, OthersKept
<1>3. Solo'
  BY <1>2 DEF QuietInv, Solo, Busy
<1>4. ASSUME NEW q \in Requests, NEW p \in Orders, job'[q].order = p, Quiet(p)'
      PROVE  SoundAt(q, p)'
  <2>1. CASE pc'[q] = "idle"
    BY <2>1 DEF SoundAt
  <2>2. CASE q = r /\ Busy(r)'
    BY <1>4, <2>2 DEF Quiet
  <2>3. CASE q # r /\ Busy(q)'
    <3>1. Busy(q) /\ job'[q] = job[q] /\ pc'[q] = pc[q]
      BY <1>2, <2>3 DEF Busy
    <3>2. p # o /\ Quiet(p) /\ job[q].order = p
      BY <1>4, <2>3, <3>1 DEF QuietInv, Solo, Quiet
    <3>3. SoundAt(q, p)
      BY <3>2 DEF QuietInv, Sound
    <3> QED BY <3>1, <3>2, <3>3 DEF SoundAt, Complete
  <2> QED BY <2>1, <2>2, <2>3 DEF Busy
<1>5. ASSUME NEW p \in Orders, Quiet(p)' PROVE OrderAt(p)'
  <2>1. CASE p = o
    BY <1>5, <2>1 DEF Quiet
  <2>2. CASE p # o
    BY <1>5, <2>2 DEF Quiet, QuietInv, OrderAt, Complete
  <2> QED BY <2>1, <2>2
<1>6. \A q \in Requests : Sound(q)'
  BY <1>1, <1>4 DEF Sound
<1> QED BY <1>1, <1>3, <1>5, <1>6 DEF QuietInv

LEMMA QuietDeliver ==
  ASSUME QuietInv, NEW r \in Requests, Deliver(r),
         NEW o \in Orders, job[r].order = o
  PROVE  QuietInv'
<1>1. /\ TypeOK /\ o \in Orders /\ job[r] \in Job
      /\ delivered[o] \in Quantities /\ job[r].lines \in Quantities
  BY DEF QuietInv, LinksInv, TypeOK, Job
<1>2. /\ Busy(r) /\ UNCHANGED crossed
      /\ Busy(r)' => job'[r].order = o
  BY <1>1, Delivering DEF Busy
<1>3. Quiet(o) => SoundAt(r, o) /\ OrderAt(o)
  BY <1>1 DEF QuietInv, Sound
<1>4. \A x \in Items : delivered[o][x] \in Nat /\ job[r].lines[x] \in Nat
  BY <1>1 DEF Quantities
<1>5. CASE CheckDelivery(r)
  <2>1. UNCHANGED <<status, delivered, registered>>
    BY <1>5 DEF CheckDelivery, orderVars
  <2>2. CASE pc'[r] = "idle"
    BY <1>1, <1>2, <1>3, <2>1, <2>2, QuietKept DEF Busy, OrderAt, Complete
  <2>3. CASE pc'[r] # "idle"
    <3> DEFINE w == IF Complete(o, Plus(delivered[o], job[r].lines))
                    THEN "ENTREGADA" ELSE "PARCIALMENTE_ENTREGADA"
    <3>1. /\ \A x \in Items : job[r].lines[x] > 0
                 => delivered[o][x] + job[r].lines[x] <= Planned(o, x)
          /\ job' = [job EXCEPT ![r].wanted = w]
          /\ pc'[r] = "record" /\ pc[r] = "register"
      BY <1>1, <1>5, <2>3 DEF Fits, CheckDelivery, Goto, Finish, TypeOK
    <3>2. w = "ENTREGADA" => \A x \in Items :
             delivered[o][x] + job[r].lines[x] >= Planned(o, x)
      BY <1>1, PlusType DEF Complete
    <3> HIDE DEF w
    <3>3. job'[r].lines = job[r].lines /\ job'[r].wanted = w
      BY <1>1, <3>1 DEF TypeOK, Job
    <3>4. ASSUME Quiet(o) PROVE SoundAt(r, o)'
      <4>1. \A x \in Items : delivered[o][x] + job[r].lines[x] <= Planned(o, x)
        BY <1>3, <1>4, <3>1, <3>4, PlannedType DEF OrderAt
      <4>2. status[o] \notin Closed
        BY <1>3, <3>1, <3>4 DEF SoundAt
      <4> QED BY <2>1, <3>1, <3>2, <3>3, <4>1, <4>2 DEF SoundAt, Closed
    <3>5. Quiet(o) => OrderAt(o)'
      BY <1>3, <2>1 DEF OrderAt, Complete
    <3> QED BY <1>1, <1>2, <2>1, <3>4, <3>5, QuietKept
  <2> QED BY <2>2, <2>3
<1>6. CASE FindRemaining(r)
  <2> DEFINE left == [x \in Items |-> Remaining(o, delivered[o], x)]
  <2>1. /\ UNCHANGED <<status, delivered, registered>> /\ pc[r] = "mark"
        /\ job' = [job EXCEPT ![r].lines = left, ![r].wanted = "ENTREGADA"]
        /\ pc'[r] = IF left = Nothing THEN "close" ELSE "record"
    BY <1>1, <1>6 DEF FindRemaining, orderVars, Goto, TypeOK
  <2>2. \A x \in Items : left[x] = Remaining(o, delivered[o], x)
    OBVIOUS
  <2> HIDE DEF left
  <2>3. job'[r].lines = left /\ job'[r].wanted = "ENTREGADA"
    BY <1>1, <2>1 DEF TypeOK, Job
  <2>4. ASSUME Quiet(o) PROVE SoundAt(r, o)'
    <3>1. \A x \in Items : /\ delivered[o][x] + left[x] <= Planned(o, x)
                           /\ PlainPlan(o) => delivered[o][x] + left[x] >= Planned(o, x)
      BY <1>1, <1>3, <2>2, <2>4, RemainingFits DEF OrderAt
    <3>2. status[o] \notin Closed
      BY <1>3, <2>1, <2>4 DEF SoundAt
    <3>3. CASE left = Nothing
      <4>1. PlainPlan(o) => Complete(o, delivered[o])
        <5>1. ASSUME NEW x \in Items PROVE left[x] = 0
          BY <3>3 DEF Nothing
        <5> QED BY <1>4, <3>1, <5>1 DEF Complete
      <4>2. pc'[r] = "close" /\ PlainPlan(o)' = PlainPlan(o)
        BY <2>1, <3>3 DEF PlainPlan
      <4> QED BY <2>1, <3>2, <4>1, <4>2 DEF SoundAt, Closed, Complete
    <3>4. CASE left # Nothing
      <4>1. pc'[r] = "record"
        BY <2>1, <3>4
      <4> QED BY <2>1, <2>3, <3>1, <3>2, <4>1 DEF SoundAt, Closed
    <3> QED BY <3>3, <3>4
  <2>5. Quiet(o) => OrderAt(o)'
    BY <1>3, <2>1 DEF OrderAt, Complete
  <2> QED BY <1>1, <1>2, <2>1, <2>4, <2>5, QuietKept
<1>7. CASE RecordDelivery(r)
  <2>1. /\ UNCHANGED status /\ registered' = registered \cup {o}
        /\ delivered' = [delivered EXCEPT ![o] = Plus(delivered[o], job[r].lines)]
        /\ job' = [job EXCEPT ![r].lines = Nothing]
        /\ pc[r] = "record" /\ pc'[r] = "close"
    BY <1>1, <1>7 DEF RecordDelivery, Goto, TypeOK
  <2>2. \A x \in Items : delivered'[o][x] = delivered[o][x] + job[r].lines[x]
    BY <1>1, <2>1, PlusType DEF TypeOK
  <2>3. job'[r].wanted = job[r].wanted
    BY <1>1, <2>1 DEF TypeOK, Job
  <2>4. \A p \in Orders \ {o} : /\ status'[p] = status[p]
                                /\ delivered'[p] = delivered[p]
                                /\ p \in registered' <=> p \in registered
    BY <2>1 DEF TypeOK
  <2>5. ASSUME Quiet(o) PROVE SoundAt(r, o)' /\ OrderAt(o)'
    <3>1. /\ status[o] \notin Closed
          /\ \A x \in Items : delivered'[o][x] <= Planned(o, x)
          /\ job[r].wanted = "ENTREGADA" /\ PlainPlan(o)
               => \A x \in Items : delivered'[o][x] >= Planned(o, x)
      BY <1>3, <2>1, <2>2, <2>5 DEF SoundAt
    <3>2. OrderAt(o)'
      BY <2>1, <3>1 DEF OrderAt, Closed
    <3>3. SoundAt(r, o)'
      BY <2>1, <2>3, <3>1 DEF SoundAt, Closed, Complete
    <3> QED BY <3>2, <3>3
  <2> QED BY <1>1, <1>2, <2>4, <2>5, QuietKept
<1>8. CASE CheckComplete(r)
  <2>1. UNCHANGED <<status, delivered, registered>> /\ pc[r] = "check"
    BY <1>8 DEF CheckComplete, orderVars
  <2>2. \/ pc'[r] = "idle"
        \/ pc'[r] = "close" /\ (o \in registered => Complete(o, delivered[o]))
    BY <1>1, <1>8 DEF Missing, CheckComplete, Goto, Finish, TypeOK
  <2>3. Quiet(o) => (Busy(r)' => SoundAt(r, o)')
    BY <1>3, <2>1, <2>2 DEF SoundAt, Busy, Complete
  <2>4. Quiet(o) => OrderAt(o)'
    BY <1>3, <2>1 DEF OrderAt, Complete
  <2> QED BY <1>1, <1>2, <2>1, <2>3, <2>4, QuietKept
<1>9. CASE CloseOrder(r)
  <2>1. /\ status' = [status EXCEPT ![o] = job[r].wanted]
        /\ UNCHANGED <<delivered, registered>>
        /\ pc[r] = "close" /\ pc'[r] = "idle"
    BY <1>1, <1>9 DEF CloseOrder, Goto, Finish, TypeOK
  <2>2. /\ status'[o] = job[r].wanted
        /\ \A p \in Orders \ {o} : status'[p] = status[p]
    BY <1>1, <2>1 DEF TypeOK
  <2>3. Quiet(o) => OrderAt(o)'
    BY <1>3, <2>1, <2>2 DEF OrderAt, SoundAt, Complete
  <2> QED BY <1>1, <1>2, <2>1, <2>2, <2>3, QuietKept DEF Busy
<1> QED BY <1>5, <1>6, <1>7, <1>8, <1>9 DEF Deliver

\* Invoices, and crashes, leave the deliveries alone.
LEMMA QuietBill ==
  ASSUME QuietInv, NEW r \in Requests, Bill(r) \/ Crash(r),
         NEW o \in Orders, job[r].order = o
  PROVE  QuietInv'
<1>1. TypeOK /\ o \in Orders /\ job[r] \in Job
  BY DEF QuietInv, LinksInv, TypeOK, Job
<1>2. /\ UNCHANGED <<status, delivered, registered, crossed>>
      /\ Busy(r)
      /\ Busy(r)' => /\ pc[r] \in {"sync", "bill", "link", "draft", "grow"}
                     /\ pc'[r] \in {"bill", "link", "draft", "grow"}
                     /\ job'[r].order = o
  <2>1. CASE AddUp(r)
    BY <1>1, <2>1 DEF AddUp, Goto, Finish, Busy, TypeOK, Job, orderVars
  <2>2. CASE \E i \in Invoices : CreateDraft(r, i)
    BY <1>1, <2>2 DEF CreateDraft, Goto, Busy, TypeOK, Job, orderVars
  <2>3. CASE LinkInvoice(r)
    BY <1>1, <2>3 DEF LinkInvoice, Goto, Finish, Busy, TypeOK
  <2>4. CASE ReadDraft(r)
    BY <1>1, <2>4 DEF ReadDraft, Goto, Finish, Busy, TypeOK, Job, orderVars
  <2>5. CASE GrowDraft(r)
    BY <1>1, <2>5 DEF GrowDraft, Goto, Finish, Busy, TypeOK, orderVars
  <2>6. CASE Issue(r)
    BY <1>1, <2>6 DEF Issue, Goto, Finish, Busy, TypeOK, orderVars
  <2>7. CASE Crash(r)
    BY <1>1, <2>7 DEF Crash, Goto, Finish, Busy, TypeOK, orderVars
  <2> QED BY <2>1, <2>2, <2>3, <2>4, <2>5, <2>6, <2>7 DEF Bill
<1>3. Quiet(o) => SoundAt(r, o) /\ OrderAt(o)
  BY <1>1 DEF QuietInv, Sound
<1>4. Quiet(o) => (Busy(r)' => SoundAt(r, o)')
  BY <1>2, <1>3 DEF SoundAt
<1>5. Quiet(o) => OrderAt(o)'
  BY <1>2, <1>3 DEF OrderAt, Complete
<1> QED BY <1>1, <1>2, <1>4, <1>5, QuietKept

LEMMA QuietStutter == QuietInv /\ UNCHANGED vars => QuietInv'
BY LinksStutter
   DEF QuietInv, Solo, Busy, Sound, SoundAt, OrderAt, Quiet, Complete, vars,
       orderVars

LEMMA QuietAlways == Spec => []QuietInv
<1>1. QuietInv /\ [Next]_vars => QuietInv'
  <2>1. QuietInv => \A r \in Requests : job[r].order \in Orders
    BY DEF QuietInv, LinksInv, TypeOK, Job
  <2> QED BY <2>1, QuietBegin, QuietDeliver, QuietBill, QuietStutter DEF Next
<1> QED BY <1>1, QuietInit, PTL DEF Spec

\* Partial deliveries, the remainder and retries after a crash never take an
\* order that one request at a time works on beyond its plan.
THEOREM NeverBeyondPlan == Spec => []NeverOverDelivered
BY QuietAlways, QuietImplies, PTL

\* Such an order, with one line for each description, is in full when it is
\* closed as delivered, in any of the three ways.
THEOREM ClosedInFull == Spec => []DeliveredInFull
BY QuietAlways, QuietImplies, PTL

\* What CancelledIsClosed says of one step and one order.
CancelledStays(o) ==
  Quiet(o)' /\ status[o] = "CANCELADA" =>
    /\ status'[o] = "CANCELADA"
    /\ delivered'[o] = delivered[o]
    /\ \A i \in made[o] : billed'[i] = billed[i]

\* A request at work on a quiet order found it open, and it still is.
LEMMA StepsOnOpenOrders ==
  ASSUME QuietInv, NEW r \in Requests, Deliver(r) \/ Bill(r),
         NEW o \in Orders, Quiet(o), status[o] = "CANCELADA"
  PROVE  pc[r] = "issue" \/ job[r].order # o
<1>1. pc[r] # "idle"
  BY DEF Deliver, CheckDelivery, FindRemaining, RecordDelivery, CheckComplete,
         CloseOrder, Bill, AddUp, CreateDraft, LinkInvoice, ReadDraft,
         GrowDraft, Issue
<1> QED BY <1>1 DEF QuietInv, Sound, SoundAt

LEMMA CancelledStep ==
  ASSUME QuietInv, [Next]_vars, NEW o \in Orders
  PROVE  CancelledStays(o)
<1> SUFFICES ASSUME Quiet(o)', status[o] = "CANCELADA"
             PROVE  /\ status'[o] = "CANCELADA"
                    /\ delivered'[o] = delivered[o]
                    /\ \A i \in made[o] : billed'[i] = billed[i]
  BY DEF CancelledStays
<1>1. TypeOK
  BY DEF QuietInv, LinksInv
<1>2. CASE UNCHANGED <<status, delivered, billed>>
  BY <1>2
<1>3. ASSUME NEW r \in Requests, NEW p \in Orders, Begin(r, p)
      PROVE  UNCHANGED <<status, delivered, billed>>
  BY <1>1, <1>3, Begun DEF orderVars
<1>4. ASSUME NEW r \in Requests, Deliver(r)
      PROVE  /\ UNCHANGED billed
             /\ status'[o] = status[o] /\ delivered'[o] = delivered[o]
  <2>1. Quiet(o) /\ UNCHANGED invoiceVars
        /\ pc[r] \in {"register", "mark", "record", "check", "close"}
    BY <1>1, <1>4, Delivering DEF Quiet
  <2>2. job[r].order # o
    BY <1>4, <2>1, StepsOnOpenOrders
  <2>3. /\ UNCHANGED status \/ status' = [status EXCEPT ![job[r].order] = job[r].wanted]
        /\ \/ UNCHANGED delivered
           \/ delivered' = [delivered EXCEPT ![job[r].order] =
                              Plus(delivered[job[r].order], job[r].lines)]
    BY <1>4 DEF Deliver, CheckDelivery, FindRemaining, RecordDelivery,
                CheckComplete, CloseOrder, orderVars
  <2> QED BY <1>1, <2>1, <2>2, <2>3 DEF TypeOK, invoiceVars
<1>5. ASSUME NEW r \in Requests, Bill(r)
      PROVE  /\ UNCHANGED <<status, delivered>>
             /\ \A i \in made[o] : billed'[i] = billed[i]
  <2>1. UNCHANGED <<status, delivered, crossed>>
    BY <1>5 DEF Bill, AddUp, CreateDraft, LinkInvoice, ReadDraft, GrowDraft,
                Issue, orderVars
  <2>2. Quiet(o)
    BY <2>1 DEF Quiet
  <2>3. CASE UNCHANGED billed
    BY <2>1, <2>3
  <2>4. ASSUME NEW i \in Invoices, CreateDraft(r, i)
        PROVE  \A k \in made[o] : billed'[k] = billed[k]
    <3>1. i \notin made[o]
      BY <2>4 DEF CreateDraft, QuietInv, LinksInv
    <3>2. \A k \in Invoices \ {i} : billed'[k] = billed[k]
      BY <1>1, <2>4 DEF CreateDraft, TypeOK
    <3> QED BY <1>1, <3>1, <3>2 DEF TypeOK
  <2>5. CASE GrowDraft(r)
    <3>1. job[r].order # o /\ job[r].order \in Orders
      BY <1>1, <1>5, <2>2, <2>5, StepsOnOpenOrders DEF GrowDraft, TypeOK, Job
    <3>2. job[r].invoice \in made[job[r].order]
      BY <2>5 DEF GrowDraft, QuietInv, LinksInv, Names
    <3>3. job[r].invoice \notin made[o]
      BY <3>1, <3>2 DEF QuietInv, LinksInv
    <3>4. \A k \in Invoices \ {job[r].invoice} : billed'[k] = billed[k]
      BY <1>1, <2>5 DEF GrowDraft, TypeOK
    <3>5. \A k \in made[o] : billed'[k] = billed[k]
      BY <1>1, <3>3, <3>4 DEF TypeOK
    <3> QED BY <2>1, <3>5
  <2>6. \/ UNCHANGED billed \/ GrowDraft(r)
        \/ \E i \in Invoices : CreateDraft(r, i)
    BY <1>5 DEF Bill, AddUp, LinkInvoice, ReadDraft, Issue, invoiceVars
  <2> QED BY <2>1, <2>3, <2>4, <2>5, <2>6
<1>6. ASSUME NEW r \in Requests, Crash(r)
      PROVE  UNCHANGED <<status, delivered, billed>>
  BY <1>6 DEF Crash, orderVars, invoiceVars
<1>7. CASE UNCHANGED vars
  BY <1>2, <1>7 DEF vars, orderVars, invoiceVars
<1> QED BY <1>2, <1>3, <1>4, <1>5, <1>6, <1>7 DEF Next

\* A cancelled order that one request at a time works on takes no delivery,
\* bills nothing more and does not come back.
THEOREM CancelledStaysClosed == Spec => CancelledIsClosed
<1>1. QuietInv /\ [Next]_vars => [\A o \in Orders : CancelledStays(o)]_vars
  BY CancelledStep
<1>2. CancelledIsClosed <=> [][\A o \in Orders : CancelledStays(o)]_vars
  BY PTL DEF CancelledIsClosed, CancelledStays
<1> QED BY <1>1, <1>2, QuietAlways, PTL DEF Spec

-----------------------------------------------------------------------------
(* What an order that one request at a time works on has been billed.      *)

\* A request on a quiet order bills all that was delivered, and what it read
\* of the invoice, or sent to the DIAN, is still so.
PaperAt(r, o) ==
  /\ pc[r] = "sync" => job[r].invoice = link[o]
  /\ pc[r] = "bill" => link[o] = NoInvoice
  /\ pc[r] \in {"draft", "grow"} => job[r].lines = delivered[o]
  /\ pc[r] \in {"grow", "issue"} => invoice[job[r].invoice] = "BORRADOR"
  /\ pc[r] = "grow" =>
       job[r].known = {x \in Items : billed[job[r].invoice][x] # <<>>}
  /\ pc[r] = "issue" => declared[job[r].invoice] = billed[job[r].invoice]

\* A request is about to link the only invoice of the order.
Awaited(o) ==
  \E r \in Requests :
    pc[r] = "link" /\ job[r].order = o /\ made[o] = {job[r].invoice}

InvoicesAt(o) ==
  /\ o \notin orphaned => made[o] \subseteq {link[o]} \/ Awaited(o)
  /\ \A i \in made[o], x \in Items : Len(billed[i][x]) <= 1
  /\ \A i \in made[o] : invoice[i] = "EMITIDA" => billed[i] = declared[i]

PaperInv ==
  \A o \in Orders :
    Quiet(o) => /\ \A r \in Requests : job[r].order = o => PaperAt(r, o)
                /\ InvoicesAt(o)

LEMMA PaperInit == Init => PaperInv
<1> SUFFICES ASSUME Init PROVE PaperInv
  OBVIOUS
<1>1. \A o \in Orders : made[o] = {}
  BY DEF Init
<1> QED BY <1>1 DEF Init, PaperInv, PaperAt, InvoicesAt

\* The order of a request that takes a step.
On(r, o) ==
  \/ Begin(r, o)
  \/ job[r].order = o /\ (Deliver(r) \/ Bill(r) \/ Crash(r))

\* A step touches one order and the invoices made for it.
Untouched(p) ==
  /\ link'[p] = link[p] /\ delivered'[p] = delivered[p] /\ made'[p] = made[p]
  /\ p \in orphaned' <=> p \in orphaned
  /\ \A i \in made[p] : /\ invoice'[i] = invoice[i] /\ billed'[i] = billed[i]
                        /\ declared'[i] = declared[i]

LEMMA OthersUntouched ==
  ASSUME LinksInv, NEW r \in Requests, NEW o \in Orders, On(r, o)
  PROVE  \A p \in Orders \ {o} : Untouched(p)
<1> SUFFICES ASSUME NEW p \in Orders, p # o PROVE Untouched(p)
  OBVIOUS
<1>1. TypeOK /\ made[p] \subseteq Invoices
  BY DEF LinksInv, TypeOK
<1>2. \A i \in made[o] : i \notin made[p]
  BY DEF LinksInv
<1>3. CASE Begin(r, o)
  <2>1. UNCHANGED <<orderVars, invoice, billed, made, orphaned>>
    BY <1>1, <1>3, Begun
  <2>2. \/ UNCHANGED declared
        \/ /\ link[o] # NoInvoice
           /\ declared' = [declared EXCEPT ![link[o]] = billed[link[o]]]
    <3>1. CASE BeginIssue(r, o)
      BY <3>1 DEF BeginIssue
    <3>2. CASE ~BeginIssue(r, o)
      BY <1>3, <3>2 DEF Begin, BeginRegister, BeginMark, BeginStatus,
                        BeginSync, invoiceVars
    <3> QED BY <3>1, <3>2
  <2>3. link[o] # NoInvoice => link[o] \notin made[p]
    BY <1>2 DEF LinksInv
  <2>4. \A i \in made[p] : declared'[i] = declared[i]
    BY <1>1, <2>2, <2>3 DEF TypeOK
  <2> QED BY <2>1, <2>4 DEF Untouched, orderVars
<1>4. CASE job[r].order = o /\ Deliver(r)
  <2>1. UNCHANGED <<link, invoiceVars, orphaned>>
    BY <1>1, <1>4, Delivering
  <2>2. UNCHANGED delivered
        \/ delivered' = [delivered EXCEPT ![o] = Plus(delivered[o], job[r].lines)]
    BY <1>4 DEF Deliver, CheckDelivery, FindRemaining, RecordDelivery,
                CheckComplete, CloseOrder, orderVars
  <2>3. delivered'[p] = delivered[p]
    BY <1>1, <2>2 DEF TypeOK
  <2> QED BY <2>1, <2>3 DEF Untouched, invoiceVars
<1>5. CASE job[r].order = o /\ Bill(r)
  <2>1. /\ UNCHANGED <<delivered, orphaned>>
        /\ Names(r)
    BY <1>5 DEF Bill, AddUp, CreateDraft, LinkInvoice, ReadDraft, GrowDraft,
                Issue, orderVars, LinksInv
  <2>2. CASE UNCHANGED <<orderVars, invoiceVars>>
    BY <2>1, <2>2 DEF Untouched, orderVars, invoiceVars
  <2>3. ASSUME NEW i \in Invoices, CreateDraft(r, i) PROVE Untouched(p)
    <3>1. /\ UNCHANGED <<link, declared>> /\ invoice[i] = "none"
          /\ invoice' = [invoice EXCEPT ![i] = "BORRADOR"]
          /\ billed' = [billed EXCEPT ![i] = DraftLines(job[r].lines)]
          /\ made' = [made EXCEPT ![o] = made[o] \cup {i}]
      BY <1>5, <2>3 DEF CreateDraft, orderVars
    <3>2. i \notin made[p]
      BY <3>1 DEF LinksInv
    <3> QED BY <1>1, <2>1, <3>1, <3>2 DEF Untouched, TypeOK
  <2>4. CASE LinkInvoice(r)
    BY <1>1, <1>5, <2>1, <2>4 DEF LinkInvoice, Untouched, invoiceVars, TypeOK
  <2>5. CASE GrowDraft(r)
    <3>1. job[r].invoice \notin made[p] /\ UNCHANGED <<link, made, invoice, declared>>
      BY <1>2, <1>5, <2>1, <2>5 DEF GrowDraft, Names, orderVars
    <3>2. \A k \in Invoices \ {job[r].invoice} : billed'[k] = billed[k]
      BY <1>1, <2>5 DEF GrowDraft, TypeOK
    <3> QED BY <1>1, <2>1, <3>1, <3>2 DEF Untouched
  <2>6. CASE Issue(r)
    <3>1. job[r].invoice \notin made[p] /\ UNCHANGED <<link, made, billed>>
      BY <1>2, <1>5, <2>1, <2>6 DEF Issue, Names, orderVars
    <3>2. \A k \in Invoices \ {job[r].invoice} :
            invoice'[k] = invoice[k] /\ declared'[k] = declared[k]
      BY <1>1, <2>6 DEF Issue, TypeOK
    <3> QED BY <1>1, <2>1, <3>1, <3>2 DEF Untouched
  <2> QED BY <1>5, <2>2, <2>3, <2>4, <2>5, <2>6 DEF Bill, AddUp, ReadDraft
<1>6. CASE job[r].order = o /\ Crash(r)
  BY <1>1, <1>6 DEF Crash, Untouched, orderVars, invoiceVars, TypeOK
<1> QED BY <1>3, <1>4, <1>5, <1>6 DEF On

\* A step keeps what is known of other orders, and of the requests on them.
LEMMA PaperKept ==
  ASSUME LinksInv, LinksInv', Solo, PaperInv, NEW r \in Requests,
         NEW o \in Orders, On(r, o), crossed \subseteq crossed',
         Busy(r)' => job'[r].order = o,
         Quiet(o)' => (Busy(r)' => PaperAt(r, o)') /\ InvoicesAt(o)'
  PROVE  PaperInv'
<1>1. TypeOK /\ Step(r)
  BY DEF LinksInv, On, Step
<1>2. \A q \in Requests \ {r} : pc'[q] = pc[q] /\ job'[q] = job[q]
  BY <1>1, OthersKept
<1>3. \A p \in Orders \ {o} : Untouched(p)
  BY OthersUntouched
<1>4. ASSUME NEW q \in Requests \ {r}, Busy(q), Quiet(o)'
      PROVE  job[q].order # o
  <2>1. CASE Begin(r, o)
    <3>1. crossed' = IF \E s \in Requests : pc[s] # "idle" /\ job[s].order = o
                     THEN crossed \cup {o} ELSE crossed
      BY <1>1, <2>1, Begun
    <3> QED BY <1>4, <3>1 DEF Busy, Quiet
  <2>2. CASE job[r].order = o /\ (Deliver(r) \/ Bill(r) \/ Crash(r))
    <3>1. Busy(r)
      <4>1. CASE Deliver(r)
        BY <1>1, <4>1, Delivering DEF Busy
      <4>2. CASE Bill(r) \/ Crash(r)
        BY <4>2 DEF Bill, AddUp, CreateDraft, LinkInvoice, ReadDraft,
                    GrowDraft, Issue, Crash, Busy
      <4> QED BY <2>2, <4>1, <4>2
    <3>2. o \notin crossed
      BY <1>4 DEF Quiet
    <3> QED BY <1>4, <2>2, <3>1, <3>2 DEF Solo
  <2> QED BY <2>1, <2>2 DEF On
<1>5. ASSUME NEW p \in Orders, Quiet(p)', NEW q \in Requests, job'[q].order = p
      PROVE  PaperAt(q, p)'
  <2>1. CASE ~Busy(q)'
    BY <2>1 DEF PaperAt, Busy
  <2>2. CASE q = r /\ Busy(r)'
    BY <1>5, <2>2
  <2>3. CASE q # r /\ Busy(q)'
    <3>1. Busy(q) /\ job'[q] = job[q] /\ pc'[q] = pc[q] /\ job[q].order = p
      BY <1>2, <1>5, <2>3 DEF Busy
    <3>2. p # o
      BY <1>4, <1>5, <2>3, <3>1
    <3>3. PaperAt(q, p) /\ Untouched(p)
      BY <1>3, <1>5, <3>1, <3>2 DEF PaperInv, Quiet
    <3>4. pc[q] \in {"grow", "issue"} => job[q].invoice \in made[p]
      BY <3>1 DEF LinksInv, Names
    <3>5. /\ link'[p] = link[p] /\ delivered'[p] = delivered[p]
          /\ pc[q] \in {"grow", "issue"} =>
               /\ invoice'[job[q].invoice] = invoice[job[q].invoice]
               /\ billed'[job[q].invoice] = billed[job[q].invoice]
               /\ declared'[job[q].invoice] = declared[job[q].invoice]
      BY <3>3, <3>4 DEF Untouched
    <3> QED BY <3>1, <3>3, <3>5 DEF PaperAt
  <2> QED BY <2>1, <2>2, <2>3
<1>6. ASSUME NEW p \in Orders, Quiet(p)'
      PROVE  InvoicesAt(p)'
  <2>1. CASE p = o
    BY <1>6, <2>1
  <2>2. CASE p # o
    <3>1. InvoicesAt(p) /\ Untouched(p)
      BY <1>3, <1>6, <2>2 DEF PaperInv, Quiet
    <3>2. Awaited(p) => Awaited(p)'
      <4>1. SUFFICES ASSUME NEW q \in Requests, pc[q] = "link",
                            job[q].order = p, made[p] = {job[q].invoice}
                     PROVE  Awaited(p)'
        BY DEF Awaited
      <4>2. q # r
        BY <1>1, <2>2, <4>1, Begun DEF On
      <4> QED BY <1>2, <3>1, <4>1, <4>2 DEF Awaited, Untouched
    <3> QED BY <3>1, <3>2 DEF InvoicesAt, Untouched
  <2> QED BY <2>1, <2>2
<1> QED BY <1>5, <1>6 DEF PaperInv

\* A request that starts on a quiet order.
LEMMA PaperBegin ==
  ASSUME LinksInv, LinksInv', Solo, PaperInv, NEW r \in Requests,
         NEW o \in Orders, Begin(r, o)
  PROVE  PaperInv'
<1>1. TypeOK
  BY DEF LinksInv
<1>2. /\ pc[r] = "idle" /\ job'[r].order = o /\ crossed \subseteq crossed'
      /\ pc'[r] \in {"register", "mark", "check", "close", "sync", "issue"}
      /\ pc'[r] \in {"sync", "issue"} => job'[r].invoice = link[o]
      /\ UNCHANGED <<orderVars, invoice, billed, made, orphaned>>
  BY <1>1, Begun
<1>3. \/ UNCHANGED declared /\ pc'[r] # "issue"
      \/ /\ link[o] # NoInvoice /\ invoice[link[o]] = "BORRADOR"
         /\ declared' = [declared EXCEPT ![link[o]] = billed[link[o]]]
  <2>1. CASE BeginIssue(r, o)
    BY <2>1 DEF BeginIssue
  <2>2. CASE ~BeginIssue(r, o)
    BY <1>1, <2>2 DEF Begin, BeginRegister, BeginMark, BeginStatus, BeginSync,
                      Start, invoiceVars, TypeOK
  <2> QED BY <2>1, <2>2
<1>4. PaperAt(r, o)'
  BY <1>1, <1>2, <1>3 DEF PaperAt, orderVars, TypeOK
<1>5. ASSUME Quiet(o)' PROVE InvoicesAt(o)'
  <2>1. InvoicesAt(o)
    BY <1>2, <1>5 DEF PaperInv, Quiet
  <2>2. Awaited(o) => Awaited(o)'
    <3>1. \A q \in Requests \ {r} : pc'[q] = pc[q] /\ job'[q] = job[q]
      BY <1>1, OthersKept DEF Step
    <3> QED BY <1>2, <3>1 DEF Awaited
  <2>3. \A i \in made[o] : invoice[i] = "EMITIDA" => declared'[i] = declared[i]
    BY <1>1, <1>3 DEF TypeOK
  <2> QED BY <1>2, <2>1, <2>2, <2>3 DEF InvoicesAt, orderVars
<1> QED BY <1>2, <1>4, <1>5, PaperKept DEF On

\* The line that was read gets the quantity; without one, it is the first.
LEMMA OneLine ==
  ASSUME NEW have \in Seq(Nat), Len(have) <= 1, NEW n \in Nat
  PROVE  /\ Len(Grown(have, n, have # <<>>)) <= 1
         /\ Grown(have, n, have # <<>>) = <<n>>
<1>1. CASE have = <<>>
  BY <1>1 DEF Grown
<1>2. CASE have # <<>>
  <2>1. Len(have) = 1 /\ DOMAIN have = {1}
    <3>1. Len(have) \in Nat /\ Len(have) # 0 /\ DOMAIN have = 1..Len(have)
      BY <1>2, EmptySeq
    <3>2. Len(have) = 1
      BY <3>1
    <3> QED BY <3>1, <3>2
  <2>2. [have EXCEPT ![1] = n] = [k \in {1} |-> n]
    BY <2>1
  <2>3. [k \in {1} |-> n] = <<n>>
    OBVIOUS
  <2> QED BY <1>2, <2>2, <2>3 DEF Grown
<1> QED BY <1>1, <1>2

\* Alone on its order, a request that links is the one awaited.
LEMMA AloneAt ==
  ASSUME Solo, NEW r \in Requests, NEW o \in Orders, job[r].order = o,
         Quiet(o), Busy(r), NEW q \in Requests, Busy(q), job[q].order = o
  PROVE  q = r
BY DEF Solo, Quiet

\* What a request of a quiet order holds when it bills, and what the order has.
LEMMA PaperBill ==
  ASSUME LinksInv, LinksInv', Solo, PaperInv, NEW r \in Requests,
         NEW o \in Orders, job[r].order = o, Deliver(r) \/ Bill(r) \/ Crash(r)
  PROVE  PaperInv'
<1>1. TypeOK /\ job[r] \in Job /\ job[r].lines \in Quantities /\ Names(r)
  BY DEF LinksInv, TypeOK, Job
<1>2. \A q \in Requests \ {r} : pc'[q] = pc[q] /\ job'[q] = job[q]
  BY <1>1, OthersKept DEF Step
<1>3. UNCHANGED crossed /\ Busy(r)
  <2>1. CASE Deliver(r)
    BY <1>1, <2>1, Delivering DEF Busy
  <2>2. CASE Bill(r) \/ Crash(r)
    BY <2>2 DEF Bill, AddUp, CreateDraft, LinkInvoice, ReadDraft, GrowDraft,
                Issue, Crash, Busy
  <2> QED BY <2>1, <2>2
<1>4. Quiet(o) => PaperAt(r, o) /\ InvoicesAt(o)
  BY DEF PaperInv
<1>5. pc[r] # "link" /\ UNCHANGED <<link, made, billed, invoice, declared, orphaned>>
        => (InvoicesAt(o) => InvoicesAt(o)')
  BY <1>2 DEF InvoicesAt, Awaited
<1>6. ASSUME UNCHANGED <<link, made, billed, invoice, declared, orphaned>>,
             pc[r] # "link", Quiet(o) => (Busy(r)' => PaperAt(r, o)'),
             Busy(r)' => job'[r].order = o
      PROVE  PaperInv'
  BY <1>3, <1>4, <1>5, <1>6, PaperKept DEF On, Quiet
<1>7. Finish(r) => ~Busy(r)'
  BY <1>1 DEF Finish, Goto, Busy, TypeOK
<1>8. CASE Deliver(r)
  <2>1. /\ pc[r] # "link" /\ pc'[r] \in {"record", "close", "idle"}
        /\ pc'[r] # "idle" => job'[r].order = o
        /\ UNCHANGED <<link, invoiceVars, orphaned>>
    BY <1>1, <1>8, Delivering
  <2>2. PaperAt(r, o)'
    BY <2>1 DEF PaperAt
  <2> QED BY <1>6, <2>1, <2>2 DEF invoiceVars, Busy
<1>9. CASE AddUp(r)
  <2>1. pc[r] = "sync" /\ UNCHANGED <<orderVars, invoiceVars, orphaned>>
    BY <1>9 DEF AddUp
  <2>2. CASE Finish(r)
    BY <1>6, <1>7, <2>1, <2>2 DEF orderVars, invoiceVars
  <2>3. CASE ~Finish(r)
    <3>1. /\ job' = [job EXCEPT ![r].lines = delivered[o]]
          /\ pc'[r] = IF job[r].invoice = NoInvoice THEN "bill" ELSE "draft"
      BY <1>1, <1>9, <2>3 DEF AddUp, Billable, Goto, TypeOK
    <3>2. job'[r].order = o /\ job'[r].lines = delivered[o]
      BY <1>1, <3>1 DEF TypeOK, Job
    <3>3. PaperAt(r, o) => PaperAt(r, o)'
      BY <2>1, <3>1, <3>2 DEF PaperAt, orderVars
    <3> QED BY <1>4, <1>6, <2>1, <3>2, <3>3 DEF orderVars, invoiceVars
  <2> QED BY <2>2, <2>3
<1>10. ASSUME NEW i \in Invoices, CreateDraft(r, i) PROVE PaperInv'
  <2>1. /\ pc[r] = "bill" /\ pc'[r] = "link" /\ invoice[i] = "none"
        /\ UNCHANGED <<link, declared, orphaned>>
        /\ made'[o] = made[o] \cup {i}
        /\ job'[r].order = o /\ job'[r].invoice = i
    BY <1>1, <1>10 DEF CreateDraft, orderVars, Goto, TypeOK, Job
  <2>2. /\ billed' = [billed EXCEPT ![i] = DraftLines(job[r].lines)]
        /\ invoice' = [invoice EXCEPT ![i] = "BORRADOR"]
    BY <1>10 DEF CreateDraft
  <2>3. i \notin made[o] /\ made[o] \subseteq Invoices
    BY <1>1, <2>1 DEF LinksInv, TypeOK
  <2>4. \A x \in Items : Len(DraftLines(job[r].lines)[x]) <= 1
    <3>1. \A x \in Items : DraftLines(job[r].lines)[x] \in {<<job[r].lines[x]>>, <<>>}
      BY DEF DraftLines
    <3>2. \A n \in Nat : Len(<<n>>) <= 1 /\ Len(<<>>) <= 1
      OBVIOUS
    <3>3. \A x \in Items : job[r].lines[x] \in Nat
      BY <1>1 DEF Quantities
    <3> QED BY <3>1, <3>2, <3>3
  <2>5. ASSUME Quiet(o) PROVE InvoicesAt(o)'
    <3>1. PaperAt(r, o) /\ InvoicesAt(o)
      BY <1>4, <2>5
    <3>2. ~Awaited(o)
      BY <1>3, <2>1, <2>5, AloneAt DEF Awaited, Busy
    <3>3. o \notin orphaned => made[o] = {}
      BY <2>1, <2>3, <3>1, <3>2 DEF PaperAt, InvoicesAt
    <3>4. o \notin orphaned' => Awaited(o)'
      BY <2>1, <3>3 DEF Awaited
    <3>5. /\ \A k \in made[o] : billed'[k] = billed[k] /\ invoice'[k] = invoice[k]
          /\ billed'[i] = DraftLines(job[r].lines) /\ invoice'[i] = "BORRADOR"
      BY <1>1, <2>2, <2>3 DEF TypeOK
    <3> QED BY <2>1, <2>4, <3>1, <3>4, <3>5 DEF InvoicesAt
  <2>6. PaperAt(r, o)'
    BY <2>1 DEF PaperAt
  <2> QED BY <1>3, <2>1, <2>5, <2>6, PaperKept, <1>10 DEF On, Bill, Quiet
<1>11. CASE LinkInvoice(r)
  <2>1. /\ pc[r] = "link" /\ Finish(r) /\ UNCHANGED <<invoiceVars, orphaned>>
        /\ link'[o] = job[r].invoice
    BY <1>1, <1>11 DEF LinkInvoice, TypeOK
  <2>2. job[r].invoice \in made[o]
    BY <1>1, <2>1 DEF Names
  <2>3. ASSUME Quiet(o) PROVE InvoicesAt(o)'
    <3>1. InvoicesAt(o)
      BY <1>4, <2>3
    <3>2. Awaited(o) => made[o] = {job[r].invoice}
      BY <1>3, <2>1, <2>3, AloneAt DEF Awaited, Busy
    <3>3. o \notin orphaned => made[o] \subseteq {link'[o]}
      BY <2>1, <2>2, <3>1, <3>2 DEF InvoicesAt
    <3> QED BY <2>1, <3>1, <3>3 DEF InvoicesAt, invoiceVars
  <2> QED BY <1>3, <1>7, <1>11, <2>1, <2>3, PaperKept DEF On, Bill, Quiet
<1>12. CASE ReadDraft(r)
  <2>1. pc[r] = "draft" /\ UNCHANGED <<orderVars, invoiceVars, orphaned>>
    BY <1>12 DEF ReadDraft
  <2>2. CASE Finish(r)
    BY <1>6, <1>7, <2>1, <2>2 DEF orderVars, invoiceVars
  <2>3. CASE ~Finish(r)
    <3> DEFINE known == {x \in Items : billed[job[r].invoice][x] # <<>>}
    <3>1. /\ job' = [job EXCEPT ![r].known = known] /\ pc'[r] = "grow"
          /\ invoice[job[r].invoice] = "BORRADOR"
      BY <1>1, <1>12, <2>3 DEF ReadDraft, MayGrow, Goto, TypeOK
    <3> HIDE DEF known
    <3>2. /\ job'[r].order = o /\ job'[r].lines = job[r].lines
          /\ job'[r].invoice = job[r].invoice /\ job'[r].known = known
      BY <1>1, <3>1 DEF TypeOK, Job
    <3>3. PaperAt(r, o) => PaperAt(r, o)'
      BY <2>1, <3>1, <3>2 DEF PaperAt, known, orderVars, invoiceVars
    <3> QED BY <1>4, <1>6, <2>1, <3>2, <3>3 DEF orderVars, invoiceVars
  <2> QED BY <2>2, <2>3
<1>13. CASE GrowDraft(r)
  <2>1. PICK i \in Invoices : i = job[r].invoice /\ i \in made[o]
    BY <1>1, <1>13 DEF GrowDraft, Names, TypeOK
  <2>2. /\ pc[r] = "grow" /\ Finish(r)
        /\ UNCHANGED <<orderVars, invoice, declared, made, orphaned>>
        /\ billed' = [billed EXCEPT ![i] =
             [x \in Items |->
                IF job[r].lines[x] = 0 THEN billed[i][x]
                ELSE Grown(billed[i][x], job[r].lines[x], x \in job[r].known)]]
    BY <1>13, <2>1 DEF GrowDraft
  <2>3. ASSUME Quiet(o) PROVE InvoicesAt(o)'
    <3>1. InvoicesAt(o) /\ PaperAt(r, o)
      BY <1>4, <2>3
    <3>2. \A x \in Items : x \in job[r].known <=> billed[i][x] # <<>>
      BY <2>1, <2>2, <3>1 DEF PaperAt
    <3>3. ASSUME NEW x \in Items PROVE Len(billed'[i][x]) <= 1
      <4>1. billed'[i][x] = IF job[r].lines[x] = 0 THEN billed[i][x]
              ELSE Grown(billed[i][x], job[r].lines[x], x \in job[r].known)
        BY <1>1, <2>1, <2>2 DEF TypeOK
      <4>2. /\ billed[i][x] \in Seq(Nat) /\ job[r].lines[x] \in Nat
            /\ Len(billed[i][x]) <= 1
        BY <1>1, <2>1, <3>1 DEF TypeOK, Quantities, InvoicesAt
      <4>3. Len(Grown(billed[i][x], job[r].lines[x], billed[i][x] # <<>>)) <= 1
        BY <4>2, OneLine
      <4>4. CASE x \in job[r].known
        BY <3>2, <4>1, <4>2, <4>3, <4>4 DEF Grown
      <4>5. CASE x \notin job[r].known
        BY <3>2, <4>1, <4>2, <4>3, <4>5 DEF Grown
      <4> QED BY <4>4, <4>5
    <3>4. \A k \in made[o] : k # i => billed'[k] = billed[k]
      BY <1>1, <2>2 DEF TypeOK
    <3>5. invoice[i] = "BORRADOR"
      BY <2>1, <2>2, <3>1 DEF PaperAt
    <3>6. Awaited(o) => Awaited(o)'
      BY <1>2, <2>2 DEF Awaited
    <3>7. \A k \in made[o], x \in Items : Len(billed'[k][x]) <= 1
      BY <3>1, <3>3, <3>4 DEF InvoicesAt
    <3>8. \A k \in made[o] : invoice[k] = "EMITIDA" => billed'[k] = declared[k]
      BY <3>1, <3>4, <3>5 DEF InvoicesAt
    <3> QED BY <2>2, <3>1, <3>6, <3>7, <3>8 DEF InvoicesAt, orderVars
  <2> QED BY <1>3, <1>7, <1>13, <2>2, <2>3, PaperKept DEF On, Bill, Quiet
<1>14. CASE Issue(r)
  <2>1. PICK i \in Invoices : i = job[r].invoice /\ i \in made[o]
    BY <1>1, <1>14 DEF Issue, Names, TypeOK
  <2>2. /\ pc[r] = "issue" /\ Finish(r)
        /\ UNCHANGED <<orderVars, billed, made, orphaned>>
        /\ \/ /\ invoice' = [invoice EXCEPT ![i] = "EMITIDA"]
              /\ UNCHANGED declared
           \/ /\ declared' = [declared EXCEPT ![i] = NoLines]
              /\ UNCHANGED invoice
    BY <1>14, <2>1 DEF Issue
  <2>3. ASSUME Quiet(o) PROVE InvoicesAt(o)'
    <3>1. InvoicesAt(o) /\ PaperAt(r, o)
      BY <1>4, <2>3
    <3>2. invoice[i] = "BORRADOR" /\ declared[i] = billed[i]
      BY <2>1, <2>2, <3>1 DEF PaperAt
    <3>3. ASSUME NEW k \in made[o], invoice'[k] = "EMITIDA"
          PROVE  billed[k] = declared'[k]
      <4>1. k \in Invoices
        BY <1>1 DEF TypeOK
      <4>2. CASE k = i
        BY <1>1, <2>2, <3>2, <3>3, <4>2 DEF TypeOK
      <4>3. CASE k # i
        <5>1. invoice[k] = "EMITIDA" /\ declared'[k] = declared[k]
          BY <1>1, <2>2, <3>3, <4>1, <4>3 DEF TypeOK
        <5> QED BY <3>1, <5>1 DEF InvoicesAt
      <4> QED BY <4>2, <4>3
    <3>4. Awaited(o) => Awaited(o)'
      BY <1>2, <2>2 DEF Awaited
    <3> QED BY <2>2, <3>1, <3>3, <3>4 DEF InvoicesAt, orderVars
  <2> QED BY <1>3, <1>7, <1>14, <2>2, <2>3, PaperKept DEF On, Bill, Quiet
<1>15. CASE Crash(r)
  <2>1. /\ Finish(r) /\ UNCHANGED <<orderVars, invoiceVars>>
        /\ orphaned' = IF pc[r] = "link" THEN orphaned \cup {o} ELSE orphaned
    BY <1>15 DEF Crash
  <2>2. ASSUME Quiet(o) PROVE InvoicesAt(o)'
    <3>1. InvoicesAt(o)
      BY <1>4, <2>2
    <3>2. pc[r] # "link" => (Awaited(o) => Awaited(o)')
      BY <1>2, <2>1 DEF Awaited, invoiceVars
    <3> QED BY <2>1, <3>1, <3>2 DEF InvoicesAt, orderVars, invoiceVars
  <2> QED BY <1>3, <1>7, <1>15, <2>2, PaperKept, <2>1 DEF On, Quiet
<1> QED BY <1>8, <1>9, <1>10, <1>11, <1>12, <1>13, <1>14, <1>15 DEF Bill

LEMMA PaperStutter == PaperInv /\ UNCHANGED vars => PaperInv'
BY DEF PaperInv, PaperAt, InvoicesAt, Awaited, Quiet, vars, orderVars,
       invoiceVars

LEMMA PaperAlways == Spec => []PaperInv
<1>1. QuietInv /\ QuietInv' /\ PaperInv /\ [Next]_vars => PaperInv'
  <2> SUFFICES ASSUME QuietInv, QuietInv', PaperInv, [Next]_vars
               PROVE  PaperInv'
    OBVIOUS
  <2>1. LinksInv /\ LinksInv' /\ Solo /\ \A r \in Requests : job[r].order \in Orders
    BY DEF QuietInv, LinksInv, TypeOK, Job
  <2> QED BY <2>1, PaperBegin, PaperBill, PaperStutter DEF Next
<1> QED BY <1>1, PaperInit, QuietAlways, PTL DEF Spec

\* One request at a time, no crash before the link: an order has one invoice
\* at most, and in it one line for each item, however often it is synchronised.
THEOREM BilledOnlyOnce == Spec => []BilledOnce
<1>1. LinksInv /\ PaperInv => BilledOnce
  <2> SUFFICES ASSUME LinksInv, PaperInv, NEW o \in Orders, Quiet(o)
               PROVE  /\ o \notin orphaned => Cardinality(made[o]) <= 1
                      /\ \A i \in made[o], x \in Items : Len(billed[i][x]) <= 1
    BY DEF BilledOnce
  <2>1. InvoicesAt(o)
    BY DEF PaperInv
  <2>2. ASSUME o \notin orphaned PROVE Cardinality(made[o]) <= 1
    <3>1. PICK i : made[o] \subseteq {i}
      BY <2>1, <2>2 DEF InvoicesAt, Awaited
    <3>2. Cardinality({}) = 0 /\ Cardinality({i}) = 1
      <4>1. Cardinality({i}) = 1
        BY FS_Singleton, ZenonT(30)
      <4> QED BY <4>1, FS_EmptySet
    <3>3. CASE i \in made[o]
      <4>1. made[o] = {i}
        BY <3>1, <3>3
      <4> QED BY <3>2, <4>1
    <3>4. CASE i \notin made[o]
      <4>1. made[o] = {}
        BY <3>1, <3>4
      <4> QED BY <3>2, <4>1
    <3> QED BY <3>3, <3>4
  <2> QED BY <2>1, <2>2 DEF InvoicesAt
<1> QED BY <1>1, LinksAlways, PaperAlways, PTL

\* The invoice of such an order is issued with the lines that were declared:
\* nothing grows it between the two steps of the emission, nor later.
THEOREM IssuedAsItWasDeclared == Spec => []IssuedAsDeclared
<1>1. PaperInv => IssuedAsDeclared
  BY DEF PaperInv, InvoicesAt, IssuedAsDeclared
<1> QED BY <1>1, PaperAlways, PTL

-----------------------------------------------------------------------------
(* The units on no line and on one line.                                   *)

LEMMA UnitsAddUp == \A lines : Units(lines) = SumFunctionOnSet(lines, DOMAIN lines)
BY DEF Units, FoldSeq, FoldFunction, SumFunctionOnSet

LEMMA UnitsOfNone == Units(<<>>) = 0
<1>1. DOMAIN <<>> = {}
  OBVIOUS
<1> QED BY <1>1, UnitsAddUp, SumEmpty

LEMMA UnitsOfOne ==
  ASSUME NEW n \in Nat
  PROVE  Units(<<n>>) = n
<1>1. DOMAIN <<n>> = {1} /\ <<n>>[1] = n /\ {1} \ {1} = {}
  OBVIOUS
<1>2. IsFiniteSet({1})
  BY FS_Singleton, ZenonT(30)
<1>3. SumFunctionOnSet(<<n>>, {1}) = <<n>>[1] + SumFunctionOnSet(<<n>>, {1} \ {1})
  BY <1>1, <1>2, SumWithout
<1>4. SumFunctionOnSet(<<n>>, {1} \ {1}) = 0
  BY <1>1, SumEmpty
<1> QED BY <1>1, <1>3, <1>4, UnitsAddUp

LEMMA UnitsOfAtMostOne ==
  ASSUME NEW lines \in Seq(Nat), Len(lines) <= 1
  PROVE  /\ Units(lines) \in Nat
         /\ Units(lines) # 0 => 1 \in DOMAIN lines /\ Units(lines) = lines[1]
<1>1. CASE lines = <<>>
  BY <1>1, UnitsOfNone
<1>2. CASE lines # <<>>
  <2>1. Len(lines) \in Nat \ {0} /\ DOMAIN lines = 1..Len(lines)
    BY <1>2, EmptySeq
  <2>2. Len(lines) = 1
    BY <2>1
  <2>3. 1 \in DOMAIN lines /\ lines[1] \in Nat
    <3>1. 1 \in 1..Len(lines)
      BY <2>2
    <3>2. lines \in [1..Len(lines) -> Nat]
      BY LenProperties
    <3> QED BY <2>1, <3>1, <3>2
  <2>4. lines = <<lines[1]>>
    BY <2>2
  <2>5. Units(<<lines[1]>>) = lines[1]
    BY <2>3, UnitsOfOne
  <2>6. Units(lines) = lines[1]
    BY <2>4, <2>5
  <2> QED BY <2>3, <2>6
<1> QED BY <1>1, <1>2

\* What DraftGrows says of one step.
GrowingStep ==
  \A o \in Orders : \A i \in made[o], x \in Items :
    Quiet(o)' => Units(billed[i][x]) <= Units(billed'[i][x])

LEMMA GrowStep == LinesInv /\ PaperInv /\ [Next]_vars => GrowingStep
<1> SUFFICES ASSUME LinesInv, PaperInv, [Next]_vars, NEW o \in Orders,
                    NEW i \in made[o], NEW x \in Items, Quiet(o)'
             PROVE  Units(billed[i][x]) <= Units(billed'[i][x])
  BY DEF GrowingStep
<1>1. LinksInv /\ TypeOK /\ i \in Invoices
  BY DEF LinesInv, LinksInv, TypeOK
<1>2. Quiet(o)
  <2>1. crossed \subseteq crossed'
    <3>1. ASSUME NEW r \in Requests, NEW p \in Orders, Begin(r, p)
          PROVE  crossed \subseteq crossed'
      BY <1>1, <3>1, Begun
    <3>2. ASSUME NEW r \in Requests, Deliver(r) \/ Bill(r) \/ Crash(r)
          PROVE  crossed \subseteq crossed'
      BY <3>2 DEF Deliver, CheckDelivery, FindRemaining, RecordDelivery,
                  CheckComplete, CloseOrder, Bill, AddUp, CreateDraft,
                  LinkInvoice, ReadDraft, GrowDraft, Issue, Crash
    <3> QED BY <3>1, <3>2 DEF Next, vars
  <2> QED BY <2>1 DEF Quiet
<1>3. /\ billed[i][x] \in Seq(Nat) /\ Len(billed[i][x]) <= 1
      /\ \A n \in DOMAIN billed[i][x] : billed[i][x][n] <= delivered[o][x]
  BY <1>1, <1>2 DEF TypeOK, PaperInv, InvoicesAt, LinesInv, LinesWereDelivered
<1> DEFINE have == billed[i][x]
<1>4. Units(have) \in Nat /\ (Units(have) = 0 \/ Units(have) <= delivered[o][x])
  BY <1>3, UnitsOfAtMostOne
<1>5. CASE billed'[i] = billed[i]
  BY <1>4, <1>5
<1>6. ASSUME NEW r \in Requests, NEW k \in Invoices, CreateDraft(r, k)
      PROVE  billed'[i] = billed[i]
  <2>1. k # i
    BY <1>1, <1>6 DEF CreateDraft, LinksInv
  <2> QED BY <1>1, <1>6, <2>1 DEF CreateDraft, TypeOK
<1>7. ASSUME NEW r \in Requests, GrowDraft(r), billed'[i] # billed[i]
      PROVE  Units(have) <= Units(billed'[i][x])
  <2>1. pc[r] = "grow" /\ i = job[r].invoice
    BY <1>1, <1>7 DEF GrowDraft, TypeOK
  <2>2. job[r].order = o
    BY <1>1, <2>1 DEF LinksInv, Names, TypeOK, Job
  <2>3. /\ job[r].lines = delivered[o]
        /\ x \in job[r].known <=> have # <<>>
    BY <1>2, <2>1, <2>2 DEF PaperInv, PaperAt
  <2>4. billed'[i][x] = IF delivered[o][x] = 0 THEN have
                        ELSE Grown(have, delivered[o][x], x \in job[r].known)
    BY <1>1, <1>7, <2>1, <2>3 DEF GrowDraft, TypeOK
  <2>5. delivered[o][x] \in Nat
    BY <1>1 DEF TypeOK, Quantities
  <2>6. Grown(have, delivered[o][x], x \in job[r].known) = <<delivered[o][x]>>
    <3>1. Grown(have, delivered[o][x], have # <<>>) = <<delivered[o][x]>>
      BY <1>3, <2>5, OneLine
    <3> QED BY <2>3, <3>1 DEF Grown
  <2>7. Units(<<delivered[o][x]>>) = delivered[o][x]
    BY <2>5, UnitsOfOne
  <2> HIDE DEF have
  <2>8. CASE delivered[o][x] = 0
    BY <1>4, <2>4, <2>8
  <2>9. CASE delivered[o][x] # 0
    BY <1>4, <2>4, <2>5, <2>6, <2>7, <2>9
  <2> QED BY <2>8, <2>9
<1>8. \/ UNCHANGED billed
      \/ \E r \in Requests : GrowDraft(r) \/ \E k \in Invoices : CreateDraft(r, k)
  <2>1. ASSUME NEW r \in Requests, NEW p \in Orders, Begin(r, p)
        PROVE  UNCHANGED billed
    BY <1>1, <2>1, Begun
  <2>2. ASSUME NEW r \in Requests, Deliver(r)
        PROVE  UNCHANGED billed
    BY <1>1, <2>2, Delivering DEF invoiceVars
  <2>3. ASSUME NEW r \in Requests, Bill(r)
        PROVE  UNCHANGED billed \/ GrowDraft(r) \/ \E k \in Invoices : CreateDraft(r, k)
    BY <2>3 DEF Bill, AddUp, LinkInvoice, ReadDraft, Issue, invoiceVars
  <2>4. ASSUME NEW r \in Requests, Crash(r)
        PROVE  UNCHANGED billed
    BY <2>4 DEF Crash, invoiceVars
  <2> QED BY <2>1, <2>2, <2>3, <2>4 DEF Next, vars, invoiceVars
<1> QED BY <1>4, <1>5, <1>6, <1>7, <1>8

\* A draft that is synchronised keeps at least the units it billed: it gets
\* all that was delivered, and nothing that was delivered is taken back.
THEOREM DraftOnlyGrows == Spec => DraftGrows
<1>1. LinesInv /\ PaperInv /\ [Next]_vars => [GrowingStep]_vars
  BY GrowStep
<1>2. DraftGrows <=> [][GrowingStep]_vars
  BY PTL DEF DraftGrows, GrowingStep
<1>3. Spec => []LinesInv
  BY LinesInit, LinesNext, PTL DEF Spec
<1> QED BY <1>1, <1>2, <1>3, PaperAlways, PTL DEF Spec
=============================================================================
