-------------------------- MODULE Numbering_proofs --------------------------
(***************************************************************************)
(* Proofs about the two desks that number documents, Resolutions and       *)
(* Sourcing, for any number of requests, resolutions and documents: their  *)
(* types, that both implement NumberIssuer, that orders come from approved *)
(* documents, and what a request that is not stale may rely on.  The last  *)
(* part is about the ranges that FactusSync creates for resolutions.       *)
(***************************************************************************)
EXTENDS Sourcing, Resolutions, FactusSync, WellFoundedInduction, TLAPS

USE OfficeAssumption, SourcingAssumption, ResolutionsAssumption

-----------------------------------------------------------------------------
(* What the steps of a request do to its statement and to its sheet.       *)

\* Every request has a statement and a sheet.
Framed == /\ pc = [r \in Requests |-> pc[r]]
          /\ sheet = [r \in Requests |-> sheet[r]]

\* The step leaves the other requests where they are.
OthersStay(r) ==
  \A q \in Requests \ {r} : pc'[q] = pc[q] /\ sheet'[q] = sheet[q]

LEMMA SheetFields ==
  ASSUME NEW row, NEW other, NEW wanted, NEW n
  PROVE  /\ Sheet(row, other, wanted, n).row = row
         /\ Sheet(row, other, wanted, n).other = other
         /\ Sheet(row, other, wanted, n).wanted = wanted
         /\ Sheet(row, other, wanted, n).number = n
BY DEF Sheet

LEMMA RequestsFramed == RequestsInit => Framed /\ \A r \in Requests : pc[r] = "idle"
BY DEF RequestsInit, Framed

LEMMA CarryEffect ==
  ASSUME Framed, NEW r \in Requests, NEW label, NEW form, Carry(r, label, form)
  PROVE  Framed' /\ OthersStay(r) /\ pc'[r] = label /\ sheet'[r] = form
BY DEF Framed, Carry, OthersStay

LEMMA BeginEffect ==
  ASSUME Framed, NEW r \in Requests, NEW label, NEW form, Begin(r, label, form)
  PROVE  /\ Framed' /\ OthersStay(r) /\ pc'[r] = label /\ sheet'[r] = form
         /\ pc[r] = "idle"
BY DEF Framed, Begin, OthersStay

LEMMA GotoEffect ==
  ASSUME Framed, NEW r \in Requests, NEW label, Goto(r, label)
  PROVE  Framed' /\ OthersStay(r) /\ pc'[r] = label /\ sheet'[r] = sheet[r]
BY DEF Framed, Goto, OthersStay

LEMMA LeaveEffect ==
  ASSUME Framed, NEW r \in Requests, Leave(r)
  PROVE  Framed' /\ OthersStay(r) /\ pc'[r] = "idle" /\ sheet'[r] = Blank
BY DEF Framed, Leave, OthersStay

LEMMA FinishEffect ==
  ASSUME Framed, NEW r \in Requests,
         Finish(r) \/ CutShort(r) \/ \E row : FinishWriting(r, row)
  PROVE  Framed' /\ OthersStay(r) /\ pc'[r] = "idle" /\ sheet'[r] = Blank
BY LeaveEffect DEF Finish, CutShort, FinishWriting

\* What a request that ends its work by writing d tells the others.
LEMMA ReadersTold ==
  ASSUME NEW r \in Requests, NEW d, FinishWriting(r, d)
  PROVE  \A q \in Requests \ {r} : q \notin stale' =>
            q \notin stale /\ (Active(q) => d \notin Rows(sheet[q]))
BY DEF FinishWriting, Readers

-----------------------------------------------------------------------------
(* The least number.                                                       *)

LEMMA LeastIsIn ==
  ASSUME NEW S \in SUBSET Nat, S # {}
  PROVE  Min(S) \in S
<1>1. PICK x \in S : \A y \in S : ~(<<y, x>> \in {ss \in Nat \X Nat : ss[1] < ss[2]})
  <2> DEFINE R == {ss \in Nat \X Nat : ss[1] < ss[2]}
  <2>1. IsWellFoundedOn(R, Nat)
    BY NatLessThanWellFounded DEF OpToRel
  <2> HIDE DEF R
  <2>2. \E x \in S : \A y \in S : ~(<<y, x>> \in R)
    BY <2>1, WFMin
  <2> QED BY <2>2 DEF R
<1>2. ASSUME NEW y \in S PROVE x <= y
  <2>1. ~(<<y, x>>[1] < <<y, x>>[2])
    BY <1>1
  <2> QED BY <2>1
<1> QED BY <1>2 DEF Min

-----------------------------------------------------------------------------
(* Resolutions: types, with numbers that start at one, and the unique      *)
(* index of invoices.                                                      *)

RowType == [from : Nat, next : Nat \ {0}, to : Nat, isActive : BOOLEAN,
            type : ResolutionType \cup {"none"}]

NumbersUnique ==
  \A i, j \in Drafts :
     resolutionId[i] # None /\ resolutionId[i] = resolutionId[j]
       /\ invoiceNumber[i] = invoiceNumber[j] => i = j

AtResolution(r) ==
  /\ pc[r] \in {"idle", "consecutive", "emit"}
  /\ pc[r] = "consecutive" => sheet[r].row \in ResolutionIds
  /\ pc[r] = "emit" => sheet[r].row \in Drafts
  /\ sheet[r].number = 0

ResolutionInv ==
  /\ Framed
  /\ resolution \in [ResolutionIds -> RowType]
  /\ edits \in Nat
  /\ handed \in [ResolutionIds -> SUBSET Nat]
  /\ invoiceNumber \in [Drafts -> Nat]
  /\ resolutionId \in [Drafts -> ResolutionIds \cup {None}]
  /\ \A r \in Requests : AtResolution(r)
  /\ NumbersUnique

LEMMA RowTypes ==
  /\ NoResolution \in RowType
  /\ \A from, to \in Nat, next \in Nat \ {0}, active \in BOOLEAN, type \in ResolutionType :
       Resolution(from, next, to, active, type) \in RowType
BY DEF NoResolution, Resolution, RowType

LEMMA EditedType ==
  ASSUME NEW row \in RowType, NEW from \in Nat, NEW to \in Nat, NEW next \in Nat,
         NEW active \in BOOLEAN, NEW type \in ResolutionType
  PROVE  Edited(row, from, to, next, active, type) \in RowType
BY DEF Edited, Or, Resolution, RowType

LEMMA AdvancedType ==
  ASSUME NEW row \in RowType
  PROVE  /\ Advanced(row) \in RowType
         /\ Advanced(row).next = row.next + 1 /\ Advanced(row).to = row.to
BY DEF Advanced, Resolution, RowType

LEMMA InitResolutionInv == ResolutionsInit => ResolutionInv
<1> SUFFICES ASSUME ResolutionsInit PROVE ResolutionInv
  OBVIOUS
<1>1. Framed /\ \A r \in Requests : pc[r] = "idle" /\ sheet[r].number = 0
  <2>1. RequestsInit
    BY DEF ResolutionsInit
  <2>2. \A r \in Requests : sheet[r] = Blank
    BY <2>1 DEF RequestsInit
  <2> QED BY <2>1, <2>2, RequestsFramed DEF Blank, Sheet
<1>2. resolution \in [ResolutionIds -> RowType] /\ edits \in Nat
  BY RowTypes DEF ResolutionsInit
<1>3. /\ handed \in [ResolutionIds -> SUBSET Nat]
      /\ invoiceNumber \in [Drafts -> Nat]
      /\ resolutionId \in [Drafts -> ResolutionIds \cup {None}]
      /\ NumbersUnique
  BY DEF ResolutionsInit, NumbersUnique
<1> QED BY <1>1, <1>2, <1>3 DEF ResolutionInv, AtResolution

\* A step of one request, which ends or is at a statement of the desk.
LEMMA RequestsAtResolutions ==
  ASSUME \A r \in Requests : AtResolution(r), NEW r \in Requests, OthersStay(r),
         \/ pc'[r] = "idle" /\ sheet'[r] = Blank
         \/ pc'[r] = "consecutive" /\ \E s \in ResolutionIds : sheet'[r] = Sheet(s, None, None, 0)
         \/ pc'[r] = "emit" /\ \E i \in Drafts : sheet'[r] = Sheet(i, None, None, 0)
  PROVE  \A q \in Requests : AtResolution(q)'
<1>1. ASSUME NEW q \in Requests, q # r PROVE AtResolution(q)'
  BY <1>1 DEF OthersStay, AtResolution
<1>2. AtResolution(r)'
  <2>1. CASE pc'[r] = "idle" /\ sheet'[r] = Blank
    <3>1. sheet'[r].number = 0
      BY <2>1, SheetFields DEF Blank
    <3>2. pc'[r] = "idle"
      BY <2>1
    <3> QED BY <3>1, <3>2 DEF AtResolution
  <2>2. ASSUME NEW s \in ResolutionIds, pc'[r] = "consecutive",
               sheet'[r] = Sheet(s, None, None, 0)
        PROVE  AtResolution(r)'
    <3>1. sheet'[r].row = s /\ sheet'[r].number = 0
      BY <2>2, SheetFields
    <3>2. pc'[r] = "consecutive"
      BY <2>2
    <3> QED BY <3>1, <3>2 DEF AtResolution
  <2>3. ASSUME NEW i \in Drafts, pc'[r] = "emit", sheet'[r] = Sheet(i, None, None, 0)
        PROVE  AtResolution(r)'
    <3>1. sheet'[r].row = i /\ sheet'[r].number = 0
      BY <2>3, SheetFields
    <3>2. pc'[r] = "emit"
      BY <2>3
    <3> QED BY <3>1, <3>2 DEF AtResolution
  <2> QED BY <2>1, <2>2, <2>3
<1> QED BY <1>1, <1>2

\* What the transaction of emitLocal writes when it takes a number of s.
EmittedWith(i, s) ==
  /\ ~OnInvoice(s, resolution[s].next)
  /\ resolution' = [resolution EXCEPT ![s] = Advanced(resolution[s])]
  /\ invoiceNumber' = [invoiceNumber EXCEPT ![i] = resolution[s].next]
  /\ resolutionId' = [resolutionId EXCEPT ![i] = s]

LEMMA EmitEffect ==
  ASSUME \A q \in Requests : AtResolution(q), NEW r \in Requests, EmitLocal(r)
  PROVE  \/ UNCHANGED <<resolution, invoiceNumber, resolutionId>>
         \/ \E i \in Drafts, s \in Candidates : EmittedWith(i, s)
<1>1. CASE Candidates # {} /\ EmittedWith(sheet[r].row, Min(Candidates))
  <2>1. sheet[r].row \in Drafts
    BY DEF EmitLocal, AtResolution
  <2>2. Candidates \in SUBSET Nat
    BY DEF Candidates, ResolutionIds
  <2> QED BY <1>1, <2>1, <2>2, LeastIsIn
<1> QED BY <1>1 DEF EmitLocal, EmittedWith

LEMMA NextResolutionInv ==
  ASSUME ResolutionInv, [ResolutionsNext]_resolutionVars
  PROVE  ResolutionInv'
<1> USE DEF ResolutionInv
<1>1. CASE UNCHANGED resolutionVars
  BY <1>1 DEF resolutionVars, requestVars, resolutionRows, numberVars,
              NumbersUnique, AtResolution, Framed
<1>2. ASSUME NEW from \in Numbers, NEW to \in Numbers, NEW next \in {0} \cup Numbers,
             NEW type \in ResolutionType, CreateResolution(from, to, next, type)
      PROVE  ResolutionInv'
  <2>1. Or(next, from) \in Nat \ {0} /\ from \in Nat /\ to \in Nat
    BY DEF Or, Numbers
  <2>2. Resolution(from, Or(next, from), to, TRUE, type) \in RowType
    BY <2>1, RowTypes
  <2>3. resolution' \in [ResolutionIds -> RowType] /\ edits' \in Nat
    <3> DEFINE row == Resolution(from, Or(next, from), to, TRUE, type)
    <3>1. edits' = edits + 1
          /\ \E s \in ResolutionIds : resolution' = [resolution EXCEPT ![s] = row]
      BY <1>2 DEF CreateResolution
    <3>2. row \in RowType
      BY <2>2
    <3> HIDE DEF row
    <3> QED BY <3>1, <3>2
  <2>4. UNCHANGED <<pc, sheet, handed, invoiceNumber, resolutionId>>
    BY <1>2 DEF CreateResolution, requestVars, numberVars
  <2>5. Framed' /\ (\A r \in Requests : AtResolution(r))' /\ NumbersUnique'
    BY <2>4 DEF NumbersUnique, AtResolution, Framed
  <2> QED BY <2>3, <2>4, <2>5
<1>3. ASSUME NEW s \in ResolutionIds, NEW from \in {0} \cup Numbers,
             NEW to \in {0} \cup Numbers, NEW next \in {0} \cup Numbers,
             NEW active \in BOOLEAN, NEW type \in ResolutionType,
             UpdateResolution(s, from, to, next, active, type)
      PROVE  ResolutionInv'
  <2>1. from \in Nat /\ to \in Nat /\ next \in Nat
    BY DEF Numbers
  <2>2. Edited(resolution[s], from, to, next, active, type) \in RowType
    BY <2>1, EditedType
  <2>3. resolution' \in [ResolutionIds -> RowType] /\ edits' \in Nat
    BY <1>3, <2>2 DEF UpdateResolution
  <2>4. UNCHANGED <<pc, sheet, handed, invoiceNumber, resolutionId>>
    BY <1>3 DEF UpdateResolution, numberVars
  <2>5. Framed' /\ (\A r \in Requests : AtResolution(r))' /\ NumbersUnique'
    BY <2>4 DEF NumbersUnique, AtResolution, Framed
  <2> QED BY <2>3, <2>4, <2>5
<1>4. ASSUME NEW r \in Requests, NEW s \in ResolutionIds, BeginConsecutive(r, s)
      PROVE  ResolutionInv'
  <2>1. /\ Framed' /\ OthersStay(r)
        /\ pc'[r] = "consecutive" /\ sheet'[r] = Sheet(s, None, None, 0)
    BY <1>4, BeginEffect DEF BeginConsecutive
  <2>2. \A q \in Requests : AtResolution(q)'
    BY <2>1, RequestsAtResolutions
  <2> QED BY <1>4, <2>1, <2>2 DEF BeginConsecutive, resolutionRows, numberVars, NumbersUnique
<1>5. ASSUME NEW r \in Requests, NEW i \in Drafts, BeginLocal(r, i)
      PROVE  ResolutionInv'
  <2>1. /\ Framed' /\ OthersStay(r)
        /\ pc'[r] = "emit" /\ sheet'[r] = Sheet(i, None, None, 0)
    BY <1>5, BeginEffect DEF BeginLocal
  <2>2. \A q \in Requests : AtResolution(q)'
    BY <2>1, RequestsAtResolutions
  <2> QED BY <1>5, <2>1, <2>2 DEF BeginLocal, resolutionRows, numberVars, NumbersUnique
<1>6. ASSUME NEW r \in Requests, TakeConsecutive(r) PROVE ResolutionInv'
  <2> DEFINE s == sheet[r].row
  <2>1. Framed' /\ \A q \in Requests : AtResolution(q)'
    <3>1. Framed' /\ OthersStay(r) /\ pc'[r] = "idle" /\ sheet'[r] = Blank
      BY <1>6, FinishEffect DEF TakeConsecutive
    <3> QED BY <3>1, RequestsAtResolutions
  <2>2. s \in ResolutionIds
    BY <1>6 DEF TakeConsecutive, AtResolution
  <2>3. Advanced(resolution[s]) \in RowType /\ resolution[s].next \in Nat
    BY <2>2, AdvancedType DEF RowType
  <2>4. \/ UNCHANGED <<resolution, handed>>
        \/ /\ resolution' = [resolution EXCEPT ![s] = Advanced(resolution[s])]
           /\ handed' = [handed EXCEPT ![s] = handed[s] \cup {resolution[s].next}]
    BY <1>6 DEF TakeConsecutive
  <2> HIDE DEF s
  <2>5. resolution' \in [ResolutionIds -> RowType]
    BY <2>2, <2>3, <2>4
  <2>6. handed' \in [ResolutionIds -> SUBSET Nat]
    BY <2>2, <2>3, <2>4
  <2> QED BY <1>6, <2>1, <2>5, <2>6 DEF TakeConsecutive, NumbersUnique
<1>7. ASSUME NEW r \in Requests, EmitLocal(r) PROVE ResolutionInv'
  <2>1. Framed' /\ \A q \in Requests : AtResolution(q)'
    <3>1. Framed' /\ OthersStay(r) /\ pc'[r] = "idle" /\ sheet'[r] = Blank
      BY <1>7, FinishEffect DEF EmitLocal
    <3> QED BY <3>1, RequestsAtResolutions
  <2>2. edits' \in Nat /\ handed' \in [ResolutionIds -> SUBSET Nat]
    BY <1>7 DEF EmitLocal
  <2>3. CASE UNCHANGED <<resolution, invoiceNumber, resolutionId>>
    BY <2>1, <2>2, <2>3 DEF NumbersUnique
  <2>4. ASSUME NEW i \in Drafts, NEW s \in Candidates, EmittedWith(i, s)
        PROVE  ResolutionInv'
    <3>1. s \in ResolutionIds
      BY DEF Candidates
    <3>2. Advanced(resolution[s]) \in RowType /\ resolution[s].next \in Nat
      BY <3>1, AdvancedType DEF RowType
    <3>3. resolution' \in [ResolutionIds -> RowType]
      BY <2>4, <3>1, <3>2 DEF EmittedWith
    <3>4. invoiceNumber' \in [Drafts -> Nat]
      BY <2>4, <3>2 DEF EmittedWith
    <3>5. resolutionId' \in [Drafts -> ResolutionIds \cup {None}]
      BY <2>4, <3>1 DEF EmittedWith
    <3>6. \A j \in Drafts : resolutionId[j] = s => invoiceNumber[j] # resolution[s].next
      BY <2>4 DEF EmittedWith, OnInvoice
    <3>7. NumbersUnique'
      BY <2>4, <3>6 DEF NumbersUnique, EmittedWith
    <3> QED BY <2>1, <2>2, <3>3, <3>4, <3>5, <3>7
  <2> QED BY <1>7, <2>3, <2>4, EmitEffect
<1>8. ASSUME NEW r \in Requests, CutResolutions(r) PROVE ResolutionInv'
  <2>1. Framed' /\ OthersStay(r) /\ pc'[r] = "idle" /\ sheet'[r] = Blank
    BY <1>8, FinishEffect DEF CutResolutions
  <2>2. \A q \in Requests : AtResolution(q)'
    BY <2>1, RequestsAtResolutions
  <2> QED BY <1>8, <2>1, <2>2 DEF CutResolutions, resolutionRows, numberVars, NumbersUnique
<1> HIDE DEF ResolutionInv
<1> QED BY <1>1, <1>2, <1>3, <1>4, <1>5, <1>6, <1>7, <1>8 DEF ResolutionsNext

\* The rows of resolutions, the drafts and the requests keep their types.
THEOREM ResolutionTypes == ResolutionsSpec => []ResolutionsTypeOK
<1>1. ResolutionInv => ResolutionsTypeOK
  BY DEF ResolutionInv, ResolutionsTypeOK, AtResolution, RowType, ResolutionPC
<1> QED BY <1>1, InitResolutionInv, NextResolutionInv, PTL DEF ResolutionsSpec

-----------------------------------------------------------------------------
(* Resolutions implement NumberIssuer.                                     *)

\* Only the rows, the numbers handed over and those of drafts matter to it.
IssuerStutters ==
  UNCHANGED <<resolution, handed, invoiceNumber, resolutionId>>

LEMMA GeneratorStutters ==
  ASSUME IssuerStutters PROVE UNCHANGED Generator!issuerVars
BY DEF IssuerStutters, Generator!issuerVars, InvoiceNumbers

LEMMA InitGenerator == ResolutionsInit => Generator!Init
<1> SUFFICES ASSUME ResolutionsInit PROVE Generator!Init
  OBVIOUS
<1>1. \A s \in ResolutionIds : resolution[s].next = 1 /\ resolution[s].to = 0
  BY DEF ResolutionsInit, NoResolution, Resolution
<1>2. InvoiceNumbers = [s \in ResolutionIds |-> {}]
  BY DEF ResolutionsInit, InvoiceNumbers, ResolutionIds
<1> QED BY <1>1, <1>2 DEF Generator!Init, ResolutionsInit

LEMMA OneStep ==
  ASSUME NEW s \in ResolutionIds
  PROVE  /\ Generator!Take(s) => Generator!Next
         /\ Generator!Issue(s) => Generator!Next
         /\ Generator!Renumber(s) => Generator!Next
         /\ \A t \in ResolutionIds : \A m \in InvoiceNumbers[t] :
              Generator!Replace(s, t, m) => Generator!Next
BY Zenon DEF Generator!Next

\* A row that is created or edited.
LEMMA EditsRenumber ==
  ASSUME resolution \in [ResolutionIds -> RowType], NEW s \in ResolutionIds,
         NEW row \in RowType, resolution' = [resolution EXCEPT ![s] = row],
         UNCHANGED <<handed, invoiceNumber, resolutionId>>
  PROVE  Generator!Renumber(s)
<1>1. \A t \in ResolutionIds : resolution'[t] = IF t = s THEN row ELSE resolution[t]
  OBVIOUS
<1>2. row.next - 1 \in Nat /\ row.to \in Nat
  BY DEF RowType
<1>3. UNCHANGED InvoiceNumbers
  BY DEF InvoiceNumbers
<1> QED BY <1>1, <1>2, <1>3 DEF Generator!Renumber

\* A row that gives its next number.
LEMMA Advances ==
  ASSUME resolution \in [ResolutionIds -> RowType], NEW s \in ResolutionIds,
         HasLeft(resolution[s]),
         resolution' = [resolution EXCEPT ![s] = Advanced(resolution[s])]
  PROVE  /\ resolution[s].next \in 1 .. resolution[s].to
         /\ resolution[s].next > resolution[s].next - 1
         /\ [t \in ResolutionIds |-> resolution'[t].next - 1]
              = [[t \in ResolutionIds |-> resolution[t].next - 1] EXCEPT ![s] = resolution[s].next]
         /\ [t \in ResolutionIds |-> resolution'[t].to]
              = [t \in ResolutionIds |-> resolution[t].to]
<1>1. resolution[s] \in RowType
  OBVIOUS
<1>2. /\ Advanced(resolution[s]).next = resolution[s].next + 1
      /\ Advanced(resolution[s]).to = resolution[s].to
  BY <1>1, AdvancedType
<1>3. resolution[s].next \in Nat \ {0} /\ resolution[s].to \in Nat
  BY <1>1 DEF RowType
<1>4. \A t \in ResolutionIds :
        resolution'[t] = IF t = s THEN Advanced(resolution[s]) ELSE resolution[t]
  OBVIOUS
<1>5. \A t \in ResolutionIds :
        /\ resolution'[t].next - 1 = IF t = s THEN resolution[s].next ELSE resolution[t].next - 1
        /\ resolution'[t].to = resolution[t].to
  BY <1>2, <1>3, <1>4
<1>6. [t \in ResolutionIds |-> resolution'[t].next - 1]
        = [[t \in ResolutionIds |-> resolution[t].next - 1] EXCEPT ![s] = resolution[s].next]
  BY <1>5
<1>7. [t \in ResolutionIds |-> resolution'[t].to] = [t \in ResolutionIds |-> resolution[t].to]
  BY <1>5
<1>8. resolution[s].next \in 1 .. resolution[s].to /\ resolution[s].next > resolution[s].next - 1
  BY <1>3 DEF HasLeft
<1> QED BY <1>6, <1>7, <1>8

LEMMA TakeIsTake ==
  ASSUME ResolutionInv, NEW r \in Requests, TakeConsecutive(r),
         NEW s, s = sheet[r].row
  PROVE  [Generator!Next]_(Generator!issuerVars)
<1> USE DEF ResolutionInv
<1>1. s \in ResolutionIds /\ UNCHANGED <<invoiceNumber, resolutionId>>
  BY DEF TakeConsecutive, AtResolution
<1>2. CASE HasLeft(resolution[s])
  <2>1. /\ resolution' = [resolution EXCEPT ![s] = Advanced(resolution[s])]
        /\ handed' = [handed EXCEPT ![s] = handed[s] \cup {resolution[s].next}]
    BY <1>2 DEF TakeConsecutive
  <2>2. UNCHANGED InvoiceNumbers
    BY <1>1 DEF InvoiceNumbers
  <2>3. Generator!Take(s)
    BY <1>1, <1>2, <2>1, <2>2, Advances DEF Generator!Take
  <2> QED BY <1>1, <2>3, OneStep
<1>3. CASE ~HasLeft(resolution[s])
  BY <1>1, <1>3, GeneratorStutters DEF TakeConsecutive, IssuerStutters
<1> QED BY <1>2, <1>3

LEMMA EmitIsIssue ==
  ASSUME ResolutionInv, NEW r \in Requests, EmitLocal(r)
  PROVE  [Generator!Next]_(Generator!issuerVars)
<1> USE DEF ResolutionInv
<1>1. CASE UNCHANGED <<resolution, invoiceNumber, resolutionId>>
  BY <1>1, GeneratorStutters DEF EmitLocal, IssuerStutters
<1>2. ASSUME NEW i \in Drafts, NEW s \in Candidates, EmittedWith(i, s)
      PROVE  Generator!Next
  <2> DEFINE n == resolution[s].next
             Held(t) == {invoiceNumber[j] : j \in {k \in Drafts : resolutionId[k] = t}}
             Now(t) == {invoiceNumber'[j] : j \in {k \in Drafts : resolutionId'[k] = t}}
  <2>1. s \in ResolutionIds /\ HasLeft(resolution[s]) /\ UNCHANGED handed
    BY DEF Candidates, EmitLocal
  <2>2. /\ resolution' = [resolution EXCEPT ![s] = Advanced(resolution[s])]
        /\ invoiceNumber' = [invoiceNumber EXCEPT ![i] = n]
        /\ resolutionId' = [resolutionId EXCEPT ![i] = s]
        /\ \A j \in Drafts : resolutionId[j] = s => invoiceNumber[j] # n
    BY <1>2 DEF EmittedWith, OnInvoice
  <2>3. n \notin InvoiceNumbers[s]
    BY <2>1, <2>2 DEF InvoiceNumbers
  <2>4. \A k \in Drafts : /\ invoiceNumber'[k] = IF k = i THEN n ELSE invoiceNumber[k]
                          /\ resolutionId'[k] = IF k = i THEN s ELSE resolutionId[k]
    BY <2>2
  <2>5. CASE resolutionId[i] = None
    <3>1. \A t \in ResolutionIds : Now(t) = Held(t) \cup IF t = s THEN {n} ELSE {}
      BY <2>1, <2>4, <2>5 DEF ResolutionIds
    <3>2. InvoiceNumbers' = [InvoiceNumbers EXCEPT ![s] = InvoiceNumbers[s] \cup {n}]
      BY <2>1, <3>1 DEF InvoiceNumbers
    <3>3. Generator!Issue(s)
      BY <2>1, <2>2, <2>3, <3>2, Advances DEF Generator!Issue
    <3> QED BY <2>1, <3>3, OneStep
  <2>6. ASSUME NEW t, NEW m, t # None, t = resolutionId[i], m = invoiceNumber[i]
        PROVE  Generator!Next
    <3>1. t \in ResolutionIds /\ m \in InvoiceNumbers[t]
      BY <2>6 DEF InvoiceNumbers
    <3>2. \A k \in Drafts : k # i /\ resolutionId[k] = t => invoiceNumber[k] # m
      BY <2>6 DEF NumbersUnique
    <3>3. ASSUME NEW u \in ResolutionIds
          PROVE  Now(u) = (Held(u) \ IF u = t THEN {m} ELSE {}) \cup IF u = s THEN {n} ELSE {}
      <4> DEFINE rest == {invoiceNumber[j] : j \in {k \in Drafts : k # i /\ resolutionId[k] = u}}
      <4>1. Now(u) = rest \cup IF u = s THEN {n} ELSE {}
        BY <2>4
      <4>2. Held(u) = rest \cup IF u = t THEN {m} ELSE {}
        BY <2>6
      <4>3. u = t => m \notin rest
        BY <3>2
      <4> HIDE DEF rest
      <4> QED BY <4>1, <4>2, <4>3
    <3>4. InvoiceNumbers' = [u \in ResolutionIds |->
            (InvoiceNumbers[u] \ IF u = t THEN {m} ELSE {}) \cup IF u = s THEN {n} ELSE {}]
      BY <3>3 DEF InvoiceNumbers
    <3>5. Generator!Replace(s, t, m)
      BY <2>1, <2>2, <2>3, <3>1, <3>4, Advances DEF Generator!Replace
    <3> QED BY <2>1, <3>1, <3>5, OneStep
  <2> QED BY <2>5, <2>6
<1> QED BY <1>1, <1>2, EmitEffect

LEMMA StepImplementsIssuer ==
  ASSUME ResolutionInv, [ResolutionsNext]_resolutionVars
  PROVE  [Generator!Next]_(Generator!issuerVars)
<1> USE DEF ResolutionInv
<1>1. CASE UNCHANGED resolutionVars
  BY <1>1, GeneratorStutters DEF resolutionVars, resolutionRows, numberVars, IssuerStutters
<1>2. ASSUME NEW from \in Numbers, NEW to \in Numbers, NEW next \in {0} \cup Numbers,
             NEW type \in ResolutionType, CreateResolution(from, to, next, type)
      PROVE  Generator!Next
  <2> DEFINE row == Resolution(from, Or(next, from), to, TRUE, type)
  <2>1. Or(next, from) \in Nat \ {0} /\ from \in Nat /\ to \in Nat
    BY DEF Or, Numbers
  <2>2. row \in RowType
    BY <2>1, RowTypes
  <2>3. /\ \E s \in ResolutionIds : resolution' = [resolution EXCEPT ![s] = row]
        /\ UNCHANGED <<handed, invoiceNumber, resolutionId>>
    BY <1>2 DEF CreateResolution, numberVars
  <2> HIDE DEF row
  <2> QED BY <2>2, <2>3, EditsRenumber DEF Generator!Next
<1>3. ASSUME NEW s \in ResolutionIds, NEW from \in {0} \cup Numbers,
             NEW to \in {0} \cup Numbers, NEW next \in {0} \cup Numbers,
             NEW active \in BOOLEAN, NEW type \in ResolutionType,
             UpdateResolution(s, from, to, next, active, type)
      PROVE  Generator!Next
  <2> DEFINE row == Edited(resolution[s], from, to, next, active, type)
  <2>1. from \in Nat /\ to \in Nat /\ next \in Nat
    BY DEF Numbers
  <2>2. row \in RowType
    BY <2>1, EditedType
  <2>3. /\ resolution' = [resolution EXCEPT ![s] = row]
        /\ UNCHANGED <<handed, invoiceNumber, resolutionId>>
    BY <1>3 DEF UpdateResolution, numberVars
  <2> HIDE DEF row
  <2> QED BY <2>2, <2>3, EditsRenumber DEF Generator!Next
<1>4. ASSUME NEW r \in Requests,
             CutResolutions(r) \/ (\E s \in ResolutionIds : BeginConsecutive(r, s))
               \/ \E i \in Drafts : BeginLocal(r, i)
      PROVE  UNCHANGED Generator!issuerVars
  BY <1>4, GeneratorStutters DEF CutResolutions, BeginConsecutive, BeginLocal,
       resolutionRows, numberVars, IssuerStutters
<1> HIDE DEF ResolutionInv
<1> QED BY <1>1, <1>2, <1>3, <1>4, TakeIsTake, EmitIsIssue DEF ResolutionsNext

\* Whatever happens between its checks and its transactions, a resolution
\* gives increasing numbers within its range, each one to a single document,
\* and only its administrator moves the counter otherwise.
THEOREM ResolutionsImplementIssuer == ResolutionsSpec => ResolutionsAreIssuers
BY InitGenerator, InitResolutionInv, NextResolutionInv, StepImplementsIssuer, PTL
   DEF ResolutionsSpec, ResolutionsAreIssuers, Generator!Spec

-----------------------------------------------------------------------------
(* Sourcing: types, numbers that no two documents have, and the documents  *)
(* that orders were made from.                                             *)

Exists(d) == paper[d] # "none"

PaperTypes ==
  /\ Framed
  /\ paper = [d \in Papers |-> paper[d]]
  /\ \A d \in Papers : paper[d] \in {"none"} \cup Statuses(d)
  /\ origin \in [Papers -> Papers \cup {None}]
  /\ paperNumber \in [Papers -> Nat]
  /\ counter \in [DocumentSeries -> Nat]
  /\ approved \in SUBSET Papers
  /\ \A d \in Papers : paper[d] = "APROBADA" => d \in approved

\* What a request that makes a document of d works on.
Sourced(d, other, wanted) ==
  /\ d \in Papers /\ wanted \in {"create", "convert"}
  /\ other \in Papers \cup {None}
  /\ d \in Purchases \cup Deliveries => other \in approved /\ Exists(other)
  /\ wanted = "convert" => other \in Quotes /\ Exists(other)

AtPaper(r) ==
  /\ pc[r] \in {"idle", "number", "create", "approve", "status"}
  /\ pc[r] = "idle" => sheet[r] = Blank
  /\ pc[r] \in {"number", "create"} =>
       /\ Sourced(sheet[r].row, sheet[r].other, sheet[r].wanted)
       /\ ~Exists(sheet[r].row)
  /\ pc[r] = "approve" =>
       sheet[r].row \in Papers /\ sheet[r].other \in Quotes /\ Exists(sheet[r].other)
  /\ pc[r] = "status" =>
       /\ sheet[r].row \in Quotes \cup Purchases /\ Exists(sheet[r].row)
       /\ sheet[r].wanted \in StatusesOf(sheet[r].row) /\ sheet[r].other = None
  /\ sheet[r].number \in Nat

Creating(r) == pc[r] \in {"number", "create"}
RowsApart ==
  \A r, q \in Requests :
     r # q /\ Creating(r) /\ Creating(q) => sheet[r].row # sheet[q].row

WrittenApart ==
  \A d \in Papers : Exists(d) =>
     /\ paperNumber[d] \in 1 .. counter[SeriesOf(d)]
     /\ \A e \in Papers : Exists(e) /\ e # d /\ SeriesOf(e) = SeriesOf(d)
                            => paperNumber[e] # paperNumber[d]

HeldApart ==
  \A r \in Requests : pc[r] = "create" =>
     /\ sheet[r].number \in 1 .. counter[SeriesOf(sheet[r].row)]
     /\ \A q \in Requests :
          q # r /\ pc[q] = "create" /\ SeriesOf(sheet[q].row) = SeriesOf(sheet[r].row)
            => sheet[q].number # sheet[r].number
     /\ \A d \in Papers :
          Exists(d) /\ SeriesOf(d) = SeriesOf(sheet[r].row)
            => paperNumber[d] # sheet[r].number

SourcingInv ==
  /\ PaperTypes /\ \A r \in Requests : AtPaper(r)
  /\ RowsApart /\ WrittenApart /\ HeldApart /\ OrderedWasApproved

LEMMA PaperFacts ==
  ASSUME NEW d \in Papers
  PROVE  /\ SeriesOf(d) \in DocumentSeries
         /\ FirstStatus(d) \in Statuses(d) /\ FirstStatus(d) \notin {"none", "APROBADA"}
         /\ d \in Quotes \cup Purchases => StatusesOf(d) = Statuses(d)
         /\ "none" \notin StatusesOf(d) /\ "none" \notin Statuses(d)
         /\ d \in Quotes => "APROBADA" \in Statuses(d)
<1>1. SeriesOf(d) \in DocumentSeries
  BY DEF SeriesOf, DocumentSeries
<1>2. d \in Quotes \cup Purchases => StatusesOf(d) = Statuses(d)
  BY DEF Statuses
<1>3. "none" \notin StatusesOf(d) /\ "none" \notin Statuses(d)
  BY DEF Statuses, StatusesOf, QuoteStatus, PurchaseStatus
<1>4. FirstStatus(d) \in Statuses(d) /\ FirstStatus(d) \notin {"none", "APROBADA"}
  BY DEF Papers, FirstStatus, Statuses, StatusesOf, QuoteStatus, PurchaseStatus
<1>5. d \in Quotes => "APROBADA" \in Statuses(d)
  BY DEF Statuses, StatusesOf, QuoteStatus
<1> QED BY <1>1, <1>2, <1>3, <1>4, <1>5

LEMMA InitSourcingInv == SourcingInit => SourcingInv
<1> SUFFICES ASSUME SourcingInit PROVE SourcingInv
  OBVIOUS
<1>1. /\ Framed /\ \A r \in Requests : pc[r] = "idle" /\ sheet[r] = Blank
  BY RequestsFramed DEF SourcingInit, RequestsInit
<1>2. Blank.number = 0
  BY SheetFields DEF Blank
<1>3. ASSUME NEW r \in Requests PROVE AtPaper(r)
  <2>1. sheet[r].number = 0
    BY <1>1, <1>2
  <2> QED BY <1>1, <2>1 DEF AtPaper
<1>4. RowsApart /\ HeldApart
  BY <1>1 DEF RowsApart, Creating, HeldApart
<1>5. \A d \in Papers : paper[d] = "none"
  BY DEF SourcingInit
<1>6. WrittenApart /\ OrderedWasApproved
  BY <1>5 DEF WrittenApart, Exists, OrderedWasApproved, Papers
<1>7. PaperTypes
  BY <1>1, <1>5 DEF SourcingInit, PaperTypes
<1> QED BY <1>3, <1>4, <1>6, <1>7 DEF SourcingInv

\* Documents that exist go on existing, and approved ones are remembered.
Grows == /\ \A d \in Papers : Exists(d) => Exists(d)'
         /\ approved \subseteq approved'

LEMMA OthersKeep ==
  ASSUME SourcingInv, NEW r \in Requests, OthersStay(r), Grows,
         \A q \in Requests \ {r} : Creating(q) => paper'[sheet[q].row] = "none"
  PROVE  \A q \in Requests \ {r} : AtPaper(q)'
<1> SUFFICES ASSUME NEW q \in Requests \ {r} PROVE AtPaper(q)'
  OBVIOUS
<1>1. pc'[q] = pc[q] /\ sheet'[q] = sheet[q]
  BY DEF OthersStay
<1>2. AtPaper(q) /\ approved \in SUBSET Papers
  BY DEF SourcingInv, PaperTypes
<1>3. Quotes \subseteq Papers /\ Purchases \subseteq Papers /\ Deliveries \subseteq Papers
  BY DEF Papers
<1>4. Creating(q) => Sourced(sheet[q].row, sheet[q].other, sheet[q].wanted)'
  <2>1. SUFFICES ASSUME Creating(q)
                 PROVE  Sourced(sheet[q].row, sheet[q].other, sheet[q].wanted)'
    OBVIOUS
  <2>2. Sourced(sheet[q].row, sheet[q].other, sheet[q].wanted)
    BY <1>2, <2>1 DEF AtPaper, Creating
  <2> QED BY <1>1, <1>2, <1>3, <2>2 DEF Sourced, Grows
<1>5. pc[q] = "approve" => paper'[sheet[q].other] # "none"
  BY <1>2, <1>3 DEF AtPaper, Grows, Exists
<1>6. pc[q] = "status" => paper'[sheet[q].row] # "none"
  BY <1>2, <1>3 DEF AtPaper, Grows, Exists, Papers
<1>7. Creating(q) => paper'[sheet'[q].row] = "none"
  BY <1>1
<1> QED BY <1>1, <1>2, <1>4, <1>5, <1>6, <1>7 DEF AtPaper, Creating, Exists

\* A step that writes no document.
LEMMA DocumentsStay ==
  ASSUME SourcingInv, NEW r \in Requests, OthersStay(r), Framed',
         UNCHANGED <<documentVars, counter>>, AtPaper(r)',
         pc'[r] # "create",
         Creating(r)' => \A q \in Requests \ {r} : Creating(q) => sheet[q].row # sheet'[r].row
  PROVE  SourcingInv'
<1> USE DEF documentVars
<1>1. PaperTypes' /\ OrderedWasApproved' /\ WrittenApart'
  BY DEF SourcingInv, PaperTypes, OrderedWasApproved, WrittenApart, Exists, documentVars
<1>2. \A q \in Requests \ {r} : AtPaper(q)'
  <2>1. Grows
    BY DEF Grows, Exists
  <2>2. \A q \in Requests \ {r} : Creating(q) => paper'[sheet[q].row] = "none"
    BY DEF SourcingInv, AtPaper, Creating, Exists
  <2> QED BY <2>1, <2>2, OthersKeep
<1>3. RowsApart'
  BY DEF SourcingInv, RowsApart, Creating, OthersStay
<1>4. HeldApart'
  BY DEF SourcingInv, HeldApart, OthersStay, Exists
<1> QED BY <1>1, <1>2, <1>3, <1>4 DEF SourcingInv

LEMMA BeginCreateKeeps ==
  ASSUME SourcingInv, NEW r \in Requests, NEW d \in Papers, NEW other, NEW wanted,
         Unused(d), Begin(r, "number", Sheet(d, other, wanted, 0)),
         Sourced(d, other, wanted), UNCHANGED <<documentVars, counter>>
  PROVE  SourcingInv'
<1>1. /\ Framed' /\ OthersStay(r) /\ pc'[r] = "number"
      /\ sheet'[r] = Sheet(d, other, wanted, 0)
  BY BeginEffect DEF SourcingInv, PaperTypes
<1>2. /\ sheet'[r].row = d /\ sheet'[r].other = other
      /\ sheet'[r].wanted = wanted /\ sheet'[r].number = 0
  BY <1>1, SheetFields
<1>3. ~Exists(d)' /\ Sourced(d, other, wanted)'
  BY DEF Unused, Exists, Sourced, documentVars
<1>4. AtPaper(r)'
  BY <1>1, <1>2, <1>3 DEF AtPaper, Exists, Sourced
<1>5. \A q \in Requests : sheet[q].row # d
  BY DEF Unused, Free
<1> QED BY <1>1, <1>2, <1>4, <1>5, DocumentsStay

LEMMA BeginStatusKeeps ==
  ASSUME SourcingInv, NEW r \in Requests, NEW d, NEW wanted, BeginPaperStatus(r, d, wanted)
  PROVE  SourcingInv'
<1>1. /\ Framed' /\ OthersStay(r) /\ pc'[r] = "status"
      /\ sheet'[r] = Sheet(d, None, wanted, 0)
  BY BeginEffect DEF SourcingInv, PaperTypes, BeginPaperStatus
<1>2. /\ sheet'[r].row = d /\ sheet'[r].other = None
      /\ sheet'[r].wanted = wanted /\ sheet'[r].number = 0
  BY <1>1, SheetFields
<1>3. /\ d \in Quotes \cup Purchases /\ Exists(d)' /\ wanted \in StatusesOf(d)
      /\ UNCHANGED <<documentVars, counter>>
  BY DEF BeginPaperStatus, Open, Exists, documentVars
<1>4. AtPaper(r)'
  BY <1>1, <1>2, <1>3 DEF AtPaper, Exists
<1> QED BY <1>1, <1>3, <1>4, DocumentsStay DEF Creating

LEMMA CutSourcingKeeps ==
  ASSUME SourcingInv, NEW r \in Requests, CutSourcing(r)
  PROVE  SourcingInv'
<1>1. /\ Framed' /\ OthersStay(r) /\ pc'[r] = "idle" /\ sheet'[r] = Blank
      /\ UNCHANGED <<documentVars, counter>>
  BY FinishEffect DEF SourcingInv, PaperTypes, CutSourcing
<1>2. Blank.number = 0
  BY SheetFields DEF Blank
<1>3. sheet'[r].number \in Nat
  BY <1>1, <1>2
<1>4. AtPaper(r)'
  BY <1>1, <1>3 DEF AtPaper
<1> QED BY <1>1, <1>4, DocumentsStay DEF Creating

\* What TakeNumber does for the document d of the series s.
LEMMA TakeNumberEffect ==
  ASSUME SourcingInv, NEW r \in Requests, TakeNumber(r)
  PROVE  \E d \in Papers, s \in DocumentSeries :
           /\ d = sheet[r].row /\ s = SeriesOf(d) /\ pc[r] = "number"
           /\ counter[s] + 1 <= MaxNumber
           /\ counter' = [counter EXCEPT ![s] = counter[s] + 1]
           /\ Framed' /\ OthersStay(r) /\ pc'[r] = "create"
           /\ sheet'[r].row = d /\ sheet'[r].other = sheet[r].other
           /\ sheet'[r].wanted = sheet[r].wanted /\ sheet'[r].number = counter[s] + 1
           /\ UNCHANGED documentVars
<1> DEFINE d == sheet[r].row
           s == SeriesOf(d)
           card == Sheet(sheet[r].row, sheet[r].other, sheet[r].wanted, counter[s] + 1)
<1>1. AtPaper(r) /\ Framed
  BY DEF SourcingInv, PaperTypes
<1>2. pc[r] = "number" /\ counter[s] + 1 <= MaxNumber
      /\ counter' = [counter EXCEPT ![s] = counter[s] + 1] /\ Carry(r, "create", card)
      /\ UNCHANGED documentVars
  BY DEF TakeNumber, FollowingNumber
<1>3. d \in Papers /\ s \in DocumentSeries
  BY <1>1, <1>2, PaperFacts DEF AtPaper, Sourced
<1>4. Framed' /\ OthersStay(r) /\ pc'[r] = "create" /\ sheet'[r] = card
  BY <1>1, <1>2, CarryEffect
<1>5. /\ card.row = d /\ card.other = sheet[r].other
      /\ card.wanted = sheet[r].wanted /\ card.number = counter[s] + 1
  BY SheetFields
<1> HIDE DEF card, s, d
<1>6. /\ sheet'[r].row = d /\ sheet'[r].other = sheet[r].other
      /\ sheet'[r].wanted = sheet[r].wanted /\ sheet'[r].number = counter[s] + 1
  BY <1>4, <1>5
<1> QED BY <1>2, <1>3, <1>4, <1>6 DEF d, s

LEMMA TakeNumberKeeps ==
  ASSUME SourcingInv, NEW r \in Requests, TakeNumber(r)
  PROVE  SourcingInv'
<1>1. PICK d \in Papers, s \in DocumentSeries :
        /\ d = sheet[r].row /\ s = SeriesOf(d) /\ pc[r] = "number"
        /\ counter' = [counter EXCEPT ![s] = counter[s] + 1]
        /\ Framed' /\ OthersStay(r) /\ pc'[r] = "create"
        /\ sheet'[r].row = d /\ sheet'[r].other = sheet[r].other
        /\ sheet'[r].wanted = sheet[r].wanted /\ sheet'[r].number = counter[s] + 1
        /\ UNCHANGED documentVars
  BY TakeNumberEffect
<1>2. UNCHANGED <<paper, origin, paperNumber, approved>>
  BY <1>1 DEF documentVars
<1>3. counter \in [DocumentSeries -> Nat] /\ AtPaper(r)
  BY DEF SourcingInv, PaperTypes
<1>4. /\ counter' \in [DocumentSeries -> Nat] /\ counter'[s] = counter[s] + 1
      /\ \A t \in DocumentSeries : counter[t] <= counter'[t]
  BY <1>1, <1>3
<1>5. PaperTypes'
  BY <1>1, <1>2, <1>4 DEF SourcingInv, PaperTypes
<1>6. OrderedWasApproved'
  BY <1>2 DEF SourcingInv, OrderedWasApproved
<1>7. ASSUME NEW n \in Nat, NEW e \in Papers, n \in 1 .. counter[SeriesOf(e)]
      PROVE  n \in 1 .. counter'[SeriesOf(e)] /\ (SeriesOf(e) = s => n # counter[s] + 1)
  <2>1. SeriesOf(e) \in DocumentSeries
    BY PaperFacts
  <2> QED BY <1>3, <1>4, <1>7, <2>1
<1>8. WrittenApart'
  <2>1. \A e \in Papers : paperNumber[e] \in Nat
    BY DEF SourcingInv, PaperTypes
  <2> QED BY <1>2, <1>7, <2>1 DEF SourcingInv, WrittenApart, Exists
<1>9. \A q \in Requests \ {r} : AtPaper(q)'
  <2>1. Grows
    BY <1>2 DEF Grows, Exists
  <2>2. \A q \in Requests \ {r} : Creating(q) => paper'[sheet[q].row] = "none"
    BY <1>2 DEF SourcingInv, AtPaper, Creating, Exists
  <2> QED BY <1>1, <2>1, <2>2, OthersKeep
<1>10. AtPaper(r)'
  <2>1. Sourced(sheet[r].row, sheet[r].other, sheet[r].wanted) /\ ~Exists(d)
    BY <1>1, <1>3 DEF AtPaper
  <2>2. Sourced(sheet[r].row, sheet[r].other, sheet[r].wanted)'
    BY <1>1, <1>2, <2>1 DEF Sourced, Exists
  <2>3. sheet'[r].number \in Nat /\ paper'[sheet'[r].row] = "none"
    BY <1>1, <1>2, <1>3, <2>1 DEF Exists
  <2> QED BY <1>1, <2>2, <2>3 DEF AtPaper, Exists
<1>11. RowsApart'
  BY <1>1 DEF SourcingInv, RowsApart, Creating, OthersStay
<1>12. HeldApart'
  <2>1. \A q \in Requests : pc[q] = "create" => sheet[q].row \in Papers /\ sheet[q].number \in Nat
    BY DEF SourcingInv, AtPaper, Sourced
  <2>2. \A e \in Papers : paperNumber[e] \in Nat
    BY DEF SourcingInv, PaperTypes
  <2>3. ASSUME NEW q \in Requests \ {r}, pc[q] = "create"
        PROVE  /\ sheet[q].number \in 1 .. counter'[SeriesOf(sheet[q].row)]
               /\ SeriesOf(sheet[q].row) = s => sheet[q].number # counter[s] + 1
    BY <1>7, <2>1, <2>3 DEF SourcingInv, HeldApart
  <2>4. ASSUME NEW e \in Papers, Exists(e), SeriesOf(e) = s
        PROVE  paperNumber[e] # counter[s] + 1
    BY <1>7, <2>2, <2>4 DEF SourcingInv, WrittenApart
  <2>5. sheet'[r].number \in 1 .. counter'[s]
    BY <1>1, <1>3, <1>4
  <2>6. ASSUME NEW q \in Requests \ {r}, pc'[q] = "create"
        PROVE  /\ pc[q] = "create" /\ sheet'[q] = sheet[q]
    BY <1>1, <2>6 DEF OthersStay
  <2>7. HeldApart
    BY DEF SourcingInv
  <2> QED BY <1>1, <1>2, <2>3, <2>4, <2>5, <2>6, <2>7 DEF HeldApart, Exists
<1> QED BY <1>5, <1>6, <1>8, <1>9, <1>10, <1>11, <1>12 DEF SourcingInv

\* What CreateDocument does for the document d.
LEMMA CreateEffect ==
  ASSUME SourcingInv, NEW r \in Requests, CreateDocument(r)
  PROVE  \E d \in Papers :
           /\ d = sheet[r].row /\ pc[r] = "create"
           /\ paper' = [paper EXCEPT ![d] = FirstStatus(d)]
           /\ origin' = [origin EXCEPT ![d] = sheet[r].other]
           /\ paperNumber' = [paperNumber EXCEPT ![d] = sheet[r].number]
           /\ Framed' /\ OthersStay(r)
           /\ \/ pc'[r] = "idle" /\ sheet'[r] = Blank
              \/ pc'[r] = "approve" /\ sheet'[r] = sheet[r] /\ sheet[r].wanted = "convert"
           /\ UNCHANGED <<approved, counter>>
<1>1. AtPaper(r) /\ Framed
  BY DEF SourcingInv, PaperTypes
<1>2. pc[r] = "create" /\ sheet[r].row \in Papers
  BY <1>1 DEF CreateDocument, AtPaper, Sourced
<1>3. /\ Framed' /\ OthersStay(r)
      /\ \/ pc'[r] = "idle" /\ sheet'[r] = Blank
         \/ pc'[r] = "approve" /\ sheet'[r] = sheet[r] /\ sheet[r].wanted = "convert"
  <2>1. CASE sheet[r].wanted = "convert"
    BY <1>1, <2>1, GotoEffect DEF CreateDocument
  <2>2. CASE sheet[r].wanted # "convert"
    BY <1>1, <2>2, FinishEffect DEF CreateDocument
  <2> QED BY <2>1, <2>2
<1> QED BY <1>2, <1>3 DEF CreateDocument

LEMMA CreateDocumentKeeps ==
  ASSUME SourcingInv, NEW r \in Requests, CreateDocument(r)
  PROVE  SourcingInv'
<1>1. PICK d \in Papers :
        /\ d = sheet[r].row /\ pc[r] = "create"
        /\ paper' = [paper EXCEPT ![d] = FirstStatus(d)]
        /\ origin' = [origin EXCEPT ![d] = sheet[r].other]
        /\ paperNumber' = [paperNumber EXCEPT ![d] = sheet[r].number]
        /\ Framed' /\ OthersStay(r)
        /\ \/ pc'[r] = "idle" /\ sheet'[r] = Blank
           \/ pc'[r] = "approve" /\ sheet'[r] = sheet[r] /\ sheet[r].wanted = "convert"
        /\ UNCHANGED <<approved, counter>>
  BY CreateEffect
<1>2. /\ AtPaper(r) /\ Sourced(sheet[r].row, sheet[r].other, sheet[r].wanted)
      /\ ~Exists(d) /\ sheet[r].number \in Nat
  BY <1>1 DEF SourcingInv, AtPaper
<1>3. PaperTypes
  BY DEF SourcingInv
<1>4. FirstStatus(d) \in Statuses(d) /\ FirstStatus(d) \notin {"none", "APROBADA"}
  BY PaperFacts
<1>5. \A e \in Papers :
        /\ paper'[e] = IF e = d THEN FirstStatus(d) ELSE paper[e]
        /\ origin'[e] = IF e = d THEN sheet[r].other ELSE origin[e]
        /\ paperNumber'[e] = IF e = d THEN sheet[r].number ELSE paperNumber[e]
  BY <1>1, <1>3 DEF PaperTypes
<1>6. PaperTypes'
  <2>1. paper' = [e \in Papers |-> paper'[e]]
    BY <1>1, <1>3 DEF PaperTypes
  <2>2. origin' \in [Papers -> Papers \cup {None}]
    BY <1>1, <1>2, <1>3 DEF PaperTypes, Sourced
  <2>3. paperNumber' \in [Papers -> Nat]
    BY <1>1, <1>2, <1>3 DEF PaperTypes
  <2>4. \A e \in Papers : /\ paper'[e] \in {"none"} \cup Statuses(e)
                          /\ paper'[e] = "APROBADA" => e \in approved'
    BY <1>1, <1>3, <1>4, <1>5 DEF PaperTypes
  <2> QED BY <1>1, <1>3, <2>1, <2>2, <2>3, <2>4 DEF PaperTypes
<1>7. Grows /\ Exists(d)'
  BY <1>1, <1>4, <1>5 DEF Grows, Exists
<1>8. \A q \in Requests \ {r} : AtPaper(q)'
  <2>1. ASSUME NEW q \in Requests \ {r}, Creating(q) PROVE paper'[sheet[q].row] = "none"
    <3>1. sheet[q].row # d
      BY <1>1, <2>1 DEF SourcingInv, RowsApart, Creating
    <3>2. sheet[q].row \in Papers /\ ~Exists(sheet[q].row)
      BY <2>1 DEF SourcingInv, AtPaper, Creating, Sourced
    <3> QED BY <1>5, <3>1, <3>2 DEF Exists
  <2> QED BY <1>1, <1>7, <2>1, OthersKeep
<1>9. AtPaper(r)'
  <2>1. CASE pc'[r] = "idle" /\ sheet'[r] = Blank
    <3>1. Blank.number = 0
      BY SheetFields DEF Blank
    <3>2. sheet'[r].number \in Nat
      BY <2>1, <3>1
    <3> QED BY <2>1, <3>2 DEF AtPaper
  <2>2. CASE pc'[r] = "approve" /\ sheet'[r] = sheet[r] /\ sheet[r].wanted = "convert"
    <3>1. sheet[r].other \in Quotes /\ Exists(sheet[r].other) /\ sheet[r].other \in Papers
      BY <1>2, <2>2 DEF Sourced, Papers
    <3>2. paper'[sheet[r].other] # "none"
      BY <1>7, <3>1 DEF Grows, Exists
    <3> QED BY <1>1, <1>2, <2>2, <3>1, <3>2 DEF AtPaper, Exists
  <2> QED BY <1>1, <2>1, <2>2
<1>10. RowsApart'
  BY <1>1 DEF SourcingInv, RowsApart, Creating, OthersStay
<1>11. HeldApart /\ WrittenApart
  BY DEF SourcingInv
<1>12. WrittenApart'
  <2>1. /\ sheet[r].number \in 1 .. counter[SeriesOf(d)]
        /\ \A e \in Papers : Exists(e) /\ SeriesOf(e) = SeriesOf(d)
                               => paperNumber[e] # sheet[r].number
    BY <1>1, <1>11 DEF HeldApart
  <2> QED BY <1>1, <1>5, <1>11, <2>1 DEF WrittenApart, Exists
<1>13. HeldApart'
  <2>1. \A q \in Requests : pc'[q] = "create" =>
          q # r /\ pc[q] = "create" /\ sheet'[q] = sheet[q]
    BY <1>1 DEF OthersStay
  <2>2. \A q \in Requests : q # r /\ pc[q] = "create" /\ SeriesOf(sheet[q].row) = SeriesOf(d)
          => sheet[q].number # sheet[r].number
    BY <1>1, <1>11 DEF HeldApart
  <2> QED BY <1>1, <1>5, <1>11, <2>1, <2>2 DEF HeldApart, Exists
<1>14. OrderedWasApproved'
  <2>1. ASSUME NEW e \in Purchases \cup Deliveries, paper'[e] # "none"
        PROVE  origin'[e] \in approved /\ paper'[origin'[e]] # "none"
    <3>1. e \in Papers /\ approved \in SUBSET Papers
      BY <1>3 DEF Papers, PaperTypes
    <3>2. CASE e = d
      BY <1>1, <1>2, <1>5, <1>7, <2>1, <3>1, <3>2 DEF Sourced, Grows, Exists
    <3>3. CASE e # d
      <4>1. origin[e] \in approved /\ paper[origin[e]] # "none"
        BY <1>5, <2>1, <3>1, <3>3 DEF SourcingInv, OrderedWasApproved
      <4> QED BY <1>5, <1>7, <3>1, <3>3, <4>1 DEF Grows, Exists
    <3> QED BY <3>2, <3>3
  <2> QED BY <1>1, <2>1 DEF OrderedWasApproved
<1> QED BY <1>6, <1>8, <1>9, <1>10, <1>12, <1>13, <1>14 DEF SourcingInv

\* A document that exists gets another status, and the request ends.
LEMMA StatusKeeps ==
  ASSUME SourcingInv, NEW r \in Requests, NEW d \in Papers, Exists(d),
         NEW status \in Statuses(d), paper' = [paper EXCEPT ![d] = status],
         approved' = IF status = "APROBADA" THEN approved \cup {d} ELSE approved,
         FinishWriting(r, d), UNCHANGED <<origin, paperNumber, counter>>
  PROVE  SourcingInv'
<1>1. PaperTypes /\ status # "none"
  BY PaperFacts DEF SourcingInv
<1>2. Framed' /\ OthersStay(r) /\ pc'[r] = "idle" /\ sheet'[r] = Blank
  BY <1>1, FinishEffect DEF PaperTypes
<1>3. \A e \in Papers : paper'[e] = IF e = d THEN status ELSE paper[e]
  BY <1>1 DEF PaperTypes
<1>4. Grows /\ \A e \in Papers : Exists(e)' <=> Exists(e)
  BY <1>1, <1>3 DEF Grows, Exists
<1>5. PaperTypes'
  <2>1. paper' = [e \in Papers |-> paper'[e]]
    BY <1>1 DEF PaperTypes
  <2>2. \A e \in Papers : /\ paper'[e] \in {"none"} \cup Statuses(e)
                          /\ paper'[e] = "APROBADA" => e \in approved'
    BY <1>1, <1>3 DEF PaperTypes
  <2>3. approved' \in SUBSET Papers
    BY <1>1 DEF PaperTypes
  <2> QED BY <1>1, <1>2, <2>1, <2>2, <2>3 DEF PaperTypes
<1>6. \A q \in Requests \ {r} : AtPaper(q)'
  <2>1. ASSUME NEW q \in Requests \ {r}, Creating(q) PROVE paper'[sheet[q].row] = "none"
    <3>1. sheet[q].row \in Papers /\ ~Exists(sheet[q].row)
      BY <2>1 DEF SourcingInv, AtPaper, Creating, Sourced
    <3> QED BY <1>3, <3>1 DEF Exists
  <2> QED BY <1>2, <1>4, <2>1, OthersKeep
<1>7. AtPaper(r)'
  <2>1. Blank.number = 0
    BY SheetFields DEF Blank
  <2>2. sheet'[r].number \in Nat
    BY <1>2, <2>1
  <2> QED BY <1>2, <2>2 DEF AtPaper
<1>8. RowsApart'
  BY <1>2 DEF SourcingInv, RowsApart, Creating, OthersStay
<1>9. WrittenApart'
  BY <1>4 DEF SourcingInv, WrittenApart
<1>10. HeldApart'
  BY <1>2, <1>4 DEF SourcingInv, HeldApart, OthersStay
<1>11. OrderedWasApproved'
  <2>1. ASSUME NEW e \in Purchases \cup Deliveries, paper'[e] # "none"
        PROVE  origin[e] \in approved /\ paper'[origin[e]] # "none"
    <3>1. e \in Papers /\ approved \in SUBSET Papers
      BY <1>1 DEF Papers, PaperTypes
    <3>2. origin[e] \in approved /\ paper[origin[e]] # "none"
      BY <1>4, <2>1, <3>1 DEF SourcingInv, OrderedWasApproved, Exists
    <3> QED BY <1>4, <3>1, <3>2 DEF Exists
  <2> QED BY <2>1 DEF OrderedWasApproved
<1> QED BY <1>5, <1>6, <1>7, <1>8, <1>9, <1>10, <1>11 DEF SourcingInv

LEMMA NextSourcingInv ==
  ASSUME SourcingInv, [SourcingNext]_sourcingVars
  PROVE  SourcingInv'
<1>1. CASE UNCHANGED sourcingVars
  BY <1>1 DEF sourcingVars, requestVars, SourcingInv, PaperTypes, Framed, AtPaper, Sourced,
     Exists, RowsApart, Creating, WrittenApart, HeldApart, OrderedWasApproved
<1>2. ASSUME NEW r \in Requests, NEW q \in Quotes, BeginQuote(r, q) PROVE SourcingInv'
  <2>1. q \in Papers /\ Sourced(q, None, "create")
    BY SourcingAssumption DEF Sourced, Papers
  <2> QED BY <1>2, <2>1, BeginCreateKeeps DEF BeginQuote
<1>3. ASSUME NEW r \in Requests, NEW p \in Purchases, NEW q \in Quotes,
             NEW way \in {"create", "convert"}, BeginPurchase(r, p, q, way)
      PROVE  SourcingInv'
  <2>1. p \in Papers /\ q \in Papers /\ Exists(q) /\ q \in approved
    BY <1>3 DEF BeginPurchase, Orderable, Papers, Exists, SourcingInv, PaperTypes
  <2>2. Sourced(p, q, way)
    BY <2>1 DEF Sourced
  <2> QED BY <1>3, <2>1, <2>2, BeginCreateKeeps DEF BeginPurchase
<1>4. ASSUME NEW r \in Requests, NEW d \in Deliveries, NEW p \in Purchases,
             BeginDelivery(r, d, p)
      PROVE  SourcingInv'
  <2>1. d \in Papers /\ p \in Papers /\ Exists(p) /\ p \in approved
    BY <1>4 DEF BeginDelivery, Orderable, Papers, Exists, SourcingInv, PaperTypes
  <2>2. Sourced(d, p, "create")
    BY <2>1 DEF Sourced
  <2> QED BY <1>4, <2>1, <2>2, BeginCreateKeeps DEF BeginDelivery
<1>5. ASSUME NEW r \in Requests, ApproveAgain(r) PROVE SourcingInv'
  <2>1. sheet[r].other \in Quotes /\ sheet[r].other \in Papers /\ Exists(sheet[r].other)
    BY <1>5 DEF ApproveAgain, SourcingInv, AtPaper, Papers
  <2>2. "APROBADA" \in Statuses(sheet[r].other)
    BY <2>1, PaperFacts
  <2> QED BY <1>5, <2>1, <2>2, StatusKeeps DEF ApproveAgain
<1>6. ASSUME NEW r \in Requests, WritePaperStatus(r) PROVE SourcingInv'
  <2>1. /\ sheet[r].row \in Papers /\ Exists(sheet[r].row)
        /\ sheet[r].wanted \in Statuses(sheet[r].row)
    BY <1>6, PaperFacts DEF WritePaperStatus, SourcingInv, AtPaper, Papers
  <2> QED BY <1>6, <2>1, StatusKeeps DEF WritePaperStatus
<1> QED BY <1>1, <1>2, <1>3, <1>4, <1>5, <1>6, BeginStatusKeeps, TakeNumberKeeps,
           CreateDocumentKeeps, CutSourcingKeeps DEF SourcingNext

\* The documents, their numbers and the requests keep their types.
THEOREM SourcingTypes == SourcingSpec => []SourcingTypeOK
<1>1. SourcingInv => SourcingTypeOK
  BY DEF SourcingInv, PaperTypes, AtPaper, Sourced, SourcingTypeOK, SourcingPC, Papers
<1> QED BY <1>1, InitSourcingInv, NextSourcingInv, PTL DEF SourcingSpec

\* An order comes from a document that was approved and that still exists,
\* however many requests make orders and change statuses at a time.
THEOREM OrdersWereApproved == SourcingSpec => []OrderedWasApproved
<1>1. SourcingInv => OrderedWasApproved
  BY DEF SourcingInv
<1> QED BY <1>1, InitSourcingInv, NextSourcingInv, PTL DEF SourcingSpec

-----------------------------------------------------------------------------
(* Closed papers: a request whose rows nobody wrote since it read them     *)
(* still finds them as its checks did.                                     *)

Informed(r) ==
  r \notin stale =>
    /\ pc[r] = "status" => Open(sheet[r].row)
    /\ pc[r] = "approve" \/ (Creating(r) /\ sheet[r].wanted = "convert")
         => paper[sheet[r].other] = "APROBADA"

InformedInv == SourcingInv /\ \A r \in Requests : Informed(r)

\* At most the document d is written, and whoever had read it is told.
LEMMA OthersInformed ==
  ASSUME InformedInv, NEW r \in Requests, OthersStay(r), NEW d,
         \A e \in Papers \ {d} : paper'[e] = paper[e],
         \A q \in Requests \ {r} : q \notin stale' =>
            q \notin stale /\ (Active(q) /\ Exists(d) => d \notin Rows(sheet[q]))
  PROVE  \A q \in Requests \ {r} : Informed(q)'
<1> SUFFICES ASSUME NEW q \in Requests \ {r}, q \notin stale' PROVE Informed(q)'
  BY DEF Informed
<1>1. /\ pc'[q] = pc[q] /\ sheet'[q] = sheet[q] /\ q \notin stale
      /\ Active(q) /\ Exists(d) => d \notin Rows(sheet[q])
      /\ AtPaper(q) /\ Informed(q)
  BY DEF OthersStay, InformedInv, SourcingInv
<1>2. None \notin Papers /\ Quotes \subseteq Papers /\ Purchases \subseteq Papers
  BY DEF Papers
<1>3. CASE pc[q] = "status"
  <2>1. /\ sheet[q].row \in Papers /\ Exists(sheet[q].row) /\ Open(sheet[q].row)
        /\ Active(q)
    BY <1>1, <1>2, <1>3 DEF AtPaper, Informed, Active, Papers
  <2>2. sheet[q].row # d
    BY <1>1, <1>2, <2>1 DEF Rows
  <2> QED BY <1>1, <1>3, <2>1, <2>2 DEF Informed, Open, Creating
<1>4. CASE pc[q] = "approve" \/ (Creating(q) /\ sheet[q].wanted = "convert")
  <2>1. /\ sheet[q].other \in Papers /\ paper[sheet[q].other] = "APROBADA"
        /\ Active(q)
    BY <1>1, <1>2, <1>4 DEF AtPaper, Sourced, Creating, Informed, Active
  <2>2. sheet[q].other # d
    BY <1>1, <1>2, <2>1 DEF Rows, Exists
  <2> QED BY <1>1, <1>4, <2>1, <2>2 DEF Informed, Creating
<1> QED BY <1>1, <1>3, <1>4 DEF Informed, Creating

\* Nothing is written, and the request has begun with what it has read.
LEMMA BeginInformed ==
  ASSUME InformedInv, NEW r \in Requests, NEW label, NEW d, NEW other, NEW wanted,
         Begin(r, label, Sheet(d, other, wanted, 0)), UNCHANGED <<documentVars, counter>>,
         \/ label = "status" /\ Open(d)
         \/ label = "number" /\ (wanted = "convert" => Orderable(other))
  PROVE  \A q \in Requests : Informed(q)'
<1>1. /\ OthersStay(r) /\ pc'[r] = label /\ sheet'[r] = Sheet(d, other, wanted, 0)
      /\ UNCHANGED <<paper, stale>>
  BY BeginEffect DEF InformedInv, SourcingInv, PaperTypes, Begin, documentVars
<1>2. /\ sheet'[r].row = d /\ sheet'[r].other = other /\ sheet'[r].wanted = wanted
  BY <1>1, SheetFields
<1>3. Informed(r)'
  BY <1>1, <1>2 DEF Informed, Creating, Open, Orderable
<1>4. \A q \in Requests \ {r} : Informed(q)'
  BY <1>1 DEF InformedInv, Informed, OthersStay, Creating, Open
<1> QED BY <1>3, <1>4

LEMMA InitInformed == SourcingInit => InformedInv
BY InitSourcingInv, RequestsFramed DEF SourcingInit, InformedInv, Informed, Creating

LEMMA NextInformed ==
  ASSUME InformedInv, [SourcingNext]_sourcingVars
  PROVE  InformedInv'
<1>1. SourcingInv /\ SourcingInv'
  BY NextSourcingInv DEF InformedInv
<1> SUFFICES \A r \in Requests : Informed(r)'
  BY <1>1 DEF InformedInv
<1>2. CASE UNCHANGED sourcingVars
  BY <1>2 DEF sourcingVars, requestVars, InformedInv, Informed, Creating, Open
<1>3. ASSUME NEW r \in Requests, NEW q \in Quotes, BeginQuote(r, q)
      PROVE  \A p \in Requests : Informed(p)'
  BY <1>3, BeginInformed, "create" # "convert" DEF BeginQuote
<1>4. ASSUME NEW r \in Requests, NEW p \in Purchases, NEW q \in Quotes,
             NEW way \in {"create", "convert"}, BeginPurchase(r, p, q, way)
      PROVE  \A t \in Requests : Informed(t)'
  BY <1>4, BeginInformed DEF BeginPurchase
<1>5. ASSUME NEW r \in Requests, NEW d \in Deliveries, NEW p \in Purchases,
             BeginDelivery(r, d, p)
      PROVE  \A t \in Requests : Informed(t)'
  BY <1>5, BeginInformed DEF BeginDelivery
<1>6. ASSUME NEW r \in Requests, NEW d, NEW wanted, BeginPaperStatus(r, d, wanted)
      PROVE  \A t \in Requests : Informed(t)'
  BY <1>6, BeginInformed DEF BeginPaperStatus
<1>7. ASSUME NEW r \in Requests, TakeNumber(r)
      PROVE  \A t \in Requests : Informed(t)'
  <2>1. /\ OthersStay(r) /\ pc[r] = "number" /\ pc'[r] = "create"
        /\ sheet'[r].other = sheet[r].other /\ sheet'[r].wanted = sheet[r].wanted
        /\ UNCHANGED <<paper, stale>>
    BY <1>1, <1>7, TakeNumberEffect DEF TakeNumber, documentVars
  <2>2. Informed(r)'
    BY <2>1 DEF InformedInv, Informed, Creating
  <2>3. \A t \in Requests \ {r} : Informed(t)'
    BY <2>1 DEF InformedInv, Informed, OthersStay, Creating, Open
  <2> QED BY <2>2, <2>3
<1>8. ASSUME NEW r \in Requests, CreateDocument(r)
      PROVE  \A t \in Requests : Informed(t)'
  <2>1. PICK d \in Papers :
          /\ d = sheet[r].row /\ pc[r] = "create"
          /\ paper' = [paper EXCEPT ![d] = FirstStatus(d)]
          /\ OthersStay(r)
          /\ \/ pc'[r] = "idle"
             \/ /\ pc'[r] = "approve" /\ sheet'[r] = sheet[r]
                /\ sheet[r].wanted = "convert"
    BY <1>1, <1>8, CreateEffect
  <2>2. ~Exists(d) /\ \A e \in Papers \ {d} : paper'[e] = paper[e]
    BY <1>1, <2>1 DEF SourcingInv, AtPaper, PaperTypes
  <2>3. stale' = stale \/ (stale' = stale \ {r} /\ pc'[r] = "idle")
    BY <1>1, <1>8, FinishEffect DEF CreateDocument, Finish, SourcingInv, PaperTypes
  <2>4. \A q \in Requests \ {r} : q \notin stale' => q \notin stale
    BY <2>3
  <2>5. \A q \in Requests \ {r} : Informed(q)'
    BY <2>1, <2>2, <2>4, OthersInformed
  <2>6. Informed(r)'
    <3>1. CASE pc'[r] = "idle"
      BY <3>1 DEF Informed, Creating
    <3>2. CASE pc'[r] = "approve" /\ sheet'[r] = sheet[r] /\ sheet[r].wanted = "convert"
      <4>1. SUFFICES ASSUME r \notin stale PROVE paper'[sheet[r].other] = "APROBADA"
        BY <2>3, <3>2 DEF Informed, Creating
      <4>2. paper[sheet[r].other] = "APROBADA"
        BY <2>1, <3>2, <4>1 DEF InformedInv, Informed, Creating
      <4>3. sheet[r].other \in Papers
        BY <1>1, <2>1, <3>2 DEF SourcingInv, AtPaper, Sourced, Papers
      <4> QED BY <2>2, <4>2, <4>3 DEF Exists
    <3> QED BY <2>1, <3>1, <3>2
  <2> QED BY <2>5, <2>6
<1>9. ASSUME NEW r \in Requests, NEW d, NEW status, paper' = [paper EXCEPT ![d] = status],
             FinishWriting(r, d)
      PROVE  \A t \in Requests : Informed(t)'
  <2>1. OthersStay(r) /\ pc'[r] = "idle"
    BY <1>1, <1>9, FinishEffect DEF SourcingInv, PaperTypes
  <2>2. \A e \in Papers \ {d} : paper'[e] = paper[e]
    BY <1>1, <1>9 DEF SourcingInv, PaperTypes
  <2>3. \A q \in Requests \ {r} : Informed(q)'
    BY <1>9, <2>1, <2>2, ReadersTold, OthersInformed
  <2> QED BY <2>1, <2>3 DEF Informed, Creating
<1>10. ASSUME NEW r \in Requests, CutSourcing(r)
       PROVE  \A t \in Requests : Informed(t)'
  <2>1. OthersStay(r) /\ pc'[r] = "idle" /\ stale' = stale \ {r} /\ paper' = paper
    BY <1>1, <1>10, FinishEffect
       DEF SourcingInv, PaperTypes, CutSourcing, CutShort, Finish, documentVars
  <2> QED BY <2>1 DEF InformedInv, Informed, OthersStay, Creating, Open
<1>11. ASSUME NEW r \in Requests, ApproveAgain(r) \/ WritePaperStatus(r)
       PROVE  \A t \in Requests : Informed(t)'
  BY <1>9, <1>11 DEF ApproveAgain, WritePaperStatus
<1> QED BY <1>2, <1>3, <1>4, <1>5, <1>6, <1>7, <1>8, <1>10, <1>11 DEF SourcingNext

\* Steps of requests that write nothing.
LEMMA OnlyWritersWrite ==
  ASSUME [SourcingNext]_sourcingVars, paper' # paper
  PROVE  \E r \in Requests : CreateDocument(r) \/ ApproveAgain(r) \/ WritePaperStatus(r)
BY DEF SourcingNext, sourcingVars, documentVars, BeginQuote, BeginPurchase, BeginDelivery,
       BeginPaperStatus, TakeNumber, CutSourcing

LEMMA StepLeavesClosed ==
  ASSUME InformedInv, [SourcingNext]_sourcingVars, NEW d \in Quotes \cup Purchases,
         NEW r \in Requests, paper[d] = FinalStatus(d), Fresh(r)
  PROVE  paper'[d] = paper[d]
<1> SUFFICES ASSUME paper' # paper PROVE paper'[d] = paper[d]
  OBVIOUS
<1>1. PICK q \in Requests : CreateDocument(q) \/ ApproveAgain(q) \/ WritePaperStatus(q)
  BY OnlyWritersWrite
<1>2. /\ SourcingInv /\ Framed /\ AtPaper(q) /\ Informed(q)
      /\ paper = [e \in Papers |-> paper[e]] /\ d \in Papers
  BY DEF InformedInv, SourcingInv, PaperTypes, Papers
<1>3. CASE CreateDocument(q)
  <2>1. PICK e \in Papers : e = sheet[q].row /\ pc[q] = "create"
                            /\ paper' = [paper EXCEPT ![e] = FirstStatus(e)]
    BY <1>2, <1>3, CreateEffect
  <2>2. paper[e] = "none"
    BY <1>2, <2>1 DEF AtPaper, Exists
  <2> QED BY <1>2, <2>1, <2>2 DEF FinalStatus
<1>4. CASE ApproveAgain(q) \/ WritePaperStatus(q)
  <2>1. \E e : FinishWriting(q, e)
    BY <1>4 DEF ApproveAgain, WritePaperStatus
  <2>2. OthersStay(q)
    BY <1>2, <2>1, FinishEffect
  <2>3. r = q /\ q \notin stale
    BY <2>2 DEF Fresh, OthersStay
  <2>4. CASE ApproveAgain(q)
    <3>1. /\ pc[q] = "approve" /\ paper' = [paper EXCEPT ![sheet[q].other] = "APROBADA"]
          /\ paper[sheet[q].other] = "APROBADA"
      BY <1>2, <2>3, <2>4 DEF ApproveAgain, Informed
    <3> QED BY <1>2, <3>1
  <2>5. CASE WritePaperStatus(q)
    <3>1. /\ pc[q] = "status" /\ paper' = [paper EXCEPT ![sheet[q].row] = sheet[q].wanted]
          /\ Open(sheet[q].row)
      BY <1>2, <2>3, <2>5 DEF WritePaperStatus, Informed
    <3>2. sheet[q].row # d
      BY <3>1 DEF Open
    <3> QED BY <1>2, <3>1, <3>2
  <2> QED BY <1>4, <2>4, <2>5
<1> QED BY <1>1, <1>3, <1>4

\* A quote that was billed and an order that was cancelled stay so, but for
\* requests that had read them before somebody wrote them.
THEOREM ClosedStayClosed == SourcingSpec => ClosedPapersStay
<1>1. InformedInv /\ [SourcingNext]_sourcingVars =>
        [\A d \in Quotes \cup Purchases, r \in Requests :
           paper[d] = FinalStatus(d) /\ Fresh(r) => paper'[d] = paper[d]]_sourcingVars
  BY StepLeavesClosed
<1> QED BY <1>1, InitInformed, NextInformed, PTL DEF SourcingSpec, ClosedPapersStay

-----------------------------------------------------------------------------
(* The sequences of Sourcing implement NumberIssuer.                       *)

LEMMA InitSequences == SourcingInit => Issuer!Init
<1> SUFFICES ASSUME SourcingInit PROVE Issuer!Init
  OBVIOUS
<1>1. \A r \in Requests : pc[r] # "create"
  BY DEF SourcingInit, RequestsInit
<1>2. HeldNumbers = [s \in DocumentSeries |-> {}]
  BY <1>1 DEF HeldNumbers
<1>3. WrittenNumbers = [s \in DocumentSeries |-> {}]
  BY DEF WrittenNumbers, SourcingInit
<1> QED BY <1>2, <1>3 DEF Issuer!Init, SourcingInit

\* The numbers on documents, and those held, when no document is written and
\* when no request begins or ends to hold one.
LEMMA WrittenStay ==
  ASSUME \A d \in Papers : (Exists(d)' <=> Exists(d)) /\ paperNumber'[d] = paperNumber[d]
  PROVE  UNCHANGED WrittenNumbers
<1> DEFINE Now(s) == {paperNumber'[d] : d \in {x \in Papers : SeriesOf(x) = s /\ paper'[x] # "none"}}
           Before(s) == {paperNumber[d] : d \in {x \in Papers : SeriesOf(x) = s /\ paper[x] # "none"}}
<1>1. \A s \in DocumentSeries : Now(s) = Before(s)
  BY DEF Exists
<1> QED BY <1>1 DEF WrittenNumbers

LEMMA HeldStay ==
  ASSUME NEW r \in Requests, OthersStay(r), pc[r] # "create", pc'[r] # "create"
  PROVE  UNCHANGED HeldNumbers
<1> DEFINE Now(s) == {sheet'[q].number : q \in {p \in Requests :
                        pc'[p] = "create" /\ SeriesOf(sheet'[p].row) = s}}
           Before(s) == {sheet[q].number : q \in {p \in Requests :
                        pc[p] = "create" /\ SeriesOf(sheet[p].row) = s}}
<1>1. \A q \in Requests : /\ pc'[q] = "create" <=> pc[q] = "create"
                          /\ pc[q] = "create" => sheet'[q] = sheet[q]
  BY DEF OthersStay
<1>2. \A s \in DocumentSeries : Now(s) = Before(s)
  BY <1>1
<1> QED BY <1>2 DEF HeldNumbers

\* The number of a request that ends is not held any longer.
LEMMA HeldGo ==
  ASSUME SourcingInv, NEW r \in Requests, OthersStay(r), pc[r] = "create",
         pc'[r] # "create", NEW s, s = SeriesOf(sheet[r].row), NEW n, n = sheet[r].number
  PROVE  /\ s \in DocumentSeries /\ n \in HeldNumbers[s]
         /\ HeldNumbers' = [HeldNumbers EXCEPT ![s] = HeldNumbers[s] \ {n}]
<1> DEFINE Now(t) == {sheet'[q].number : q \in {p \in Requests :
                        pc'[p] = "create" /\ SeriesOf(sheet'[p].row) = t}}
           Before(t) == {sheet[q].number : q \in {p \in Requests :
                        pc[p] = "create" /\ SeriesOf(sheet[p].row) = t}}
<1>1. s \in DocumentSeries
  BY PaperFacts DEF SourcingInv, AtPaper, Sourced
<1>2. \A q \in Requests :
        /\ pc'[q] = "create" <=> q # r /\ pc[q] = "create"
        /\ q # r => sheet'[q] = sheet[q]
  BY DEF OthersStay
<1>3. \A q \in Requests : q # r /\ pc[q] = "create" /\ SeriesOf(sheet[q].row) = s
                            => sheet[q].number # n
  BY DEF SourcingInv, HeldApart
<1>4. n \in Before(s)
  OBVIOUS
<1>5. ASSUME NEW t \in DocumentSeries
      PROVE  Now(t) = IF t = s THEN Before(t) \ {n} ELSE Before(t)
  <2> DEFINE rest == {sheet[q].number : q \in {p \in Requests :
                        p # r /\ pc[p] = "create" /\ SeriesOf(sheet[p].row) = t}}
  <2>1. Now(t) = rest
    BY <1>2
  <2>2. Before(t) = rest \cup IF t = s THEN {n} ELSE {}
    OBVIOUS
  <2>3. t = s => n \notin rest
    BY <1>3
  <2> HIDE DEF rest
  <2> QED BY <2>1, <2>2, <2>3
<1>6. /\ HeldNumbers = [t \in DocumentSeries |-> Before(t)]
      /\ HeldNumbers' = [t \in DocumentSeries |-> Now(t)]
  BY DEF HeldNumbers
<1> HIDE DEF Now, Before
<1> QED BY <1>1, <1>4, <1>5, <1>6

LEMMA SequenceStep ==
  ASSUME NEW s \in DocumentSeries
  PROVE  /\ Issuer!Take(s) => Issuer!Next
         /\ \A n \in HeldNumbers[s] : /\ Issuer!Write(s, n) => Issuer!Next
                                      /\ Issuer!Drop(s, n) => Issuer!Next
BY Zenon DEF Issuer!Next

LEMMA TakeNumberIsTake ==
  ASSUME SourcingInv, NEW r \in Requests, TakeNumber(r)
  PROVE  Issuer!Next
<1>1. PICK d \in Papers, s \in DocumentSeries :
        /\ d = sheet[r].row /\ s = SeriesOf(d) /\ pc[r] = "number"
        /\ counter[s] + 1 <= MaxNumber
        /\ counter' = [counter EXCEPT ![s] = counter[s] + 1]
        /\ Framed' /\ OthersStay(r) /\ pc'[r] = "create"
        /\ sheet'[r].row = d /\ sheet'[r].other = sheet[r].other
        /\ sheet'[r].wanted = sheet[r].wanted /\ sheet'[r].number = counter[s] + 1
        /\ UNCHANGED documentVars
  BY TakeNumberEffect
<1> DEFINE n == counter[s] + 1
           Now(t) == {sheet'[q].number : q \in {p \in Requests :
                        pc'[p] = "create" /\ SeriesOf(sheet'[p].row) = t}}
           Before(t) == {sheet[q].number : q \in {p \in Requests :
                        pc[p] = "create" /\ SeriesOf(sheet[p].row) = t}}
<1>2. counter[s] \in Nat
  BY DEF SourcingInv, PaperTypes
<1>3. n \in 1 .. MaxNumber /\ n > counter[s]
  BY <1>1, <1>2
<1>4. UNCHANGED WrittenNumbers
  BY <1>1, WrittenStay DEF documentVars, Exists
<1>5. ASSUME NEW t \in DocumentSeries
      PROVE  Now(t) = IF t = s THEN Before(t) \cup {n} ELSE Before(t)
  <2>1. \A q \in Requests : q # r => pc'[q] = pc[q] /\ sheet'[q] = sheet[q]
    BY <1>1 DEF OthersStay
  <2>2. /\ pc'[r] = "create" /\ pc[r] # "create" /\ SeriesOf(sheet'[r].row) = s
        /\ sheet'[r].number = n
    BY <1>1
  <2> HIDE DEF n
  <2> QED BY <2>1, <2>2
<1>6. HeldNumbers' = [HeldNumbers EXCEPT ![s] = HeldNumbers[s] \cup {n}]
  BY <1>5 DEF HeldNumbers
<1>7. Issuer!Take(s)
  BY <1>1, <1>3, <1>4, <1>6 DEF Issuer!Take
<1> QED BY <1>7, SequenceStep

LEMMA CreateIsWrite ==
  ASSUME SourcingInv, NEW r \in Requests, CreateDocument(r)
  PROVE  Issuer!Next
<1>1. PICK d \in Papers :
        /\ d = sheet[r].row /\ pc[r] = "create"
        /\ paper' = [paper EXCEPT ![d] = FirstStatus(d)]
        /\ origin' = [origin EXCEPT ![d] = sheet[r].other]
        /\ paperNumber' = [paperNumber EXCEPT ![d] = sheet[r].number]
        /\ Framed' /\ OthersStay(r)
        /\ \/ pc'[r] = "idle" /\ sheet'[r] = Blank
           \/ pc'[r] = "approve" /\ sheet'[r] = sheet[r] /\ sheet[r].wanted = "convert"
        /\ UNCHANGED <<approved, counter>>
  BY CreateEffect
<1>2. PICK s, n : s = SeriesOf(d) /\ n = sheet[r].number
  OBVIOUS
<1> DEFINE Now(t) == {paperNumber'[e] : e \in {x \in Papers : SeriesOf(x) = t /\ paper'[x] # "none"}}
           Before(t) == {paperNumber[e] : e \in {x \in Papers : SeriesOf(x) = t /\ paper[x] # "none"}}
<1>3. /\ s \in DocumentSeries /\ n \in HeldNumbers[s]
      /\ HeldNumbers' = [HeldNumbers EXCEPT ![s] = HeldNumbers[s] \ {n}]
  BY <1>1, <1>2, HeldGo
<1>4. /\ paper[d] = "none" /\ FirstStatus(d) # "none" /\ PaperTypes
  BY <1>1, PaperFacts DEF SourcingInv, AtPaper, Exists
<1>5. \A e \in Papers :
        /\ paper'[e] = IF e = d THEN FirstStatus(d) ELSE paper[e]
        /\ paperNumber'[e] = IF e = d THEN n ELSE paperNumber[e]
  BY <1>1, <1>2, <1>4 DEF PaperTypes
<1>6. n \notin WrittenNumbers[s]
  BY <1>1, <1>2, <1>3 DEF SourcingInv, HeldApart, WrittenNumbers, Exists
<1>7. ASSUME NEW t \in DocumentSeries
      PROVE  Now(t) = IF t = s THEN Before(t) \cup {n} ELSE Before(t)
  BY <1>2, <1>4, <1>5
<1>8. WrittenNumbers' = [WrittenNumbers EXCEPT ![s] = WrittenNumbers[s] \cup {n}]
  BY <1>7 DEF WrittenNumbers
<1>9. Issuer!Write(s, n)
  BY <1>1, <1>3, <1>6, <1>8 DEF Issuer!Write
<1> QED BY <1>3, <1>9, SequenceStep

\* The end of a request that holds a number drops it.
LEMMA CutIsDrop ==
  ASSUME SourcingInv, NEW r \in Requests, CutSourcing(r)
  PROVE  [Issuer!Next]_(Issuer!issuerVars)
<1>1. /\ OthersStay(r) /\ pc'[r] = "idle" /\ UNCHANGED <<documentVars, counter>>
  BY FinishEffect DEF SourcingInv, PaperTypes, CutSourcing
<1>2. UNCHANGED <<WrittenNumbers, counter>>
  BY <1>1, WrittenStay DEF documentVars, Exists
<1>3. CASE pc[r] # "create"
  BY <1>1, <1>2, <1>3, HeldStay DEF Issuer!issuerVars
<1>4. CASE pc[r] = "create"
  <2>1. PICK s, n : s = SeriesOf(sheet[r].row) /\ n = sheet[r].number
    OBVIOUS
  <2>2. /\ s \in DocumentSeries /\ n \in HeldNumbers[s]
        /\ HeldNumbers' = [HeldNumbers EXCEPT ![s] = HeldNumbers[s] \ {n}]
    BY <1>1, <1>4, <2>1, HeldGo
  <2>3. Issuer!Drop(s, n)
    BY <1>2, <2>2 DEF Issuer!Drop
  <2> QED BY <2>2, <2>3, SequenceStep
<1> QED BY <1>3, <1>4

\* Beginning a request, and writing a status.
LEMMA OthersStutter ==
  ASSUME SourcingInv, NEW r \in Requests, OthersStay(r), pc[r] # "create", pc'[r] # "create",
         UNCHANGED <<paperNumber, counter>>,
         \A d \in Papers : Exists(d)' <=> Exists(d)
  PROVE  UNCHANGED Issuer!issuerVars
BY HeldStay, WrittenStay DEF Issuer!issuerVars

LEMMA StatusStutters ==
  ASSUME SourcingInv, NEW r \in Requests, NEW d \in Papers, Exists(d),
         NEW status, status # "none", paper' = [paper EXCEPT ![d] = status],
         pc[r] # "create", FinishWriting(r, d), UNCHANGED <<paperNumber, counter>>
  PROVE  UNCHANGED Issuer!issuerVars
<1>1. OthersStay(r) /\ pc'[r] = "idle"
  BY FinishEffect DEF SourcingInv, PaperTypes
<1>2. \A e \in Papers : Exists(e)' <=> Exists(e)
  BY DEF SourcingInv, PaperTypes, Exists
<1> QED BY <1>1, <1>2, OthersStutter

LEMMA BeginStutters ==
  ASSUME SourcingInv, NEW r \in Requests, NEW label, NEW page, label # "create",
         Begin(r, label, page), UNCHANGED <<documentVars, counter>>
  PROVE  UNCHANGED Issuer!issuerVars
<1>1. OthersStay(r) /\ pc'[r] = label /\ pc[r] = "idle"
  BY BeginEffect DEF SourcingInv, PaperTypes
<1> QED BY <1>1, OthersStutter DEF documentVars, Exists

LEMMA StepImplementsSequences ==
  ASSUME SourcingInv, [SourcingNext]_sourcingVars
  PROVE  [Issuer!Next]_(Issuer!issuerVars)
<1>1. CASE UNCHANGED sourcingVars
  BY <1>1 DEF sourcingVars, requestVars, Issuer!issuerVars, HeldNumbers, WrittenNumbers
<1>2. ASSUME NEW r \in Requests,
             \/ \E q \in Quotes : BeginQuote(r, q)
             \/ \E p \in Purchases, q \in Quotes, way \in {"create", "convert"} :
                  BeginPurchase(r, p, q, way)
             \/ \E d \in Deliveries, p \in Purchases : BeginDelivery(r, d, p)
             \/ \E d \in Quotes \cup Purchases : \E wanted \in StatusesOf(d) \cap Wanted :
                  BeginPaperStatus(r, d, wanted)
      PROVE  UNCHANGED Issuer!issuerVars
  <2>1. /\ UNCHANGED <<documentVars, counter>>
        /\ \E label \in {"number", "status"} : \E page : Begin(r, label, page)
    BY <1>2 DEF BeginQuote, BeginPurchase, BeginDelivery, BeginPaperStatus
  <2> QED BY <2>1, BeginStutters
<1>3. ASSUME NEW r \in Requests, ApproveAgain(r) PROVE UNCHANGED Issuer!issuerVars
  <2>1. sheet[r].other \in Papers /\ Exists(sheet[r].other) /\ pc[r] = "approve"
    BY <1>3 DEF ApproveAgain, SourcingInv, AtPaper, Papers
  <2> QED BY <1>3, <2>1, StatusStutters DEF ApproveAgain
<1>4. ASSUME NEW r \in Requests, WritePaperStatus(r) PROVE UNCHANGED Issuer!issuerVars
  <2>1. /\ sheet[r].row \in Papers /\ Exists(sheet[r].row) /\ pc[r] = "status"
        /\ sheet[r].wanted # "none"
    BY <1>4, PaperFacts DEF WritePaperStatus, SourcingInv, AtPaper, Papers
  <2> QED BY <1>4, <2>1, StatusStutters DEF WritePaperStatus
<1> QED BY <1>1, <1>2, <1>3, <1>4, TakeNumberIsTake, CreateIsWrite, CutIsDrop DEF SourcingNext

\* A sequence gives increasing numbers, each to one document, although the
\* document is written after the transaction that took its number.
THEOREM SequencesImplementIssuer == SourcingSpec => SequencesAreIssuers
BY InitSequences, InitSourcingInv, NextSourcingInv, StepImplementsSequences, PTL
   DEF SourcingSpec, SequencesAreIssuers, Issuer!Spec

-----------------------------------------------------------------------------
(* Ranges of Factus: whose row a request has read and nobody has written   *)
(* since still finds in it the range that it read, or none.                *)

USE FactusSyncAssumption

OwnRange(s, k) == k \in RangeIds /\ factusRange[k] = s

Syncing(r) ==
  /\ pc[r] \in {"idle"} \cup SyncPC
  /\ pc[r] = "askFactus" =>
       /\ sheet[r].row \in SyncedResolutions
       /\ sheet[r].number = 0 \/ OwnRange(sheet[r].row, sheet[r].number)
       /\ r \notin stale => sheet[r].number = rangeId[sheet[r].row]
  /\ pc[r] = "storeRange" =>
       /\ sheet[r].row \in SyncedResolutions
       /\ OwnRange(sheet[r].row, sheet[r].number)
       /\ r \notin stale => rangeId[sheet[r].row] \in {0, sheet[r].number}
  /\ pc[r] \in {"sendCompany", "markSynced"} => sheet[r].wanted \in CompanyData

SyncInv ==
  /\ Framed
  /\ factusRange \in [RangeIds -> SyncedResolutions \cup {None}]
  /\ rangeId \in [SyncedResolutions -> Nat]
  /\ company \in CompanyData /\ factusCompany \in CompanyData \cup {None}
  /\ isSyncedToFactus \in BOOLEAN
  /\ \A s \in SyncedResolutions : rangeId[s] = 0 \/ OwnRange(s, rangeId[s])
  /\ \A r \in Requests : Syncing(r)

LEMMA InitSync == SyncInit => SyncInv
<1> SUFFICES ASSUME SyncInit PROVE SyncInv
  OBVIOUS
<1>1. Framed /\ \A r \in Requests : Syncing(r)
  BY RequestsFramed DEF SyncInit, Syncing, SyncPC
<1> QED BY <1>1 DEF SyncInit, SyncInv

\* A step of one request that writes no resolution; ranges keep their owners.
LEMMA SyncStep ==
  ASSUME SyncInv, NEW r \in Requests, Framed', OthersStay(r), Syncing(r)',
         factusRange' \in [RangeIds -> SyncedResolutions \cup {None}],
         \A k \in RangeIds : factusRange[k] # None => factusRange'[k] = factusRange[k],
         rangeId' = rangeId, stale' \cup {r} = stale \cup {r},
         company' = company, factusCompany' \in CompanyData \cup {None},
         isSyncedToFactus' \in BOOLEAN
  PROVE  SyncInv'
<1>1. ASSUME NEW s \in SyncedResolutions, NEW k, OwnRange(s, k) PROVE OwnRange(s, k)'
  BY <1>1 DEF OwnRange
<1>2. ASSUME NEW q \in Requests \ {r} PROVE Syncing(q)'
  <2>1. /\ Syncing(q) /\ pc'[q] = pc[q] /\ sheet'[q] = sheet[q]
        /\ q \in stale' <=> q \in stale
    BY DEF SyncInv, OthersStay
  <2> QED BY <1>1, <2>1 DEF Syncing, SyncPC
<1>3. \A s \in SyncedResolutions : rangeId'[s] = 0 \/ OwnRange(s, rangeId[s])'
  BY <1>1 DEF SyncInv
<1> QED BY <1>2, <1>3 DEF SyncInv

LEMMA AskKeeps ==
  ASSUME SyncInv, NEW r \in Requests, AskFactus(r)
  PROVE  SyncInv'
<1>1. /\ Syncing(r) /\ Framed /\ pc[r] = "askFactus"
      /\ UNCHANGED <<rangeId, companyVars, stale>>
  BY DEF AskFactus, SyncInv
<1>2. PICK s \in SyncedResolutions : s = sheet[r].row
  BY <1>1 DEF Syncing
<1>3. CASE NewToFactus(sheet[r].number)
  <2>1. PICK k \in RangeIds :
          /\ factusRange[k] = None /\ factusRange' = [factusRange EXCEPT ![k] = s]
          /\ Carry(r, "storeRange", Sheet(s, None, None, k))
    BY <1>2, <1>3 DEF AskFactus
  <2>2. /\ Framed' /\ OthersStay(r) /\ pc'[r] = "storeRange"
        /\ sheet'[r] = Sheet(s, None, None, k)
    BY <1>1, <2>1, CarryEffect
  <2>3. sheet'[r].row = s /\ sheet'[r].number = k
    BY <2>2 DEF Sheet
  <2>4. OwnRange(s, k)'
    BY <2>1 DEF OwnRange, SyncInv
  <2>5. sheet[r].number = 0 /\ (r \notin stale => rangeId[s] = 0)
    BY <1>1, <1>2, <1>3 DEF Syncing, NewToFactus
  <2>6. Syncing(r)'
    BY <1>1, <2>2, <2>3, <2>4, <2>5 DEF Syncing, SyncPC
  <2>7. /\ factusRange' \in [RangeIds -> SyncedResolutions \cup {None}]
        /\ \A j \in RangeIds : factusRange[j] # None => factusRange'[j] = factusRange[j]
    BY <2>1 DEF SyncInv
  <2> QED BY <1>1, <2>2, <2>6, <2>7, SyncStep DEF companyVars, SyncInv
<1>4. CASE ~NewToFactus(sheet[r].number)
  <2>1. Goto(r, "storeRange") /\ UNCHANGED factusRange
    BY <1>4 DEF AskFactus
  <2>2. Framed' /\ OthersStay(r) /\ pc'[r] = "storeRange" /\ sheet'[r] = sheet[r]
    BY <1>1, <2>1, GotoEffect
  <2>3. Syncing(r)'
    BY <1>1, <1>4, <2>1, <2>2 DEF Syncing, SyncPC, NewToFactus, OwnRange
  <2> QED BY <1>1, <2>1, <2>2, <2>3, SyncStep DEF companyVars, SyncInv
<1> QED BY <1>3, <1>4

LEMMA StoreKeeps ==
  ASSUME SyncInv, NEW r \in Requests, StoreRange(r)
  PROVE  SyncInv'
<1>1. PICK s \in SyncedResolutions, k \in RangeIds :
        /\ s = sheet[r].row /\ k = sheet[r].number /\ OwnRange(s, k)
        /\ rangeId' = [rangeId EXCEPT ![s] = k] /\ FinishWriting(r, s)
        /\ UNCHANGED <<factusRange, companyVars>>
  BY DEF StoreRange, SyncInv, Syncing, OwnRange
<1>2. Framed' /\ OthersStay(r) /\ pc'[r] = "idle"
  BY <1>1, FinishEffect DEF SyncInv
<1>3. ASSUME NEW q \in Requests \ {r} PROVE Syncing(q)'
  <2>1. /\ Syncing(q) /\ pc'[q] = pc[q] /\ sheet'[q] = sheet[q]
        /\ q \notin stale' => q \notin stale /\ (Active(q) => s \notin Rows(sheet[q]))
    BY <1>1, <1>2, ReadersTold DEF SyncInv, OthersStay
  <2>2. \A t \in SyncedResolutions \ {s} : rangeId'[t] = rangeId[t]
    BY <1>1 DEF SyncInv
  <2>3. q \notin stale' /\ Active(q) => sheet[q].row # s
    BY <2>1 DEF Rows
  <2> QED BY <1>1, <2>1, <2>2, <2>3 DEF Syncing, SyncPC, Active, OwnRange
<1>4. Syncing(r)'
  BY <1>2 DEF Syncing, SyncPC
<1>5. /\ rangeId' \in [SyncedResolutions -> Nat]
      /\ \A t \in SyncedResolutions : rangeId'[t] = 0 \/ OwnRange(t, rangeId[t])'
  BY <1>1 DEF SyncInv, OwnRange, RangeIds
<1> QED BY <1>1, <1>2, <1>3, <1>4, <1>5 DEF SyncInv, companyVars

LEMMA NextSync ==
  ASSUME SyncInv, [SyncNext]_syncVars
  PROVE  SyncInv'
<1>1. CASE UNCHANGED syncVars
  BY <1>1 DEF syncVars, requestVars, rangeVars, companyVars, SyncInv, Framed, Syncing, OwnRange
<1>2. ASSUME NEW data \in CompanyData, UpdateCompany(data) PROVE SyncInv'
  <2>1. /\ company' = data /\ stale \subseteq stale'
        /\ UNCHANGED <<pc, sheet, rangeVars, factusCompany, isSyncedToFactus>>
    BY <1>2 DEF UpdateCompany
  <2>2. ASSUME NEW q \in Requests PROVE Syncing(q)'
    <3>1. Syncing(q)
      BY DEF SyncInv
    <3> QED BY <2>1, <3>1 DEF Syncing, OwnRange, rangeVars
  <2> QED BY <2>1, <2>2 DEF SyncInv, Framed, OwnRange, rangeVars
<1>3. ASSUME NEW r \in Requests, NEW s \in SyncedResolutions, BeginSyncRange(r, s)
      PROVE  SyncInv'
  <2>1. /\ Framed' /\ OthersStay(r) /\ pc'[r] = "askFactus"
        /\ sheet'[r] = Sheet(s, None, None, rangeId[s])
        /\ UNCHANGED <<rangeVars, companyVars, stale>>
    BY <1>3, BeginEffect DEF BeginSyncRange, Begin, SyncInv
  <2>2. sheet'[r].row = s /\ sheet'[r].number = rangeId[s]
    BY <2>1 DEF Sheet
  <2>3. Syncing(r)'
    BY <2>1, <2>2 DEF SyncInv, Syncing, SyncPC, OwnRange, rangeVars
  <2> QED BY <2>1, <2>3, SyncStep DEF rangeVars, companyVars, SyncInv
<1>4. ASSUME NEW r \in Requests, BeginSyncCompany(r) PROVE SyncInv'
  <2>1. /\ Framed' /\ OthersStay(r) /\ pc'[r] = "sendCompany"
        /\ sheet'[r] = Sheet("company", None, company, 0)
        /\ UNCHANGED <<rangeVars, companyVars, stale>>
    BY <1>4, BeginEffect DEF BeginSyncCompany, Begin, SyncInv
  <2>2. sheet'[r].wanted = company
    BY <2>1 DEF Sheet
  <2>3. Syncing(r)'
    BY <2>1, <2>2 DEF SyncInv, Syncing, SyncPC
  <2> QED BY <2>1, <2>3, SyncStep DEF rangeVars, companyVars, SyncInv
<1>5. ASSUME NEW r \in Requests, SendCompany(r) PROVE SyncInv'
  <2>1. /\ Framed' /\ OthersStay(r) /\ pc'[r] = "markSynced" /\ sheet'[r] = sheet[r]
        /\ pc[r] = "sendCompany" /\ factusCompany' = sheet[r].wanted
        /\ UNCHANGED <<rangeVars, company, isSyncedToFactus, stale>>
    BY <1>5, GotoEffect DEF SendCompany, SyncInv
  <2>2. sheet[r].wanted \in CompanyData
    BY <2>1 DEF SyncInv, Syncing
  <2>3. Syncing(r)'
    BY <2>1, <2>2 DEF Syncing, SyncPC
  <2> QED BY <2>1, <2>2, <2>3, SyncStep DEF rangeVars, SyncInv
<1>6. ASSUME NEW r \in Requests, MarkSynced(r) \/ CutSync(r) PROVE SyncInv'
  <2>1. Finish(r)
    BY <1>6 DEF MarkSynced, CutSync, CutShort
  <2>2. /\ Framed' /\ OthersStay(r) /\ pc'[r] = "idle" /\ stale' = stale \ {r}
    BY <2>1, FinishEffect DEF SyncInv, Finish
  <2>3. Syncing(r)'
    BY <2>2 DEF Syncing, SyncPC
  <2>4. /\ UNCHANGED <<rangeVars, company, factusCompany>>
        /\ isSyncedToFactus' \in BOOLEAN
    BY <1>6 DEF MarkSynced, CutSync, companyVars, SyncInv
  <2> QED BY <2>2, <2>3, <2>4, SyncStep DEF rangeVars, SyncInv
<1> QED BY <1>1, <1>2, <1>3, <1>4, <1>5, <1>6, AskKeeps, StoreKeeps DEF SyncNext

\* The step of a request that is not stale drops no range.
LEMMA StepDropsNoRange ==
  ASSUME SyncInv, [SyncNext]_syncVars, NEW k \in RangeIds, NEW r \in Requests,
         Fresh(r), rangeId' # rangeId, ~Orphan(k)
  PROVE  ~Orphan(k)'
<1>1. PICK q \in Requests : StoreRange(q)
  BY DEF SyncNext, syncVars, rangeVars, UpdateCompany, BeginSyncRange, AskFactus,
         BeginSyncCompany, SendCompany, MarkSynced, CutSync
<1>2. PICK s \in SyncedResolutions, n \in RangeIds :
        /\ s = sheet[q].row /\ n = sheet[q].number /\ OwnRange(s, n)
        /\ q \notin stale => rangeId[s] \in {0, n}
        /\ rangeId' = [rangeId EXCEPT ![s] = n] /\ FinishWriting(q, s)
        /\ factusRange' = factusRange
  BY <1>1 DEF StoreRange, SyncInv, Syncing, OwnRange
<1>3. OthersStay(q)
  BY <1>2, FinishEffect DEF SyncInv
<1>4. r = q /\ rangeId[s] \in {0, n}
  BY <1>2, <1>3 DEF Fresh, OthersStay
<1>5. SUFFICES ASSUME factusRange[k] # None, rangeId'[factusRange[k]] # k
               PROVE  \E t \in Requests : pc'[t] = "storeRange" /\ sheet'[t].number = k
  BY <1>2 DEF Orphan
<1>6. factusRange[k] \in SyncedResolutions
  BY <1>5 DEF SyncInv
<1>7. rangeId[factusRange[k]] # k
  <2>1. CASE factusRange[k] = s
    BY <1>2, <1>4, <1>5, <2>1 DEF SyncInv, RangeIds
  <2>2. CASE factusRange[k] # s
    BY <1>2, <1>5, <1>6, <2>2 DEF SyncInv
  <2> QED BY <2>1, <2>2
<1>8. PICK t \in Requests : pc[t] = "storeRange" /\ sheet[t].number = k
  BY <1>5, <1>7 DEF Orphan
<1>9. t # q
  BY <1>2, <1>5, <1>8 DEF SyncInv, OwnRange
<1> QED BY <1>3, <1>8, <1>9 DEF OthersStay

\* The rows, what Factus has and the sheets of synchronisation keep their
\* types.
THEOREM SyncTypes == SyncSpec => []SyncTypeOK
<1>1. ASSUME SyncInv PROVE SyncTypeOK
  <2>1. RangeIds \subseteq Nat
    BY DEF RangeIds
  <2>2. ASSUME NEW r \in Requests
        PROVE  /\ pc[r] \in {"askFactus", "storeRange"} =>
                    sheet[r].row \in SyncedResolutions /\ sheet[r].number \in Nat
               /\ pc[r] \in {"sendCompany", "markSynced"} => sheet[r].wanted \in CompanyData
    <3>1. Syncing(r)
      BY <1>1 DEF SyncInv
    <3>2. sheet[r].number = 0 => sheet[r].number \in Nat
      OBVIOUS
    <3> QED BY <2>1, <3>1, <3>2 DEF Syncing, OwnRange
  <2> QED BY <1>1, <2>2 DEF SyncInv, SyncTypeOK
<1> QED BY <1>1, InitSync, NextSync, PTL DEF SyncSpec

\* However synchronisations overlap, one whose resolution nobody has written
\* since it read it leaves no range of Factus without owner.
THEOREM RangesStayKnown == SyncSpec => RangesAreNotLost
<1>1. SyncInv /\ [SyncNext]_syncVars =>
        [\A k \in RangeIds, r \in Requests :
           Fresh(r) /\ rangeId' # rangeId /\ ~Orphan(k) => ~Orphan(k)']_syncVars
  BY StepDropsNoRange
<1> QED BY <1>1, InitSync, NextSync, PTL DEF SyncSpec, RangesAreNotLost
=============================================================================
