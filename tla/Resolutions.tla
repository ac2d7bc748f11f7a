---------------------------- MODULE Resolutions ----------------------------
(***************************************************************************)
(* The numbering resolutions: their administration, the numbers they give  *)
(* to whoever asks (nextConsecutive) and to invoices emitted without       *)
(* Factus (emitLocal).  A number is taken under a row lock, after checks   *)
(* made without it.  Ranges end at MaxNumber.  Prefixes, dates and the     *)
(* number of the resolution are left out: two resolutions are taken to     *)
(* have different prefixes.                                                *)
(***************************************************************************)
EXTENDS OfficeRequests, FiniteSetsExt

CONSTANTS NResolutions,   \* bound: resolutions, in order of createdAt
          Drafts,         \* draft invoices
          MaxEdits        \* bound: creations and updates of resolutions

ASSUME ResolutionsAssumption ==
  /\ NResolutions \in Nat /\ MaxEdits \in Nat
  /\ None \notin Drafts
  /\ \A s \in 1 .. NResolutions : s \notin Drafts /\ s # None

VARIABLES resolution,   \* the rows
          edits,        \* creations and updates so far
          handed,       \* numbers that nextConsecutive returned, of each one
          invoiceNumber, resolutionId   \* of each draft: 0, None at first

resolutionRows == <<resolution, edits>>
numberVars == <<handed, invoiceNumber, resolutionId>>
resolutionVars == <<requestVars, resolutionRows, numberVars>>

ResolutionIds == 1 .. NResolutions
Numbers == 1 .. MaxNumber
ResolutionType == {"FACTURA", "NOTA_CREDITO"}
ResolutionPC == {"consecutive", "emit"}

Resolution(from, next, to, active, type) ==
  [from |-> from, next |-> next, to |-> to, isActive |-> active, type |-> type]
NoResolution == Resolution(0, 1, 0, FALSE, "none")
Created(s) == resolution[s].type # "none"

ResolutionsInit ==
  /\ RequestsInit
  /\ resolution = [s \in ResolutionIds |-> NoResolution]
  /\ edits = 0
  /\ handed = [s \in ResolutionIds |-> {}]
  /\ invoiceNumber = [i \in Drafts |-> 0]
  /\ resolutionId = [i \in Drafts |-> None]

-----------------------------------------------------------------------------
\* An optional field of a request, 0 or "none" when it is absent.
Or(value, otherwise) == IF value = 0 THEN otherwise ELSE value

\* create: dto.next ?? dto.from.
CreateResolution(from, to, next, type) ==
  \E s \in ResolutionIds :
    /\ ~Created(s) /\ \A t \in ResolutionIds : t < s => Created(t)
    /\ from <= to /\ edits < MaxEdits
    /\ resolution' = [resolution EXCEPT ![s] =
                        Resolution(from, Or(next, from), to, TRUE, type)]
    /\ edits' = edits + 1
    /\ UNCHANGED <<requestVars, numberVars>>

\* update: from and to are compared when both are given, and a new from
\* moves next back to it.
Edited(row, from, to, next, active, type) ==
  Resolution(Or(from, row.from), Or(next, Or(from, row.next)), Or(to, row.to),
             active, type)

UpdateResolution(s, from, to, next, active, type) ==
  /\ Created(s) /\ edits < MaxEdits
  /\ from # 0 /\ to # 0 => from <= to
  /\ resolution' = [resolution EXCEPT ![s] =
                      Edited(resolution[s], from, to, next, active, type)]
  /\ edits' = edits + 1
  /\ stale' = stale \cup {q \in Requests : Active(q) /\ s \in Rows(sheet[q])}
  /\ UNCHANGED <<pc, sheet, numberVars>>

-----------------------------------------------------------------------------
\* There is a number left; also, one more than there is.
LeftLate(row) == row.next <= row.to + 1
HasLeft(row) == row.next <= row.to

\* nextConsecutive: the checks on the row that was read,
BeginConsecutive(r, s) ==
  /\ Created(s) /\ resolution[s].isActive /\ HasLeft(resolution[s])
  /\ Begin(r, "consecutive", Sheet(s, None, None, 0))
  /\ UNCHANGED <<resolutionRows, numberVars>>

\* and its transaction, which locks the row and reads it again: it asks
\* whether it has a number left, not whether it is active.
Advanced(row) ==
  Resolution(row.from, row.next + 1, row.to, row.isActive, row.type)

TakeConsecutive(r) ==
  LET s == sheet[r].row
      row == resolution[s]
  IN
  /\ pc[r] = "consecutive"
  /\ IF HasLeft(row)
     THEN /\ resolution' = [resolution EXCEPT ![s] = Advanced(row)]
          /\ handed' = [handed EXCEPT ![s] = handed[s] \cup {row.next}]
          /\ FinishWriting(r, s)
     ELSE UNCHANGED <<resolution, handed>> /\ Finish(r)
  /\ UNCHANGED <<edits, invoiceNumber, resolutionId>>

\* emit without Factus: the invoice that was read is a draft.
BeginLocal(r, i) ==
  /\ invoiceNumber[i] = 0
  /\ Begin(r, "emit", Sheet(i, None, None, 0))
  /\ UNCHANGED <<resolutionRows, numberVars>>

\* The resolutions that the locking SELECT of emitLocal accepts.
Candidates == {s \in ResolutionIds : /\ resolution[s].isActive
                                     /\ resolution[s].type = "FACTURA"
                                     /\ HasLeft(resolution[s])}

\* The unique index on the number of an invoice.
OnInvoice(s, n) ==
  \E i \in Drafts : resolutionId[i] = s /\ invoiceNumber[i] = n

\* The transaction of emitLocal: the oldest candidate gives its number to the
\* invoice, which is not read again; a number that some other invoice has
\* rolls it back.
EmitLocal(r) ==
  LET i == sheet[r].row
      s == Min(Candidates)
      n == resolution[s].next
  IN
  /\ pc[r] = "emit"
  /\ IF Candidates # {} /\ ~OnInvoice(s, n)
     THEN /\ resolution' = [resolution EXCEPT ![s] = Advanced(resolution[s])]
          /\ invoiceNumber' = [invoiceNumber EXCEPT ![i] = n]
          /\ resolutionId' = [resolutionId EXCEPT ![i] = s]
          /\ FinishWriting(r, i)
     ELSE UNCHANGED <<resolution, invoiceNumber, resolutionId>> /\ Finish(r)
  /\ UNCHANGED <<edits, handed>>

CutResolutions(r) ==
  CutShort(r) /\ UNCHANGED <<resolutionRows, numberVars>>

ResolutionsNext ==
  \/ \E from, to \in Numbers, next \in {0} \cup Numbers, type \in ResolutionType :
       CreateResolution(from, to, next, type)
  \/ \E s \in ResolutionIds, from, to, next \in {0} \cup Numbers,
        active \in BOOLEAN, type \in ResolutionType :
       UpdateResolution(s, from, to, next, active, type)
  \/ \E r \in Requests :
       \/ \E s \in ResolutionIds : BeginConsecutive(r, s)
       \/ \E i \in Drafts : BeginLocal(r, i)
       \/ TakeConsecutive(r) \/ EmitLocal(r) \/ CutResolutions(r)

ResolutionsSpec == ResolutionsInit /\ [][ResolutionsNext]_resolutionVars

-----------------------------------------------------------------------------
\* Types of the rows and of the sheets of this desk.
ResolutionsTypeOK ==
  /\ resolution \in [ResolutionIds -> [from : Nat, next : Nat, to : Nat,
       isActive : BOOLEAN, type : ResolutionType \cup {"none"}]]
  /\ edits \in Nat
  /\ handed \in [ResolutionIds -> SUBSET Nat]
  /\ invoiceNumber \in [Drafts -> Nat]
  /\ resolutionId \in [Drafts -> ResolutionIds \cup {None}]
  /\ \A r \in Requests : pc[r] \in ResolutionPC =>
        /\ sheet[r].row \in IF pc[r] = "emit" THEN Drafts ELSE ResolutionIds
        /\ sheet[r].number \in Nat

InvoiceNumbers ==
  [s \in ResolutionIds |-> {invoiceNumber[i] : i \in {j \in Drafts : resolutionId[j] = s}}]

Generator == INSTANCE NumberIssuer WITH
  Series <- ResolutionIds, Editable <- ResolutionIds,
  last <- [s \in ResolutionIds |-> resolution[s].next - 1],
  top <- [s \in ResolutionIds |-> resolution[s].to],
  held <- handed, written <- InvoiceNumbers

\* What nextConsecutive and emitLocal do to a resolution is what an issuer of
\* numbers may do, whatever happens between their checks and transactions,
\* and the administrator only renumbers.
ResolutionsAreIssuers == Generator!Spec
=============================================================================
