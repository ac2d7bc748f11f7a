---------------------------- MODULE CreditNotes ----------------------------
(***************************************************************************)
(* Credit and debit notes: createNote and emitNote of InvoicesService.     *)
(* The write of the answer of Factus is guarded (updateMany on a note that *)
(* is still a draft); the credit is applied to the invoice afterwards, in  *)
(* two statements that no transaction binds together.                      *)
(***************************************************************************)
EXTENDS Receivables

\* createNote: findOne of the invoice.
BeginNote(r, n) ==
  /\ n \in Notes \ existing
  /\ \A q \in Requests : work[q].note # n
  /\ Start(r, Source[n],
           IF NeedsSync(Source[n], ReadRow(Source[n])) THEN "sync" ELSE "note")
  /\ work' = [work EXCEPT ![r] = 
                Locals(Source[n], n, 0, "note", ReadRow(Source[n]))]
  /\ UNCHANGED <<ledgerVars, existing, validated, late, payments, credited, taken>>

\* aggregate: the credit notes of s that are not cancelled.
NotesTotal(s) ==
  SumFunctionOnSet(Total,
    {n \in existing \cap Notes : /\ Source[n] = s
                                 /\ KindOf[n] = "NOTA_CREDITO"
                                 /\ status[n] # "CANCELADA"})

WithinCap(n) ==
  KindOf[n] = "NOTA_CREDITO" =>
    NotesTotal(Source[n]) + Total[n] <= Total[Source[n]]

CheckNote(r) ==
  LET s == work[r].doc IN
  /\ pc[r] = "note"
  /\ IF /\ s \in Invoices /\ s \in validated
        /\ IsNoteSourceStatus(work[r].seen.status)
        /\ WithinCap(work[r].note)
     THEN Goto(r, "create")
     ELSE Finish(r)
  /\ UNCHANGED <<ledgerVars, existing, validated, late, payments, credited, taken>>

CreateNote(r) ==
  LET n == work[r].note IN
  /\ pc[r] = "create"
  /\ existing' = existing \cup {n}
  /\ Finish(r)
  /\ UNCHANGED <<ledgerVars, validated, late, payments, credited, taken>>

-----------------------------------------------------------------------------
\* emit of a note: findOne and the check that it is a draft.
BeginEmitNote(r, n) ==
  /\ n \in Notes
  /\ status[n] = "BORRADOR"
  /\ Start(r, n, "send")
  /\ work' = [work EXCEPT ![r] = Locals(n, n, 0, "view", NoRow)]
  /\ UNCHANGED <<ledgerVars, existing, validated, late, payments, credited, taken>>

\* Factus answers; it knows a note by its referenceCode and validates it once.
SendNote(r) ==
  LET n == work[r].note IN
  /\ pc[r] = "send"
  /\ \/ /\ n \notin validated
        /\ validated' = validated \cup {n}
        /\ pc' = [pc EXCEPT ![r] = "persist"]
        /\ work' = [work EXCEPT ![r].verdict = "accepted"]
     \/ /\ n \notin validated
        /\ pc' = [pc EXCEPT ![r] = "persist"]
        /\ work' = [work EXCEPT ![r].verdict = "rejected"]
        /\ UNCHANGED validated
     \/ Finish(r) /\ UNCHANGED validated     \* it exists already, or an error
     \/ Finish(r) /\ validated' = validated \cup {n}       \* the answer is lost
  /\ UNCHANGED <<ledgerVars, existing, late, payments, credited, taken>>

\* The note's WHERE; and an update of the note whatever its status.
AnyNote(n) == TRUE
StillDraft(n) == status[n] = "BORRADOR"

\* The credit is applied only when the DIAN accepted; and always.
AppliesAlways(r) == KindOf[work[r].note] = "NOTA_CREDITO"
Applies(r) ==
  KindOf[work[r].note] = "NOTA_CREDITO" /\ work[r].verdict = "accepted"

\* A rejected note stays a draft; and the DIAN's own word.
DianWord(r) == IF work[r].verdict = "rejected" THEN "RECHAZADA" ELSE "EMITIDA"
WrittenStatus(r) ==
  IF work[r].verdict = "rejected" THEN "BORRADOR" ELSE "EMITIDA"

PersistNote(r) ==
  LET n == work[r].note IN
  /\ pc[r] = "persist"
  /\ IF StillDraft(n)
     THEN /\ status' = [status EXCEPT ![n] = WrittenStatus(r)]
          /\ IF Applies(r) THEN Goto(r, "reload") ELSE Finish(r)
     ELSE Finish(r) /\ UNCHANGED status
  /\ UNCHANGED <<paid, balance, credit, existing, validated, late, payments,
                 credited, taken>>

\* The source is read again, and then overwritten with what the note leaves.
ReloadSource(r) ==
  LET n == work[r].note IN
  /\ pc[r] = "reload"
  /\ pc' = [pc EXCEPT ![r] = "apply"]
  /\ work' = [work EXCEPT ![r].seen = ReadRow(Source[n])]
  /\ UNCHANGED <<ledgerVars, existing, validated, late, payments, credited, taken>>

\* What a note leaves of a position; and one that credits its whole amount
\* on top of lowering the balance.
DoubleCredit(s, row, amount) ==
  LET pos == ApplyCredit(Total[s], s \in late,
                         [balance |-> row.balance, credit |-> row.credit,
                          status |-> row.status], amount)
  IN  [pos EXCEPT !.credit = row.credit + amount]
PositionAfter(s, row, amount) ==
  ApplyCredit(Total[s], s \in late,
              [balance |-> row.balance, credit |-> row.credit,
               status |-> row.status], amount)

ApplyNote(r) ==
  LET n   == work[r].note
      s   == Source[n]
      pos == PositionAfter(s, work[r].seen, Total[n])
  IN
  /\ pc[r] = "apply"
  /\ balance' = [balance EXCEPT ![s] = pos.balance]
  /\ credit' = [credit EXCEPT ![s] = pos.credit]
  /\ status' = [status EXCEPT ![s] = pos.status]
  /\ credited' = [credited EXCEPT ![s] =
       IF IsFrozen(work[r].seen.status) THEN @ ELSE @ + Total[n]]
  /\ Finish(r)
  /\ UNCHANGED <<paid, existing, validated, late, payments, taken>>

NoteStep(r) ==
  \/ \E n \in Notes : BeginNote(r, n) \/ BeginEmitNote(r, n)
  \/ CheckNote(r) \/ CreateNote(r)
  \/ SendNote(r) \/ PersistNote(r) \/ ReloadSource(r) \/ ApplyNote(r)
=============================================================================
