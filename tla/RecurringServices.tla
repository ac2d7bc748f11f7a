-------------------------- MODULE RecurringServices --------------------------
(***************************************************************************)
(* The recurring services of the company, each with a category and a       *)
(* subcategory of it.  An update validates the references that it is       *)
(* given, together when it is given both, and writes those alone.          *)
(* Amounts, dates and the records of the audit are left out.               *)
(***************************************************************************)
EXTENDS OfficeRequests

CONSTANTS Recurring, Categories,
          SubcategoryNames   \* of each category

ASSUME RecurringAssumption ==
  None \notin Recurring \cup Categories \cup (Categories \X SubcategoryNames)

VARIABLES recurring,  \* the rows
          halfMoved   \* history: rows given a category or a subcategory alone

recurringVars == <<requestVars, recurring, halfMoved>>

\* A subcategory stays in the category that it was created in.
Subcategories == Categories \X SubcategoryNames
CategoryOf(sub) == sub[1]

RecurringStatus == {"ACTIVO", "PAGADO", "CANCELADO"}
RecurringPC == {"add", "move"}
RecurringRow(status, category, sub) ==
  [status |-> status, category |-> category, sub |-> sub]

RecurringInit ==
  /\ RequestsInit
  /\ recurring = [x \in Recurring |-> RecurringRow("none", None, None)]
  /\ halfMoved = {}

Kept(x) == recurring[x].status # "none"

\* validateReferences, of references that exist: a subcategory is compared
\* with a category that comes with it; also, it is not.
ExistAlone(category, sub) == TRUE
ValidReferences(category, sub) ==
  None \notin {category, sub} => CategoryOf(sub) = category

-----------------------------------------------------------------------------
\* create, of which the request gives both.
BeginRecurring(r, x, category, sub) ==
  /\ ~Kept(x) /\ Free(x) /\ None \notin {category, sub} /\ ValidReferences(category, sub)
  /\ Begin(r, "add", Sheet(x, category, sub, 0))
  /\ UNCHANGED <<recurring, halfMoved>>

CreateRecurring(r) ==
  LET x == sheet[r].row IN
  /\ pc[r] = "add"
  /\ recurring' = [recurring EXCEPT ![x] =
                     RecurringRow("ACTIVO", sheet[r].other, sheet[r].wanted)]
  /\ FinishWriting(r, x)
  /\ UNCHANGED halfMoved

\* update; what is not given, None, keeps the value of the row.
BeginMove(r, x, category, sub) ==
  /\ Kept(x) /\ ValidReferences(category, sub)
  /\ Begin(r, "move", Sheet(x, category, sub, 0))
  /\ UNCHANGED <<recurring, halfMoved>>

Given(value, otherwise) == IF value = None THEN otherwise ELSE value

MoveRecurring(r) ==
  LET x == sheet[r].row
      row == recurring[x]
  IN
  /\ pc[r] = "move"
  /\ recurring' = [recurring EXCEPT ![x] = RecurringRow(row.status,
       Given(sheet[r].other, row.category), Given(sheet[r].wanted, row.sub))]
  /\ halfMoved' = IF None \in {sheet[r].other, sheet[r].wanted}
                  THEN halfMoved \cup {x} ELSE halfMoved \ {x}
  /\ FinishWriting(r, x)

\* updateStatus: any status, whatever the service is.
SetRecurringStatus(x, status) ==
  /\ Kept(x)
  /\ recurring' = [recurring EXCEPT ![x] =
                     RecurringRow(status, recurring[x].category, recurring[x].sub)]
  /\ UNCHANGED <<requestVars, halfMoved>>

CutRecurring(r) == CutShort(r) /\ UNCHANGED <<recurring, halfMoved>>

RecurringNext ==
  \/ \E x \in Recurring, status \in RecurringStatus \cap Wanted : SetRecurringStatus(x, status)
  \/ \E r \in Requests :
       \/ \E x \in Recurring, category \in Categories \cup {None},
             sub \in Subcategories \cup {None} :
            BeginRecurring(r, x, category, sub) \/ BeginMove(r, x, category, sub)
       \/ CreateRecurring(r) \/ MoveRecurring(r) \/ CutRecurring(r)

RecurringSpec == RecurringInit /\ [][RecurringNext]_recurringVars

-----------------------------------------------------------------------------
\* Types of the rows and of the sheets of this desk.
RecurringTypeOK ==
  /\ recurring \in [Recurring -> [status : RecurringStatus \cup {"none"},
       category : Categories \cup {None}, sub : Subcategories \cup {None}]]
  /\ halfMoved \subseteq Recurring
  /\ \A r \in Requests : pc[r] \in RecurringPC =>
        /\ sheet[r].row \in Recurring /\ sheet[r].other \in Categories \cup {None}
        /\ sheet[r].wanted \in Subcategories \cup {None}

\* The subcategory of a service is one of its category, whatever updates
\* cross, unless the last update gave one of the two alone
\* (validateReferences returns before it compares them).
SubcategoryFits ==
  \A x \in Recurring \ halfMoved :
     recurring[x].sub # None => CategoryOf(recurring[x].sub) = recurring[x].category
=============================================================================
