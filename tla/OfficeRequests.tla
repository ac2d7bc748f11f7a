--------------------------- MODULE OfficeRequests ---------------------------
(***************************************************************************)
(* What the requests of the office have in common: each handler is a chain *)
(* of awaited statements, and between two of them any other request may    *)
(* run.  A request keeps in a sheet what it has read; it may be cut short  *)
(* at any statement, by an error or by the end of its instance.            *)
(***************************************************************************)
EXTENDS Naturals

CONSTANTS Requests, None,
          MaxNumber,  \* bound: the numbers that documents get
          Wanted      \* bound: the statuses that requests ask for

ASSUME OfficeAssumption == MaxNumber \in Nat /\ None \notin Requests

VARIABLES pc,     \* the statement that each request executes next
          sheet,  \* what it works on: a row, another one that the row refers
                  \* to, the value to write and a number
          stale   \* history: requests with a row that has been written by
                  \* another one since they read it

requestVars == <<pc, sheet, stale>>

Sheet(row, other, wanted, number) ==
  [row |-> row, other |-> other, wanted |-> wanted, number |-> number]

Blank == Sheet(None, None, None, 0)

RequestsInit ==
  /\ pc = [r \in Requests |-> "idle"]
  /\ sheet = [r \in Requests |-> Blank]
  /\ stale = {}

Active(r) == pc[r] # "idle"
Rows(paper) == {paper.row, paper.other} \ {None}

\* No request is creating this row.
Free(row) == \A q \in Requests : sheet[q].row # row

Begin(r, label, paper) ==
  /\ pc[r] = "idle"
  /\ pc' = [pc EXCEPT ![r] = label]
  /\ sheet' = [sheet EXCEPT ![r] = paper]
  /\ UNCHANGED stale

\* The next statement, with the same sheet or with another.
Carry(r, label, paper) ==
  /\ pc' = [pc EXCEPT ![r] = label]
  /\ sheet' = [sheet EXCEPT ![r] = paper]
Goto(r, label) == pc' = [pc EXCEPT ![r] = label] /\ UNCHANGED sheet

\* The answer, or the exception.
Leave(r) ==
  /\ pc' = [pc EXCEPT ![r] = "idle"]
  /\ sheet' = [sheet EXCEPT ![r] = Blank]

\* It writes a row: who has read the row has an old copy from now on.
Readers(r, row) == {q \in Requests \ {r} : Active(q) /\ row \in Rows(sheet[q])}

Finish(r) == Leave(r) /\ stale' = stale \ {r}
FinishWriting(r, row) == Leave(r) /\ stale' = (stale \cup Readers(r, row)) \ {r}

CutShort(r) == Active(r) /\ Finish(r)

\* The step is one of a request that knows what it is doing.
Fresh(r) == Active(r) /\ r \notin stale /\ pc'[r] # pc[r]
=============================================================================
