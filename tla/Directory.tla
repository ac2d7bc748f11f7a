------------------------------ MODULE Directory ------------------------------
(***************************************************************************)
(* The tables whose rows a key tells apart: users (by e-mail), customers   *)
(* (telephone), products (code), types of service and categories of        *)
(* recurring services (name).  A handler looks for the key, then writes;   *)
(* the database has a unique index on it except for customers.  The tables *)
(* have nothing to do with one another, and the desk serves one of them.   *)
(* Other fields are left out.  The two reads of an update, of the row and  *)
(* of its new key, are one step.                                           *)
(***************************************************************************)
EXTENDS OfficeRequests

CONSTANTS Entries,  \* identifiers for rows
          Keys

ASSUME DirectoryAssumption ==
  None \notin Entries \cup Keys /\ Entries \cap Keys = {}

VARIABLES table,   \* the table that is served
          entry    \* its rows

directoryVars == <<requestVars, table, entry>>

Tables == {"profiles", "customers", "products", "serviceTypes", "categories"}
EntryStatus == {"active", "inactive", "deleted"}
Entry(status, key) == [status |-> status, key |-> key]
DirectoryPC == {"insert", "update", "remove"}

DirectoryInit ==
  /\ RequestsInit
  /\ table \in Tables
  /\ entry = [e \in Entries |-> Entry("none", None)]

Written(e) == entry[e].status # "none"
Live(e) == entry[e].status \in {"active", "inactive"}
Indexed == table # "customers"

\* The rows with a key that a handler looks at, and those that the unique
\* index looks at.
Holders(key) == {e \in Entries : Written(e) /\ entry[e].key = key}
LiveHolders(key) == {e \in Holders(key) : Live(e)}
RowsOfIndex(key) == IF Indexed THEN Holders(key) ELSE {}

\* The rows that keep create from using a key; also, none.
NoRows(key) == {}
HoldersAtCreate(key) ==
  CASE table \in {"profiles", "serviceTypes"} -> Holders(key)
    [] table \in {"customers", "products"} -> LiveHolders(key)
    [] table = "categories" -> {}

\* The rows that keep update from giving a key to e.
HoldersAtUpdate(e, key) ==
  CASE key \in {None, entry[e].key} \/ table = "customers" -> {}
    [] table = "profiles" -> Holders(key)
    [] OTHER -> LiveHolders(key) \ {e}

-----------------------------------------------------------------------------
BeginCreate(r, e, key) ==
  /\ ~Written(e) /\ Free(e) /\ HoldersAtCreate(key) = {}
  /\ Begin(r, "insert", Sheet(e, key, None, 0))
  /\ UNCHANGED <<table, entry>>

InsertEntry(r) ==
  LET e == sheet[r].row
      key == sheet[r].other
  IN
  /\ pc[r] = "insert"
  /\ IF RowsOfIndex(key) = {}
     THEN /\ entry' = [entry EXCEPT ![e] = Entry("active", key)]
          /\ FinishWriting(r, key)
     ELSE UNCHANGED entry /\ Finish(r)
  /\ UNCHANGED table

\* Who may be edited: a user in any state, customers and products that are
\* not deleted.
Editable(e) ==
  \/ table = "profiles" /\ Written(e)
  \/ table \in {"customers", "products"} /\ Live(e)

\* A new key or None, a new isActive or None; customers have no isActive.
BeginEdit(r, e, key, status) ==
  /\ Editable(e) /\ HoldersAtUpdate(e, key) = {}
  /\ table = "customers" => status = None
  /\ Begin(r, "update", Sheet(e, key, status, 0))
  /\ UNCHANGED <<table, entry>>

EditedEntry(row, key, status) ==
  Entry(IF status = None \/ row.status = "deleted" THEN row.status ELSE status,
        IF key = None THEN row.key ELSE key)

WriteEntry(r) ==
  LET e == sheet[r].row
      row == EditedEntry(entry[e], sheet[r].other, sheet[r].wanted)
  IN
  /\ pc[r] = "update"
  /\ IF RowsOfIndex(row.key) \subseteq {e}
     THEN /\ entry' = [entry EXCEPT ![e] = row]
          /\ FinishWriting(r, row.key)
     ELSE UNCHANGED entry /\ Finish(r)
  /\ UNCHANGED table

\* remove: a user is deactivated, a customer or a product marked as deleted.
BeginRemove(r, e) ==
  /\ Editable(e)
  /\ Begin(r, "remove", Sheet(e, None, None, 0))
  /\ UNCHANGED <<table, entry>>

RemoveEntry(r) ==
  LET e == sheet[r].row IN
  /\ pc[r] = "remove"
  /\ entry' = [entry EXCEPT ![e] =
       Entry(IF table = "profiles" THEN "inactive" ELSE "deleted", entry[e].key)]
  /\ FinishWriting(r, entry[e].key)
  /\ UNCHANGED table

CutDirectory(r) == CutShort(r) /\ UNCHANGED <<table, entry>>

DirectoryNext ==
  \E r \in Requests :
     \/ \E e \in Entries :
          \/ \E key \in Keys : BeginCreate(r, e, key)
          \/ \E key \in Keys \cup {None}, status \in {None, "active", "inactive"} :
               BeginEdit(r, e, key, status)
          \/ BeginRemove(r, e)
     \/ InsertEntry(r) \/ WriteEntry(r) \/ RemoveEntry(r) \/ CutDirectory(r)

DirectorySpec == DirectoryInit /\ [][DirectoryNext]_directoryVars

-----------------------------------------------------------------------------
\* Types of the rows and of the sheets of this desk.
DirectoryTypeOK ==
  /\ table \in Tables
  /\ entry \in [Entries -> [status : EntryStatus \cup {"none"}, key : Keys \cup {None}]]
  /\ \A r \in Requests : pc[r] \in DirectoryPC =>
        sheet[r].row \in Entries /\ sheet[r].other \in Keys \cup {None}

\* Two rows in use with one key.
Shared(d, e) == d # e /\ Live(d) /\ Live(e) /\ entry[d].key = entry[e].key

\* No two users, products, types or categories come to have one key, and no
\* customer is created with the telephone of another, but by a request that
\* had looked for it before somebody wrote it; an update of a customer may
\* give any (create, update of users, customers and products).
OneHolderPerKey ==
  [][\A d, e \in Entries :
       Shared(d, e)' /\ ~Shared(d, e)
         => /\ ~Indexed
            /\ ~Written(d) => \A r \in Requests : ~Fresh(r)]_directoryVars
=============================================================================
