----------------------------- MODULE FactusSync -----------------------------
(***************************************************************************)
(* What this system keeps in step with Factus on request: the numbering    *)
(* range of a resolution and the data of the company.  Both operations     *)
(* read a row, call Factus and write the row, three separate steps.        *)
(***************************************************************************)
EXTENDS OfficeRequests

CONSTANTS SyncedResolutions,  \* resolutions
          MaxRanges,          \* bound: ranges created at Factus
          CompanyData         \* what the settings of the company may hold

ASSUME FactusSyncAssumption ==
  /\ MaxRanges \in Nat /\ CompanyData # {}
  /\ None \notin SyncedResolutions \cup CompanyData
  /\ "company" \notin SyncedResolutions /\ None # "company"

VARIABLES factusRange,       \* ranges at Factus: the resolution of each one
          rangeId,           \* resolutions.numbering_range_id, 0 for null
          company,           \* the data in company_settings
          factusCompany,     \* the data that Factus has, None at first
          isSyncedToFactus

rangeVars == <<factusRange, rangeId>>
companyVars == <<company, factusCompany, isSyncedToFactus>>
syncVars == <<requestVars, rangeVars, companyVars>>

RangeIds == 1 .. MaxRanges
SyncPC == {"askFactus", "storeRange", "sendCompany", "markSynced"}

SyncInit ==
  /\ RequestsInit
  /\ factusRange = [k \in RangeIds |-> None]
  /\ rangeId = [s \in SyncedResolutions |-> 0]
  /\ company \in CompanyData
  /\ factusCompany = None /\ isSyncedToFactus = FALSE

-----------------------------------------------------------------------------
\* syncResolutionRange: what it reads decides between an update of the range
\* of Factus and a new one.
BeginSyncRange(r, s) ==
  /\ Begin(r, "askFactus", Sheet(s, None, None, rangeId[s]))
  /\ UNCHANGED <<rangeVars, companyVars>>

\* The id in the row, if there is one; also, whatever there is.
AlwaysNew(id) == TRUE
NewToFactus(id) == id = 0

\* A new range is the next id of Factus, which the answer has; the update of
\* one that exists only sends the number that follows.
AskFactus(r) ==
  LET s == sheet[r].row IN
  /\ pc[r] = "askFactus"
  /\ \/ /\ NewToFactus(sheet[r].number)
        /\ \E k \in RangeIds :
             /\ factusRange[k] = None
             /\ \A j \in RangeIds : j < k => factusRange[j] # None
             /\ factusRange' = [factusRange EXCEPT ![k] = s]
             /\ Carry(r, "storeRange", Sheet(s, None, None, k))
     \/ /\ ~NewToFactus(sheet[r].number)
        /\ Goto(r, "storeRange")
        /\ UNCHANGED factusRange
  /\ UNCHANGED <<rangeId, companyVars, stale>>

StoreRange(r) ==
  LET s == sheet[r].row IN
  /\ pc[r] = "storeRange"
  /\ rangeId' = [rangeId EXCEPT ![s] = sheet[r].number]
  /\ FinishWriting(r, s)
  /\ UNCHANGED <<factusRange, companyVars>>

\* settings.updateSettings: the mark that Factus has the data stays.
UpdateCompany(data) ==
  /\ company' = data
  /\ stale' = stale \cup {q \in Requests : Active(q) /\ "company" \in Rows(sheet[q])}
  /\ UNCHANGED <<pc, sheet, rangeVars, factusCompany, isSyncedToFactus>>

\* syncCompany sends the data that it read, then sets the mark.
BeginSyncCompany(r) ==
  /\ Begin(r, "sendCompany", Sheet("company", None, company, 0))
  /\ UNCHANGED <<rangeVars, companyVars>>

SendCompany(r) ==
  /\ pc[r] = "sendCompany"
  /\ factusCompany' = sheet[r].wanted
  /\ Goto(r, "markSynced")
  /\ UNCHANGED <<rangeVars, company, isSyncedToFactus, stale>>

MarkSynced(r) ==
  /\ pc[r] = "markSynced"
  /\ isSyncedToFactus' = TRUE
  /\ Finish(r)
  /\ UNCHANGED <<rangeVars, company, factusCompany>>

CutSync(r) == CutShort(r) /\ UNCHANGED <<rangeVars, companyVars>>

SyncNext ==
  \/ \E data \in CompanyData : UpdateCompany(data)
  \/ \E r \in Requests :
       \/ \E s \in SyncedResolutions : BeginSyncRange(r, s)
       \/ AskFactus(r) \/ StoreRange(r)
       \/ BeginSyncCompany(r) \/ SendCompany(r) \/ MarkSynced(r) \/ CutSync(r)

SyncSpec == SyncInit /\ [][SyncNext]_syncVars

-----------------------------------------------------------------------------
\* Types of the rows, of what Factus has and of the sheets of this desk.
SyncTypeOK ==
  /\ factusRange \in [RangeIds -> SyncedResolutions \cup {None}]
  /\ rangeId \in [SyncedResolutions -> Nat]
  /\ company \in CompanyData /\ factusCompany \in CompanyData \cup {None}
  /\ isSyncedToFactus \in BOOLEAN
  /\ \A r \in Requests :
       /\ pc[r] \in {"askFactus", "storeRange"} =>
            sheet[r].row \in SyncedResolutions /\ sheet[r].number \in Nat
       /\ pc[r] \in {"sendCompany", "markSynced"} => sheet[r].wanted \in CompanyData

\* A range of Factus that was created for a resolution and that neither the
\* resolution nor a request knows.
Orphan(k) ==
  /\ factusRange[k] # None
  /\ rangeId[factusRange[k]] # k
  /\ \A r \in Requests : pc[r] = "storeRange" => sheet[r].number # k

\* A range at Factus is lost only by a synchronisation that was cut short
\* or that overlapped another one of its resolution (syncResolutionRange).
RangesAreNotLost ==
  [][\A k \in RangeIds, r \in Requests :
       Fresh(r) /\ rangeId' # rangeId /\ ~Orphan(k) => ~Orphan(k)']_syncVars
=============================================================================
