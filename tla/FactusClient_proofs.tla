------------------------- MODULE FactusClient_proofs -------------------------
(***************************************************************************)
(* Proofs about FactusClient, for any number of calls and of pairs of      *)
(* tokens.  That every call ends is liveness and is left to TLC.           *)
(***************************************************************************)
EXTENDS FactusClient, WellFoundedInduction, TLAPS

USE ClientAssumption

-----------------------------------------------------------------------------
(* The least of a set of numbers, and the pairs.                           *)

LEMMA LeastIsIn ==
  ASSUME NEW S \in SUBSET Nat, S # {}
  PROVE  Min(S) \in S
<1>1. PICK x \in S : \A y \in S : ~(<<y, x>> \in {ss \in Nat \X Nat : ss[1] < ss[2]})
  <2> DEFINE R == {ss \in Nat \X Nat : ss[1] < ss[2]}
  <2>1. IsWellFoundedOn(R, Nat)
    BY NatLessThanWellFounded DEF OpToRel
  <2> HIDE DEF R
  <2>2. \E x \in S : \A y \in S : ~(<<y, x>> \in R)
    BY <2>1, WFMin
  <2> QED BY <2>2 DEF R
<1>2. ASSUME NEW y \in S PROVE x <= y
  <2>1. ~(<<y, x>>[1] < <<y, x>>[2])
    BY <1>1
  <2> QED BY <2>1
<1> QED BY <1>2 DEF Min

LEMMA UnusedPair ==
  ASSUME Unused # {}
  PROVE  /\ Min(Unused) \in Nat /\ Min(Unused) # 0
         /\ Min(Unused) \in Unused
<1>1. Unused \in SUBSET Nat /\ \A p \in Unused : p # 0
  BY DEF Unused, Pairs
<1>2. Min(Unused) \in Unused
  BY <1>1, LeastIsIn
<1> QED BY <1>1, <1>2

\* What Factus changes when it gives the pair p.
Granted(c, p) ==
  /\ grant[c] \notin exchanged
  /\ exchanged' = (exchanged \cup ({grant[c]} \ {0})) \ {p}
  /\ \/ answer' = [answer EXCEPT ![c] = p] /\ tangled' = tangled
     \/ tangled' = TRUE /\ answer' = answer

LEMMA GrantEffect ==
  ASSUME NEW c \in Calls, FactusGrants(c)
  PROVE  \/ UNCHANGED <<answer, exchanged, tangled>>
         \/ \E p \in Nat : p # 0 /\ p \in Unused /\ Granted(c, p)
<1>1. CASE /\ grant[c] \notin exchanged /\ Unused # {}
           /\ exchanged' = (exchanged \cup ({grant[c]} \ {0})) \ {Min(Unused)}
           /\ \/ answer' = [answer EXCEPT ![c] = Min(Unused)] /\ UNCHANGED tangled
              \/ tangled' = TRUE /\ UNCHANGED answer
  <2>1. Granted(c, Min(Unused))
    BY <1>1 DEF Granted
  <2> QED BY <1>1, <2>1, UnusedPair
<1> QED BY <1>1 DEF FactusGrants

LEMMA Labels ==
  /\ \A l \in Asking \cup Arriving : l \in PC /\ l \notin Ended
  /\ \A l \in Asking : l \notin Arriving
  /\ {"idle", "get token", "wait", "send"} \cup Ended \subseteq PC \ (Asking \cup Arriving)
  /\ Ended = {"done", "failed"} /\ "get token" \notin Ended /\ "send" \notin Ended
     /\ "wait" \notin Ended /\ "idle" \notin Ended
BY DEF PC, Asking, Arriving, Ended

-----------------------------------------------------------------------------
(* Types.                                                                  *)

LEMMA InitType == Init => ClientTypeOK
<1>1. ASSUME Init PROVE pc \in [Calls -> PC]
  <2>1. pc = [c \in Calls |-> "idle"]
    BY <1>1 DEF Init
  <2>2. "idle" \in PC
    BY DEF PC
  <2> QED BY <2>1, <2>2
<1>2. ASSUME Init PROVE accepted \in [Calls -> Nat] /\ grant \in [Calls -> Nat] /\ answer \in [Calls -> Nat]
  BY <1>2 DEF Init
<1>3. ASSUME Init
      PROVE  /\ retried \subseteq Calls /\ exchanged \subseteq Nat /\ tangled \in BOOLEAN
             /\ token \in Nat /\ expiring \in BOOLEAN /\ inFlight \in Calls \cup {None}
  BY <1>3 DEF Init
<1> QED BY <1>1, <1>2, <1>3 DEF ClientTypeOK

LEMMA AskRefreshType ==
  ASSUME ClientTypeOK, NEW c \in Calls, NEW label \in PC, AskRefresh(c, label)
  PROVE  /\ pc' \in [Calls -> PC] /\ grant' \in [Calls -> Nat]
         /\ answer' \in [Calls -> Nat] /\ exchanged' \subseteq Nat
         /\ tangled' \in BOOLEAN
<1> DEFINE busy == Refreshing
<1>1. busy \in BOOLEAN
  BY DEF Refreshing
<1>2. tangled' = (tangled \/ busy)
  BY DEF AskRefresh
<1> HIDE DEF busy
<1>3. tangled' \in BOOLEAN
  BY <1>1, <1>2 DEF ClientTypeOK
<1> QED BY <1>3 DEF AskRefresh, Goto, ClientTypeOK

LEMMA TakeAnswerType ==
  ASSUME ClientTypeOK, NEW c \in Calls, TakeAnswer(c)
  PROVE  /\ token' \in Nat /\ expiring' \in BOOLEAN
         /\ grant' \in [Calls -> Nat] /\ answer' \in [Calls -> Nat]
         /\ retried' \subseteq Calls /\ accepted' \in [Calls -> Nat]
         /\ exchanged' \subseteq Nat /\ tangled' \in BOOLEAN
BY DEF ClientTypeOK, TakeAnswer, HeldAfter

LEMMA NextType ==
  ASSUME ClientTypeOK, [Next]_clientVars
  PROVE  ClientTypeOK'
<1>1. CASE UNCHANGED clientVars
  BY <1>1 DEF ClientTypeOK, clientVars, callVars, authVars, refreshVars
<1>2. CASE GetOld
  BY <1>2 DEF GetOld, ClientTypeOK, callVars, refreshVars
<1>3. ASSUME NEW c \in Calls, Start(c) PROVE ClientTypeOK'
  BY <1>3 DEF Start, Goto, ClientTypeOK, PC, authVars, refreshVars
<1>4. ASSUME NEW c \in Calls, GetToken(c) PROVE ClientTypeOK'
  <2>1. CASE ~Usable /\ inFlight = None /\ inFlight' = c /\ AskRefresh(c, "shared refresh")
    <3>1. "shared refresh" \in PC
      BY DEF PC, Asking
    <3> QED BY <1>4, <2>1, <3>1, AskRefreshType DEF GetToken, ClientTypeOK
  <2>2. CASE UNCHANGED <<inFlight, refreshVars>> /\ (Goto(c, "send") \/ Goto(c, "wait"))
    BY <1>4, <2>2, Labels DEF GetToken, Goto, ClientTypeOK, refreshVars
  <2> QED BY <1>4, <2>1, <2>2 DEF GetToken
<1>5. ASSUME NEW c \in Calls, FactusGrants(c) PROVE ClientTypeOK'
  <2>1. pc' \in [Calls -> PC]
    BY <1>5 DEF FactusGrants, Goto, ClientTypeOK, PC, Arriving
  <2>2. answer' \in [Calls -> Nat] /\ exchanged' \subseteq Nat /\ tangled' \in BOOLEAN
    <3>1. CASE UNCHANGED <<answer, exchanged, tangled>>
      BY <3>1 DEF ClientTypeOK
    <3>2. ASSUME NEW p \in Nat, Granted(c, p)
          PROVE  answer' \in [Calls -> Nat] /\ exchanged' \subseteq Nat /\ tangled' \in BOOLEAN
      <4>1. grant[c] \in Nat
        BY DEF ClientTypeOK
      <4>2. exchanged' \subseteq Nat
        BY <3>2, <4>1 DEF Granted, ClientTypeOK
      <4> QED BY <3>2, <4>2 DEF Granted, ClientTypeOK
    <3> QED BY <1>5, <3>1, <3>2, GrantEffect
  <2> QED BY <1>5, <2>1, <2>2 DEF FactusGrants, ClientTypeOK, authVars
<1>6. ASSUME NEW c \in Calls, SharedAnswer(c) PROVE ClientTypeOK'
  <2>1. pc' \in [Calls -> PC]
    BY <1>6, Labels DEF SharedAnswer, ClientTypeOK
  <2> QED BY <1>6, <2>1, TakeAnswerType DEF SharedAnswer, ClientTypeOK
<1>7. ASSUME NEW c \in Calls, ForcedAnswer(c) PROVE ClientTypeOK'
  <2>1. pc' \in [Calls -> PC]
    BY <1>7, Labels DEF ForcedAnswer, Goto, ClientTypeOK
  <2> QED BY <1>7, <2>1, TakeAnswerType DEF ForcedAnswer, ClientTypeOK
<1>8. ASSUME NEW c \in Calls, Send(c) PROVE ClientTypeOK'
  <2>1. PICK status \in {200, 400, 401, 0}, taken \in BOOLEAN :
          /\ accepted' = IF taken THEN [accepted EXCEPT ![c] = accepted[c] + 1] ELSE accepted
          /\ IF Retries(c, status)
             THEN retried' = retried \cup {c} /\ AskRefresh(c, "forced refresh")
             ELSE /\ Goto(c, IF status = 200 THEN "done" ELSE "failed")
                  /\ UNCHANGED <<retried, refreshVars>>
          /\ UNCHANGED authVars
    BY <1>8 DEF Send
  <2>2. accepted' \in [Calls -> Nat]
    <3>1. accepted[c] + 1 \in Nat
      BY DEF ClientTypeOK
    <3>2. CASE taken
      BY <2>1, <3>1, <3>2 DEF ClientTypeOK
    <3>3. CASE ~taken
      BY <2>1, <3>3 DEF ClientTypeOK
    <3> QED BY <3>2, <3>3
  <2>3. CASE retried' = retried \cup {c} /\ AskRefresh(c, "forced refresh")
    <3>1. "forced refresh" \in PC
      BY DEF PC, Asking
    <3>2. /\ pc' \in [Calls -> PC] /\ grant' \in [Calls -> Nat]
          /\ answer' \in [Calls -> Nat] /\ exchanged' \subseteq Nat /\ tangled' \in BOOLEAN
      BY <2>3, <3>1, AskRefreshType
    <3>3. retried' \subseteq Calls
      BY <2>3 DEF ClientTypeOK
    <3>4. token' \in Nat /\ expiring' \in BOOLEAN /\ inFlight' \in Calls \cup {None}
      BY <2>1 DEF ClientTypeOK, authVars
    <3> QED BY <2>2, <3>2, <3>3, <3>4 DEF ClientTypeOK
  <2>4. CASE /\ Goto(c, IF status = 200 THEN "done" ELSE "failed")
             /\ UNCHANGED <<retried, refreshVars>>
    BY <2>1, <2>2, <2>4, Labels DEF Goto, ClientTypeOK, authVars, refreshVars
  <2> QED BY <2>1, <2>3, <2>4
<1> QED BY <1>1, <1>2, <1>3, <1>4, <1>5, <1>6, <1>7, <1>8 DEF Next, Step

\* The service, the calls and Factus keep their types.
THEOREM TypesHold == Spec => []ClientTypeOK
BY InitType, NextType, PTL DEF Spec

-----------------------------------------------------------------------------
(* A call is taken once: Factus has not taken a call that has not ended.   *)

NotYetTaken ==
  \A c \in Calls : accepted[c] <= 1 /\ (pc[c] \notin Ended => accepted[c] = 0)

LEMMA InitNotYetTaken == Init => NotYetTaken
BY DEF Init, NotYetTaken

\* A step that moves calls which have not ended, and lets Factus take none.
LEMMA NoneTaken ==
  ASSUME NotYetTaken, accepted' = accepted,
         \A d \in Calls : pc'[d] \in Ended \/ pc[d] \notin Ended
  PROVE  NotYetTaken'
BY DEF NotYetTaken

LEMMA NextNotYetTaken ==
  ASSUME ClientTypeOK, NotYetTaken, [Next]_clientVars
  PROVE  NotYetTaken'
<1> USE DEF ClientTypeOK
<1>1. CASE UNCHANGED clientVars
  BY <1>1 DEF NotYetTaken, clientVars, callVars
<1>2. CASE GetOld
  BY <1>2 DEF NotYetTaken, GetOld, callVars
<1>3. ASSUME NEW c \in Calls, Start(c) PROVE NotYetTaken'
  BY <1>3, NoneTaken, Labels DEF Start, Goto
<1>4. ASSUME NEW c \in Calls, GetToken(c) PROVE NotYetTaken'
  BY <1>4, NoneTaken, Labels DEF GetToken, AskRefresh, Goto
<1>5. ASSUME NEW c \in Calls, FactusGrants(c) PROVE NotYetTaken'
  BY <1>5, NoneTaken, Labels DEF FactusGrants, Goto
<1>6. ASSUME NEW c \in Calls, SharedAnswer(c) PROVE NotYetTaken'
  <2>1. \A d \in Calls : pc'[d] \in Ended \/ pc[d] \notin Ended
    BY <1>6, Labels DEF SharedAnswer, Sharing, Arriving, Ended
  <2> QED BY <1>6, <2>1, NoneTaken DEF SharedAnswer, TakeAnswer
<1>7. ASSUME NEW c \in Calls, ForcedAnswer(c) PROVE NotYetTaken'
  BY <1>7, NoneTaken, Labels DEF ForcedAnswer, TakeAnswer, Goto, Arriving, Ended
<1>8. ASSUME NEW c \in Calls, Send(c) PROVE NotYetTaken'
  <2>1. PICK status \in {200, 400, 401, 0}, taken \in BOOLEAN :
          /\ pc[c] = "send" /\ (taken => status \in {200, 0})
          /\ accepted' = IF taken THEN [accepted EXCEPT ![c] = accepted[c] + 1] ELSE accepted
          /\ IF Retries(c, status)
             THEN retried' = retried \cup {c} /\ AskRefresh(c, "forced refresh")
             ELSE /\ Goto(c, IF status = 200 THEN "done" ELSE "failed")
                  /\ UNCHANGED <<retried, refreshVars>>
    BY <1>8 DEF Send
  <2>2. CASE taken
    <3>0. status # 401
      <4>1. status \in {200, 0}
        BY <2>1, <2>2
      <4> QED BY <4>1
    <3>1. ~Retries(c, status)
      BY <3>0 DEF Retries
    <3>2. pc' = [pc EXCEPT ![c] = IF status = 200 THEN "done" ELSE "failed"]
      BY <2>1, <3>1 DEF Goto
    <3>3. accepted' = [accepted EXCEPT ![c] = accepted[c] + 1] /\ accepted[c] = 0
      BY <2>1, <2>2, Labels DEF NotYetTaken
    <3> QED BY <3>2, <3>3 DEF NotYetTaken, Ended
  <2>3. CASE ~taken
    <3>1. accepted' = accepted
      BY <2>1, <2>3
    <3>2. \A d \in Calls : d # c => pc'[d] = pc[d]
      <4>1. Goto(c, "forced refresh") \/ Goto(c, IF status = 200 THEN "done" ELSE "failed")
        BY <2>1 DEF AskRefresh
      <4>2. \E label : Goto(c, label)
        BY <4>1
      <4>3. PICK label : pc' = [pc EXCEPT ![c] = label]
        BY <4>2 DEF Goto
      <4> QED BY <4>3
    <3>3. pc[c] \notin Ended
      BY <2>1, Labels
    <3> QED BY <3>1, <3>2, <3>3, NoneTaken
  <2> QED BY <2>2, <2>3
<1> QED BY <1>1, <1>2, <1>3, <1>4, <1>5, <1>6, <1>7, <1>8 DEF Next, Step

\* No call is taken twice, whatever Factus answers and whatever is lost.
THEOREM TakenOnce == Spec => []AcceptedOnce
<1>1. Init => ClientTypeOK /\ NotYetTaken
  BY InitType, InitNotYetTaken
<1>2. ClientTypeOK /\ NotYetTaken /\ [Next]_clientVars => (ClientTypeOK /\ NotYetTaken)'
  BY NextType, NextNotYetTaken
<1>3. NotYetTaken => AcceptedOnce
  BY DEF NotYetTaken, AcceptedOnce
<1> QED BY <1>1, <1>2, <1>3, PTL DEF Spec

-----------------------------------------------------------------------------
(* The pair held is not exchanged.  While no refresh overlapped another    *)
(* and no answer was lost, at most one call has a refresh under way: it    *)
(* has sent the pair held, and then has an answer that is a fresh pair, or *)
(* none because the pair was not exchanged.                                *)

Busy == Asking \cup Arriving

Untangled ==
  /\ \A c, d \in Calls : pc[c] \in Busy /\ pc[d] \in Busy => c = d
  /\ (\A c \in Calls : pc[c] \notin Busy) => token \notin exchanged
  /\ \A c \in Calls : pc[c] \in Asking => grant[c] = token /\ token \notin exchanged
  /\ \A c \in Calls : pc[c] \in Arriving =>
       IF answer[c] = 0 THEN token \notin exchanged ELSE answer[c] \notin exchanged

RefreshInv ==
  /\ \A c \in Calls : pc[c] \notin Arriving => answer[c] = 0
  /\ tangled \/ Untangled

LEMMA InitRefresh == Init => RefreshInv
<1> SUFFICES ASSUME Init PROVE RefreshInv
  OBVIOUS
<1>1. \A c \in Calls : pc[c] = "idle" /\ pc[c] \notin Busy /\ answer[c] = 0
  BY DEF Init, Busy, Asking, Arriving
<1> QED BY <1>1 DEF Init, RefreshInv, Untangled, Busy

\* A step that starts or ends no refresh.
LEMMA Elsewhere ==
  ASSUME RefreshInv, UNCHANGED <<token, grant, answer, exchanged, tangled>>,
         \A d \in Calls : pc'[d] = pc[d] \/ (pc[d] \notin Busy /\ pc'[d] \notin Busy)
  PROVE  RefreshInv'
<1>1. \A d \in Calls : /\ pc'[d] \in Asking <=> pc[d] \in Asking
                       /\ pc'[d] \in Arriving <=> pc[d] \in Arriving
                       /\ pc'[d] \in Busy <=> pc[d] \in Busy
  BY DEF Busy
<1>2. CASE tangled
  BY <1>1, <1>2 DEF RefreshInv
<1>3. CASE ~tangled
  <2>1. Untangled
    BY <1>3 DEF RefreshInv
  <2>2. Untangled'
    BY <1>1, <2>1 DEF Untangled
  <2> QED BY <1>1, <2>2 DEF RefreshInv
<1> QED BY <1>2, <1>3

\* The beginning of a refresh.
LEMMA AskRefreshKeeps ==
  ASSUME ClientTypeOK, RefreshInv, NEW c \in Calls, pc[c] \notin Busy,
         NEW label \in Asking, AskRefresh(c, label), UNCHANGED token
  PROVE  RefreshInv'
<1> USE DEF ClientTypeOK
<1>1. /\ pc'[c] \in Asking /\ pc'[c] \in Busy /\ pc'[c] \notin Arriving
      /\ \A d \in Calls : d # c => pc'[d] = pc[d]
      /\ grant'[c] = token /\ answer' = answer /\ exchanged' = exchanged
  BY Labels DEF AskRefresh, Goto, Busy
<1>2. \A d \in Calls : pc'[d] \notin Arriving => answer'[d] = 0
  BY <1>1 DEF RefreshInv, Busy
<1>3. CASE tangled \/ Refreshing
  BY <1>2, <1>3 DEF AskRefresh, RefreshInv
<1>4. CASE ~tangled /\ ~Refreshing
  <2>1. \A d \in Calls : pc[d] \notin Busy
    BY <1>4 DEF Refreshing, Busy
  <2>2. token \notin exchanged
    BY <1>4, <2>1 DEF RefreshInv, Untangled
  <2>3. \A d \in Calls : d # c => pc'[d] \notin Busy
    BY <1>1, <2>1
  <2>4. Untangled'
    BY <1>1, <2>2, <2>3 DEF Untangled, Busy
  <2> QED BY <1>2, <2>4 DEF RefreshInv
<1> QED BY <1>3, <1>4

\* The end of a refresh.
LEMMA TakeAnswerKeeps ==
  ASSUME ClientTypeOK, RefreshInv, NEW c \in Calls, pc[c] \in Arriving,
         TakeAnswer(c), pc'[c] \notin Busy,
         \A d \in Calls : d # c => pc'[d] = pc[d] \/ (pc[d] \notin Busy /\ pc'[d] \notin Busy)
  PROVE  RefreshInv'
<1> USE DEF ClientTypeOK
<1>1. /\ answer'[c] = 0 /\ \A d \in Calls : d # c => answer'[d] = answer[d]
      /\ exchanged' = exchanged /\ tangled' = tangled
      /\ token' = IF answer[c] = 0 THEN token ELSE answer[c]
  BY DEF TakeAnswer, HeldAfter
<1>2. \A d \in Calls : pc'[d] \notin Arriving => answer'[d] = 0
  BY <1>1 DEF RefreshInv, Busy
<1>3. CASE ~tangled
  <2>1. Untangled
    BY <1>3 DEF RefreshInv
  <2>2. \A d \in Calls : pc'[d] \notin Busy
    BY <2>1 DEF Untangled, Busy
  <2>3. token' \notin exchanged'
    BY <1>1, <2>1 DEF Untangled
  <2>4. Untangled'
    BY <2>2, <2>3 DEF Untangled, Busy
  <2> QED BY <1>2, <2>4 DEF RefreshInv
<1> QED BY <1>1, <1>2, <1>3 DEF RefreshInv

LEMMA FactusGrantsKeeps ==
  ASSUME ClientTypeOK, RefreshInv, NEW c \in Calls, FactusGrants(c)
  PROVE  RefreshInv'
<1> USE DEF ClientTypeOK
<1>1. /\ pc[c] \in Asking /\ pc'[c] \in Arriving /\ pc[c] \in Busy /\ pc'[c] \in Busy
      /\ pc'[c] \notin Asking /\ pc[c] \notin Arriving
      /\ \A d \in Calls : d # c => pc'[d] = pc[d]
      /\ UNCHANGED token /\ UNCHANGED grant
  BY Labels DEF FactusGrants, Goto, Busy, Asking, Arriving, authVars
<1>2. answer[c] = 0
  BY <1>1 DEF RefreshInv
<1>3. CASE UNCHANGED <<answer, exchanged, tangled>>
  <2>1. \A d \in Calls : pc'[d] \notin Arriving => answer'[d] = 0
    BY <1>1, <1>3 DEF RefreshInv
  <2>2. CASE ~tangled
    <3>1. Untangled
      BY <2>2 DEF RefreshInv
    <3>2. \A d \in Calls : d # c => pc'[d] \notin Busy
      BY <1>1, <3>1 DEF Untangled
    <3>3. Untangled'
      BY <1>1, <1>2, <1>3, <3>1, <3>2 DEF Untangled, Busy
    <3> QED BY <2>1, <3>3 DEF RefreshInv
  <2> QED BY <1>3, <2>1, <2>2 DEF RefreshInv
<1>4. ASSUME NEW p \in Nat, p # 0, p \in Unused, Granted(c, p) PROVE RefreshInv'
  <2>1. p # token /\ p \notin exchanged'
    BY <1>4 DEF Unused, Granted
  <2>2. \A d \in Calls : pc'[d] \notin Arriving => answer'[d] = 0
    BY <1>1, <1>4 DEF RefreshInv, Granted
  <2>3. CASE tangled' = TRUE
    BY <2>2, <2>3 DEF RefreshInv
  <2>4. CASE ~tangled /\ answer' = [answer EXCEPT ![c] = p]
    <3>1. Untangled
      BY <2>4 DEF RefreshInv
    <3>2. \A d \in Calls : d # c => pc'[d] \notin Busy
      BY <1>1, <3>1 DEF Untangled
    <3>3. answer'[c] = p
      BY <2>4
    <3>4. Untangled'
      BY <1>1, <1>4, <2>1, <3>2, <3>3 DEF Untangled, Busy
    <3> QED BY <2>2, <3>4 DEF RefreshInv
  <2>5. CASE tangled /\ tangled' = tangled
    BY <2>2, <2>5 DEF RefreshInv
  <2> QED BY <1>4, <2>3, <2>4, <2>5 DEF Granted
<1> QED BY <1>3, <1>4, GrantEffect

LEMMA NextRefresh ==
  ASSUME ClientTypeOK, RefreshInv, [Next]_clientVars
  PROVE  RefreshInv'
<1> USE DEF ClientTypeOK
<1>0. {"idle", "get token", "wait", "send"} \cup Ended \subseteq PC \ Busy
  BY Labels DEF Busy
<1>1. CASE UNCHANGED clientVars
  BY <1>1, Elsewhere DEF clientVars, callVars, authVars, refreshVars
<1>2. CASE GetOld
  BY <1>2, Elsewhere DEF GetOld, callVars, refreshVars
<1>3. ASSUME NEW c \in Calls, Start(c) PROVE RefreshInv'
  BY <1>0, <1>3, Elsewhere DEF Start, Goto, authVars, refreshVars
<1>4. ASSUME NEW c \in Calls, GetToken(c) PROVE RefreshInv'
  <2>1. CASE ~Usable /\ inFlight = None /\ inFlight' = c /\ AskRefresh(c, "shared refresh")
    BY <1>0, <1>4, <2>1, AskRefreshKeeps DEF GetToken, Asking
  <2>2. CASE UNCHANGED <<inFlight, refreshVars>> /\ (Goto(c, "send") \/ Goto(c, "wait"))
    BY <1>0, <1>4, <2>2, Elsewhere DEF GetToken, Goto, refreshVars
  <2> QED BY <1>4, <2>1, <2>2 DEF GetToken
<1>5. ASSUME NEW c \in Calls, FactusGrants(c) PROVE RefreshInv'
  BY <1>5, FactusGrantsKeeps
<1>6. ASSUME NEW c \in Calls, SharedAnswer(c) PROVE RefreshInv'
  <2> DEFINE ends == IF answer[c] = 0 THEN "failed" ELSE "send"
  <2>1. ends \notin Busy /\ "wait" \notin Busy
    BY <1>0, Labels
  <2>2. pc[c] \in Arriving /\ c \in Sharing(c)
    BY <1>6 DEF SharedAnswer, Sharing, Arriving
  <2>3. pc' = [d \in Calls |-> IF d \notin Sharing(c) THEN pc[d] ELSE ends]
    BY <1>6 DEF SharedAnswer
  <2> HIDE DEF ends
  <2>4. \A d \in Sharing(c) : d # c => pc[d] \notin Busy
    BY <2>1 DEF Sharing
  <2>5. \A d \in Calls : d # c => pc'[d] = pc[d] \/ (pc[d] \notin Busy /\ pc'[d] \notin Busy)
    BY <2>1, <2>3, <2>4
  <2>6. pc'[c] \notin Busy
    BY <2>1, <2>2, <2>3
  <2> QED BY <1>6, <2>2, <2>5, <2>6, TakeAnswerKeeps DEF SharedAnswer
<1>7. ASSUME NEW c \in Calls, ForcedAnswer(c) PROVE RefreshInv'
  BY <1>0, <1>7, Labels, TakeAnswerKeeps DEF ForcedAnswer, Goto, Arriving
<1>8. ASSUME NEW c \in Calls, Send(c) PROVE RefreshInv'
  <2>1. PICK status \in {200, 400, 401, 0}, taken \in BOOLEAN :
          /\ pc[c] = "send" /\ UNCHANGED authVars
          /\ IF Retries(c, status)
             THEN retried' = retried \cup {c} /\ AskRefresh(c, "forced refresh")
             ELSE /\ Goto(c, IF status = 200 THEN "done" ELSE "failed")
                  /\ UNCHANGED <<retried, refreshVars>>
    BY <1>8 DEF Send
  <2>2. CASE AskRefresh(c, "forced refresh")
    BY <1>0, <2>1, <2>2, AskRefreshKeeps DEF authVars, Asking
  <2>3. CASE Goto(c, IF status = 200 THEN "done" ELSE "failed") /\ UNCHANGED refreshVars
    <3> DEFINE end == IF status = 200 THEN "done" ELSE "failed"
    <3>1. end \notin Busy /\ pc[c] \notin Busy
      BY <1>0, <2>1, Labels
    <3>2. pc' = [pc EXCEPT ![c] = end]
      BY <2>3 DEF Goto
    <3> HIDE DEF end
    <3>3. \A d \in Calls : pc'[d] = pc[d] \/ (pc[d] \notin Busy /\ pc'[d] \notin Busy)
      BY <3>1, <3>2
    <3> QED BY <2>1, <2>3, <3>3, Elsewhere DEF authVars, refreshVars
  <2> QED BY <2>1, <2>2, <2>3
<1> QED BY <1>1, <1>2, <1>3, <1>4, <1>5, <1>6, <1>7, <1>8 DEF Next, Step

\* Unless refreshes overlap or an answer is lost, the pair held between two
\* refreshes can still be exchanged.
THEOREM Refreshable == Spec => []CanRefresh
<1>1. Init => ClientTypeOK /\ RefreshInv
  BY InitType, InitRefresh
<1>2. ClientTypeOK /\ RefreshInv /\ [Next]_clientVars => (ClientTypeOK /\ RefreshInv)'
  BY NextType, NextRefresh
<1>3. RefreshInv => CanRefresh
  BY DEF RefreshInv, Untangled, CanRefresh, Refreshing, Busy
<1> QED BY <1>1, <1>2, <1>3, PTL DEF Spec
=============================================================================
