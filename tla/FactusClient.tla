---------------------------- MODULE FactusClient ----------------------------
(***************************************************************************)
(* The client of Factus: FactusAuthService, which keeps one pair of tokens *)
(* for every request of the process, and FactusAdapterService, which sends *)
(* each call with the access token it was given and tries once more after  *)
(* a 401.  Callers share the refresh in flight; the one that follows a 401 *)
(* bypasses it, so several may overlap, asked with one refresh token and   *)
(* answered in any order.                                                  *)
(*                                                                         *)
(* Factus is external: it gives pairs that nobody has and spends a refresh *)
(* token as it exchanges it; it may answer 401 or an error to anything.    *)
(* The access token that a call is sent with makes no difference here.     *)
(***************************************************************************)
EXTENDS FiniteSetsExt, Naturals

CONSTANTS Calls,      \* the calls to Factus that the process makes
          Downloads,  \* those that are not tried again
          MaxPairs,   \* bound: pairs of tokens, used again when nobody has them
          None

ASSUME ClientAssumption ==
  Downloads \subseteq Calls /\ None \notin Calls /\ MaxPairs \in Nat

VARIABLES pc,        \* what each call awaits
          retried,   \* calls in their second attempt
          grant,     \* the pair whose refresh token a call has sent, 0: the password
          answer,    \* the pair that Factus gave for it, 0: an error
          token,     \* the pair that the service holds, 0 for none
          expiring,  \* it has less than ten minutes left
          inFlight,  \* the call that makes the shared refresh
          accepted,  \* history: how often Factus took each call
          exchanged, \* pairs whose refresh token is spent
          tangled    \* history: two refreshes overlapped, or an answer was lost

callVars == <<pc, retried, accepted>>
authVars == <<token, expiring, inFlight>>
refreshVars == <<grant, answer, exchanged, tangled>>
clientVars == <<callVars, authVars, refreshVars>>

Pairs == 1 .. MaxPairs
Asking == {"shared refresh", "forced refresh"}
Arriving == {"shared answer", "forced answer"}
Ended == {"done", "failed"}
PC == {"idle", "get token", "wait", "send"} \cup Asking \cup Arriving \cup Ended

Init ==
  /\ pc = [c \in Calls |-> "idle"]
  /\ retried = {}
  /\ accepted = [c \in Calls |-> 0]
  /\ token = 0 /\ expiring = FALSE /\ inFlight = None
  /\ grant = [c \in Calls |-> 0] /\ answer = [c \in Calls |-> 0]
  /\ exchanged = {} /\ tangled = FALSE

Goto(c, label) == pc' = [pc EXCEPT ![c] = label]

-----------------------------------------------------------------------------
Start(c) ==
  /\ pc[c] = "idle" /\ Goto(c, "get token")
  /\ UNCHANGED <<retried, accepted, authVars, refreshVars>>

\* A refresh is under way.
Refreshing == \E c \in Calls : pc[c] \in Asking \cup Arriving

\* refreshTokenInternal up to its fetch: the grant is the pair held.
AskRefresh(c, label) ==
  /\ Goto(c, label)
  /\ grant' = [grant EXCEPT ![c] = token]
  /\ tangled' = (tangled \/ Refreshing)
  /\ UNCHANGED <<answer, exchanged>>

Usable == token # 0 /\ ~expiring

\* getAccessToken up to its first await: the token held, the refresh in
\* flight, or one that others will share.
GetToken(c) ==
  /\ pc[c] = "get token"
  /\ \/ Usable /\ Goto(c, "send") /\ UNCHANGED <<inFlight, refreshVars>>
     \/ /\ ~Usable /\ inFlight # None
        /\ Goto(c, "wait") /\ UNCHANGED <<inFlight, refreshVars>>
     \/ /\ ~Usable /\ inFlight = None
        /\ inFlight' = c /\ AskRefresh(c, "shared refresh")
  /\ UNCHANGED <<retried, accepted, token, expiring>>

-----------------------------------------------------------------------------
\* Pairs that neither the service nor a refresh has.
Unused == {p \in Pairs : p # token /\ \A c \in Calls : p # grant[c] /\ p # answer[c]}

\* Factus answers: with a pair for a refresh token that is not spent, or an
\* error; the answer may still be lost.
FactusGrants(c) ==
  /\ pc[c] \in Asking
  /\ Goto(c, IF pc[c] = "shared refresh" THEN "shared answer" ELSE "forced answer")
  /\ \/ /\ grant[c] \notin exchanged /\ Unused # {}
        /\ exchanged' = (exchanged \cup ({grant[c]} \ {0})) \ {Min(Unused)}
        /\ \/ answer' = [answer EXCEPT ![c] = Min(Unused)] /\ UNCHANGED tangled
           \/ tangled' = TRUE /\ UNCHANGED answer
     \/ UNCHANGED <<answer, exchanged, tangled>>
  /\ UNCHANGED <<retried, accepted, authVars, grant>>

\* The pair that the service holds after an answer: json.refresh_token
\* replaces the one it had; also, it does not.
KeepsOld(p) == IF token = 0 THEN p ELSE token
HeldAfter(p) == IF p = 0 THEN token ELSE p

TakeAnswer(c) ==
  /\ token' = HeldAfter(answer[c])
  /\ expiring' = (expiring /\ answer[c] = 0)
  /\ grant' = [grant EXCEPT ![c] = 0] /\ answer' = [answer EXCEPT ![c] = 0]
  /\ UNCHANGED <<retried, accepted, exchanged, tangled>>

\* Who goes on when the shared refresh ends, with the token or the error: the
\* call that made it and those that wait for it; also, only that call.
LeaderOnly(c) == {c}
Sharing(c) == {c} \cup {d \in Calls : pc[d] = "wait"}

\* The end of refreshTokenInternal and of the finally of getAccessToken,
SharedAnswer(c) ==
  /\ pc[c] = "shared answer"
  /\ inFlight' = None
  /\ pc' = [d \in Calls |-> IF d \notin Sharing(c) THEN pc[d]
                            ELSE IF answer[c] = 0 THEN "failed" ELSE "send"]
  /\ TakeAnswer(c)

\* and of forceRefresh: the second attempt starts from getAccessToken.
ForcedAnswer(c) ==
  /\ pc[c] = "forced answer"
  /\ Goto(c, IF answer[c] = 0 THEN "failed" ELSE "get token")
  /\ TakeAnswer(c)
  /\ UNCHANGED inFlight

-----------------------------------------------------------------------------
\* A first attempt that was answered 401 is repeated; also, one
\* whose answer was lost.
RetriesLost(c, status) == status \in {401, 0} /\ c \notin retried \cup Downloads
Retries(c, status) == status = 401 /\ c \notin retried \cup Downloads

\* Factus takes the call (200), answers that the token is not valid (401) or
\* another error (400); the answer, or the call itself, may be lost (0).
Send(c) ==
  \E status \in {200, 400, 401, 0}, taken \in BOOLEAN :
     /\ pc[c] = "send"
     /\ (status = 200 => taken) /\ (taken => status \in {200, 0})
     /\ accepted' = IF taken THEN [accepted EXCEPT ![c] = accepted[c] + 1] ELSE accepted
     /\ IF Retries(c, status)
        THEN retried' = retried \cup {c} /\ AskRefresh(c, "forced refresh")
        ELSE /\ Goto(c, IF status = 200 THEN "done" ELSE "failed")
             /\ UNCHANGED <<retried, refreshVars>>
     /\ UNCHANGED authVars

\* Time passes.
GetOld ==
  /\ token # 0 /\ ~expiring /\ expiring' = TRUE
  /\ UNCHANGED <<callVars, token, inFlight, refreshVars>>

Step(c) ==
  GetToken(c) \/ FactusGrants(c) \/ SharedAnswer(c) \/ ForcedAnswer(c) \/ Send(c)

Next == GetOld \/ \E c \in Calls : Start(c) \/ Step(c)

\* Each await ends: a fetch is answered or fails, and the event loop runs
\* every continuation.
Fairness == \A c \in Calls : WF_clientVars(Step(c))

Spec == Init /\ [][Next]_clientVars /\ Fairness

-----------------------------------------------------------------------------
\* Types of the service, of the calls and of what Factus keeps.
ClientTypeOK ==
  /\ pc \in [Calls -> PC]
  /\ retried \subseteq Calls
  /\ accepted \in [Calls -> Nat]
  /\ token \in Nat /\ expiring \in BOOLEAN /\ inFlight \in Calls \cup {None}
  /\ grant \in [Calls -> Nat] /\ answer \in [Calls -> Nat]
  /\ exchanged \subseteq Nat /\ tangled \in BOOLEAN

\* Factus never takes a call twice, whatever it answers and whatever happens
\* to its answers: only a call that it did not take is sent again, so that no
\* bill is validated twice (request).
AcceptedOnce == \A c \in Calls : accepted[c] <= 1

\* The service loses its way to Factus, a refresh token that nobody has
\* exchanged, only when two refreshes overlap or an answer is lost: it never
\* goes back to the password (refreshTokenInternal).
CanRefresh == ~tangled /\ ~Refreshing => token \notin exchanged

\* Every call ends, those that wait for the refresh of another one too, and
\* those that Factus always answers with 401 (getAccessToken, request).
CallsEnd == \A c \in Calls : pc[c] = "get token" ~> pc[c] \in Ended
=============================================================================
