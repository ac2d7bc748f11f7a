---------------------------- MODULE NumberIssuer ----------------------------
(***************************************************************************)
(* What a generator of document numbers promises, whatever it is built on: *)
(* the numbers of a series go up and stay within its top, each one is held *)
(* or written by one document at most, and only an administrator moves the *)
(* counter otherwise.  A number that is taken may be lost.                 *)
(***************************************************************************)
EXTENDS Naturals

CONSTANTS Series,
          Editable  \* those that an administrator may renumber

VARIABLES last,     \* the last number that each series gave out
          top,      \* the last one that it may give out
          held,     \* numbers given to somebody who has not written them
          written   \* numbers on a document

issuerVars == <<last, top, held, written>>

Init ==
  /\ last \in [Series -> Nat] /\ top \in [Series -> Nat]
  /\ held = [s \in Series |-> {}] /\ written = [s \in Series |-> {}]

\* A number above all those given out is handed over.
Take(s) ==
  \E n \in 1 .. top[s] :
     /\ n > last[s]
     /\ last' = [last EXCEPT ![s] = n]
     /\ held' = [held EXCEPT ![s] = @ \cup {n}]
     /\ UNCHANGED <<top, written>>

\* Whoever holds a number writes it, or drops it.
Write(s, n) ==
  /\ n \in held[s] \ written[s]
  /\ held' = [held EXCEPT ![s] = @ \ {n}]
  /\ written' = [written EXCEPT ![s] = @ \cup {n}]
  /\ UNCHANGED <<last, top>>

Drop(s, n) ==
  /\ n \in held[s]
  /\ held' = [held EXCEPT ![s] = @ \ {n}]
  /\ UNCHANGED <<last, top, written>>

\* Both at once.
Issue(s) ==
  \E n \in 1 .. top[s] :
     /\ n > last[s] /\ n \notin written[s]
     /\ last' = [last EXCEPT ![s] = n]
     /\ written' = [written EXCEPT ![s] = @ \cup {n}]
     /\ UNCHANGED <<top, held>>

\* The same, for a document that loses the number it had.
Replace(s, t, m) ==
  \E n \in 1 .. top[s] :
     /\ n > last[s] /\ n \notin written[s] /\ m \in written[t]
     /\ last' = [last EXCEPT ![s] = n]
     /\ written' = [u \in Series |-> (written[u] \ IF u = t THEN {m} ELSE {})
                                     \cup IF u = s THEN {n} ELSE {}]
     /\ UNCHANGED <<top, held>>

Renumber(s) ==
  /\ s \in Editable
  /\ last'[s] \in Nat /\ last' = [last EXCEPT ![s] = last'[s]]
  /\ top'[s] \in Nat /\ top' = [top EXCEPT ![s] = top'[s]]
  /\ UNCHANGED <<held, written>>

Next ==
  \E s \in Series :
     \/ Take(s) \/ Issue(s) \/ Renumber(s)
     \/ \E n \in held[s] : Write(s, n) \/ Drop(s, n)
     \/ \E t \in Series : \E m \in written[t] : Replace(s, t, m)

Spec == Init /\ [][Next]_issuerVars
=============================================================================
