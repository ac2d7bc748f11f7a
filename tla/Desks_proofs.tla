---------------------------- MODULE Desks_proofs ----------------------------
(***************************************************************************)
(* Theorems about the listings and the money of the lines, and about the   *)
(* office as a whole: it serves one desk, and what is proved of a desk     *)
(* holds of the office that serves it.                                     *)
(***************************************************************************)
EXTENDS Office_proofs, SequenceTheorems, Sums_proofs

USE ListingsAssumption, LinesAssumption

-----------------------------------------------------------------------------
(* Sequences that a row enters or leaves.                                  *)

LEMMA InsertedAt ==
  ASSUME NEW S, NEW s \in Seq(S), NEW place \in 1..(Len(s) + 1), NEW e \in S
  PROVE  /\ InsertAt(s, place, e) \in Seq(S)
         /\ Len(InsertAt(s, place, e)) = Len(s) + 1
         /\ \A k \in 1..(Len(s) + 1) :
              InsertAt(s, place, e)[k] = IF k < place THEN s[k]
                                         ELSE IF k = place THEN e ELSE s[k - 1]
<1> DEFINE before == SubSeq(s, 1, place - 1)
           after  == SubSeq(s, place, Len(s))
<1>1. Len(s) \in Nat /\ place \in Nat /\ \A i \in 1..Len(s) : s[i] \in S
  BY LenProperties
<1>2. /\ before \in Seq(S) /\ Len(before) = place - 1
      /\ \A i \in 1..(place - 1) : before[i] = s[i]
  <2>1. \A i \in 1..(place - 1) : s[i] \in S
    BY <1>1
  <2>2. 1 \in Int /\ place - 1 \in Int
    BY <1>1
  <2>3. /\ before \in Seq(S)
        /\ Len(before) = IF 1 <= place - 1 THEN (place - 1) - 1 + 1 ELSE 0
        /\ \A i \in 1..((place - 1) - 1 + 1) : before[i] = s[1 + i - 1]
    BY <2>1, <2>2, SubSeqProperties
  <2> HIDE DEF before
  <2>4. /\ (place - 1) - 1 + 1 = place - 1
        /\ (IF 1 <= place - 1 THEN (place - 1) - 1 + 1 ELSE 0) = place - 1
        /\ \A i \in 1..(place - 1) : 1 + i - 1 = i
    BY <1>1
  <2> QED BY <2>3, <2>4
<1>3. /\ after \in Seq(S) /\ Len(after) = Len(s) + 1 - place
      /\ \A i \in 1..(Len(s) + 1 - place) : after[i] = s[place + i - 1]
  <2>1. \A i \in place..Len(s) : s[i] \in S
    BY <1>1
  <2>2. place \in Int /\ Len(s) \in Int
    BY <1>1
  <2>3. /\ after \in Seq(S)
        /\ Len(after) = IF place <= Len(s) THEN Len(s) - place + 1 ELSE 0
        /\ \A i \in 1..(Len(s) - place + 1) : after[i] = s[place + i - 1]
    BY <2>1, <2>2, SubSeqProperties
  <2> HIDE DEF after
  <2>4. /\ Len(s) - place + 1 = Len(s) + 1 - place
        /\ (IF place <= Len(s) THEN Len(s) - place + 1 ELSE 0) = Len(s) + 1 - place
    BY <1>1
  <2> QED BY <2>3, <2>4
<1>4. <<e>> \in Seq(S) /\ Len(<<e>>) = 1 /\ <<e>>[1] = e
  OBVIOUS
<1> DEFINE head == before \o <<e>>
<1> HIDE DEF before, after
<1>5. /\ head \in Seq(S) /\ Len(head) = place
      /\ \A i \in 1..place : head[i] = IF i < place THEN s[i] ELSE e
  <2>1. /\ head \in Seq(S) /\ Len(head) = (place - 1) + 1
        /\ \A i \in 1..((place - 1) + 1) :
             head[i] = IF i <= place - 1 THEN before[i] ELSE <<e>>[i - (place - 1)]
    BY <1>2, <1>4, ConcatProperties
  <2> HIDE DEF head
  <2>2. (place - 1) + 1 = place
    BY <1>1
  <2>3. ASSUME NEW i \in 1..place
        PROVE  head[i] = IF i < place THEN s[i] ELSE e
    <3>1. CASE i < place
      <4>1. i \in 1..(place - 1) /\ i <= place - 1
        BY <1>1, <3>1
      <4>2. head[i] = before[i] /\ before[i] = s[i]
        BY <1>2, <2>1, <2>2, <4>1
      <4> QED BY <3>1, <4>2
    <3>2. CASE ~(i < place)
      <4>1. i = place /\ ~(i <= place - 1) /\ i - (place - 1) = 1
        BY <1>1, <3>2
      <4> QED BY <1>4, <2>1, <2>2, <3>2, <4>1
    <3> QED BY <3>1, <3>2
  <2> QED BY <2>1, <2>2, <2>3
<1> HIDE DEF head
<1>6. /\ head \o after \in Seq(S)
      /\ Len(head \o after) = place + (Len(s) + 1 - place)
      /\ \A i \in 1..(place + (Len(s) + 1 - place)) :
           (head \o after)[i] = IF i <= place THEN head[i] ELSE after[i - place]
  BY <1>3, <1>5, ConcatProperties
<1>7. place + (Len(s) + 1 - place) = Len(s) + 1
  BY <1>1
<1>8. InsertAt(s, place, e) = head \o after
  BY DEF InsertAt, head, before, after
<1>9. ASSUME NEW k \in 1..(Len(s) + 1)
      PROVE  (head \o after)[k] = IF k < place THEN s[k]
                                  ELSE IF k = place THEN e ELSE s[k - 1]
  <2>1. CASE k <= place
    BY <1>1, <1>5, <1>6, <1>7, <2>1
  <2>2. CASE k > place
    <3>1. k - place \in 1..(Len(s) + 1 - place) /\ place + (k - place) - 1 = k - 1
          /\ ~(k <= place) /\ ~(k < place) /\ k # place
      BY <1>1, <2>2
    <3>2. (head \o after)[k] = after[k - place]
      BY <1>6, <1>7, <3>1
    <3>3. after[k - place] = s[place + (k - place) - 1]
      BY <1>3, <3>1
    <3> QED BY <3>1, <3>2, <3>3
  <2>3. k <= place \/ k > place
    BY <1>1
  <2> QED BY <2>1, <2>2, <2>3
<1> QED BY <1>6, <1>7, <1>8, <1>9

LEMMA RemovedAt ==
  ASSUME NEW S, NEW s \in Seq(S), NEW place \in 1..Len(s)
  PROVE  /\ RemoveAt(s, place) \in Seq(S)
         /\ Len(RemoveAt(s, place)) = Len(s) - 1
         /\ \A k \in 1..(Len(s) - 1) :
              RemoveAt(s, place)[k] = IF k < place THEN s[k] ELSE s[k + 1]
<1> DEFINE before == SubSeq(s, 1, place - 1)
           after  == SubSeq(s, place + 1, Len(s))
<1>1. Len(s) \in Nat /\ place \in Nat /\ \A i \in 1..Len(s) : s[i] \in S
  BY LenProperties
<1>2. /\ before \in Seq(S) /\ Len(before) = place - 1
      /\ \A i \in 1..(place - 1) : before[i] = s[i]
  <2>1. \A i \in 1..(place - 1) : s[i] \in S
    BY <1>1
  <2>2. 1 \in Int /\ place - 1 \in Int
    BY <1>1
  <2>3. /\ before \in Seq(S)
        /\ Len(before) = IF 1 <= place - 1 THEN (place - 1) - 1 + 1 ELSE 0
        /\ \A i \in 1..((place - 1) - 1 + 1) : before[i] = s[1 + i - 1]
    BY <2>1, <2>2, SubSeqProperties
  <2> HIDE DEF before
  <2>4. /\ (place - 1) - 1 + 1 = place - 1
        /\ (IF 1 <= place - 1 THEN (place - 1) - 1 + 1 ELSE 0) = place - 1
        /\ \A i \in 1..(place - 1) : 1 + i - 1 = i
    BY <1>1
  <2> QED BY <2>3, <2>4
<1>3. /\ after \in Seq(S) /\ Len(after) = Len(s) - place
      /\ \A i \in 1..(Len(s) - place) : after[i] = s[place + i]
  <2>1. \A i \in (place + 1)..Len(s) : s[i] \in S
    BY <1>1
  <2>2. place + 1 \in Int /\ Len(s) \in Int
    BY <1>1
  <2>3. /\ after \in Seq(S)
        /\ Len(after) = IF place + 1 <= Len(s) THEN Len(s) - (place + 1) + 1 ELSE 0
        /\ \A i \in 1..(Len(s) - (place + 1) + 1) : after[i] = s[(place + 1) + i - 1]
    BY <2>1, <2>2, SubSeqProperties
  <2> HIDE DEF after
  <2>4. /\ Len(s) - (place + 1) + 1 = Len(s) - place
        /\ (IF place + 1 <= Len(s) THEN Len(s) - (place + 1) + 1 ELSE 0) = Len(s) - place
        /\ \A i \in 1..(Len(s) - place) : (place + 1) + i - 1 = place + i
    BY <1>1
  <2> QED BY <2>3, <2>4
<1> HIDE DEF before, after
<1>4. /\ before \o after \in Seq(S)
      /\ Len(before \o after) = (place - 1) + (Len(s) - place)
      /\ \A i \in 1..((place - 1) + (Len(s) - place)) :
           (before \o after)[i] = IF i <= place - 1 THEN before[i]
                                  ELSE after[i - (place - 1)]
  <2>1. /\ before \o after \in Seq(S)
        /\ Len(before \o after) = Len(before) + Len(after)
        /\ \A i \in 1..(Len(before) + Len(after)) :
             (before \o after)[i] = IF i <= Len(before) THEN before[i]
                                    ELSE after[i - Len(before)]
    BY <1>2, <1>3, ConcatProperties
  <2> QED BY <1>2, <1>3, <2>1
<1>5. (place - 1) + (Len(s) - place) = Len(s) - 1
  BY <1>1
<1>6. RemoveAt(s, place) = before \o after
  BY DEF RemoveAt, before, after
<1>7. ASSUME NEW k \in 1..(Len(s) - 1)
      PROVE  (before \o after)[k] = IF k < place THEN s[k] ELSE s[k + 1]
  <2>1. CASE k < place
    <3>1. k \in 1..(place - 1) /\ k <= place - 1
      BY <1>1, <2>1
    <3> QED BY <1>2, <1>4, <1>5, <2>1, <3>1
  <2>2. CASE ~(k < place)
    <3>1. k - (place - 1) \in 1..(Len(s) - place) /\ place + (k - (place - 1)) = k + 1
          /\ ~(k <= place - 1)
      BY <1>1, <2>2
    <3>2. (before \o after)[k] = after[k - (place - 1)]
      BY <1>4, <1>5, <3>1
    <3>3. after[k - (place - 1)] = s[place + (k - (place - 1))]
      BY <1>3, <3>1
    <3> QED BY <2>2, <3>1, <3>2, <3>3
  <2> QED BY <2>1, <2>2
<1> QED BY <1>4, <1>5, <1>6, <1>7

\* As many pages as it takes.
LEMMA PagesCover ==
  ASSUME NEW n \in Nat, NEW p \in Nat, p >= TotalPages(n)
  PROVE  p * PageSize >= n
<1> DEFINE q == (n + PageSize - 1) \div PageSize
           m == n + PageSize - 1
<1>1. m \in Nat /\ PageSize \in Nat /\ PageSize > 0
  OBVIOUS
<1>2. \A a \in Nat, b \in Nat : b > 0 => /\ a \div b \in Nat
                                         /\ b * (a \div b) <= a
                                         /\ a < b * (a \div b) + b
  OBVIOUS
<1>3. q \in Nat /\ m < PageSize * q + PageSize
  BY <1>1, <1>2
<1>4. q <= p
  BY DEF TotalPages
<1> HIDE DEF q
<1>5. PageSize * q <= PageSize * p
  BY <1>1, <1>3, <1>4
<1>6. PageSize * q \in Nat /\ PageSize * p \in Nat /\ PageSize * p = p * PageSize
  BY <1>1, <1>3
<1> QED BY <1>1, <1>3, <1>5, <1>6

-----------------------------------------------------------------------------
(* Listings: what the rows and the reader hold.                            *)

LEMMA ListingsTypesInit == ListingsInit => ListingsTypeOK
<1> SUFFICES ASSUME ListingsInit PROVE ListingsTypeOK
  OBVIOUS
<1>1. DOMAIN <<>> = {} /\ <<>> \in Seq(1 .. MaxListed)
  OBVIOUS
<1>2. listed \in Seq(1 .. MaxListed) /\ IsInjective(listed)
  BY <1>1 DEF ListingsInit, IsInjective
<1>3. 0 \in 0 .. MaxListed /\ 0 \in Nat /\ FALSE \in BOOLEAN
  BY ListingsAssumption
<1>4. /\ appeared \in 0 .. MaxListed /\ page \in Nat /\ total \in Nat
      /\ finished \in BOOLEAN /\ disturbed \in BOOLEAN
  BY <1>3 DEF ListingsInit
<1>5. /\ listing \in AllListings /\ answered = {} /\ seen = {} /\ still = {}
  BY DEF ListingsInit
<1> QED BY <1>2, <1>4, <1>5, Zenon DEF ListingsTypeOK

\* A row that appears is a new one, and moves others only further down.
LEMMA AppearingRow ==
  ASSUME ListingsTypeOK, \A k \in DOMAIN listed : listed[k] <= appeared,
         RowAppears
  PROVE  /\ ListingsTypeOK'
         /\ \A k \in DOMAIN listed' :
              /\ listed'[k] <= appeared'
              /\ listed'[k] # appeared + 1
                   => \E i \in DOMAIN listed : i <= k /\ listed'[k] = listed[i]
<1> DEFINE RowIds == 1 .. MaxListed
<1>1. /\ listed \in Seq(RowIds) /\ Len(listed) \in Nat /\ DOMAIN listed = 1..Len(listed)
      /\ appeared \in Nat /\ appeared < MaxListed /\ appeared' = appeared + 1
      /\ appeared + 1 \in RowIds
  BY LenProperties DEF ListingsTypeOK, RowAppears
<1>2. PICK place \in 1..(Len(listed) + 1) : listed' = InsertAt(listed, place, appeared + 1)
  <2>1. CASE listing.newestFirst
    <3>1. listed' = InsertAt(listed, 1, appeared + 1)
      BY <2>1 DEF RowAppears
    <3>2. 1 \in 1..(Len(listed) + 1)
      BY <1>1
    <3> QED BY <3>1, <3>2
  <2>2. CASE ~listing.newestFirst
    BY <2>2 DEF RowAppears
  <2> QED BY <2>1, <2>2
<1>3. /\ listed' \in Seq(RowIds) /\ Len(listed') = Len(listed) + 1
      /\ \A k \in 1..(Len(listed) + 1) :
           listed'[k] = IF k < place THEN listed[k]
                        ELSE IF k = place THEN appeared + 1 ELSE listed[k - 1]
  <2> DEFINE longer == InsertAt(listed, place, appeared + 1)
  <2>1. /\ longer \in Seq(RowIds) /\ Len(longer) = Len(listed) + 1
        /\ \A k \in 1..(Len(listed) + 1) :
             longer[k] = IF k < place THEN listed[k]
                         ELSE IF k = place THEN appeared + 1 ELSE listed[k - 1]
    <3> HIDE DEF RowIds
    <3> QED BY <1>1, InsertedAt
  <2>2. listed' = longer
    BY <1>2
  <2> HIDE DEF longer, RowIds
  <2> QED BY <2>1, <2>2
<1>4. DOMAIN listed' = 1..(Len(listed) + 1)
  BY <1>3, LenProperties
<1>5. \A k \in 1..Len(listed) : listed[k] \in Nat /\ listed[k] <= appeared
                                /\ listed[k] # appeared + 1
  <2>1. \A k \in 1..Len(listed) : listed[k] \in RowIds
    BY <1>1
  <2>2. \A k \in 1..Len(listed) : listed[k] \in Nat /\ listed[k] <= appeared
    BY <1>1, <2>1
  <2> QED BY <1>1, <2>2
<1> HIDE DEF RowIds
<1>6. ASSUME NEW k \in DOMAIN listed'
      PROVE  /\ listed'[k] <= appeared'
             /\ listed'[k] # appeared + 1
                  => \E i \in DOMAIN listed : i <= k /\ listed'[k] = listed[i]
  <2>1. CASE k < place
    <3>1. k \in 1..Len(listed) /\ listed'[k] = listed[k]
      BY <1>1, <1>3, <1>4, <2>1
    <3> QED BY <1>1, <1>5, <3>1
  <2>2. CASE k = place
    BY <1>1, <1>3, <1>4, <2>2
  <2>3. CASE k > place
    <3>1. k - 1 \in 1..Len(listed) /\ listed'[k] = listed[k - 1] /\ k - 1 <= k
      BY <1>1, <1>3, <1>4, <2>3
    <3> QED BY <1>1, <1>5, <3>1
  <2> QED BY <1>1, <1>4, <2>1, <2>2, <2>3
<1>7. IsInjective(listed')
  <2> SUFFICES ASSUME NEW k \in DOMAIN listed', NEW n \in DOMAIN listed',
                      listed'[k] = listed'[n]
               PROVE  k = n
    BY DEF IsInjective
  <2>1. \A i, j \in 1..Len(listed) : listed[i] = listed[j] => i = j
    BY <1>1 DEF ListingsTypeOK, IsInjective
  <2>2. \A i \in DOMAIN listed' :
          \/ i = place /\ listed'[i] = appeared + 1
          \/ i < place /\ i \in 1..Len(listed) /\ listed'[i] = listed[i]
               /\ listed'[i] # appeared + 1
          \/ i > place /\ i - 1 \in 1..Len(listed) /\ listed'[i] = listed[i - 1]
               /\ listed'[i] # appeared + 1
    <3> SUFFICES ASSUME NEW i \in DOMAIN listed'
                 PROVE  \/ i = place /\ listed'[i] = appeared + 1
                        \/ i < place /\ i \in 1..Len(listed) /\ listed'[i] = listed[i]
                             /\ listed'[i] # appeared + 1
                        \/ i > place /\ i - 1 \in 1..Len(listed)
                             /\ listed'[i] = listed[i - 1] /\ listed'[i] # appeared + 1
      OBVIOUS
    <3>1. CASE i < place
      BY <1>1, <1>3, <1>4, <1>5, <3>1
    <3>2. CASE i = place
      BY <1>3, <1>4, <3>2
    <3>3. CASE i > place
      <4>1. i - 1 \in 1..Len(listed) /\ listed'[i] = listed[i - 1]
        BY <1>1, <1>3, <1>4, <3>3
      <4> QED BY <1>5, <3>3, <4>1
    <3> QED BY <1>1, <1>4, <3>1, <3>2, <3>3
  <2>3. k \in Nat /\ n \in Nat /\ place \in Nat
    BY <1>1, <1>4
  <2> QED BY <2>1, <2>2, <2>3
<1>8. still \subseteq Range(listed')
  <2> SUFFICES ASSUME NEW x \in still PROVE \E k \in DOMAIN listed' : listed'[k] = x
    BY DEF Range
  <2>1. PICK i \in DOMAIN listed : listed[i] = x
    BY DEF ListingsTypeOK, Range
  <2>2. CASE i < place
    BY <1>1, <1>3, <1>4, <2>1, <2>2
  <2>3. CASE ~(i < place)
    <3>1. i + 1 \in 1..(Len(listed) + 1) /\ i + 1 # place /\ ~(i + 1 < place)
          /\ (i + 1) - 1 = i
      BY <1>1, <2>3
    <3> QED BY <1>3, <1>4, <2>1, <3>1
  <2> QED BY <2>2, <2>3
<1>9. ListingsTypeOK'
  <2>1. appeared' \in 0..MaxListed /\ (disturbed \in BOOLEAN => disturbed' \in BOOLEAN)
    BY <1>1 DEF RowAppears
  <2> QED BY <1>3, <1>7, <1>8, <2>1 DEF ListingsTypeOK, RowAppears, RowIds
<1> QED BY <1>6, <1>9

LEMMA LeavingRow ==
  ASSUME ListingsTypeOK, \A k \in DOMAIN listed : listed[k] <= appeared,
         RowLeaves
  PROVE  /\ ListingsTypeOK' /\ still' \subseteq still
         /\ \A k \in DOMAIN listed' : listed'[k] <= appeared'
<1> DEFINE RowIds == 1 .. MaxListed
<1>1. /\ listed \in Seq(RowIds) /\ Len(listed) \in Nat /\ DOMAIN listed = 1..Len(listed)
  BY LenProperties DEF ListingsTypeOK
<1>2. PICK place \in 1..Len(listed) : /\ listed' = RemoveAt(listed, place)
                                      /\ still' = still \ {listed[place]}
  BY <1>1 DEF RowLeaves
<1>3. /\ listed' \in Seq(RowIds) /\ Len(listed') = Len(listed) - 1
      /\ \A k \in 1..(Len(listed) - 1) :
           listed'[k] = IF k < place THEN listed[k] ELSE listed[k + 1]
  BY <1>1, <1>2, RemovedAt
<1>4. DOMAIN listed' = 1..(Len(listed) - 1)
  BY <1>3, LenProperties
<1>5. \A k \in DOMAIN listed' :
        \/ k < place /\ k \in 1..Len(listed) /\ listed'[k] = listed[k]
        \/ k >= place /\ k + 1 \in 1..Len(listed) /\ listed'[k] = listed[k + 1]
  <2> SUFFICES ASSUME NEW k \in DOMAIN listed'
               PROVE  \/ k < place /\ k \in 1..Len(listed) /\ listed'[k] = listed[k]
                      \/ k >= place /\ k + 1 \in 1..Len(listed)
                           /\ listed'[k] = listed[k + 1]
    OBVIOUS
  <2>1. k \in 1..(Len(listed) - 1) /\ place \in 1..Len(listed)
    BY <1>4
  <2>2. listed'[k] = IF k < place THEN listed[k] ELSE listed[k + 1]
    BY <1>3, <2>1
  <2>3. CASE k < place
    <3>1. k \in 1..Len(listed)
      BY <1>1, <2>1
    <3> QED BY <2>2, <2>3, <3>1
  <2>4. CASE ~(k < place)
    <3>1. k >= place /\ k + 1 \in 1..Len(listed)
      BY <1>1, <2>1, <2>4
    <3> QED BY <2>2, <2>4, <3>1
  <2> QED BY <2>3, <2>4
<1>6. IsInjective(listed')
  <2>1. \A i, j \in 1..Len(listed) : listed[i] = listed[j] => i = j
    BY <1>1 DEF ListingsTypeOK, IsInjective
  <2>2. \A k \in DOMAIN listed' : k \in Nat
    BY <1>4
  <2> QED BY <1>5, <2>1, <2>2 DEF IsInjective
<1>7. \A k \in DOMAIN listed' : listed'[k] <= appeared
  BY <1>1, <1>5
<1>8. still' \subseteq Range(listed')
  <2> SUFFICES ASSUME NEW x \in still, x # listed[place]
               PROVE  \E k \in DOMAIN listed' : listed'[k] = x
    BY <1>2 DEF Range
  <2>1. PICK i \in DOMAIN listed : listed[i] = x
    BY DEF ListingsTypeOK, Range
  <2>2. CASE i < place
    <3>1. i \in 1..(Len(listed) - 1)
      BY <1>1, <2>2
    <3> QED BY <1>3, <1>4, <2>1, <2>2, <3>1
  <2>3. CASE ~(i < place)
    <3>1. i - 1 \in 1..(Len(listed) - 1) /\ ~(i - 1 < place) /\ (i - 1) + 1 = i
      BY <1>1, <2>1, <2>3
    <3> QED BY <1>3, <1>4, <2>1, <3>1
  <2> QED BY <2>2, <2>3
<1> HIDE DEF RowIds
<1>9. ListingsTypeOK'
  BY <1>2, <1>3, <1>6, <1>8 DEF ListingsTypeOK, RowLeaves, RowIds
<1> QED BY <1>2, <1>7, <1>9 DEF RowLeaves

LEMMA MovingRow ==
  ASSUME ListingsTypeOK, \A k \in DOMAIN listed : listed[k] <= appeared,
         RowMoves
  PROVE  /\ ListingsTypeOK'
         /\ \A k \in DOMAIN listed' : listed'[k] <= appeared'
<1> DEFINE RowIds == 1 .. MaxListed
<1>1. /\ listed \in Seq(RowIds) /\ Len(listed) \in Nat /\ DOMAIN listed = 1..Len(listed)
  BY LenProperties DEF ListingsTypeOK
<1>2. PICK from \in 1..Len(listed), place \in 1..Len(listed) :
        listed' = InsertAt(RemoveAt(listed, from), place, listed[from])
  BY <1>1 DEF RowMoves
<1> DEFINE rest == RemoveAt(listed, from)
<1>3. /\ rest \in Seq(RowIds) /\ Len(rest) = Len(listed) - 1
      /\ \A k \in 1..(Len(listed) - 1) :
           rest[k] = IF k < from THEN listed[k] ELSE listed[k + 1]
  BY <1>1, RemovedAt
<1>4. listed[from] \in RowIds /\ place \in 1..(Len(rest) + 1)
  BY <1>1, <1>3
<1> HIDE DEF rest, RowIds
<1>5. /\ listed' \in Seq(RowIds) /\ Len(listed') = Len(rest) + 1
      /\ \A k \in 1..(Len(rest) + 1) :
           listed'[k] = IF k < place THEN rest[k]
                        ELSE IF k = place THEN listed[from] ELSE rest[k - 1]
  <2> DEFINE longer == InsertAt(rest, place, listed[from])
  <2>1. /\ longer \in Seq(RowIds) /\ Len(longer) = Len(rest) + 1
        /\ \A k \in 1..(Len(rest) + 1) :
             longer[k] = IF k < place THEN rest[k]
                         ELSE IF k = place THEN listed[from] ELSE rest[k - 1]
    <3> HIDE DEF longer
    <3>1. \A e \in RowIds : LET l == InsertAt(rest, place, e) IN
            /\ l \in Seq(RowIds) /\ Len(l) = Len(rest) + 1
            /\ \A k \in 1..(Len(rest) + 1) :
                 l[k] = IF k < place THEN rest[k]
                        ELSE IF k = place THEN e ELSE rest[k - 1]
      BY <1>3, <1>4, InsertedAt
    <3>2. longer = InsertAt(rest, place, listed[from])
      BY DEF longer
    <3> QED BY <1>4, <3>1, <3>2
  <2>2. listed' = longer
    BY <1>2 DEF rest
  <2> HIDE DEF longer
  <2> QED BY <2>1, <2>2
<1>6. DOMAIN listed' = 1..Len(listed) /\ Len(rest) + 1 = Len(listed)
  BY <1>1, <1>3, <1>5, LenProperties
\* Where each row was.
<1> DEFINE was(k) == IF k = place THEN from
                     ELSE IF k < place THEN IF k < from THEN k ELSE k + 1
                     ELSE IF k - 1 < from THEN k - 1 ELSE k
           now(i) == IF i = from THEN place
                     ELSE IF i < from THEN IF i < place THEN i ELSE i + 1
                     ELSE IF i - 1 < place THEN i - 1 ELSE i
<1>7. ASSUME NEW k \in 1..Len(listed)
      PROVE  was(k) \in 1..Len(listed) /\ listed'[k] = listed[was(k)]
  <2>1. CASE k = place
    BY <1>5, <1>6, <2>1
  <2>2. CASE k < place
    <3>1. k \in 1..(Len(listed) - 1)
      BY <1>1, <2>2
    <3>2. listed'[k] = rest[k]
      BY <1>5, <1>6, <2>2
    <3>3. rest[k] = IF k < from THEN listed[k] ELSE listed[k + 1]
      BY <1>3, <3>1
    <3> QED BY <1>1, <2>2, <3>1, <3>2, <3>3
  <2>3. CASE k > place
    <3>1. k - 1 \in 1..(Len(listed) - 1) /\ (k - 1) + 1 = k /\ ~(k < place) /\ k # place
      BY <1>1, <2>3
    <3>2. listed'[k] = rest[k - 1]
      BY <1>5, <1>6, <3>1
    <3>3. rest[k - 1] = IF k - 1 < from THEN listed[k - 1] ELSE listed[(k - 1) + 1]
      BY <1>3, <3>1
    <3> QED BY <1>1, <3>1, <3>2, <3>3
  <2> QED BY <1>1, <2>1, <2>2, <2>3
<1>8. \A k, n \in 1..Len(listed) : was(k) = was(n) => k = n
  BY <1>1
<1>9. \A i \in 1..Len(listed) : now(i) \in 1..Len(listed) /\ was(now(i)) = i
  BY <1>1
<1> HIDE DEF was, now
<1>10. IsInjective(listed')
  <2>1. \A i, j \in 1..Len(listed) : listed[i] = listed[j] => i = j
    BY <1>1 DEF ListingsTypeOK, IsInjective
  <2> QED BY <1>6, <1>7, <1>8, <2>1 DEF IsInjective
<1>11. still \subseteq Range(listed')
  <2> SUFFICES ASSUME NEW x \in still PROVE \E k \in DOMAIN listed' : listed'[k] = x
    BY DEF Range
  <2>1. PICK i \in 1..Len(listed) : listed[i] = x
    BY <1>1 DEF ListingsTypeOK, Range
  <2>2. now(i) \in DOMAIN listed' /\ listed'[now(i)] = x
    BY <1>6, <1>7, <1>9, <2>1
  <2> QED BY <2>2
<1>12. \A k \in DOMAIN listed' : listed'[k] <= appeared
  BY <1>1, <1>6, <1>7
<1>13. ListingsTypeOK'
  BY <1>5, <1>10, <1>11 DEF ListingsTypeOK, RowMoves, RowIds
<1> QED BY <1>12, <1>13 DEF RowMoves

-----------------------------------------------------------------------------
(* Listings: a row that was there all the time and that the reader has not *)
(* got is below all that it has been shown.                                *)

Shown == IF "rows" \in answered THEN Skip(page) + PageSize ELSE Skip(page)

ReaderInv ==
  /\ ListingsTypeOK
  /\ \A k \in DOMAIN listed : listed[k] <= appeared
  /\ page = 0 => answered = {}
  /\ page # 0 => ~finished
  /\ page # 0 /\ ~disturbed =>
       \A k \in DOMAIN listed : listed[k] \in still \ seen => k > Shown
  /\ page # 0 /\ ~disturbed /\ answered = {"count"} => total = Len(listed)
  /\ page # 0 /\ ~disturbed /\ answered = {"rows", "count"} /\ page >= TotalPages(total)
       => still \subseteq seen
  /\ EveryRowIsShown

LEMMA PagesFollow ==
  ASSUME NEW p \in Nat \ {0}
  PROVE  /\ Skip(p) \in Nat /\ Skip(p) + PageSize = p * PageSize
         /\ Skip(p + 1) = Skip(p) + PageSize
<1>1. p - 1 \in Nat /\ p \in Nat /\ PageSize \in Nat /\ (p + 1) - 1 = p
  OBVIOUS
<1>2. (p - 1) * PageSize \in Nat /\ (p - 1) * PageSize + PageSize = p * PageSize
  BY <1>1
<1> QED BY <1>1, <1>2 DEF Skip

LEMMA PagesCounted ==
  ASSUME NEW n \in Nat
  PROVE  TotalPages(n) \in Nat
<1>1. n + PageSize - 1 \in Nat /\ PageSize \in Nat /\ PageSize > 0
  OBVIOUS
<1>2. \A a \in Nat, b \in Nat : b > 0 => a \div b \in Nat
  OBVIOUS
<1> QED BY <1>1, <1>2 DEF TotalPages

LEMMA ReaderInit == ListingsInit => ReaderInv
<1> SUFFICES ASSUME ListingsInit PROVE ReaderInv
  OBVIOUS
<1>1. ListingsTypeOK
  BY ListingsTypesInit
<1>2. listed = <<>> /\ page = 0 /\ answered = {} /\ finished = FALSE
  BY DEF ListingsInit
<1>3. DOMAIN listed = {}
  BY <1>2
<1> QED BY <1>1, <1>2, <1>3 DEF ReaderInv, EveryRowIsShown

LEMMA ReaderNext == ReaderInv /\ [ListingsNext]_listingVars => ReaderInv'
<1> SUFFICES ASSUME ReaderInv, [ListingsNext]_listingVars PROVE ReaderInv'
  OBVIOUS
<1> USE DEF Reading
<1>0. /\ listed \in Seq(1 .. MaxListed) /\ Len(listed) \in Nat
      /\ DOMAIN listed = 1..Len(listed) /\ page \in Nat /\ total \in Nat
      /\ ListingsTypeOK
  BY LenProperties DEF ReaderInv, ListingsTypeOK
<1>1. CASE RowAppears
  <2>1. /\ ListingsTypeOK'
        /\ \A k \in DOMAIN listed' :
              /\ listed'[k] <= appeared'
              /\ listed'[k] # appeared + 1
                   => \E i \in DOMAIN listed : i <= k /\ listed'[k] = listed[i]
    BY <1>0, <1>1, AppearingRow DEF ReaderInv
  <2>2. /\ UNCHANGED <<page, answered, total, finished, seen, still>>
        /\ disturbed' = (disturbed \/ answered = {"count"})
    BY <1>1 DEF RowAppears
  <2>3. ASSUME page # 0, ~disturbed', NEW k \in DOMAIN listed', listed'[k] \in still \ seen
        PROVE  k > Shown
    <3>1. appeared + 1 \notin still
      <4>1. SUFFICES ASSUME appeared + 1 \in still PROVE FALSE
        OBVIOUS
      <4>2. PICK k0 \in DOMAIN listed : listed[k0] = appeared + 1
        BY <1>0, <4>1 DEF ListingsTypeOK, Range
      <4>3. appeared + 1 <= appeared
        BY <4>2 DEF ReaderInv
      <4>4. appeared \in Nat
        BY <1>0 DEF ListingsTypeOK
      <4> QED BY <4>3, <4>4
    <3>2. PICK i \in DOMAIN listed : i <= k /\ listed'[k] = listed[i]
      BY <2>1, <2>3, <3>1
    <3>3. i > Shown
      BY <2>2, <2>3, <3>2 DEF ReaderInv
    <3>4. i \in Int /\ k \in Int /\ Shown \in Int
      <4>1. page \in Nat \ {0}
        BY <1>0, <2>3
      <4>2. Skip(page) \in Nat
        BY <4>1, PagesFollow
      <4>3. Shown \in Int
        BY <4>2 DEF Shown
      <4>4. listed' \in Seq(1 .. MaxListed)
        BY <2>1 DEF ListingsTypeOK
      <4> QED BY <1>0, <4>3, <4>4, LenProperties
    <3> QED BY <3>2, <3>3, <3>4
  <2>4. Shown' = Shown
    BY <2>2 DEF Shown, Skip
  <2> QED BY <2>1, <2>2, <2>3, <2>4 DEF ReaderInv, EveryRowIsShown, TotalPages
<1>2. CASE RowLeaves
  <2>1. /\ ListingsTypeOK' /\ still' \subseteq still
        /\ \A k \in DOMAIN listed' : listed'[k] <= appeared'
    BY <1>0, <1>2, LeavingRow DEF ReaderInv
  <2>2. /\ UNCHANGED <<page, answered, total, finished, seen>>
        /\ disturbed' = (disturbed \/ page # 0)
    BY <1>2 DEF RowLeaves
  <2> QED BY <2>1, <2>2 DEF ReaderInv, EveryRowIsShown
<1>3. CASE RowMoves
  <2>1. /\ ListingsTypeOK' /\ \A k \in DOMAIN listed' : listed'[k] <= appeared'
    BY <1>0, <1>3, MovingRow DEF ReaderInv
  <2>2. /\ UNCHANGED <<page, answered, total, finished, seen, still>>
        /\ disturbed' = (disturbed \/ page # 0)
    BY <1>3 DEF RowMoves
  <2> QED BY <2>1, <2>2 DEF ReaderInv, EveryRowIsShown
<1>4. CASE OpenListing
  <2>1. /\ page' = 1 /\ answered' = {} /\ finished' = FALSE /\ seen' = {}
        /\ still' = Range(listed) /\ disturbed' = FALSE
        /\ UNCHANGED <<listing, listed, appeared, total>>
    BY <1>4 DEF OpenListing, tableVars
  <2>2. Shown' = 0
    BY <2>1 DEF Shown, Skip
  <2>3. ListingsTypeOK'
    BY <1>0, <2>1 DEF ListingsTypeOK
  <2>4. \A k \in DOMAIN listed' : k > 0
    BY <1>0, <2>1
  <2>5. answered' # {"count"} /\ answered' # {"rows", "count"}
    BY <2>1
  <2> QED BY <2>1, <2>2, <2>3, <2>4, <2>5 DEF ReaderInv, EveryRowIsShown
<1>5. CASE FindRows
  <2>1. /\ page # 0 /\ "rows" \notin answered
        /\ seen' = seen \cup PageOf(listed, page)
        /\ answered' = answered \cup {"rows"}
        /\ UNCHANGED <<listing, listed, appeared, page, total, finished, still, disturbed>>
    BY <1>5 DEF FindRows, tableVars
  <2>2. Skip(page) \in Nat /\ Skip(page) + PageSize = page * PageSize
    BY <1>0, <2>1, PagesFollow
  <2>3. Shown = Skip(page) /\ Shown' = Skip(page) + PageSize
    BY <2>1 DEF Shown, Skip
  <2>4. ASSUME ~disturbed, NEW k \in DOMAIN listed, listed[k] \in still \ seen'
        PROVE  k > Skip(page) + PageSize
    <3>1. k > Skip(page)
      BY <2>1, <2>3, <2>4 DEF ReaderInv
    <3>2. ~(k \in Skip(page) + 1 .. Skip(page) + PageSize)
      BY <2>1, <2>4 DEF PageOf
    <3> QED BY <1>0, <2>2, <3>1, <3>2
  <2>5. ListingsTypeOK'
    <3>1. PageOf(listed, page) \subseteq 1 .. MaxListed
      BY <1>0 DEF PageOf
    <3> QED BY <1>0, <2>1, <3>1 DEF ListingsTypeOK
  <2>6. ASSUME ~disturbed, answered' = {"rows", "count"}, page >= TotalPages(total),
               NEW x \in still
        PROVE  x \in seen'
    <3>1. answered = {"count"}
      BY <1>0, <2>1, <2>6 DEF ListingsTypeOK
    <3>2. total = Len(listed)
      BY <2>1, <2>6, <3>1 DEF ReaderInv
    <3>3. page * PageSize >= Len(listed)
      BY <1>0, <2>6, <3>2, PagesCover
    <3>4. PICK k \in DOMAIN listed : listed[k] = x
      BY <1>0, <2>6 DEF ListingsTypeOK, Range
    <3>5. k <= Len(listed) /\ k \in Nat
      BY <1>0
    <3>6. ~(k > Skip(page) + PageSize)
      BY <1>0, <2>2, <3>3, <3>5
    <3> QED BY <2>4, <2>6, <3>4, <3>6
  <2>7. answered' # {"count"}
    BY <2>1
  <2>8. TotalPages(total)' = TotalPages(total)
    BY <2>1 DEF TotalPages
  <2> QED BY <2>1, <2>3, <2>4, <2>5, <2>6, <2>7, <2>8 DEF ReaderInv, EveryRowIsShown
<1>6. CASE CountRows
  <2>1. /\ page # 0 /\ "count" \notin answered /\ total' = Len(listed)
        /\ answered' = answered \cup {"count"}
        /\ UNCHANGED <<listing, listed, appeared, page, finished, seen, still, disturbed>>
    BY <1>6 DEF CountRows, tableVars
  <2>2. Skip(page) \in Nat /\ Skip(page) + PageSize = page * PageSize
    BY <1>0, <2>1, PagesFollow
  <2>3. Shown' = Shown
    BY <2>1 DEF Shown, Skip
  <2>4. ListingsTypeOK'
    BY <1>0, <2>1 DEF ListingsTypeOK
  <2>5. ASSUME ~disturbed, answered' = {"rows", "count"}, page >= TotalPages(total'),
               NEW x \in still
        PROVE  x \in seen
    <3>1. "rows" \in answered
      BY <2>1, <2>5
    <3>2. Shown = page * PageSize
      BY <2>2, <3>1 DEF Shown
    <3>3. page * PageSize >= Len(listed)
      BY <1>0, <2>1, <2>5, PagesCover
    <3>4. PICK k \in DOMAIN listed : listed[k] = x
      BY <1>0, <2>5 DEF ListingsTypeOK, Range
    <3>5. k <= Len(listed) /\ k \in Nat /\ page * PageSize \in Nat
      BY <1>0, <2>2
    <3>6. ~(k > Shown)
      BY <1>0, <3>2, <3>3, <3>5
    <3> QED BY <2>1, <2>5, <3>4, <3>6 DEF ReaderInv
  <2>6. TotalPages(total)' = TotalPages(total')
    BY DEF TotalPages
  <2> QED BY <2>1, <2>3, <2>4, <2>5, <2>6 DEF ReaderInv, EveryRowIsShown
<1>7. CASE AnswerPage
  <2>1. /\ answered = {"rows", "count"} /\ page # 0
        /\ answered' = {}
        /\ UNCHANGED <<listing, listed, appeared, total, seen, still, disturbed>>
    BY <1>7 DEF AnswerPage, tableVars, ReaderInv
  <2>2. answered' # {"count"} /\ answered' # {"rows", "count"}
    BY <2>1
  <2>3. CASE page < TotalPages(total)
    <3>1. page' = page + 1 /\ finished' = finished
      BY <1>7, <2>3 DEF AnswerPage
    <3>2. Skip(page + 1) = Skip(page) + PageSize
      BY <1>0, <2>1, PagesFollow
    <3>3. Shown' = Shown
      BY <2>1, <3>1, <3>2 DEF Shown, Skip
    <3>4. ListingsTypeOK'
      BY <1>0, <2>1, <3>1 DEF ListingsTypeOK
    <3> QED BY <1>0, <2>1, <2>2, <3>1, <3>3, <3>4 DEF ReaderInv, EveryRowIsShown
  <2>4. CASE ~(page < TotalPages(total))
    <3>1. page' = 0 /\ finished' = TRUE
      BY <1>7, <2>4 DEF AnswerPage
    <3>2. ListingsTypeOK'
      BY <1>0, <2>1, <3>1 DEF ListingsTypeOK
    <3>3. page >= TotalPages(total)
      BY <1>0, <2>4, PagesCounted
    <3>4. ~disturbed => still \subseteq seen
      BY <2>1, <3>3 DEF ReaderInv
    <3> QED BY <2>1, <2>2, <3>1, <3>2, <3>4 DEF ReaderInv, EveryRowIsShown
  <2> QED BY <2>3, <2>4
<1>8. CASE ListingFails
  <2>1. /\ page' = 0 /\ answered' = {} /\ finished' = listing.hides /\ disturbed' = TRUE
        /\ UNCHANGED <<listing, listed, appeared, total, seen, still>>
    BY <1>8 DEF ListingFails, tableVars
  <2>2. listing.hides \in BOOLEAN
    <3>1. PICK a, b, c, d \in BOOLEAN : listing = Listing(a, b, c, d)
      BY <1>0 DEF ListingsTypeOK, AllListings, Invoices, ServicesListed,
         ResolutionsListed, PublicInquiries, InvoiceUploads, AuditLog, QuotesListed,
         PurchaseOrders, DeliveryOrders, ReceivablesListed, PaymentsListed, Customers,
         Products, RecurringListed, ReceivedDocuments
    <3>2. listing.hides = d
      BY <3>1 DEF Listing
    <3> QED BY <3>2
  <2>3. ListingsTypeOK'
    BY <1>0, <2>1, <2>2 DEF ListingsTypeOK
  <2> QED BY <2>1, <2>3 DEF ReaderInv, EveryRowIsShown
<1>9. CASE UNCHANGED listingVars
  <2>1. UNCHANGED <<listing, listed, appeared, page, answered, total, finished, seen,
                    still, disturbed>>
    BY <1>9 DEF listingVars, tableVars, readerVars
  <2> QED BY <2>1 DEF ReaderInv, ListingsTypeOK, EveryRowIsShown, Shown, Skip, TotalPages
<1> QED BY <1>1, <1>2, <1>3, <1>4, <1>5, <1>6, <1>7, <1>8, <1>9 DEF ListingsNext

\* What the table and the reader of a listing hold keeps its type.
THEOREM ListingsTypes == ListingsSpec => []ListingsTypeOK
<1>1. ReaderInv => ListingsTypeOK
  BY DEF ReaderInv
<1> QED BY <1>1, ReaderInit, ReaderNext, PTL DEF ListingsSpec

\* A reader that goes through all the pages misses no row that stayed where
\* it was, however many rows appear meanwhile.
THEOREM PagesMissNoRow == ListingsSpec => []EveryRowIsShown
<1>1. ReaderInv => EveryRowIsShown
  BY DEF ReaderInv
<1> QED BY <1>1, ReaderInit, ReaderNext, PTL DEF ListingsSpec

-----------------------------------------------------------------------------
(* Money: what the lines round adds up to half a cent per line at most.    *)

LEMMA ColumnRounds ==
  ASSUME NEW n \in Int
  PROVE  /\ HalfUp(n, TaxCent) \in Int
         /\ n - 50000 <= 100000 * HalfUp(n, TaxCent)
         /\ 100000 * HalfUp(n, TaxCent) <= n + 50000
<1>1. HalfUp(n, TaxCent) = (n + 50000) \div 100000
  BY DEF HalfUp, TaxCent
<1> QED BY <1>1

LEMMA FloatRounds ==
  ASSUME NEW n \in Int, NEW m \in Nearest(n, TaxCent)
  PROVE  m \in Int /\ n - 50000 <= 100000 * m /\ 100000 * m <= n + 50000
<1>1. /\ m \in {n \div 100000, n \div 100000 + 1}
      /\ 2 * Magnitude(m * 100000 - n) <= 100000
  BY DEF Nearest, TaxCent
<1>2. m \in Int
  BY <1>1
<1> QED BY <1>1, <1>2 DEF Magnitude

LEMMA CentsAddUp ==
  ASSUME NEW c, NEW t, NEW S, IsFiniteSet(S),
         \A x \in S : /\ c[x] \in Int /\ t[x] \in Int
                      /\ t[x] - 50000 <= 100000 * c[x] /\ 100000 * c[x] <= t[x] + 50000
  PROVE  /\ SumFunctionOnSet(c, S) \in Int /\ SumFunctionOnSet(t, S) \in Int
         /\ SumFunctionOnSet(t, S) - 50000 * Cardinality(S) <= 100000 * SumFunctionOnSet(c, S)
         /\ 100000 * SumFunctionOnSet(c, S) <= SumFunctionOnSet(t, S) + 50000 * Cardinality(S)
<1> DEFINE Sum(k, T) == SumFunctionOnSet(k, T)
           Near == {T \in SUBSET S :
                      /\ Sum(t, T) - 50000 * Cardinality(T) <= 100000 * Sum(c, T)
                      /\ 100000 * Sum(c, T) <= Sum(t, T) + 50000 * Cardinality(T)}
<1>1. ASSUME NEW T \in SUBSET S, \A U \in SUBSET T : U # T => U \in Near
      PROVE  T \in Near
  <2>1. CASE T = {}
    <3>1. Sum(t, T) = 0 /\ Sum(c, T) = 0
      BY <2>1, SumEmpty
    <3>2. Cardinality(T) = 0
      BY <2>1, FS_EmptySet
    <3> HIDE DEF Sum
    <3> QED BY <3>1, <3>2
  <2>2. CASE T # {}
    <3> DEFINE x == First(T)
               U == T \ {x}
    <3>1. x \in T /\ U \in Near /\ IsFiniteSet(T) /\ IsFiniteSet(U)
      BY <1>1, <2>2, FirstIn, FS_Subset
    <3>2. Sum(t, T) = t[x] + Sum(t, U) /\ Sum(c, T) = c[x] + Sum(c, U)
      BY <2>2, <3>1, SumStep
    <3>3. /\ \A y \in U : t[y] \in Int /\ c[y] \in Int
          /\ c[x] \in Int /\ t[x] \in Int
          /\ t[x] - 50000 <= 100000 * c[x] /\ 100000 * c[x] <= t[x] + 50000
      BY <3>1
    <3>4. Sum(t, U) \in Int /\ Sum(c, U) \in Int
      BY <3>1, <3>3, SumInt
    <3>5. Cardinality(U) = Cardinality(T) - 1
      BY <3>1, FS_RemoveElement
    <3>6. Cardinality(T) \in Nat
      BY <3>1, FS_CardinalityType
    <3>7. /\ Sum(t, U) - 50000 * Cardinality(U) <= 100000 * Sum(c, U)
          /\ 100000 * Sum(c, U) <= Sum(t, U) + 50000 * Cardinality(U)
      BY <3>1
    <3> HIDE DEF Sum, U, x
    <3> QED BY <3>2, <3>3, <3>4, <3>5, <3>6, <3>7
  <2> QED BY <2>1, <2>2
<1>2. S \in Near
  <2>1. \A T \in SUBSET S : (\A U \in SUBSET T : U # T => U \in Near) => T \in Near
    BY <1>1
  <2> HIDE DEF Near
  <2> QED BY <2>1, SubsetInduction
<1>3. Sum(c, S) \in Int /\ Sum(t, S) \in Int
  BY SumInt
<1> QED BY <1>2, <1>3

\* The amounts of a line whose discount is not above its value.
LEMMA LineAmounts ==
  ASSUME NEW line \in Lines, Discountable(line)
  PROVE  /\ Gross(line) \in Nat /\ Discount(line) \in Nat
         /\ LineSubtotal(line) = Gross(line) - Discount(line) /\ LineSubtotal(line) \in Nat
         /\ QuotedSubtotal(line) = LineSubtotal(line)
         /\ LineTax(line) \in Nat /\ QuotedTax(line) = LineTax(line)
<1>1. /\ line.quantity \in Nat /\ line.price \in Nat
      /\ line.discount \in Nat /\ line.rate \in Nat
  BY DEF Lines
<1>2. \A a, b \in Nat : a * b \in Nat
  OBVIOUS
<1>3. Gross(line) \in Nat /\ Discount(line) \in Nat
  BY <1>1, <1>2 DEF Gross, Discount, Cent
<1>4. /\ Gross(line) - Discount(line) \in Nat
      /\ AtLeastNothing(Gross(line) - Discount(line)) = Gross(line) - Discount(line)
  BY <1>3 DEF Discountable, AtLeastNothing
<1>5. /\ LineSubtotal(line) = Gross(line) - Discount(line)
      /\ QuotedSubtotal(line) = Gross(line) - Discount(line)
  BY <1>4 DEF LineSubtotal, QuotedSubtotal
<1>6. LineTax(line) \in Nat /\ QuotedTax(line) = LineTax(line)
  BY <1>1, <1>2, <1>4, <1>5 DEF LineTax, QuotedTax
<1> QED BY <1>3, <1>4, <1>5, <1>6

\* What Factus is told of a line that the columns keep as it was asked for.
LEMMA LineDeclared ==
  ASSUME NEW line \in Lines, Discountable(line), InScale(line)
  PROVE  /\ KeptGross(line) = Gross(line)
         /\ line.tax \in Nearest(LineTax(line), TaxCent)
         /\ DeclaredLine(line) = LineSubtotal(line) + 1000 * line.tax
<1>1. KeptGross(line) = Gross(line)
  BY DEF InScale, KeptGross, Gross
<1>2. TaxBase(line) = LineSubtotal(line)
  BY <1>1 DEF TaxBase, LineSubtotal
<1>3. line.tax \in DeclaredTaxes(line)
  BY DEF Lines
<1>4. DeclaredLine(line) = LineSubtotal(line) + 1000 * line.tax
  BY <1>1, LineAmounts DEF DeclaredLine, Cent
<1> QED BY <1>1, <1>2, <1>3, <1>4 DEF DeclaredTaxes, LineTax

\* A rate in hundredths of a percent is off by half of one at most.
LEMMA RateRounds ==
  ASSUME NEW line \in Lines, Discountable(line), InScale(line)
  PROVE  2 * Magnitude(line.discountRate * KeptGross(line) - 10000 * Discount(line))
           <= KeptGross(line)
<1>1. PICK g \in Nat : g = KeptGross(line)
  BY LineAmounts, LineDeclared
<1>2. PICK d \in Nat : d = Discount(line) /\ d <= g
  BY <1>1, LineAmounts, LineDeclared DEF Discountable
<1>3. line.discountRate \in DiscountRates(line)
  BY DEF Lines
<1>4. CASE g = 0
  <2>1. line.discountRate = 0 /\ d = 0
    BY <1>1, <1>2, <1>3, <1>4 DEF DiscountRates
  <2>2. 0 * g - 10000 * d = 0
    BY <1>4, <2>1
  <2> QED BY <1>1, <1>2, <1>4, <2>1, <2>2 DEF Magnitude
<1>5. CASE g # 0 /\ d >= g
  <2>1. line.discountRate = 10000 /\ d = g
    BY <1>1, <1>2, <1>3, <1>5 DEF DiscountRates
  <2>2. 10000 * g - 10000 * d = 0
    BY <2>1
  <2> QED BY <1>1, <1>2, <2>1, <2>2 DEF Magnitude
<1>6. CASE g # 0 /\ ~(d >= g)
  <2>1. line.discountRate \in Nearest(10000 * d, g)
    BY <1>1, <1>2, <1>3, <1>6 DEF DiscountRates
  <2> QED BY <1>1, <1>2, <2>1 DEF Nearest
<1> QED BY <1>4, <1>5, <1>6

LEMMA LineMaker ==
  ASSUME NEW item \in Items, NEW tax \in DeclaredTaxes(item),
         NEW discountRate \in DiscountRates(item)
  PROVE  Line(item, tax, discountRate) \in Lines
<1> DEFINE line == Line(item, tax, discountRate)
<1>1. /\ line.quantity = item.quantity /\ line.price = item.price
      /\ line.discount = item.discount /\ line.rate = item.rate
      /\ line.tax = tax /\ line.discountRate = discountRate
  BY DEF Line
<1>2. KeptGross(line) = KeptGross(item) /\ Discount(line) = Discount(item)
  BY <1>1 DEF KeptGross, KeptQuantity, Discount
<1>3. line.tax \in DeclaredTaxes(line) /\ line.discountRate \in DiscountRates(line)
  BY <1>1, <1>2 DEF DeclaredTaxes, DiscountRates, TaxBase
<1>4. /\ item.quantity \in Nat /\ item.price \in Nat
      /\ item.discount \in Nat /\ item.rate \in Nat
  BY DEF Items
<1>5. \A a, b \in Nat : a * b \in Nat
  OBVIOUS
<1>6. KeptQuantity(item) \in Nat
  BY <1>4 DEF KeptQuantity, HalfUp
<1>7. KeptGross(item) \in Nat /\ Discount(item) \in Nat
  BY <1>4, <1>5, <1>6 DEF KeptGross, Discount, Cent
<1>8. tax \in Int
  <2>1. TaxBase(item) * item.rate \in Int
    BY <1>4, <1>5, <1>7 DEF TaxBase, AtLeastNothing
  <2> QED BY <2>1, FloatRounds DEF DeclaredTaxes
<1>9. discountRate \in Int
  <2>1. \A n \in Nat, unit \in Nat : unit # 0 => n \div unit \in Int
    OBVIOUS
  <2>2. 10000 * Discount(item) \in Nat
    BY <1>7
  <2> QED BY <1>7, <2>1, <2>2 DEF DiscountRates, Nearest
<1>10. line \in [quantity : Quantities, price : Prices, discount : Discounts,
                 rate : TaxRates, tax : Int, discountRate : Int]
  BY <1>8, <1>9 DEF Line, Items
<1> QED BY <1>3, <1>10 DEF Lines

LEMMA LinesKeepType == LinesTypeOK /\ [LinesNext]_lines => LinesTypeOK'
<1> SUFFICES ASSUME LinesTypeOK, [LinesNext]_lines PROVE LinesTypeOK'
  OBVIOUS
<1>1. CASE LinesNext
  <2>1. PICK item \in Items :
          \E tax \in DeclaredTaxes(item), discountRate \in DiscountRates(item) :
            AddLine(item, tax, discountRate)
    BY <1>1 DEF LinesNext
  <2>2. PICK line \in Lines : lines' = Append(lines, line)
    BY <2>1, LineMaker DEF AddLine
  <2> QED BY <2>2, AppendProperties DEF LinesTypeOK
<1>2. CASE UNCHANGED lines
  BY <1>2 DEF LinesTypeOK
<1> QED BY <1>1, <1>2

LEMMA LinesTypesInit == LinesInit => LinesTypeOK
BY DEF LinesInit, LinesTypeOK

\* The lines of a document are lines.
THEOREM LinesTypes == LinesSpec => []LinesTypeOK
BY LinesTypesInit, LinesKeepType, PTL DEF LinesSpec

\* The lines of a document are finitely many.
LEMMA LinesFinite ==
  ASSUME LinesTypeOK
  PROVE  /\ IsFiniteSet(DOMAIN lines) /\ Cardinality(DOMAIN lines) = Len(lines)
         /\ Len(lines) \in Nat /\ \A k \in DOMAIN lines : lines[k] \in Lines
<1>1. Len(lines) \in Nat /\ DOMAIN lines = 1..Len(lines)
  BY LenProperties DEF LinesTypeOK
<1>2. 1 \in Int /\ Len(lines) \in Int
  BY <1>1
<1>3. IsFiniteSet(1..Len(lines))
      /\ Cardinality(1..Len(lines)) = IF 1 > Len(lines) THEN 0 ELSE Len(lines) - 1 + 1
  BY <1>2, FS_Interval
<1>4. \A k \in DOMAIN lines : lines[k] \in Lines
  BY LenProperties DEF LinesTypeOK
<1> QED BY <1>1, <1>3, <1>4

\* Two roundings of a document: of its net amount n and its exact tax t, as a
\* quote, and as the column of its total.
LEMMA TotalRounds ==
  ASSUME LinesTypeOK, \A k \in DOMAIN lines : Discountable(lines[k])
  PROVE  /\ SumOf(LineSubtotal, lines) \in Int /\ SumOf(LineTax, lines) \in Int
         /\ StoredTotal(lines) = HalfUp(100 * SumOf(LineSubtotal, lines)
                                          + SumOf(LineTax, lines), TaxCent)
         /\ QuotedTotals(lines) = Nearest(100 * SumOf(LineSubtotal, lines)
                                            + SumOf(LineTax, lines), TaxCent)
<1> DEFINE S == DOMAIN lines
           net == [k \in S |-> LineSubtotal(lines[k])]
           tax == [k \in S |-> LineTax(lines[k])]
           quotedNet == [k \in S |-> QuotedSubtotal(lines[k])]
           quotedTax == [k \in S |-> QuotedTax(lines[k])]
<1>1. IsFiniteSet(S) /\ \A k \in S : lines[k] \in Lines
  BY LinesFinite
<1>2. \A k \in S : /\ net[k] \in Int /\ quotedNet[k] = net[k]
                   /\ tax[k] \in Int /\ quotedTax[k] = tax[k]
  <2> SUFFICES ASSUME NEW k \in S
               PROVE  /\ net[k] \in Int /\ quotedNet[k] = net[k]
                      /\ tax[k] \in Int /\ quotedTax[k] = tax[k]
    OBVIOUS
  <2>1. /\ LineSubtotal(lines[k]) \in Nat
        /\ QuotedSubtotal(lines[k]) = LineSubtotal(lines[k])
        /\ LineTax(lines[k]) \in Nat /\ QuotedTax(lines[k]) = LineTax(lines[k])
    BY <1>1, LineAmounts
  <2> QED BY <2>1
<1>3. /\ SumOf(QuotedSubtotal, lines) = SumFunctionOnSet(quotedNet, S)
      /\ SumOf(LineSubtotal, lines) = SumFunctionOnSet(net, S)
      /\ SumOf(QuotedTax, lines) = SumFunctionOnSet(quotedTax, S)
      /\ SumOf(LineTax, lines) = SumFunctionOnSet(tax, S)
  BY DEF SumOf, SumFunction
<1> HIDE DEF S, net, tax, quotedNet, quotedTax
<1>4. /\ SumFunctionOnSet(quotedNet, S) = SumFunctionOnSet(net, S)
      /\ SumFunctionOnSet(quotedTax, S) = SumFunctionOnSet(tax, S)
  BY <1>1, <1>2, SumSame
<1>5. SumFunctionOnSet(net, S) \in Int /\ SumFunctionOnSet(tax, S) \in Int
  BY <1>1, <1>2, SumInt
<1> QED BY <1>3, <1>4, <1>5 DEF StoredTotal, QuotedTotals

\* What Factus adds up: the net amount and taxes that are rounded one by one.
LEMMA DeclaredSum ==
  ASSUME LinesTypeOK, \A k \in DOMAIN lines : Discountable(lines[k]) /\ InScale(lines[k])
  PROVE  \E c \in Int :
           /\ SumOf(DeclaredLine, lines) = SumOf(LineSubtotal, lines) + 1000 * c
           /\ SumOf(LineTax, lines) - 50000 * Len(lines) <= 100000 * c
           /\ 100000 * c <= SumOf(LineTax, lines) + 50000 * Len(lines)
<1> DEFINE S == DOMAIN lines
           net == [k \in S |-> LineSubtotal(lines[k])]
           tax == [k \in S |-> LineTax(lines[k])]
           cents == [k \in S |-> lines[k].tax]
           parts == [k \in S |-> 1000 * lines[k].tax]
           declared == [k \in S |-> DeclaredLine(lines[k])]
<1>1. /\ IsFiniteSet(S) /\ Cardinality(S) = Len(lines) /\ Len(lines) \in Nat
      /\ \A k \in S : lines[k] \in Lines
  BY LinesFinite
<1>2. \A k \in S : /\ net[k] \in Int /\ tax[k] \in Int /\ cents[k] \in Int
                   /\ parts[k] = 1000 * cents[k]
                   /\ declared[k] = net[k] + parts[k]
                   /\ tax[k] - 50000 <= 100000 * cents[k]
                   /\ 100000 * cents[k] <= tax[k] + 50000
  <2> SUFFICES ASSUME NEW k \in S
               PROVE  /\ net[k] \in Int /\ tax[k] \in Int /\ cents[k] \in Int
                      /\ parts[k] = 1000 * cents[k]
                      /\ declared[k] = net[k] + parts[k]
                      /\ tax[k] - 50000 <= 100000 * cents[k]
                      /\ 100000 * cents[k] <= tax[k] + 50000
    OBVIOUS
  <2>1. LineSubtotal(lines[k]) \in Int /\ LineTax(lines[k]) \in Int
    BY <1>1, LineAmounts
  <2>2. /\ lines[k].tax \in Nearest(LineTax(lines[k]), TaxCent)
        /\ DeclaredLine(lines[k]) = LineSubtotal(lines[k]) + 1000 * lines[k].tax
    BY <1>1, LineDeclared
  <2>3. /\ lines[k].tax \in Int
        /\ LineTax(lines[k]) - 50000 <= 100000 * lines[k].tax
        /\ 100000 * lines[k].tax <= LineTax(lines[k]) + 50000
    BY <2>1, <2>2, FloatRounds
  <2> QED BY <2>1, <2>2, <2>3
<1>3. /\ SumOf(LineSubtotal, lines) = SumFunctionOnSet(net, S)
      /\ SumOf(LineTax, lines) = SumFunctionOnSet(tax, S)
      /\ SumOf(DeclaredLine, lines) = SumFunctionOnSet(declared, S)
  BY DEF SumOf, SumFunction
<1> HIDE DEF S, net, tax, cents, parts, declared
<1>4. /\ SumFunctionOnSet(cents, S) \in Int
      /\ SumFunctionOnSet(tax, S) - 50000 * Cardinality(S) <= 100000 * SumFunctionOnSet(cents, S)
      /\ 100000 * SumFunctionOnSet(cents, S) <= SumFunctionOnSet(tax, S) + 50000 * Cardinality(S)
  BY <1>1, <1>2, CentsAddUp
<1>5. SumFunctionOnSet(parts, S) = 1000 * SumFunctionOnSet(cents, S)
  BY <1>1, <1>2, SumScaled
<1>6. SumFunctionOnSet(declared, S) = SumFunctionOnSet(net, S) + SumFunctionOnSet(parts, S)
  <2>1. \A n \in Int : 1000 * n \in Int
    OBVIOUS
  <2>2. \A k \in S : parts[k] \in Int
    BY <1>2, <2>1
  <2>3. \A k \in S : net[k] \in Int /\ declared[k] = net[k] + parts[k]
    BY <1>2
  <2> QED BY <1>1, <2>2, <2>3, SumAdd
<1>7. PICK c \in Int : c = SumFunctionOnSet(cents, S)
  BY <1>4
<1>8. /\ SumOf(DeclaredLine, lines) = SumOf(LineSubtotal, lines) + 1000 * c
      /\ SumOf(LineTax, lines) - 50000 * Len(lines) <= 100000 * c
      /\ 100000 * c <= SumOf(LineTax, lines) + 50000 * Len(lines)
  BY <1>1, <1>3, <1>4, <1>5, <1>6, <1>7
<1> QED BY <1>8

\* What the sums of a document have in common, for every document there is.
LEMMA LinesAreDeclared == LinesTypeOK => DeclaredAsStored
<1> SUFFICES ASSUME LinesTypeOK, \A k \in DOMAIN lines : Discountable(lines[k])
             PROVE  /\ \A quoted \in QuotedTotals(lines) :
                         Magnitude(quoted - StoredTotal(lines)) <= 1
                    /\ (\A k \in DOMAIN lines : InScale(lines[k])) =>
                         /\ 2 * Magnitude(SumOf(DeclaredLine, lines)
                                            - Cent * StoredTotal(lines))
                              <= Cent * (Len(lines) + 1)
                         /\ \A k \in DOMAIN lines :
                              2 * Magnitude(lines[k].discountRate * KeptGross(lines[k])
                                              - 10000 * Discount(lines[k]))
                                <= KeptGross(lines[k])
  BY DEF DeclaredAsStored
<1>1. PICK n \in Int : n = SumOf(LineSubtotal, lines)
  BY TotalRounds
<1>2. PICK t \in Int : t = SumOf(LineTax, lines)
  BY TotalRounds
<1>3. 100 * n + t \in Int
  OBVIOUS
<1>4. PICK s \in Int : /\ s = StoredTotal(lines)
                       /\ 100 * n + t - 50000 <= 100000 * s
                       /\ 100000 * s <= 100 * n + t + 50000
  <2>1. StoredTotal(lines) = HalfUp(100 * n + t, TaxCent)
    BY <1>1, <1>2, TotalRounds
  <2>2. /\ HalfUp(100 * n + t, TaxCent) \in Int
        /\ 100 * n + t - 50000 <= 100000 * HalfUp(100 * n + t, TaxCent)
        /\ 100000 * HalfUp(100 * n + t, TaxCent) <= 100 * n + t + 50000
    BY <1>3, ColumnRounds
  <2> QED BY <2>1, <2>2
<1>5. ASSUME NEW quoted \in QuotedTotals(lines)
      PROVE  Magnitude(quoted - StoredTotal(lines)) <= 1
  <2>1. /\ quoted \in Int /\ 100 * n + t - 50000 <= 100000 * quoted
        /\ 100000 * quoted <= 100 * n + t + 50000
    BY <1>1, <1>2, <1>3, TotalRounds, FloatRounds
  <2>2. quoted - s <= 1 /\ s - quoted <= 1
    BY <1>4, <2>1
  <2> QED BY <1>4, <2>1, <2>2 DEF Magnitude
<1>6. ASSUME \A k \in DOMAIN lines : InScale(lines[k])
      PROVE  /\ 2 * Magnitude(SumOf(DeclaredLine, lines) - Cent * StoredTotal(lines))
                  <= Cent * (Len(lines) + 1)
             /\ \A k \in DOMAIN lines :
                  2 * Magnitude(lines[k].discountRate * KeptGross(lines[k])
                                  - 10000 * Discount(lines[k]))
                    <= KeptGross(lines[k])
  <2>1. PICK c \in Int : /\ SumOf(DeclaredLine, lines) = n + 1000 * c
                         /\ t - 50000 * Len(lines) <= 100000 * c
                         /\ 100000 * c <= t + 50000 * Len(lines)
    BY <1>1, <1>2, <1>6, DeclaredSum
  <2>2. PICK l \in Nat : l = Len(lines)
    BY LinesFinite
  <2>3. t - 50000 * l <= 100000 * c /\ 100000 * c <= t + 50000 * l
    BY <2>1, <2>2
  <2>4. 2 * Magnitude((n + 1000 * c) - 1000 * s) <= 1000 * (l + 1)
    BY <1>4, <2>3 DEF Magnitude
  <2>5. \A k \in DOMAIN lines :
          2 * Magnitude(lines[k].discountRate * KeptGross(lines[k]) - 10000 * Discount(lines[k]))
            <= KeptGross(lines[k])
    BY <1>6, LinesFinite, RateRounds
  <2> QED BY <1>4, <2>1, <2>2, <2>4, <2>5 DEF Cent
<1> QED BY <1>5, <1>6

\* Whatever lines a document has and whichever way floats round half a cent:
\* invoices cost what was quoted, to the cent; what Factus adds up is what is
\* stored but for half a cent per line and half a cent; and the rates of notes
\* are those of their discounts but for half a hundredth of a percent.
THEOREM DeclaredIsStored == LinesSpec => []DeclaredAsStored
BY LinesTypes, LinesAreDeclared, PTL

-----------------------------------------------------------------------------
(* The office: whoever is told that its copy is old is a request.          *)

Marked == stale' \subseteq stale \cup Requests

LEMMA RequestsMark ==
  ASSUME NEW r \in Requests
  PROVE  /\ \A label, form : Begin(r, label, form) => Marked
         /\ Finish(r) => Marked
         /\ CutShort(r) => Marked
         /\ \A row : FinishWriting(r, row) => Marked
BY DEF Begin, CutShort, Finish, FinishWriting, Readers, Marked

LEMMA SourcingMarks == ASSUME [SourcingNext]_sourcingVars PROVE Marked
<1>1. ASSUME NEW r \in Requests,
             \/ \E q \in Quotes : BeginQuote(r, q)
             \/ \E p \in Purchases, q \in Quotes, way \in {"create", "convert"} :
                  BeginPurchase(r, p, q, way)
             \/ \E d \in Deliveries, p \in Purchases : BeginDelivery(r, d, p)
             \/ \E d \in Quotes \cup Purchases : \E wanted \in StatusesOf(d) \cap Wanted :
                  BeginPaperStatus(r, d, wanted)
      PROVE  Marked
  BY <1>1, RequestsMark DEF BeginQuote, BeginPurchase, BeginDelivery, BeginPaperStatus
<1>2. ASSUME NEW r \in Requests,
             \/ TakeNumber(r) \/ CreateDocument(r) \/ ApproveAgain(r)
             \/ WritePaperStatus(r) \/ CutSourcing(r)
      PROVE  Marked
  BY <1>2, RequestsMark DEF TakeNumber, CreateDocument, ApproveAgain, WritePaperStatus,
     CutSourcing, Marked
<1>3. CASE UNCHANGED sourcingVars
  BY <1>3 DEF sourcingVars, requestVars, Marked
<1> QED BY <1>1, <1>2, <1>3 DEF SourcingNext

LEMMA ResolutionsMark == ASSUME [ResolutionsNext]_resolutionVars PROVE Marked
<1>1. ASSUME NEW from, NEW to, NEW next, NEW type, CreateResolution(from, to, next, type)
      PROVE  Marked
  BY <1>1 DEF CreateResolution, requestVars, Marked
<1>2. ASSUME NEW s, NEW from, NEW to, NEW next, NEW active, NEW type,
             UpdateResolution(s, from, to, next, active, type)
      PROVE  Marked
  BY <1>2 DEF UpdateResolution, Marked
<1>3. ASSUME NEW r \in Requests,
             \/ \E s \in ResolutionIds : BeginConsecutive(r, s)
             \/ \E i \in Drafts : BeginLocal(r, i)
             \/ TakeConsecutive(r) \/ EmitLocal(r) \/ CutResolutions(r)
      PROVE  Marked
  BY <1>3, RequestsMark DEF BeginConsecutive, BeginLocal, TakeConsecutive, EmitLocal,
     CutResolutions, Marked
<1>4. CASE UNCHANGED resolutionVars
  BY <1>4 DEF resolutionVars, requestVars, Marked
<1> QED BY <1>1, <1>2, <1>3, <1>4 DEF ResolutionsNext

LEMMA SyncMarks == ASSUME [SyncNext]_syncVars PROVE Marked
<1>1. ASSUME NEW data, UpdateCompany(data) PROVE Marked
  BY <1>1 DEF UpdateCompany, Marked
<1>2. ASSUME NEW r \in Requests,
             \/ \E s \in SyncedResolutions : BeginSyncRange(r, s)
             \/ AskFactus(r) \/ StoreRange(r)
             \/ BeginSyncCompany(r) \/ SendCompany(r) \/ MarkSynced(r) \/ CutSync(r)
      PROVE  Marked
  BY <1>2, RequestsMark DEF BeginSyncRange, AskFactus, StoreRange, BeginSyncCompany,
     SendCompany, MarkSynced, CutSync, Marked
<1>3. CASE UNCHANGED syncVars
  BY <1>3 DEF syncVars, requestVars, Marked
<1> QED BY <1>1, <1>2, <1>3 DEF SyncNext

LEMMA ServicesMark == ASSUME [ServicesNext]_serviceVars PROVE Marked
<1>1. ASSUME NEW s, NEW q, NEW p, CreateService(s, q, p) PROVE Marked
  BY <1>1 DEF CreateService, requestVars, Marked
<1>2. ASSUME NEW n, RenumberInvoices(n) PROVE Marked
  BY <1>2 DEF RenumberInvoices, requestVars, Marked
<1>3. ASSUME NEW r \in Requests, NEW s \in Services,
             \/ \E status \in ServiceStatus \cap Wanted : BeginServiceStatus(r, s, status)
             \/ \E q \in {0} \cup ServiceQuantities, p \in {0} \cup ServicePrices :
                  BeginServiceUpdate(r, s, q, p)
             \/ BeginServiceInvoice(r, s)
      PROVE  Marked
  BY <1>3, RequestsMark DEF BeginServiceStatus, BeginServiceUpdate, BeginServiceInvoice
<1>4. ASSUME NEW r \in Requests,
             \/ WriteServiceStatus(r) \/ WriteService(r)
             \/ \E i \in ServiceInvoices : BillService(r, i)
             \/ CutServices(r)
      PROVE  Marked
  BY <1>4, RequestsMark DEF WriteServiceStatus, WriteService, BillService, CutServices, Marked
<1>5. CASE UNCHANGED serviceVars
  BY <1>5 DEF serviceVars, requestVars, Marked
<1> QED BY <1>1, <1>2, <1>3, <1>4, <1>5 DEF ServicesNext

LEMMA DirectoryMarks == ASSUME [DirectoryNext]_directoryVars PROVE Marked
<1>1. ASSUME NEW r \in Requests, NEW e \in Entries,
             \/ \E key \in Keys : BeginCreate(r, e, key)
             \/ \E key \in Keys \cup {None}, status \in {None, "active", "inactive"} :
                  BeginEdit(r, e, key, status)
             \/ BeginRemove(r, e)
      PROVE  Marked
  BY <1>1, RequestsMark DEF BeginCreate, BeginEdit, BeginRemove
<1>2. ASSUME NEW r \in Requests,
             InsertEntry(r) \/ WriteEntry(r) \/ RemoveEntry(r) \/ CutDirectory(r)
      PROVE  Marked
  BY <1>2, RequestsMark DEF InsertEntry, WriteEntry, RemoveEntry, CutDirectory, Marked
<1>3. CASE UNCHANGED directoryVars
  BY <1>3 DEF directoryVars, requestVars, Marked
<1> QED BY <1>1, <1>2, <1>3 DEF DirectoryNext

LEMMA RecurringMarks == ASSUME [RecurringNext]_recurringVars PROVE Marked
<1>1. ASSUME NEW x, NEW status, SetRecurringStatus(x, status) PROVE Marked
  BY <1>1 DEF SetRecurringStatus, requestVars, Marked
<1>2. ASSUME NEW r \in Requests,
             \/ \E x \in Recurring, category \in Categories \cup {None},
                   sub \in Subcategories \cup {None} :
                  BeginRecurring(r, x, category, sub) \/ BeginMove(r, x, category, sub)
             \/ CreateRecurring(r) \/ MoveRecurring(r) \/ CutRecurring(r)
      PROVE  Marked
  BY <1>2, RequestsMark DEF BeginRecurring, BeginMove, CreateRecurring, MoveRecurring,
     CutRecurring, Marked
<1>3. CASE UNCHANGED recurringVars
  BY <1>3 DEF recurringVars, requestVars, Marked
<1> QED BY <1>1, <1>2, <1>3 DEF RecurringNext

LEMMA StoreMarks == ASSUME [StoreNext]_storeVars PROVE Marked
<1>1. ASSUME NEW file, UploadAttachment(file) \/ UploadInvoice(file) PROVE Marked
  BY <1>1 DEF UploadAttachment, UploadInvoice, requestVars, Marked
<1>2. ASSUME NEW a, NEW file, CreateAttachment(a, file) PROVE Marked
  BY <1>2 DEF CreateAttachment, requestVars, Marked
<1>3. ASSUME NEW u, NEW folders, NEW file, RegisterUpload(u, folders, file) PROVE Marked
  BY <1>3 DEF RegisterUpload, requestVars, Marked
<1>4. ASSUME NEW r \in Requests,
             \/ \E a \in Attachments : BeginRemoval(r, a)
             \/ \E b \in Bills : BeginArchive(r, b)
             \/ RemoveFile(r) \/ RemoveRow(r) \/ StoreXml(r) \/ StorePdf(r)
             \/ WritePaths(r) \/ CutStore(r)
      PROVE  Marked
  BY <1>4, RequestsMark DEF BeginRemoval, BeginArchive, RemoveFile, RemoveRow, GoOn,
     StoreXml, StorePdf, ArchiveOne, WritePaths, CutStore, Marked
<1>5. CASE UNCHANGED storeVars
  BY <1>5 DEF storeVars, requestVars, Marked
<1> QED BY <1>1, <1>2, <1>3, <1>4, <1>5 DEF StoreNext

LEMMA MailMarks == ASSUME [MailNext]_mailVars PROVE Marked
<1>1. ASSUME NEW d, CreateBill(d) \/ InvoiceService(d) \/ BeginEmission(d)
      PROVE  Marked
  BY <1>1 DEF CreateBill, InvoiceService, BeginEmission, BillBecomes, requestVars, Marked
<1>2. ASSUME NEW d, \/ \E dian \in {"VALIDADA", "ENVIADA", "RECHAZADA"} : EndEmission(d, dian)
                    \/ EmitHere(d) \/ CancelBill(d)
      PROVE  Marked
  BY <1>2 DEF EndEmission, EmitHere, CancelBill, BillBecomes, requestVars, Marked
<1>3. ASSUME NEW r \in Requests,
             \/ \E d \in Mails : BeginMail(r, d)
             \/ HandOver(r) \/ NoteMail(r) \/ CutMail(r)
      PROVE  Marked
  BY <1>3, RequestsMark DEF BeginMail, HandOver, NoteMail, CutMail, Marked
<1>4. CASE UNCHANGED mailVars
  BY <1>4 DEF mailVars, requestVars, Marked
<1> QED BY <1>1, <1>2, <1>3, <1>4 DEF MailNext

\* What the requests hold, whichever desk they crowd.
RequestsOK ==
  DOMAIN pc = Requests /\ DOMAIN sheet = Requests /\ stale \subseteq Requests

LEMMA FramedRequests == Framed /\ stale \subseteq Requests => RequestsOK
BY DEF Framed, RequestsOK

LEMMA NobodyIsTold == RequestsInit => stale \subseteq Requests
BY DEF RequestsInit

LEMMA SourcingRequests == SourcingSpec => []RequestsOK
<1> DEFINE Known == stale \subseteq Requests
<1>1. SourcingInit => Known
  BY NobodyIsTold DEF SourcingInit
<1>2. Known /\ [SourcingNext]_sourcingVars => Known'
  BY SourcingMarks DEF Marked
<1>3. SourcingInv /\ Known => RequestsOK
  BY FramedRequests DEF SourcingInv, PaperTypes
<1> QED BY <1>1, <1>2, <1>3, InitSourcingInv, NextSourcingInv, PTL DEF SourcingSpec

LEMMA ResolutionsRequests == ResolutionsSpec => []RequestsOK
<1> DEFINE Known == stale \subseteq Requests
<1>1. ResolutionsInit => Known
  BY NobodyIsTold DEF ResolutionsInit
<1>2. Known /\ [ResolutionsNext]_resolutionVars => Known'
  BY ResolutionsMark DEF Marked
<1>3. ResolutionInv /\ Known => RequestsOK
  BY FramedRequests DEF ResolutionInv
<1> QED BY <1>1, <1>2, <1>3, InitResolutionInv, NextResolutionInv, PTL DEF ResolutionsSpec

LEMMA SyncRequests == SyncSpec => []RequestsOK
<1> DEFINE Known == stale \subseteq Requests
<1>1. SyncInit => Known
  BY NobodyIsTold DEF SyncInit
<1>2. Known /\ [SyncNext]_syncVars => Known'
  BY SyncMarks DEF Marked
<1>3. SyncInv /\ Known => RequestsOK
  BY FramedRequests DEF SyncInv
<1> QED BY <1>1, <1>2, <1>3, InitSync, NextSync, PTL DEF SyncSpec

LEMMA ServicesRequests == ServicesSpec => []RequestsOK
<1> DEFINE Known == stale \subseteq Requests
<1>1. ServicesInit => Known
  BY NobodyIsTold DEF ServicesInit
<1>2. Known /\ [ServicesNext]_serviceVars => Known'
  BY ServicesMark DEF Marked
<1>3. ServicesInv /\ Known => RequestsOK
  BY FramedRequests DEF ServicesInv, ServicesTyped
<1> QED BY <1>1, <1>2, <1>3, InitServices, NextServices, PTL DEF ServicesSpec

LEMMA DirectoryRequests == DirectorySpec => []RequestsOK
<1> DEFINE Known == stale \subseteq Requests
<1>1. DirectoryInit => Known
  BY NobodyIsTold DEF DirectoryInit
<1>2. Known /\ [DirectoryNext]_directoryVars => Known'
  BY DirectoryMarks DEF Marked
<1>3. DirectoryInv /\ Known => RequestsOK
  BY FramedRequests DEF DirectoryInv
<1> QED BY <1>1, <1>2, <1>3, InitDirectory, NextDirectory, PTL DEF DirectorySpec

LEMMA RecurringRequests == RecurringSpec => []RequestsOK
<1> DEFINE Known == stale \subseteq Requests
<1>1. RecurringInit => Known
  BY NobodyIsTold DEF RecurringInit
<1>2. Known /\ [RecurringNext]_recurringVars => Known'
  BY RecurringMarks DEF Marked
<1>3. RecurringInv /\ Known => RequestsOK
  BY FramedRequests DEF RecurringInv, RecurringTyped
<1> QED BY <1>1, <1>2, <1>3, InitRecurring, NextRecurring, PTL DEF RecurringSpec

LEMMA FilesRequests == StoreSpec => []RequestsOK
<1> DEFINE Known == stale \subseteq Requests
<1>1. StoreInit => Known
  BY NobodyIsTold DEF StoreInit
<1>2. Known /\ [StoreNext]_storeVars => Known'
  BY StoreMarks DEF Marked
<1>3. StoreInv /\ Known => RequestsOK
  BY FramedRequests DEF StoreInv, StoreTyped
<1> QED BY <1>1, <1>2, <1>3, InitStore, NextStore, PTL DEF StoreSpec

LEMMA MailRequests == MailSpec => []RequestsOK
<1> DEFINE Known == stale \subseteq Requests
<1>1. MailInit => Known
  BY NobodyIsTold DEF MailInit
<1>2. Known /\ [MailNext]_mailVars => Known'
  BY MailMarks DEF Marked
<1>3. MailInv /\ Known => RequestsOK
  BY FramedRequests DEF MailInv, MailTyped
<1> QED BY <1>1, <1>2, <1>3, InitMail, NextMail, PTL DEF MailSpec

-----------------------------------------------------------------------------
(* The office serves the desk that was chosen, by the steps of that desk.  *)

LEMMA DeskStays == ASSUME [Next]_officeVars PROVE desk' = desk
BY DEF Next, officeVars

LEMMA RequestsUntouched ==
  ASSUME [Next]_officeVars, RequestsOK, desk = "lines" \/ desk = "listings"
  PROVE  RequestsOK'
<1>1. CASE Next
  BY <1>1 DEF Next, AtSourcing, AtResolutions, AtSync, AtServices, AtDirectory, AtRecurring,
     AtLines, AtListings, AtFiles, AtMail, requestVars, RequestsOK
<1>2. CASE UNCHANGED officeVars
  BY <1>2 DEF officeVars, requestVars, RequestsOK
<1> QED BY <1>1, <1>2

LEMMA OnlyItsSteps ==
  ASSUME [Next]_officeVars
  PROVE  /\ desk = "sourcing" => [SourcingNext]_sourcingVars
         /\ desk = "resolutions" => [ResolutionsNext]_resolutionVars
         /\ desk = "sync" => [SyncNext]_syncVars
         /\ desk = "services" => [ServicesNext]_serviceVars
         /\ desk = "directory" => [DirectoryNext]_directoryVars
         /\ desk = "recurring" => [RecurringNext]_recurringVars
         /\ desk = "lines" => [LinesNext]_lines
         /\ desk = "listings" => [ListingsNext]_listingVars
         /\ desk = "files" => [StoreNext]_storeVars
         /\ desk = "mail" => [MailNext]_mailVars
<1>1. CASE Next
  <2> USE <1>1 DEF Next, AtSourcing, AtResolutions, AtSync, AtServices, AtDirectory,
            AtRecurring, AtLines, AtListings, AtFiles, AtMail
  <2>1. desk = "sourcing" => SourcingNext
    OBVIOUS
  <2>2. desk = "resolutions" => ResolutionsNext
    OBVIOUS
  <2>3. desk = "sync" => SyncNext
    OBVIOUS
  <2>4. desk = "services" => ServicesNext
    OBVIOUS
  <2>5. desk = "directory" => DirectoryNext
    OBVIOUS
  <2>6. desk = "recurring" => RecurringNext
    OBVIOUS
  <2>7. desk = "lines" => LinesNext
    OBVIOUS
  <2>8. desk = "listings" => ListingsNext
    OBVIOUS
  <2>9. desk = "files" => StoreNext
    OBVIOUS
  <2>10. desk = "mail" => MailNext
    OBVIOUS
  <2> QED BY <2>1, <2>2, <2>3, <2>4, <2>5, <2>6, <2>7, <2>8, <2>9, <2>10
<1>2. CASE UNCHANGED officeVars
  <2>1. UNCHANGED <<requestVars, sourcingRows, resolutionTables, syncRows, serviceRows,
                    directoryRows, recurringRows, lines, listingVars, fileRows, mailRows>>
    BY <1>2 DEF officeVars, allRows
  <2>2. UNCHANGED <<sourcingVars, resolutionVars, syncVars, serviceVars>>
    BY <2>1 DEF sourcingVars, sourcingRows, documentVars, resolutionVars,
       resolutionTables, syncVars, syncRows, serviceVars, serviceRows, numbering
  <2>3. UNCHANGED <<directoryVars, recurringVars, lines, listingVars, storeVars, mailVars>>
    BY <2>1 DEF directoryVars, directoryRows, recurringVars, recurringRows, storeVars,
       fileRows, mailVars, mailRows
  <2> QED BY <2>2, <2>3
<1> QED BY <1>1, <1>2

\* Whichever desk the office serves, what it does is what that desk does, from
\* the start on: each theorem about a desk is one about the office.
THEOREM OfficeServesADesk ==
  Spec => /\ desk = "sourcing" => SourcingSpec
          /\ desk = "resolutions" => ResolutionsSpec
          /\ desk = "sync" => SyncSpec
          /\ desk = "services" => ServicesSpec
          /\ desk = "directory" => DirectorySpec
          /\ desk = "recurring" => RecurringSpec
          /\ desk = "lines" => LinesSpec
          /\ desk = "listings" => ListingsSpec
          /\ desk = "files" => StoreSpec
          /\ desk = "mail" => MailSpec
<1>1. ASSUME Init PROVE SourcingInit /\ ResolutionsInit /\ SyncInit /\ ServicesInit /\ DirectoryInit
                         /\ RecurringInit /\ LinesInit /\ ListingsInit /\ StoreInit /\ MailInit
  BY <1>1 DEF Init
<1>2. Spec => (desk = "sourcing" => SourcingSpec)
  <2>1. Init => SourcingInit
    BY <1>1
  <2>2. desk = "sourcing" /\ [Next]_officeVars =>
        [SourcingNext]_sourcingVars /\ (desk = "sourcing")'
    BY DeskStays, OnlyItsSteps
  <2> QED BY <2>1, <2>2, PTL DEF Spec, SourcingSpec
<1>3. Spec => (desk = "resolutions" => ResolutionsSpec)
  <2>1. Init => ResolutionsInit
    BY <1>1
  <2>2. desk = "resolutions" /\ [Next]_officeVars =>
        [ResolutionsNext]_resolutionVars /\ (desk = "resolutions")'
    BY DeskStays, OnlyItsSteps
  <2> QED BY <2>1, <2>2, PTL DEF Spec, ResolutionsSpec
<1>4. Spec => (desk = "sync" => SyncSpec)
  <2>1. Init => SyncInit
    BY <1>1
  <2>2. desk = "sync" /\ [Next]_officeVars =>
        [SyncNext]_syncVars /\ (desk = "sync")'
    BY DeskStays, OnlyItsSteps
  <2> QED BY <2>1, <2>2, PTL DEF Spec, SyncSpec
<1>5. Spec => (desk = "services" => ServicesSpec)
  <2>1. Init => ServicesInit
    BY <1>1
  <2>2. desk = "services" /\ [Next]_officeVars =>
        [ServicesNext]_serviceVars /\ (desk = "services")'
    BY DeskStays, OnlyItsSteps
  <2> QED BY <2>1, <2>2, PTL DEF Spec, ServicesSpec
<1>6. Spec => (desk = "directory" => DirectorySpec)
  <2>1. Init => DirectoryInit
    BY <1>1
  <2>2. desk = "directory" /\ [Next]_officeVars =>
        [DirectoryNext]_directoryVars /\ (desk = "directory")'
    BY DeskStays, OnlyItsSteps
  <2> QED BY <2>1, <2>2, PTL DEF Spec, DirectorySpec
<1>7. Spec => (desk = "recurring" => RecurringSpec)
  <2>1. Init => RecurringInit
    BY <1>1
  <2>2. desk = "recurring" /\ [Next]_officeVars =>
        [RecurringNext]_recurringVars /\ (desk = "recurring")'
    BY DeskStays, OnlyItsSteps
  <2> QED BY <2>1, <2>2, PTL DEF Spec, RecurringSpec
<1>8. Spec => (desk = "lines" => LinesSpec)
  <2>1. Init => LinesInit
    BY <1>1
  <2>2. desk = "lines" /\ [Next]_officeVars =>
        [LinesNext]_lines /\ (desk = "lines")'
    BY DeskStays, OnlyItsSteps
  <2> QED BY <2>1, <2>2, PTL DEF Spec, LinesSpec
<1>9. Spec => (desk = "listings" => ListingsSpec)
  <2>1. Init => ListingsInit
    BY <1>1
  <2>2. desk = "listings" /\ [Next]_officeVars =>
        [ListingsNext]_listingVars /\ (desk = "listings")'
    BY DeskStays, OnlyItsSteps
  <2> QED BY <2>1, <2>2, PTL DEF Spec, ListingsSpec
<1>10. Spec => (desk = "files" => StoreSpec)
  <2>1. Init => StoreInit
    BY <1>1
  <2>2. desk = "files" /\ [Next]_officeVars =>
        [StoreNext]_storeVars /\ (desk = "files")'
    BY DeskStays, OnlyItsSteps
  <2> QED BY <2>1, <2>2, PTL DEF Spec, StoreSpec
<1>11. Spec => (desk = "mail" => MailSpec)
  <2>1. Init => MailInit
    BY <1>1
  <2>2. desk = "mail" /\ [Next]_officeVars =>
        [MailNext]_mailVars /\ (desk = "mail")'
    BY DeskStays, OnlyItsSteps
  <2> QED BY <2>1, <2>2, PTL DEF Spec, MailSpec
<1> QED BY <1>2, <1>3, <1>4, <1>5, <1>6, <1>7, <1>8, <1>9, <1>10, <1>11

\* The types of the office, whichever desk it serves.
THEOREM OfficeTypes == Spec => []OfficeTypeOK
<1>1. Init => RequestsOK /\ desk \in Desks
  BY FramedRequests, RequestsFramed, NobodyIsTold DEF Init, SourcingInit
<1>2. desk \in Desks /\ [Next]_officeVars => (desk \in Desks)'
  BY DeskStays
<1>3. Spec => [](desk = "sourcing" => SourcingTypeOK /\ RequestsOK)
  <2>1. ~(desk = "sourcing") /\ [Next]_officeVars => ~(desk = "sourcing")'
    BY DeskStays
  <2>2. Spec => (desk = "sourcing" => SourcingSpec)
    BY OfficeServesADesk
  <2> QED BY <2>1, <2>2, SourcingTypes, SourcingRequests, PTL DEF Spec
<1>4. Spec => [](desk = "resolutions" => ResolutionsTypeOK /\ RequestsOK)
  <2>1. ~(desk = "resolutions") /\ [Next]_officeVars => ~(desk = "resolutions")'
    BY DeskStays
  <2>2. Spec => (desk = "resolutions" => ResolutionsSpec)
    BY OfficeServesADesk
  <2> QED BY <2>1, <2>2, ResolutionTypes, ResolutionsRequests, PTL DEF Spec
<1>5. Spec => [](desk = "sync" => SyncTypeOK /\ RequestsOK)
  <2>1. ~(desk = "sync") /\ [Next]_officeVars => ~(desk = "sync")'
    BY DeskStays
  <2>2. Spec => (desk = "sync" => SyncSpec)
    BY OfficeServesADesk
  <2> QED BY <2>1, <2>2, SyncTypes, SyncRequests, PTL DEF Spec
<1>6. Spec => [](desk = "services" => ServicesTypeOK /\ RequestsOK)
  <2>1. ~(desk = "services") /\ [Next]_officeVars => ~(desk = "services")'
    BY DeskStays
  <2>2. Spec => (desk = "services" => ServicesSpec)
    BY OfficeServesADesk
  <2> QED BY <2>1, <2>2, ServiceTypes, ServicesRequests, PTL DEF Spec
<1>7. Spec => [](desk = "directory" => DirectoryTypeOK /\ RequestsOK)
  <2>1. ~(desk = "directory") /\ [Next]_officeVars => ~(desk = "directory")'
    BY DeskStays
  <2>2. Spec => (desk = "directory" => DirectorySpec)
    BY OfficeServesADesk
  <2> QED BY <2>1, <2>2, DirectoryTypes, DirectoryRequests, PTL DEF Spec
<1>8. Spec => [](desk = "recurring" => RecurringTypeOK /\ RequestsOK)
  <2>1. ~(desk = "recurring") /\ [Next]_officeVars => ~(desk = "recurring")'
    BY DeskStays
  <2>2. Spec => (desk = "recurring" => RecurringSpec)
    BY OfficeServesADesk
  <2> QED BY <2>1, <2>2, RecurringTypes, RecurringRequests, PTL DEF Spec
<1>9. Spec => [](desk = "lines" => LinesTypeOK /\ RequestsOK)
  <2>1. ~(desk = "lines") /\ [Next]_officeVars => ~(desk = "lines")'
    BY DeskStays
  <2>2. Spec => (desk = "lines" => LinesSpec)
    BY OfficeServesADesk
  <2>3. RequestsOK /\ desk = "lines" /\ [Next]_officeVars => (RequestsOK /\ desk = "lines")'
    BY DeskStays, RequestsUntouched
  <2> QED BY <1>1, <2>1, <2>2, <2>3, LinesTypes, PTL DEF Spec
<1>10. Spec => [](desk = "listings" => ListingsTypeOK /\ RequestsOK)
  <2>1. ~(desk = "listings") /\ [Next]_officeVars => ~(desk = "listings")'
    BY DeskStays
  <2>2. Spec => (desk = "listings" => ListingsSpec)
    BY OfficeServesADesk
  <2>3. RequestsOK /\ desk = "listings" /\ [Next]_officeVars => (RequestsOK /\ desk = "listings")'
    BY DeskStays, RequestsUntouched
  <2> QED BY <1>1, <2>1, <2>2, <2>3, ListingsTypes, PTL DEF Spec
<1>11. Spec => [](desk = "files" => StoreTypeOK /\ RequestsOK)
  <2>1. ~(desk = "files") /\ [Next]_officeVars => ~(desk = "files")'
    BY DeskStays
  <2>2. Spec => (desk = "files" => StoreSpec)
    BY OfficeServesADesk
  <2> QED BY <2>1, <2>2, StoreTypes, FilesRequests, PTL DEF Spec
<1>12. Spec => [](desk = "mail" => MailTypeOK /\ RequestsOK)
  <2>1. ~(desk = "mail") /\ [Next]_officeVars => ~(desk = "mail")'
    BY DeskStays
  <2>2. Spec => (desk = "mail" => MailSpec)
    BY OfficeServesADesk
  <2> QED BY <2>1, <2>2, MailTypes, MailRequests, PTL DEF Spec
<1>13. /\ desk \in Desks
        /\ (desk = "sourcing" => SourcingTypeOK /\ RequestsOK)
        /\ (desk = "resolutions" => ResolutionsTypeOK /\ RequestsOK)
        /\ (desk = "sync" => SyncTypeOK /\ RequestsOK)
        /\ (desk = "services" => ServicesTypeOK /\ RequestsOK)
        /\ (desk = "directory" => DirectoryTypeOK /\ RequestsOK)
        /\ (desk = "recurring" => RecurringTypeOK /\ RequestsOK)
        /\ (desk = "lines" => LinesTypeOK /\ RequestsOK)
        /\ (desk = "listings" => ListingsTypeOK /\ RequestsOK)
        /\ (desk = "files" => StoreTypeOK /\ RequestsOK)
        /\ (desk = "mail" => MailTypeOK /\ RequestsOK)
      => OfficeTypeOK
  BY DEF OfficeTypeOK, Desks, RequestsOK
<1> QED BY <1>1, <1>2, <1>3, <1>4, <1>5, <1>6, <1>7, <1>8, <1>9, <1>10,
           <1>11, <1>12, <1>13, PTL DEF Spec

\* What was proved of the desks, of the office that serves them.
THEOREM OfficeIsSafe ==
  Spec => /\ desk = "sourcing" => []OrderedWasApproved /\ ClosedPapersStay
                                    /\ SequencesAreIssuers
          /\ desk = "resolutions" => ResolutionsAreIssuers
          /\ desk = "sync" => RangesAreNotLost
          /\ desk = "services" => []OneInvoicePerService /\ []NoNumberIsSkipped
                                    /\ BilledAsAgreed
          /\ desk = "directory" => OneHolderPerKey
          /\ desk = "recurring" => []SubcategoryFits
          /\ desk = "lines" => []DeclaredAsStored
          /\ desk = "listings" => []EveryRowIsShown
          /\ desk = "files" => []RowsHaveFiles
          /\ desk = "mail" => []MailedAsIssued
BY OfficeServesADesk, OrdersWereApproved, ClosedStayClosed, SequencesImplementIssuer,
   ResolutionsImplementIssuer, RangesStayKnown, ServicesInvoicedOnce, NumbersAreConsecutive,
   BilledStaysAgreed, KeysHaveOneHolder, SubcategoriesFit, DeclaredIsStored, PagesMissNoRow,
   FilesStayWithRows, MailsAreOfIssuedPapers, PTL
=============================================================================
