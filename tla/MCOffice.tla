------------------------------ MODULE MCOffice ------------------------------
EXTENDS Office, TLC

\* Two requests; rows of the desks, of which some come in pairs.
CONSTANTS r1, r2, row1, row2, pair1, pair2, quote, delivery

Alike == {requests @@ rows @@ pairs : requests \in Permutations({r1, r2}),
            rows \in Permutations({row1, row2}), pairs \in Permutations({pair1, pair2})}
=============================================================================
