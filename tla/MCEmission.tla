----------------------------- MODULE MCEmission -----------------------------
(***************************************************************************)
(* Small tables for Emission.  Invoice 1 left credit to another customer;  *)
(* 2 and 3 left credit to the customer of the drafts 4 and 5, less than    *)
(* the drafts would take.                                                  *)
(***************************************************************************)
EXTENDS Emission, TLC

CONSTANTS ana, luis, r1, r2

MCDocuments == 1..5
MCDrafts == {4, 5}
MCTotal == <<1, 1, 2, 2, 2>>
MCCustomer == <<luis, ana, ana, ana, ana>>
MCGranted == <<1, 1, 2, 0, 0>>

\* One source and one draft that it can pay in full.
OneDocuments == 1..2
OneDrafts == {2}
OneTotal == <<1, 1>>
OneCustomer == <<ana, ana>>
OneGranted == <<1, 0>>

RequestSymmetry == Permutations(Requests)
=============================================================================
