----------------------------- MODULE MCBilling -----------------------------
(***************************************************************************)
(* One invoice of 4 units, one of them paid with credit when it was        *)
(* emitted, two credit notes that together exceed it and a debit note.     *)
(***************************************************************************)
EXTENDS Billing, TLC

CONSTANTS ana, r1, r2

MCDocuments == 1..4
MCTotal == <<4, 2, 3, 1>>
MCCustomer == [d \in MCDocuments |-> ana]
MCKindOf == <<"FACTURA", "NOTA_CREDITO", "NOTA_CREDITO", "NOTA_DEBITO">>
MCSource == [d \in MCDocuments |-> 1]
MCCompensated == <<1, 0, 0, 0>>

\* The same without the debit note.
FewDocuments == 1..3
FewTotal == <<3, 2, 1>>
FewCustomer == [d \in FewDocuments |-> ana]
FewKindOf == <<"FACTURA", "NOTA_CREDITO", "NOTA_CREDITO">>
FewSource == [d \in FewDocuments |-> 1]
FewCompensated == <<1, 0, 0>>

RequestSymmetry == Permutations(Requests)
=============================================================================
