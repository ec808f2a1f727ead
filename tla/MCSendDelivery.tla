--------------------------- MODULE MCSendDelivery ---------------------------
(* Small instances of SendDelivery for TLC.                                *)
EXTENDS SendDelivery, TLC

CONSTANTS i1, i2, i3

(* i1 and i2 are drafts to two people of one company; i2 and i3 go to one  *)
(* person, who recruits for two companies.                                 *)
MCRecipientOf == [i \in Intents |-> IF i = i1 THEN "ann" ELSE "bob"]
MCCompanyOf   == [i \in Intents |-> IF i = i3 THEN "other" ELSE "acme"]

(* Snapshot 1 forbids every repeat; a later one may allow them.            *)
MCForbids == [p \in Policies |-> FALSE]
MCAllows  == [p \in Policies |-> p > 1]
OnePolicy   == {1}
TwoPolicies == {1, 2}

BatchSymmetry == Permutations(Batches)

=============================================================================
