------------------------- MODULE MCCampaignPipeline -------------------------
(* A small instance of CampaignPipeline for TLC.                           *)
EXTENDS CampaignPipeline, TLC

CONSTANTS a1, a2, a3, s1, s2, w1, w2

AgentsAndSends == [t \in Tasks |-> IF t \in {s1, s2} THEN "send" ELSE "agent"]
WorkerSymmetry == Permutations(Workers)

=============================================================================
