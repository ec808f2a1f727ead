----------------------------- MODULE MCMasterCv ------------------------------
(***************************************************************************)
(* Instances of MasterCv: one claim, which a run words in one way or the   *)
(* other, approved, proposed, doubtful or missing.                         *)
(***************************************************************************)
EXTENDS MasterCv, TLC

MCOutput(text, state, missing, fit) ==
    [claims |-> [c \in Claims |-> [text |-> text, state |-> state]],
     missing |-> missing, fit |-> fit]
MCOutputs ==
    {MCOutput("w1", "proposed", {}, TRUE), MCOutput("w2", "review", {}, TRUE),
     MCOutput("w2", "absent", {}, TRUE), MCOutput("w2", "approved", {"policy"}, FALSE)}

(* Runs are interchangeable: nothing chooses among them.                   *)
RunSymmetry == Permutations(OnboardingRuns)
=============================================================================
