--------------------------- MODULE MCResearchRun ----------------------------
(***************************************************************************)
(* Instances of ResearchRun: every runtime, no rare race.                  *)
(***************************************************************************)
EXTENDS ResearchRun

MCAllKinds == {"company", "job", "verification", "draft"}
MCNoRaces == {}
=============================================================================
