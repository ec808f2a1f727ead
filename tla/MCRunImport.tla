---------------------------- MODULE MCRunImport -----------------------------
(***************************************************************************)
(* Instances of RunImport: a company research run and a job run that found *)
(* the same company.                                                       *)
(***************************************************************************)
EXTENDS RunImport, TLC

MCFiles == 1..4
MCRunOf == <<"r1", "r1", "r2", "r2">>
MCKindOf == <<"company", "contact", "company", "posting">>
MCIdOf == <<"acme", "ada", "acme", "job">>
MCCompanyOf == <<"none", "acme", "none", "acme">>
MCSymmetry == Permutations(Importers)
=============================================================================
