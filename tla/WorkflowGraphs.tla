--------------------------- MODULE WorkflowGraphs ---------------------------
(***************************************************************************)
(* The workflow graphs that the repository registers.  Of a node only its  *)
(* kind is kept, of an edge its ends, its identity and the bound of a      *)
(* cycle through it; an edge is <<source, edge_id, destination>>.          *)
(***************************************************************************)
EXTENDS Integers, TLC

Source(e) == e[1]
EdgeId(e) == e[2]
Destination(e) == e[3]

LeaseEdge == <<"shared_budget_decision", "shared_budget_lease", "research_target">>

CoordinatedResearch ==
    [start |-> "compile_plan", terminal |-> {"research_complete"},
     nodes |-> {"compile_plan", "await_plan_confirmation", "materialize_targets",
                "research_target", "import_and_record_attempts",
                "classify_target_terminal", "shared_budget_decision",
                "all_targets_barrier", "scope_assessment", "rank_and_retain",
                "research_complete"},
     agents |-> {"research_target"}, privileged |-> {},
     edges |-> {<<"compile_plan", "plan_compiled", "await_plan_confirmation">>,
                <<"await_plan_confirmation", "plan_confirmed", "materialize_targets">>,
                <<"materialize_targets", "targets_materialized", "research_target">>,
                <<"research_target", "target_reconciled", "import_and_record_attempts">>,
                <<"import_and_record_attempts", "attempts_recorded", "classify_target_terminal">>,
                <<"classify_target_terminal", "target_classified", "shared_budget_decision">>,
                LeaseEdge,
                <<"shared_budget_decision", "research_fan_in", "all_targets_barrier">>,
                <<"all_targets_barrier", "all_targets_terminal", "scope_assessment">>,
                <<"scope_assessment", "scope_assessed", "rank_and_retain">>,
                <<"rank_and_retain", "candidates_ranked", "research_complete">>},
     nodeBound |-> <<>>, edgeBound |-> LeaseEdge :> 3]

ContactRetry == <<"validate_contact_candidate", "retry_contact_remediation", "contact_research">>

ApplicationPreparation ==
    [start |-> "contact_decision", terminal |-> {"application_ready", "application_blocked"},
     nodes |-> {"contact_decision", "contact_research", "validate_contact_candidate",
                "draft_candidate_artifacts", "validate_candidate_artifacts",
                "await_application_review", "application_ready", "application_blocked"},
     agents |-> {"contact_research", "draft_candidate_artifacts"}, privileged |-> {},
     edges |-> {<<"contact_decision", "use_existing_contact", "draft_candidate_artifacts">>,
                <<"contact_decision", "remediate_contact", "contact_research">>,
                <<"contact_decision", "block_unsafe_contact", "application_blocked">>,
                <<"contact_research", "reconcile_contact_candidate", "validate_contact_candidate">>,
                <<"validate_contact_candidate", "accept_contact_candidate", "draft_candidate_artifacts">>,
                ContactRetry,
                <<"validate_contact_candidate", "block_exhausted_contact_remediation", "application_blocked">>,
                <<"draft_candidate_artifacts", "reconcile_draft_candidate", "validate_candidate_artifacts">>,
                <<"validate_candidate_artifacts", "candidate_artifacts_ready", "application_ready">>,
                <<"validate_candidate_artifacts", "candidate_artifacts_need_review", "await_application_review">>,
                <<"validate_candidate_artifacts", "candidate_artifacts_blocked", "application_blocked">>,
                <<"await_application_review", "authorized_review_approved", "application_ready">>,
                <<"await_application_review", "authorized_review_rejected", "application_blocked">>},
     nodeBound |-> <<>>, edgeBound |-> ContactRetry :> 1]

PrivilegedSending ==
    [start |-> "validated_send_intent",
     terminal |-> {"audited_sent", "audited_known_unsent", "audited_outcome_uncertain"},
     nodes |-> {"validated_send_intent", "authorized_approval_snapshot",
                "deterministic_evaluate_only_gate", "transactional_reservation",
                "provider_attempt", "audited_sent", "audited_known_unsent",
                "audited_outcome_uncertain"},
     agents |-> {}, privileged |-> {"provider_attempt"},
     edges |-> {<<"validated_send_intent", "send_intent_valid", "authorized_approval_snapshot">>,
                <<"validated_send_intent", "send_intent_invalid", "audited_known_unsent">>,
                <<"authorized_approval_snapshot", "approval_authorized", "deterministic_evaluate_only_gate">>,
                <<"authorized_approval_snapshot", "approval_not_authorized", "audited_known_unsent">>,
                <<"deterministic_evaluate_only_gate", "evaluate_only_passed", "transactional_reservation">>,
                <<"deterministic_evaluate_only_gate", "evaluate_only_blocked", "audited_known_unsent">>,
                <<"transactional_reservation", "reservation_created", "provider_attempt">>,
                <<"transactional_reservation", "reservation_failed", "audited_known_unsent">>,
                <<"provider_attempt", "provider_accepted", "audited_sent">>,
                <<"provider_attempt", "provider_rejected_known_unsent", "audited_known_unsent">>,
                <<"provider_attempt", "provider_outcome_uncertain", "audited_outcome_uncertain">>},
     nodeBound |-> <<>>, edgeBound |-> <<>>]

PrivilegedSendingCheckpoints ==
    <<"validated_send_intent", "authorized_approval_snapshot",
      "deterministic_evaluate_only_gate", "transactional_reservation">>
=============================================================================
