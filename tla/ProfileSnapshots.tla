-------------------------- MODULE ProfileSnapshots --------------------------
(***************************************************************************)
(* The approved facts about the user: the snapshots of user profile,       *)
(* policy and claim ledger (MasterCvProfileSnapshot) that onboarding runs  *)
(* import as candidates, that the user promotes together, and the claims   *)
(* the user approves one at a time, before a promotion and after it.       *)
(*                                                                         *)
(* A claim has a wording and a state: "absent", "proposed" (not approved   *)
(* for tailoring), "review" (approved, its provenance needs review) and    *)
(* "approved".  Rows are numbered in the order of their insertion, which   *)
(* is that of imported_at.                                                 *)
(***************************************************************************)
EXTENDS Integers, Sequences, FiniteSets, FiniteSetsExt

CONSTANTS
    OnboardingRuns,  \* runs of the recruiter chat
    Claims,          \* claim ids
    Wordings,        \* what a claim can say
    Outputs,         \* bound: what a run writes, see Output
    MaxLedgers,      \* bounds: rows of the claim ledger, and requests whose
    MaxSpans         \* commit other requests can precede after they have read

Claim == [text : Wordings, state : {"absent", "proposed", "review", "approved"}]

(* The claims, which of the other two files are missing or invalid, and    *)
(* whether the policy and the claim ids are fit to be promoted.            *)
Facts == {"user_profile", "policy"}
Output == [claims : [Claims -> Claim], missing : SUBSET Facts, fit : BOOLEAN]

NoRun == "none"

ASSUME ProfileSnapshotsAssumption ==
    /\ Outputs \subseteq Output /\ NoRun \notin OnboardingRuns
    /\ {MaxLedgers, MaxSpans} \subseteq Nat

VARIABLES
    facts,   \* per run, the status of its user profile and of its policy
    unfit,   \* runs whose policy or claim ids the promotion rejects
    ledger,  \* rows of the claim ledger; run = NoRun when no file was imported
    said,    \* history: the claims of ledgers that were approved
    late,    \* what one request has read that has yet to commit
    stale,   \* history: what committed although its reading was overtaken
    spans    \* requests so far that read early and commit late

profileVars == <<facts, unfit, ledger, said, late, stale, spans>>
-----------------------------------------------------------------------------
SnapshotStatus == {"none", "candidate", "approved", "superseded"}

(* profile_id in the JSON: a run keeps its own, an approved proposal makes *)
(* a new one, a claim approved in the viewer keeps the old.                *)
ProfileIds == OnboardingRuns \X (0..MaxLedgers)
Row == [run : OnboardingRuns \cup {NoRun}, pid : ProfileIds,
        status : SnapshotStatus, claims : [Claims -> Claim]]

(* What the requests read before they write.                               *)
Snapshot == [facts : [Facts -> [OnboardingRuns -> SnapshotStatus]],
             unfit : SUBSET OnboardingRuns, ledger : Seq(Row)]
Now == [facts |-> facts, unfit |-> unfit, ledger |-> ledger]
Unread == [facts |-> [t \in Facts |-> [r \in OnboardingRuns |-> "none"]],
           unfit |-> {}, ledger |-> <<>>]

ProfileTypeOK ==
    /\ Now \in Snapshot /\ late \in Snapshot
    /\ said \subseteq ProfileIds \X Claims \X Wordings
    /\ stale \subseteq {"promote", "claim", "replace", "open"}
    /\ spans \in 0..MaxSpans

ProfileInit ==
    /\ facts = Unread.facts /\ unfit = Unread.unfit /\ ledger = Unread.ledger
    /\ said = {} /\ late = Unread /\ stale = {} /\ spans = 0

Ledgers == DOMAIN ledger
ApprovedOf(rows) == {l \in DOMAIN rows : rows[l].status = "approved"}
ApprovedLedgers == ApprovedOf(ledger)

(* MasterCvService.approved_profile: the newest.  _latest_snapshot of the  *)
(* routes prefers rows that a file was imported for.                       *)
Newest(rows) == Max(ApprovedOf(rows))
CurrentLedger == Newest(ledger)
Viewed(rows) ==
    LET imported == {l \in ApprovedOf(rows) : rows[l].run # NoRun}
    IN  IF imported = {} THEN Newest(rows) ELSE Max(imported)

(* claim["approved_for_tailoring"] is True; the second also rests on       *)
(* provenance that needs no review.                                        *)
Tailored(claims)  == {c \in Claims : claims[c].state \in {"review", "approved"}}
Supported(claims) == {c \in Claims : claims[c].state = "approved"}
Says(row) == {<<row.pid, c, row.claims[c].text>> : c \in Tailored(row.claims)}
Record(rows) == UNION {Says(rows[l]) : l \in ApprovedOf(rows)}
-----------------------------------------------------------------------------
(* An import of a whole run deletes what an earlier one stored, whatever   *)
(* its status, and stores candidates.                                      *)
RowsOf(rows, r) == {l \in DOMAIN rows : rows[l].run = r /\ rows[l].status # "none"}
Cleared(rows) ==
    [l \in Ledgers |-> IF l \in rows THEN [ledger[l] EXCEPT !.status = "none"] ELSE ledger[l]]

ImportProfile(r) ==
    /\ Len(ledger) < MaxLedgers
    /\ \E o \in Outputs :
          /\ ledger' = Append(Cleared(RowsOf(ledger, r)),
                              [run |-> r, pid |-> <<r, 0>>, status |-> "candidate",
                               claims |-> o.claims])
          /\ facts' = [t \in Facts |-> [facts[t] EXCEPT
                          ![r] = IF t \in o.missing THEN "none" ELSE "candidate"]]
          /\ unfit' = IF o.fit THEN unfit \ {r} ELSE unfit \cup {r}
    /\ UNCHANGED <<said, late, stale, spans>>

(* The requests below check what they read and write later: nothing keeps  *)
(* another request from committing in between.  They write the columns     *)
(* they change in the rows they read; when an import has deleted one of    *)
(* those rows, the request fails.                                          *)
Mark(request, read) == stale' = IF read = Now THEN stale ELSE stale \cup {request}
Kept(rows) == \A l \in rows : ledger[l].status # "none"

(* What blocks a promotion of run r.                                       *)
Promotable == {"candidate", "approved"}
Complete(read, r) ==
    /\ \A t \in Facts : read.facts[t][r] \in Promotable
    /\ \E l \in RowsOf(read.ledger, r) : read.ledger[l].status \in Promotable
Valid(read, r) ==
    /\ r \notin read.unfit
    /\ \A l \in RowsOf(read.ledger, r), c \in Claims :
          read.ledger[l].claims[c].state # "review"

PromoteOnly(was, r) ==  \* mutant: what was approved stays approved
    [t \in Facts |-> [was[t] EXCEPT ![r] = "approved"]]

SupersedeFacts(was, r) ==
    [t \in Facts |-> [s \in OnboardingRuns |->
        CASE s = r -> "approved"
          [] s # r /\ was[t][s] = "approved" -> "superseded"
          [] OTHER -> was[t][s]]]
SupersedeLedgers(rows, r) ==
    [l \in DOMAIN rows |->
        CASE l \in RowsOf(rows, r) -> "approved"
          [] l \in ApprovedOf(rows) \ RowsOf(rows, r) -> "superseded"
          [] OTHER -> rows[l].status]

Promote(read, r) ==
    LET newFacts == SupersedeFacts(read.facts, r)
        newStatus == SupersedeLedgers(read.ledger, r)
        runs == {s \in OnboardingRuns : \E t \in Facts : newFacts[t][s] # read.facts[t][s]}
        rows == {l \in DOMAIN read.ledger : newStatus[l] # read.ledger[l].status}
    IN  /\ Complete(read, r) /\ Valid(read, r)
        /\ Kept(rows \cup UNION {RowsOf(read.ledger, s) : s \in runs})
        /\ facts' = [t \in Facts |-> [s \in OnboardingRuns |->
                        IF newFacts[t][s] # read.facts[t][s] THEN newFacts[t][s]
                        ELSE facts[t][s]]]
        /\ ledger' = [l \in Ledgers |-> IF l \in rows
                          THEN [ledger[l] EXCEPT !.status = newStatus[l]] ELSE ledger[l]]
        /\ Mark("promote", read)
        /\ UNCHANGED unfit

(* The user confirms one claim of the run's candidate: in place, in the    *)
(* JSON that was read.                                                     *)
AnyRow(rows, r) == RowsOf(rows, r)  \* mutant: whatever the status of the row
Candidates(rows, r) == {l \in RowsOf(rows, r) : rows[l].status = "candidate"}
ApproveCandidateClaim(read, r, c) ==
    /\ Candidates(read.ledger, r) # {}
    /\ LET l == Max(Candidates(read.ledger, r))
           was == read.ledger[l].claims
       IN  /\ was[c].state = "proposed"
           /\ Kept({l})
           /\ ledger' = [ledger EXCEPT ![l].claims = [was EXCEPT ![c].state = "approved"]]
    /\ Mark("claim", read)
    /\ UNCHANGED <<facts, unfit>>

(* The user confirms one claim of the approved profile, or a claim the     *)
(* builder proposed: in a new ledger that replaces the old one.            *)
Replace(read, l, pid, claims) ==
    /\ Len(ledger) < MaxLedgers
    /\ Kept({l})
    /\ ledger' = Append([ledger EXCEPT ![l].status = "superseded"],
                        [run |-> NoRun, pid |-> pid, status |-> "approved",
                         claims |-> claims])
    /\ Mark("replace", read)
    /\ UNCHANGED <<facts, unfit>>

ApproveProfileClaim(read, c) ==
    /\ ApprovedOf(read.ledger) # {}
    /\ LET l == Viewed(read.ledger)
           row == read.ledger[l]
       IN  /\ row.claims[c].state = "proposed"
           /\ Replace(read, l, row.pid, [row.claims EXCEPT ![c].state = "approved"])

ProfileRequest(read) ==
    \/ \E r \in OnboardingRuns : Promote(read, r)
    \/ \E r \in OnboardingRuns, c \in Claims : ApproveCandidateClaim(read, r, c)
    \/ \E c \in Claims : ApproveProfileClaim(read, c)

(* A request commits before any other, or it has read early: then it       *)
(* commits later, or fails.                                                *)
Recorded == said' = said \cup Record(ledger') /\ UNCHANGED spans
ReadEarly ==
    /\ late = Unread /\ spans < MaxSpans
    /\ late' = Now /\ spans' = spans + 1
    /\ UNCHANGED <<facts, unfit, ledger, said, stale>>
Refuse ==
    /\ late # Unread /\ late' = Unread
    /\ UNCHANGED <<facts, unfit, ledger, said, stale, spans>>

ProfileNext ==
    \/ ProfileRequest(Now) /\ Recorded /\ UNCHANGED late
    \/ ProfileRequest(late) /\ Recorded /\ late' = Unread
    \/ ReadEarly \/ Refuse
-----------------------------------------------------------------------------
(* The approved user profile, policy and ledger that every campaign reads  *)
(* as one bundle (_approved_profile_bundle) describe the user as one       *)
(* onboarding run did, with the claims approved since; no two rows of a    *)
(* kind are approved.                                                      *)
BundleOfOneRun ==
    /\ Cardinality(ApprovedLedgers) <= 1
    /\ \A t \in Facts, r, s \in OnboardingRuns :
          facts[t][r] = "approved" /\ facts[t][s] = "approved" => r = s
    /\ \A t, u \in Facts, r, s \in OnboardingRuns :
          facts[t][r] = "approved" /\ facts[u][s] = "approved" => r = s
    /\ \A l \in ApprovedLedgers, t \in Facts, r \in OnboardingRuns :
          facts[t][r] = "approved" => ledger[l].pid[1] = r

(* An approved ledger rests on reviewed provenance only.                   *)
LedgerReviewed ==
    \A l \in ApprovedLedgers : Tailored(ledger[l].claims) = Supported(ledger[l].claims)

(* What a ledger said once it was approved is never reworded in place, by  *)
(* a promotion, a claim's approval or the viewer's edit of a candidate;    *)
(* nor do its claims change in any other way, as long as no confirmation   *)
(* of a claim commits over what has overtaken it.                          *)
LedgerImmutable ==
    [][\A l \in Ledgers : ledger[l].status \in {"approved", "superseded"} =>
          /\ \A c \in Claims : ledger'[l].claims[c].text = ledger[l].claims[c].text
          /\ "claim" \notin stale' => ledger'[l].claims = ledger[l].claims]_ledger
=============================================================================
