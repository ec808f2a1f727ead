------------------------------ MODULE MasterCv -------------------------------
(***************************************************************************)
(* The Master CV builder: sessions in which the user and the builder agent *)
(* edit a candidate document over the approved claim ledger, its approval  *)
(* as an immutable version, and the restoration of a version.              *)
(*                                                                         *)
(* A document is abstracted to one block per name in Blocks, with the      *)
(* claim it refers to, its wording, its review mark and whether the code   *)
(* exempts it from the comparison with the ledger.  Layout, template, page *)
(* count and portrait are one edit, which changes the revision and nothing *)
(* else here.  Four kinds of request hold what they have read while others *)
(* commit: those of ProfileSnapshots, the opening of a session, an edit,   *)
(* and a message to the agent, for as long as the agent takes.  The last   *)
(* two read the status of the document late; Torn says whether a commit    *)
(* still fits between that read and the edit's own.                        *)
(***************************************************************************)
EXTENDS ProfileSnapshots

CONSTANTS
    Blocks,        \* block ids; a candidate may lack some
    ForeignKeys,   \* whether the database enforces them (PostgreSQL)
    Torn,          \* whether an edit's check of the document may be stale
    MaxDocuments,  \* bounds: document rows, sessions, revisions
    MaxSessions,
    MaxRevision,
    MaxRows        \* bound: document and ledger rows together

ASSUME MasterCvAssumption ==
    /\ {ForeignKeys, Torn} \subseteq BOOLEAN
    /\ {MaxDocuments, MaxSessions, MaxRows} \subseteq Nat /\ MaxRevision \in Nat \ {0}

VARIABLES
    docs,      \* MasterCvDocumentSnapshot: status, number of the version, content
    sessions,  \* MasterCvBuilderSession: status, base document, candidate
    msg,       \* the message under way: its session and the candidate it read
    edit,      \* the edit under way: also the candidate as edited
    opening    \* the session about to be opened, when that takes its time

builderVars == <<docs, sessions, msg, edit, opening>>
vars == <<profileVars, builderVars>>
-----------------------------------------------------------------------------
NoClaim == "none"

(* exempt: a block without a claim that is a heading or contact, hidden,   *)
(* empty or filled from the profile's fields.                              *)
Block == {b \in [claim : Claims \cup {NoClaim}, text : Wordings, review : BOOLEAN,
                 exempt : BOOLEAN] : b.exempt => b.claim = NoClaim}
NoBlock == [claim |-> NoClaim, text |-> "none", review |-> FALSE, exempt |-> TRUE]

(* Content of a document: doc is its document_snapshot_id, flags the       *)
(* blocks its review_flags name.                                           *)
Content == [doc : 1..MaxDocuments, pid : ProfileIds, rev : 1..MaxRevision,
            blocks : [Blocks -> Block \cup {NoBlock}], flags : SUBSET Blocks]
NoContent == [doc |-> 0]
Pending == [sess : 0..MaxSessions, read : Content \cup {NoContent},
            cand : Content \cup {NoContent}]
Nothing == [sess |-> 0, read |-> NoContent, cand |-> NoContent]
Opening == [base : 0..MaxDocuments, ledger : 0..MaxLedgers,
            user : OnboardingRuns \cup {NoRun}, cand : Content \cup {NoContent}]
NoOpening == [base |-> 0, ledger |-> 0, user |-> NoRun, cand |-> NoContent]

Docs == DOMAIN docs
Room == Len(docs) < MaxDocuments /\ Len(docs) + Len(ledger) < MaxRows
Active == {s \in DOMAIN sessions : sessions[s].status = "active"}
Approved == {d \in Docs : docs[d].status = "approved"}
Latest == CHOOSE d \in Approved : \A e \in Approved : docs[e].ver <= docs[d].ver
NextVersion == 1 + Max({0} \cup {docs[d].ver : d \in Docs})

TypeOK ==
    /\ ProfileTypeOK
    /\ \A d \in Docs : docs[d] \in [status : {"candidate", "approved"},
                                    ver : 1..MaxDocuments, ledger : Ledgers,
                                    user : OnboardingRuns \cup {NoRun},
                                    content : Content]
    /\ \A s \in DOMAIN sessions :
          sessions[s] \in [status : {"active", "closed", "completed"},
                           base : Docs \cup {0}, cand : Content]
    /\ msg \in Pending /\ edit \in Pending /\ opening \in Opening

Init ==
    /\ ProfileInit
    /\ docs = <<>> /\ sessions = <<>>
    /\ msg = Nothing /\ edit = Nothing /\ opening = NoOpening

(* The run whose user profile is approved, the newest should there be two; *)
(* a run imports its profile with its ledger (_approved_user_profile_id).  *)
ApprovedUsers == {r \in OnboardingRuns : facts["user_profile"][r] = "approved"}
Imported == {l \in Ledgers : ledger[l].status # "none" /\ ledger[l].run \in ApprovedUsers}
ApprovedUser == IF Imported = {} THEN NoRun ELSE ledger[Max(Imported)].run
-----------------------------------------------------------------------------
(* _default_candidate: a block for every supported claim, in its words.    *)
DefaultBlocks(l) ==
    [b \in Blocks |-> IF b \in Supported(ledger[l].claims)
                      THEN [claim |-> b, text |-> ledger[l].claims[b].text,
                            review |-> FALSE, exempt |-> FALSE]
                      ELSE NoBlock]

(* A new session over a new candidate, whose content is copied from the    *)
(* approved document base, or is the default of the ledger: what is read   *)
(* of it, and its insertion, with the next version number of that moment.  *)
(* Nothing keeps another session from being inserted in between.           *)
Prepared(base, flags) ==
    LET l == CurrentLedger
    IN  [base |-> base, ledger |-> l, user |-> ApprovedUser,
         cand |-> IF base = 0
                  THEN [doc |-> 1, pid |-> ledger[l].pid, rev |-> 1,
                        blocks |-> DefaultBlocks(l), flags |-> {}]
                  ELSE [docs[base].content EXCEPT !.rev = 1, !.flags = flags]]
PreparedStart ==
    IF Approved = {} THEN Prepared(0, {}) ELSE Prepared(Latest, docs[Latest].content.flags)

Insert(new, status) ==
    LET d == Len(docs) + 1
        cand == [new.cand EXCEPT !.doc = d]
    IN  /\ Room /\ Len(sessions) < MaxSessions
        /\ docs' = Append(docs, [status |-> "candidate", ver |-> NextVersion,
                                 ledger |-> new.ledger, user |-> new.user,
                                 content |-> cand])
        /\ sessions' = Append([s \in DOMAIN sessions |->
                                  [sessions[s] EXCEPT !.status = status[s]]],
                              [status |-> "active", base |-> new.base, cand |-> cand])
Open(new, status) ==
    /\ ApprovedLedgers # {}
    /\ Insert(new, status)
    /\ UNCHANGED <<profileVars, msg, edit, opening>>

Statuses == [s \in DOMAIN sessions |-> sessions[s].status]
StartSession == Active = {} /\ Open(PreparedStart, Statuses)

(* start_session, or the restoration of a version, that is overtaken       *)
(* before it inserts.  A restoration has committed the close of the active *)
(* session by then: CloseSession.                                          *)
OpeningReads ==
    /\ opening = NoOpening /\ spans < MaxSpans
    /\ Active = {} /\ ApprovedLedgers # {} /\ Room
    /\ opening' \in {PreparedStart} \cup {Prepared(d, {}) : d \in Approved}
    /\ spans' = spans + 1
    /\ UNCHANGED <<facts, unfit, ledger, said, late, stale, docs, sessions, msg, edit>>

(* With foreign keys, the insertion fails when an import has deleted the   *)
(* ledger or the user profile.                                             *)
Standing ==
    /\ ledger[opening.ledger].status # "none"
    /\ opening.user # NoRun =>
          facts["user_profile"][opening.user] \in {"approved", "superseded"}
OpeningInserts ==
    /\ opening # NoOpening
    /\ \/ /\ ForeignKeys => Standing
          /\ Insert(opening, Statuses)
          /\ stale' = IF Active = {} THEN stale ELSE stale \cup {"open"}
       \/ UNCHANGED <<docs, sessions, stale>>
    /\ opening' = NoOpening
    /\ UNCHANGED <<facts, unfit, ledger, said, late, spans, msg, edit>>

(* restore_version closes the active session; reset_session closes the one *)
(* it names, and restores its base or starts over.  Both commit the close  *)
(* before they look for an approved ledger.                                *)
Reopen(new, status) ==
    \/ Open(new, status)
    \/ /\ ApprovedLedgers = {} /\ status # Statuses
       /\ sessions' = [s \in DOMAIN sessions |-> [sessions[s] EXCEPT !.status = status[s]]]
       /\ UNCHANGED <<profileVars, docs, msg, edit, opening>>

KeepOpen == {Statuses}  \* mutant: a restoration leaves the active session open

ClosedToo(status, s) == [status EXCEPT ![s] = "closed"]
Closings == IF Active = {} THEN {Statuses} ELSE {ClosedToo(Statuses, s) : s \in Active}
RestoreVersion(d) ==
    /\ d \in Approved
    /\ \E status \in Closings : Reopen(Prepared(d, {}), status)

ResetSession(s) ==
    \/ /\ sessions[s].base # 0
       /\ \E status \in Closings :
             Reopen(Prepared(sessions[s].base, {}), ClosedToo(status, s))
    \/ /\ sessions[s].base = 0 /\ Active \subseteq {s}
       /\ Reopen(PreparedStart, ClosedToo(Statuses, s))
    \/ /\ sessions[s].base = 0 /\ Active \ {s} # {}   \* start_session finds another
       /\ sessions' = [sessions EXCEPT ![s].status = "closed"]
       /\ UNCHANGED <<profileVars, docs, msg, edit, opening>>

CloseSession(s) ==
    /\ sessions[s].status # "closed"
    /\ sessions' = [sessions EXCEPT ![s].status = "closed"]
    /\ UNCHANGED <<profileVars, docs, msg, edit, opening>>
-----------------------------------------------------------------------------
(* _enforce_claim_text_integrity: a block needs review that has no claim   *)
(* and is not exempt, or whose words are not exactly those of its claim.   *)
AnyWording(block, l) == block.claim \in Tailored(ledger[l].claims)  \* mutant
Exact(block, l) ==
    /\ block.claim \in Tailored(ledger[l].claims)
    /\ block.text = ledger[l].claims[block.claim].text
Unsupported(blocks, l) ==
    {b \in Blocks : ~blocks[b].exempt /\ ~Exact(blocks[b], l)}
Enforced(cand, l) ==
    LET bad == Unsupported(cand.blocks, l)
    IN  [cand EXCEPT !.blocks = [b \in Blocks |-> IF b \in bad
                                     THEN [@[b] EXCEPT !.review = TRUE] ELSE @[b]],
                     !.flags = @ \cup bad]

(* update_candidate, for a request that read the candidate `read`.  A      *)
(* document that is no longer a candidate is left alone: the content goes  *)
(* to a new one (_ensure_mutable_candidate_snapshot).                      *)
AnyStatus(d) == TRUE  \* mutant: the document is written whatever its status

Mutable(d) == docs[d].status = "candidate"
Updated(read, cand) == [Enforced(cand, CurrentLedger) EXCEPT !.rev = read.rev + 1]
Accepted(read, cand) ==
    /\ ApprovedLedgers # {} /\ cand.pid = ledger[CurrentLedger].pid
    /\ read.rev < MaxRevision
    /\ Mutable(cand.doc) \/ Room

Store(s, cand) ==
    /\ sessions' = [sessions EXCEPT ![s].cand = cand]
    /\ docs' = [docs EXCEPT ![cand.doc].content = cand]
StoreAnew(s, cand) ==
    LET d == Len(docs) + 1
        fresh == [cand EXCEPT !.doc = d]
    IN  /\ sessions' = [sessions EXCEPT ![s].cand = fresh]
        /\ docs' = Append(docs, [status |-> "candidate", ver |-> NextVersion,
                                 ledger |-> CurrentLedger, user |-> ApprovedUser,
                                 content |-> fresh])
Update(s, read, cand) ==
    /\ Accepted(read, cand)
    /\ IF Mutable(cand.doc) THEN Store(s, Updated(read, cand))
       ELSE StoreAnew(s, Updated(read, cand))

(* What the edits of an active candidate make of it.  patch_block takes    *)
(* the claims away from a block whose words change; it also hides a block  *)
(* and shows it again.  Should several sessions be active, the one that    *)
(* was updated last is edited and approved: any of them.                   *)
Reworded(cand, b, text, exempt) ==
    [cand EXCEPT !.blocks[b] = [claim |-> NoClaim, text |-> text, review |-> TRUE,
                                exempt |-> exempt],
                 !.flags = @ \cup {b}]
Present(cand) == {b \in Blocks : cand.blocks[b] # NoBlock}
Rewordings(cand, b) ==
    {Reworded(cand, b, text, exempt) :
        text \in Wordings \ {cand.blocks[b].text}, exempt \in BOOLEAN}
Toggled(cand, b) == [cand EXCEPT !.blocks[b].exempt = ~@]
Edits(cand) ==
    {cand} \cup (UNION {Rewordings(cand, b) : b \in Present(cand)})
    \cup {Toggled(cand, b) : b \in {x \in Present(cand) : cand.blocks[x].claim = NoClaim}}

EditAtOnce ==                        \* patch_block, patch_design
    /\ \E s \in Active : \E cand \in Edits(sessions[s].cand) :
          Update(s, sessions[s].cand, cand)
    /\ UNCHANGED <<profileVars, msg, edit, opening>>

EditReads ==
    /\ edit = Nothing /\ spans < MaxSpans
    /\ \E s \in Active : \E cand \in Edits(sessions[s].cand) :
          /\ Accepted(sessions[s].cand, cand)
          /\ edit' = [sess |-> s, read |-> sessions[s].cand, cand |-> cand]
    /\ spans' = spans + 1
    /\ UNCHANGED <<facts, unfit, ledger, said, late, stale, docs, sessions, msg, opening>>

EditCommits ==
    /\ edit # Nothing
    /\ IF Torn THEN Store(edit.sess, Updated(edit.read, edit.cand))
       ELSE \/ Update(edit.sess, edit.read, edit.cand)
            \/ ~Accepted(edit.read, edit.cand) /\ UNCHANGED <<docs, sessions>>
    /\ edit' = Nothing
    /\ UNCHANGED <<profileVars, msg, opening>>
-----------------------------------------------------------------------------
(* A message to the builder, or its first prompt: the session is read, the *)
(* agent answers minutes later and may have written its file, and whatever *)
(* the file holds is imported over what was read.                          *)
BeginMessage(s) ==
    /\ msg = Nothing /\ spans < MaxSpans /\ sessions[s].status = "active"
    /\ msg' = [Nothing EXCEPT !.sess = s, !.read = sessions[s].cand]
    /\ spans' = spans + 1
    /\ UNCHANGED <<facts, unfit, ledger, said, late, stale, docs, sessions, edit, opening>>

(* The agent's output file, which a later message imports again when the   *)
(* agent leaves it as it is; the agent keeps the id of the document it was *)
(* given.                                                                  *)
Composed(b, block) == [msg.read.blocks EXCEPT ![b] = block]
Payloads ==
    {[doc |-> msg.read.doc, pid |-> ledger[l].pid, rev |-> 1,
      blocks |-> Composed(b, block), flags |-> {}] :
        l \in Ledgers, b \in Blocks, block \in {x \in Block : ~x.review}}

EndMessage ==
    /\ msg # Nothing
    /\ \/ \E payload \in Payloads : Update(msg.sess, msg.read, payload)
       \/ UNCHANGED <<docs, sessions>>     \* no file, a failed prompt, a rejected file
    /\ msg' = Nothing
    /\ UNCHANGED <<profileVars, edit, opening>>
-----------------------------------------------------------------------------
(* approve_candidate compares claim ids with the ledger of the moment; the *)
(* wording was compared when the candidate was last updated.  Of a block   *)
(* filled from the profile, only that the fields exist is compared.        *)
References(cand) == {cand.blocks[b].claim : b \in Blocks} \ {NoClaim}
Approvable(cand) ==
    /\ ApprovedLedgers # {}
    /\ References(cand) # {}
    /\ References(cand) \subseteq Supported(ledger[CurrentLedger].claims)
    /\ \A b \in Blocks : ~cand.blocks[b].review
    /\ cand.flags = {}

Approve ==
    /\ \E s \in Active :
          LET cand == sessions[s].cand
          IN  /\ Approvable(cand) /\ Mutable(cand.doc)
              /\ docs' = [docs EXCEPT ![cand.doc].status = "approved",
                                      ![cand.doc].content = cand]
              /\ sessions' = [sessions EXCEPT ![s].status = "completed"]
    /\ UNCHANGED <<profileVars, msg, edit, opening>>

(* approve_claim_proposal: a new ledger, and the session is over; it may   *)
(* have ended already when the request has read early.                     *)
ApproveProposal(read, c, text) ==
    /\ ApprovedOf(read.ledger) # {} /\ Len(docs) + Len(ledger) < MaxRows
    /\ LET l == Newest(read.ledger)
           row == read.ledger[l]
       IN  /\ row.claims[c].state = "absent"
           /\ Replace(read, l, <<row.pid[1], Len(ledger) + 1>>,
                      [row.claims EXCEPT ![c] = [text |-> text, state |-> "approved"]])
    /\ \E s \in IF read = Now THEN Active ELSE DOMAIN sessions :
          sessions' = [sessions EXCEPT ![s].status = "closed"]
    /\ Recorded
    /\ UNCHANGED <<docs, msg, edit, opening>>
ApproveAnyProposal ==
    \E c \in Claims, text \in Wordings :
       \/ ApproveProposal(Now, c, text) /\ UNCHANGED late
       \/ ApproveProposal(late, c, text) /\ late' = Unread

(* With foreign keys, an import that would delete a ledger or user profile *)
(* which documents refer to fails as a whole.                              *)
Deletable(r) == \A d \in Docs : docs[d].ledger \notin RowsOf(ledger, r) /\ docs[d].user # r
Import(r) ==
    /\ ForeignKeys => Deletable(r)
    /\ Len(docs) + Len(ledger) < MaxRows
    /\ ImportProfile(r) /\ UNCHANGED builderVars

Next ==
    \/ \E r \in OnboardingRuns : Import(r)
    \/ ProfileNext /\ Len(docs) + Len(ledger') <= MaxRows /\ UNCHANGED builderVars
    \/ ApproveAnyProposal
    \/ StartSession \/ OpeningReads \/ OpeningInserts
    \/ EditAtOnce \/ EditReads \/ EditCommits \/ EndMessage \/ Approve
    \/ \E d \in Docs : RestoreVersion(d)
    \/ \E s \in DOMAIN sessions : ResetSession(s) \/ CloseSession(s) \/ BeginMessage(s)

Spec == Init /\ [][Next]_vars
-----------------------------------------------------------------------------
(* Every word of an approved version was, under the profile the version    *)
(* names, a claim of an approved ledger: whatever the agent wrote and the  *)
(* user edited, before it and after, in this session or an earlier one.    *)
(* The blocks that the code exempts are the exception: their words need no *)
(* claim, and nothing compares them with the profile.                      *)
WordingApproved ==
    \A d \in Approved, b \in Blocks :
        LET block == docs[d].content.blocks[b]
        IN  ~block.exempt =>
              <<docs[d].content.pid, block.claim, block.text>> \in said

(* An approved version never changes, however late the reply of an agent   *)
(* arrives that was asked while it was a candidate.                        *)
ApprovedImmutable ==
    [][\A d \in Approved : docs'[d].status = "approved"
                           /\ docs'[d].content = docs[d].content]_docs

(* A version that is approved is newer than every approved one, so that    *)
(* the version downstream tailoring reads, the one of the highest number,  *)
(* is the one the user approved last; until a session is inserted beside   *)
(* an active one.                                                          *)
ApprovedLastIsLatest ==
    [][\A d \in Docs : /\ docs[d].status = "candidate" /\ docs'[d].status = "approved"
                       /\ "open" \notin stale
          => \A e \in Approved : docs[e].ver < docs[d].ver]_docs

(* At most one session is active, and its candidate can still be approved: *)
(* it is not the document of an approved version.                          *)
OneActiveSession ==
    /\ Cardinality(Active) <= 1
    /\ \A s \in Active : docs[sessions[s].cand.doc].status = "candidate"

(* What approvals leave behind: a reviewed ledger, whatever they           *)
(* interleave with; one bundle, of one onboarding run, as long as no       *)
(* promotion and no approval of a claim commits over what has overtaken    *)
(* it; and one session that can still be approved, as long as no session   *)
(* is inserted beside an active one.                                       *)
ApprovalsSound ==
    /\ TypeOK /\ LedgerReviewed
    /\ stale \cap {"promote", "replace"} = {} => BundleOfOneRun
    /\ "open" \notin stale => OneActiveSession
=============================================================================
