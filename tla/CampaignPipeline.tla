-------------------------- MODULE CampaignPipeline --------------------------
(***************************************************************************)
(* One retained company on its way through a campaign, on top of the task  *)
(* queue of WorkflowTasks: contact research, the application draft, the    *)
(* queued send intent and the gated send, each a row of agent_tasks that   *)
(* the previous one enqueues when it is reconciled, beside an operator who *)
(* prepares documents, queues drafts, changes the sending mode, pauses,    *)
(* retries and skips.                                                      *)
(*                                                                         *)
(* A row is of kind "agent" or "send"; role says whether an agent row is   *)
(* the contact research or the draft.  enqueue looks for an equal row and  *)
(* inserts one in two statements, in transactions of their own; the rows a *)
(* hand-over inserts are committed before the row that handed over is.     *)
(* What the send gate decides is SendDelivery's; here it delivers the      *)
(* message, refuses it, or learns no outcome from the provider, and        *)
(* refuses one whose outreach is on record, be it sent or in doubt.        *)
(***************************************************************************)
EXTENDS WorkflowTasks

CONSTANTS MaxPrepares, MaxModes, MaxLosses, MaxDrafts  \* bounds: requests and imports

ASSUME PipelineAssumption ==
    /\ MaxPrepares \in Nat /\ MaxModes \in Nat
    /\ MaxLosses \in Nat /\ MaxDrafts \in Nat
    /\ ~Concurrent

VARIABLES
    role,     \* what each agent row is for
    made,     \* the role each run was prepared for
    company,  \* the committed rows about the company
    note,     \* what a worker's session still has to hand over or write
    mailed,   \* external: the messages that left, with the row that sent each
    request,  \* the preparation a route has decided on and not yet inserted
    spent     \* how much of each bound is used, and whether a retry came late

pipeVars == <<vars, role, made, company, note, mailed, request, spent>>
-----------------------------------------------------------------------------
Stages == {"none", "qualified", "preparing", "ready", "sent", "archived"}
Roles  == {"contact", "draft", "send"}

Company == [stage    : Stages,          \* CampaignCompany.stage
            contact  : BOOLEAN,         \* a Contact of the company exists
            drafts   : 0..MaxDrafts,    \* its EmailDrafts, oldest first
            intents  : Seq(1..MaxDrafts), \* drafts with a SendIntent, in their order
            outreach : SUBSET (1..MaxDrafts), \* intents with an outreach record, sent
            doubt    : SUBSET (1..MaxDrafts), \* and with one in outcome_uncertain
            mode     : {"prepare_only", "gated_autosend"}]

Matched == {"queued", "retry", "running", "completed"}

(* The rows enqueue takes for the one it is asked for.                     *)
Existing(what) == {t \in Tasks : role[t] = what /\ task[t].status \in Matched}

FreeRows(what) ==
    {t \in Tasks : task[t].status = "none" /\ (KindOf[t] = "send") = (what = "send")}

NextRole == IF company.contact THEN "draft" ELSE "contact"

OnRecord == company.outreach \cup company.doubt

(* Messages of row t that are not on record; a retry of the row, or a      *)
(* pause it has overtaken, has freed those that left to be sent again.     *)
Loose(t) == {e \in mailed : e.task = t /\ ~e.freed /\ e.draft \notin OnRecord}

NoNote == [what |-> "none", draft |-> 0]
Message(t, draft) == [draft |-> draft, task |-> t,
                      freed |-> task[t].status # "running"]

SetStage(stage) == company' = [company EXCEPT !.stage = stage]
(* MaxActs bounds all of them together with the queue's.                   *)
Acts == used.resolve + used.pause + used.fault + used.stale
            + spent.prepare + spent.mode + spent.loss

Use(name, bound) ==
    /\ Acts < MaxActs /\ spent[name] < bound
    /\ spent' = [spent EXCEPT ![name] = @ + 1]
Noted(k, what, draft) ==
    note' = [note EXCEPT ![k] = [what |-> what, draft |-> draft]]

InsertRow(what) ==
    LET t == CHOOSE t \in FreeRows(what) : TRUE
    IN  /\ FreeRows(what) # {}          \* bound: the rows of the instance
        /\ task' = [task EXCEPT ![t] = [NewRow EXCEPT !.status = "queued", !.due = TRUE]]
        /\ role' = [role EXCEPT ![t] = what]
-----------------------------------------------------------------------------
PipelineInit ==
    /\ Init
    /\ role = [t \in Tasks |-> IF KindOf[t] = "send" THEN "send" ELSE "contact"]
    /\ made = <<>>
    /\ \E contact \in BOOLEAN, mode \in {"prepare_only", "gated_autosend"} :
          company = [stage |-> "none", contact |-> contact, drafts |-> 0,
                     intents |-> <<>>, outreach |-> {}, doubt |-> {}, mode |-> mode]
    /\ note = [k \in Workers |-> NoNote]
    /\ mailed = {}
    /\ request = "none"
    /\ spent = [prepare |-> 0, mode |-> 0, loss |-> 0, late |-> FALSE]

(* finalize_balanced_campaign retains the company: its link and its first  *)
(* task are committed together.                                            *)
Retain ==
    /\ company.stage = "none"
    /\ SetStage("qualified")
    /\ InsertRow(NextRole)
    /\ UNCHANGED <<exc, runs, pc, sel, seen, op, used, made, note, mailed, request, spent>>

(* The run of a contact search needs what every run needs; that of a draft *)
(* is refused without a contact.                                           *)
PrepareSearch(k) ==
    /\ role[sel[k]] = "contact"
    /\ made' = IF pc'[k] = "record" THEN Append(made, "contact") ELSE made

PrepareDraft(k) ==
    /\ role[sel[k]] = "draft"
    /\ pc'[k] = "record" => company.contact
    /\ made' = IF pc'[k] = "record" THEN Append(made, "draft") ELSE made

(* process, _launch_contact_research and _launch_application_draft         *)
Launch(k) ==
    /\ LaunchAgent(k)
    /\ PrepareSearch(k) \/ PrepareDraft(k)
    /\ UNCHANGED <<role, company, note, mailed, request, spent>>

(* The commit that records the run of a draft moves the company with it.   *)
Record(k) ==
    /\ RecordRun(k)
    /\ IF role[sel[k]] = "draft" THEN SetStage("preparing") ELSE UNCHANGED company
    /\ UNCHANGED <<role, made, note, mailed, request, spent>>

(* What an agent leaves behind: a contact search that fails may have had   *)
(* its contact imported by the watcher; a draft is imported at the end.    *)
Finish(r) ==
    /\ AgentEnds(r)
    /\ \/ UNCHANGED company
       \/ made[r] = "contact" /\ company' = [company EXCEPT !.contact = TRUE]
       \/ /\ made[r] = "draft" /\ runs'[r].recorded = "imported"
          /\ company.drafts < MaxDrafts
          /\ company' = [company EXCEPT !.drafts = @ + 1]
    /\ UNCHANGED <<role, made, note, mailed, request, spent>>

(* _reconcile_contact_research and _reconcile_draft: any contact and any   *)
(* draft of the company will do.                                           *)
Inspect(k) ==
    LET what == role[sel[k]]
    IN  /\ Reconcile(k)
        /\ pc'[k] = "complete" => IF what = "contact" THEN company.contact
                                                      ELSE company.drafts > 0
        /\ pc'[k] = "block" => what = "contact" /\ ~company.contact
        /\ pc'[k] = "fail" /\ runs'[seen[k].run].recorded = "imported"
              => what = "draft" /\ company.drafts = 0
        /\ Noted(k, IF pc'[k] = "complete" THEN "due" ELSE "none", 0)
        /\ UNCHANGED <<role, made, company, mailed, request, spent>>

(* The next task is enqueued before the row that hands over is completed.  *)
(* An insert commits what the session holds, and so reloads its row.       *)
HandOver(k) ==
    LET what == role[sel[k]]
        next == IF what = "contact" THEN "draft"
                ELSE IF company.mode = "gated_autosend" THEN "send" ELSE "none"
        stage == IF what = "draft" THEN "ready" ELSE company.stage
    IN  /\ pc[k] = "complete" /\ note[k].what = "due"
        /\ \/ /\ next # "none" /\ Existing(next) = {}
              /\ InsertRow(next)
              /\ seen' = [seen EXCEPT ![k] = Current(k)]
              /\ SetStage(stage)
              /\ Noted(k, "none", 0)
           \/ /\ next = "none" \/ Existing(next) # {}
              /\ Noted(k, IF stage = company.stage THEN "none" ELSE stage, 0)
              /\ UNCHANGED <<task, role, seen, company>>
        /\ UNCHANGED <<exc, runs, pc, sel, op, used, made, mailed, request, spent>>

(* What the session of worker k writes about the company as it ends.       *)
Written(k) ==
    CASE note[k].what = "ready" -> [company EXCEPT !.stage = "ready"]
      [] note[k].what = "sent"  -> [company EXCEPT !.stage = "sent",
                                        !.outreach = @ \cup ({note[k].draft} \ {0})]
      [] note[k].what = "doubt" -> [company EXCEPT !.doubt = @ \cup ({note[k].draft} \ {0})]
      [] OTHER                  -> company

(* Mutant: the row is completed first and hands over afterwards.           *)
FinishFirst(k) ==
    /\ Complete(k)
    /\ Noted(k, "none", 0)
    /\ company' = Written(k)
    /\ UNCHANGED <<role, made, mailed, request, spent>>

(* _complete and _fail commit what the session holds: the stage, the       *)
(* records of the send.                                                    *)
FinishTask(k) ==
    /\ (Complete(k) /\ note[k].what # "due") \/ Fail(k)
    /\ Noted(k, "none", 0)
    /\ company' = Written(k)
    /\ UNCHANGED <<role, made, mailed, request, spent>>

Newest == company.intents[Len(company.intents)]
Deliverable ==
    /\ company.mode = "gated_autosend" /\ company.intents # <<>>
    /\ Newest \notin OnRecord

(* Mutants: the stop at drafts counts as sent; a delivered message whose   *)
(* result is not read as one.                                              *)
SendOrStop(k) ==
    /\ SendApplication(k)
    /\ IF company.mode # "gated_autosend"
       THEN pc'[k] = "complete" /\ Noted(k, "sent", 0) /\ UNCHANGED mailed
       ELSE pc'[k] = "fail" /\ UNCHANGED <<note, mailed>>
    /\ UNCHANGED <<role, made, company, request, spent>>

SendMisread(k) ==
    /\ SendApplication(k)
    /\ pc'[k] = "fail"
    /\ Deliverable /\ mailed' = mailed \cup {Message(sel[k], Newest)}
    /\ UNCHANGED <<role, made, company, note, request, spent>>

(* _send_application: the newest intent of the company, if the campaign    *)
(* still sends and the gate lets it.  The provider accepts it, or raises   *)
(* what says nothing of the message.                                       *)
Send(k) ==
    /\ SendApplication(k)
    /\ \/ /\ company.mode # "gated_autosend" /\ pc'[k] = "complete"
          /\ UNCHANGED <<note, mailed>>
       \/ /\ company.mode = "gated_autosend" /\ pc'[k] = "fail"
          /\ UNCHANGED <<note, mailed>>
       \/ /\ Deliverable /\ mailed' = mailed \cup {Message(sel[k], Newest)}
          /\ pc'[k] = "complete" /\ Noted(k, "sent", Newest)
       \/ /\ Deliverable /\ mailed' \in {mailed, mailed \cup {Message(sel[k], Newest)}}
          /\ pc'[k] = "fail" /\ Noted(k, "doubt", Newest)
    /\ UNCHANGED <<role, made, company, request, spent>>

(* The steps of WorkflowTasks that concern nothing else, and a crash.      *)
QueueStep(k) ==
    /\ \/ Start(k) \/ Select(k) \/ Claim(k) \/ Reclaim(k) \/ Load(k) \/ Block(k)
       \/ Renew(k)
       \/ Acts < MaxActs /\ ReconcileFails(k)
    /\ UNCHANGED <<role, made, company, note, mailed, request, spent>>

(* A failing statement takes what the session holds with it; a send may    *)
(* have delivered its message before.                                      *)
Break(k) ==
    /\ Acts < MaxActs /\ StatementFails(k)
    /\ Noted(k, "none", 0)
    /\ \/ UNCHANGED mailed
       \/ /\ pc[k] = "launch" /\ role[sel[k]] = "send" /\ Deliverable
          /\ mailed' = mailed \cup {Message(sel[k], Newest)}
    /\ UNCHANGED <<role, made, company, request, spent>>

Die(k) ==
    /\ Crash(k)
    /\ Noted(k, "none", 0)
    /\ UNCHANGED <<role, made, company, mailed, request, spent>>

(* One process at a time: while the owner of a lease lives nobody asks for *)
(* its age, so it expires when the owner is gone.                          *)
TimePasses ==
    /\ \/ \E t \in Tasks : \/ BackoffElapses(t)
                           \/ LeaseExpires(t) /\ (task[t].owner = NoWorker
                                                  \/ ~Up(task[t].owner))
       \/ \E r \in DOMAIN runs : AgentOpens(r)
    /\ UNCHANGED <<role, made, company, note, mailed, request, spent>>
-----------------------------------------------------------------------------
(* prepare_company_application: the reads that decide, enqueue's among     *)
(* them, and the insert, whatever has happened in between.                 *)
DecidePrepare ==
    /\ company.stage # "none" /\ company.drafts = 0 /\ request = "none"
    /\ \A t \in Tasks : KindOf[t] = "agent" =>
          task[t].status \notin {"queued", "retry", "running"}
    /\ Existing(NextRole) = {}
    /\ request' = NextRole
    /\ Use("prepare", MaxPrepares)
    /\ UNCHANGED <<vars, role, made, company, note, mailed>>

InsertPrepared ==
    /\ request # "none"
    /\ InsertRow(request)
    /\ request' = "none"
    /\ UNCHANGED <<exc, runs, pc, sel, seen, op, used, made, company, note, mailed, spent>>

(* queue_draft: only the operator makes a send intent.                     *)
Queue(d) ==
    /\ d <= company.drafts /\ company.contact
    /\ \A i \in DOMAIN company.intents : company.intents[i] # d
    /\ company' = [company EXCEPT !.intents = Append(@, d)]
    /\ UNCHANGED <<vars, role, made, note, mailed, request, spent>>

(* update_campaign_mode, with Gmail connected.                             *)
SetMode ==
    /\ company' = [company EXCEPT !.mode = IF @ = "prepare_only" THEN "gated_autosend"
                                                                 ELSE "prepare_only"]
    /\ Use("mode", MaxModes)
    /\ UNCHANGED <<vars, role, made, note, mailed, request>>

(* resolve_exception, "retry": a draft that lacks a contact looks for one. *)
AskRetry(k, t) ==
    /\ AskResolve(k, t) /\ Acts < MaxActs
    /\ op'.turn = (role[t] = "draft" /\ ~company.contact)
    /\ UNCHANGED <<role, made, company, note, mailed, request, spent>>

AskPauseOrResume(k) ==
    /\ AskResume(k) \/ (Acts < MaxActs /\ AskPause(k))
    /\ UNCHANGED <<role, made, company, note, mailed, request, spent>>

(* The retry, the pause or the resume commits, or fails.  A retry is late  *)
(* that turns a draft into the search of a contact found meanwhile.        *)
Answer ==
    /\ CommitRequest /\ (Overtaken => Acts < MaxActs)
    /\ role' = [t \in Tasks |-> IF t \in op.rows /\ op.turn THEN "contact" ELSE role[t]]
    /\ mailed' = {[e EXCEPT !.freed = @ \/ (e.task \in op.rows
                                            /\ (op.what = "resolve" \/ Overtaken))] :
                     e \in mailed}
    /\ spent' = [spent EXCEPT !.late = @ \/ (op.turn /\ company.contact)]
    /\ UNCHANGED <<made, company, note, request>>

Refuse ==
    /\ DropRequest
    /\ UNCHANGED <<role, made, company, note, mailed, request, spent>>

(* resolve_exception, "skip": the company is archived, its tasks stay.     *)
Skip ==
    /\ \E t \in Tasks : exc[t]
    /\ SetStage("archived")
    /\ UNCHANGED <<vars, role, made, note, mailed, request, spent>>

(* A full import of the contact's run again clears it and does not bring   *)
(* it back; a draft that refers to it prevents that.                       *)
LoseContact ==
    /\ company.contact /\ company.drafts = 0
    /\ company' = [company EXCEPT !.contact = FALSE]
    /\ Use("loss", MaxLosses)
    /\ UNCHANGED <<vars, role, made, note, mailed, request>>

PipelineNext ==
    \/ Retain \/ TimePasses
    \/ \E k \in Workers : \/ QueueStep(k) \/ Launch(k) \/ Record(k) \/ Inspect(k)
                          \/ HandOver(k) \/ FinishTask(k) \/ Send(k)
                          \/ Break(k) \/ Die(k) \/ AskPauseOrResume(k)
    \/ \E r \in DOMAIN runs : Finish(r)
    \/ DecidePrepare \/ InsertPrepared \/ SetMode \/ Skip
    \/ LoseContact \/ Answer \/ Refuse
    \/ \E d \in 1..MaxDrafts : Queue(d)
    \/ \E k \in Workers, t \in Tasks : AskRetry(k, t)

PipelineSpec == PipelineInit /\ [][PipelineNext]_pipeVars
-----------------------------------------------------------------------------
(* The rows about the company, and the rows of the queue, keep their types. *)
PipelineTypeOK ==
    /\ TypeOK
    /\ role \in [Tasks -> Roles]
    /\ made \in Seq(Roles)
    /\ company \in Company
    /\ note \in [Workers -> [what : {"none", "due", "ready", "sent", "doubt"}, draft : 0..MaxDrafts]]
    /\ mailed \subseteq [draft : 1..MaxDrafts, task : Tasks, freed : BOOLEAN]
    /\ request \in {"none", "contact", "draft"}
    /\ spent \in [prepare : Nat, mode : Nat, loss : Nat, late : BOOLEAN]

(* A company on its way is never forgotten: some row of it is waiting,     *)
(* running, paused, or blocked in the operator's inbox, through crashes    *)
(* between the commits of a hand-over, failing statements and requests     *)
(* that commit over a row that changed; but for one, the late retry.       *)
PipelineAlive ==
    company.stage \in {"qualified", "preparing"} /\ ~spent.late =>
        \E t \in Tasks : task[t].status \in
                            {"queued", "retry", "running", "paused", "blocked"}

(* The stage the operator sees has its evidence: a draft that exists, a    *)
(* message on record that really left.                                     *)
StageBacked ==
    /\ company.stage = "ready" => company.drafts > 0
    /\ company.stage = "sent" => company.outreach # {}
    /\ company.outreach \subseteq {e.draft : e \in mailed}

(* A message that left without a record holds its row, even when its       *)
(* process dies or a statement fails: only the commit of that record, the  *)
(* operator's retry, or a request that read the row before it was claimed  *)
(* takes it out of "running".                                              *)
UncertainSendHeld ==
    [][\A t \in Tasks :
          task[t].status = "running" /\ task'[t].status # "running"
              => Loose(t)' = {}]_pipeVars

(* The composed system is sound: its rows keep their types, the stage of   *)
(* the company has its evidence, and hand-overs between tasks never give a *)
(* task more attempts than it has.                                         *)
PipelineSound == PipelineTypeOK /\ StageBacked /\ AttemptsBounded
=============================================================================
