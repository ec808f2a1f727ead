---------------------------- MODULE SendDelivery ----------------------------
(***************************************************************************)
(* Controlled e-mail delivery: SendBatchService.approve_and_send, the      *)
(* reserve-for-send gate it calls, the queue and the operator's resolution *)
(* of outreach records.                                                    *)
(*                                                                         *)
(* One element of Batches is one call of approve_and_send, in a database   *)
(* transaction of its own that its caller commits once, after the last     *)
(* item.  The rows a batch has written but not committed are its write set *)
(* w[b]; on PostgreSQL (READ COMMITTED) a statement of b sees w[b] laid    *)
(* over the committed rows, and on SQLite the first write takes the        *)
(* database's only write lock.  The provider is outside the database: a    *)
(* call made to it stays made when the transaction rolls back.             *)
(***************************************************************************)
EXTENDS Integers, Sequences, FiniteSets

CONSTANTS
    Intents,          \* send intents of one workspace
    Batches,          \* send-batch requests and gated_send attempts
    RecipientOf,      \* [Intents -> normalized recipient addresses]
    CompanyOf,        \* [Intents -> company policy keys]
    Policies,         \* 1..n: the approved policy snapshots, oldest first
    RepeatRecipient,  \* [Policies -> BOOLEAN] outreach.allow_recipient_repeat
    RepeatCompany,    \* [Policies -> BOOLEAN] outreach.allow_company_repeat
    DailyLimit, WeeklyLimit,
    DayTicks, WeekTicks, DedupeTicks,  \* window lengths, in clock ticks
    Serialised,       \* TRUE: SQLite (one writer); FALSE: PostgreSQL
    MaxItems,         \* bound: intents per batch
    MaxTime,          \* bound: clock
    MaxCrashes,       \* bound: transactions lost to a crash
    NoRow             \* no such row

ASSUME DeliveryAssumption ==
    /\ IsFiniteSet(Intents) /\ IsFiniteSet(Batches)
    /\ Policies \subseteq Nat /\ 1 \in Policies
    /\ RepeatRecipient \in [Policies -> BOOLEAN]
    /\ RepeatCompany \in [Policies -> BOOLEAN]
    /\ DailyLimit \in Nat /\ WeeklyLimit \in Nat
    /\ DayTicks \in Nat /\ WeekTicks \in Nat /\ DedupeTicks \in Nat
    /\ Serialised \in BOOLEAN
    /\ MaxItems \in Nat \ {0} /\ MaxTime \in Nat /\ MaxCrashes \in Nat

VARIABLES
    resv,         \* committed send_reservations, at most one per intent
    outreach,     \* committed outreach_records
    sent,         \* committed sent_messages of each intent, oldest first
    intent,       \* committed send_intents: status and policy snapshot
    activePolicy, \* the latest approved policy snapshot
    now,          \* the clock
    pc,           \* where each batch is
    todo,         \* the items each batch still has to process
    policy,       \* the policy snapshot of the intent object a batch loaded
    verdict,      \* the gate's status, later the intent status to write
    w,            \* the write set of each batch's transaction
    calls,        \* external: every call made to the provider, in order
    crashes,      \* crashes so far
    lost,         \* history: intents with a provider call that rolled back
    cleared       \* history: intents an operator cleared for contact

db     == <<resv, outreach, sent, intent>>
local  == <<todo, policy, verdict>>
env    == <<activePolicy, now, crashes, cleared>>
vars   == <<resv, outreach, sent, intent, activePolicy, now, pc, todo, policy,
            verdict, w, calls, crashes, lost, cleared>>
-----------------------------------------------------------------------------
(* Rows and statuses.                                                      *)

ActiveStatuses    == {"active", "reserved", "attempting_provider_send",
                      "outcome_uncertain"}
RetryableStatuses == {"failed_known_unsent"}

(* Mutant: an uncertain delivery does not count as a contact.              *)
ContactedIfAccepted == {"sent", "provider_accepted"}
ContactedStatuses == {"sent", "provider_accepted", "outcome_uncertain"}

ReservationRow == [status : ActiveStatuses \cup RetryableStatuses \cup {"released"},
                   policy : Policies]

OutreachStatuses == ContactedStatuses \cup {"provider_rejected_known_unsent", "void"}
OutreachRow == [batch : Batches, intent : Intents,
                status : OutreachStatuses, at : 0..MaxTime]

Outcomes == {"provider_accepted", "provider_rejected_known_unsent",
             "send_failed_uncertain"}

IntentStatuses == {"queued_for_send", "send_disabled", "blocked", "needs_review",
                   "sent", "send_failed_known_unsent", "send_failed_uncertain"}

ASSUME NoRowAssumption ==
    NoRow \notin ReservationRow \cup OutreachRow \cup OutreachStatuses \cup IntentStatuses

EmptyWriteSet == [open     |-> FALSE,
                  gates    |-> {},
                  resv     |-> [i \in Intents |-> NoRow],
                  outreach |-> [i \in Intents |-> NoRow],
                  sent     |-> [i \in Intents |-> <<>>],
                  status   |-> [i \in Intents |-> NoRow]]

(***************************************************************************)
(* What the statements of batch b read: its own rows, then committed ones. *)
(***************************************************************************)
Item(b) == Head(todo[b])

Resv(b, i) == IF w[b].resv[i] # NoRow THEN w[b].resv[i] ELSE resv[i]

OwnOutreach(b) == {w[b].outreach[i] : i \in Intents} \ {NoRow}

Outreach(b) == outreach \cup OwnOutreach(b)

Contacted(o, window) == o.status \in ContactedStatuses /\ o.at >= now - window

(* Mutant: the company is not looked at.                                   *)
DuplicateRecipient(b, i) ==
    \E o \in Outreach(b) :
        /\ Contacted(o, DedupeTicks)
        /\ ~RepeatRecipient[policy[b]]
        /\ RecipientOf[o.intent] = RecipientOf[i]

(* EvaluateOnlyGateService._check_dedupe *)
DuplicateContact(b, i) ==
    \E o \in Outreach(b) :
        /\ Contacted(o, DedupeTicks)
        /\ \/ /\ ~RepeatRecipient[policy[b]]
              /\ RecipientOf[o.intent] = RecipientOf[i]
           \/ /\ ~RepeatCompany[policy[b]]
              /\ CompanyOf[o.intent] = CompanyOf[i]

(* Mutant: one message too many.                                           *)
LimitPassed(b) ==
    \/ Cardinality({o \in Outreach(b) : Contacted(o, DayTicks)}) > DailyLimit
    \/ Cardinality({o \in Outreach(b) : Contacted(o, WeekTicks)}) > WeeklyLimit

(* EvaluateOnlyGateService._check_limits *)
LimitReached(b) ==
    \/ Cardinality({o \in Outreach(b) : Contacted(o, DayTicks)}) >= DailyLimit
    \/ Cardinality({o \in Outreach(b) : Contacted(o, WeekTicks)}) >= WeeklyLimit

(* Two reservation rows that may not both be active: the partial unique    *)
(* indexes on recipient and on company policy key, which a row enters only *)
(* when its policy forbids the repeat.                                     *)
Collide(i, p, j, q) ==
    \/ /\ ~RepeatRecipient[p] /\ ~RepeatRecipient[q]
       /\ RecipientOf[i] = RecipientOf[j]
    \/ /\ ~RepeatCompany[p] /\ ~RepeatCompany[q]
       /\ CompanyOf[i] = CompanyOf[j]

Active(row) == row # NoRow /\ row.status \in ActiveStatuses

(* ReserveForSendGateService._reservation_conflict *)
ReservationConflict(b, i) ==
    \E j \in Intents : /\ Active(Resv(b, j))
                       /\ Collide(i, policy[b], j, Resv(b, j).policy)

(* Mutant: a released reservation is reused.                               *)
MatchingAnyStatus(b, i) == Resv(b, i) # NoRow /\ Resv(b, i).policy = policy[b]

(* ReserveForSendGateService._matching_existing_reservation *)
MatchingReservation(b, i) ==
    /\ Resv(b, i) # NoRow
    /\ Resv(b, i).policy = policy[b]
    /\ Resv(b, i).status \in ActiveStatuses \cup RetryableStatuses

(* PostgreSQL: entering a unique index waits for every open transaction    *)
(* that has written a colliding entry, to learn whether it commits.        *)
NoIndexHolders(b, i) == {}  \* mutant: the indexes are not unique
IndexHolders(b, i) ==
    {c \in Batches \ {b} :
        \E j \in Intents : /\ w[c].resv[j] # NoRow
                           /\ Collide(i, policy[b], j, w[c].resv[j].policy)}

(* The row locks: an intent's one gate-result row and its send_intents     *)
(* row, held by whoever has written them until the transaction ends.       *)
GateHolders(b, i)   == {c \in Batches \ {b} : i \in w[c].gates}
IntentHolders(b, i) == {c \in Batches \ {b} : w[c].status[i] # NoRow}

WriteLockFree(b) == Serialised => \A c \in Batches \ {b} : ~w[c].open

(* The reuse of a failed reservation re-enters the unique indexes.         *)
ReentersIndex(b) == Resv(b, Item(b)).status \in RetryableStatuses

(* The transactions batch b is waiting for.                                *)
WaitsFor(b) ==
    CASE pc[b] = "gate"   -> GateHolders(b, Item(b))
      [] pc[b] = "record" -> IntentHolders(b, Item(b))
      [] pc[b] = "insert" -> IndexHolders(b, Item(b))
      [] pc[b] = "flush" /\ ReentersIndex(b) -> IndexHolders(b, Item(b))
      [] OTHER -> {}

NeverDeadlocked(b) == FALSE  \* mutant: nobody ends a cycle of waits
Deadlocked(b) ==
    \E S \in SUBSET Batches :
        b \in S /\ \A c \in S : WaitsFor(c) \cap S # {}
-----------------------------------------------------------------------------
Init ==
    /\ resv = [i \in Intents |-> NoRow]
    /\ outreach = {}
    /\ sent = [i \in Intents |-> <<>>]
    /\ intent = [i \in Intents |-> [status |-> "queued_for_send", policy |-> 1]]
    /\ activePolicy = 1
    /\ now = 0
    /\ pc = [b \in Batches |-> "idle"]
    /\ todo = [b \in Batches |-> <<>>]
    /\ policy = [b \in Batches |-> 1]
    /\ verdict = [b \in Batches |-> "blocked"]
    /\ w = [b \in Batches |-> EmptyWriteSet]
    /\ calls = <<>>
    /\ crashes = 0
    /\ lost = {}
    /\ cleared = {}

(* Items of one batch: a list of distinct intents.                         *)
ItemLists == {s \in UNION {[1..n -> Intents] : n \in 1..MaxItems} :
                 \A k, l \in DOMAIN s : s[k] = s[l] => k = l}

(* approve_and_send begins: a reviewer posts a batch, or a gated_send task *)
(* is processed.                                                           *)
Start(b) ==
    /\ pc[b] = "idle"
    /\ \E items \in ItemLists : todo' = [todo EXCEPT ![b] = items]
    /\ pc' = [pc EXCEPT ![b] = "next"]
    /\ UNCHANGED <<db, policy, verdict, w, calls, lost, env>>

(* The item ends without a provider call; its intent takes this status.    *)
SkipItem(b, status) ==
    /\ verdict' = [verdict EXCEPT ![b] = status]
    /\ pc' = [pc EXCEPT ![b] = "record"]

(* _process_item loads the intent and writes the approval snapshot, which  *)
(* opens the write transaction.                                            *)
LoadItem(b) ==
    /\ pc[b] = "next" /\ todo[b] # <<>>
    /\ WriteLockFree(b)
    /\ policy' = [policy EXCEPT ![b] = intent[Item(b)].policy]
    /\ w' = [w EXCEPT ![b].open = TRUE]
    /\ pc' = [pc EXCEPT ![b] = "evaluate"]
    /\ UNCHANGED <<db, todo, verdict, calls, lost, env>>

(* Sending is switched off, or an approved attachment has changed on disk. *)
RefuseItem(b) ==
    /\ pc[b] = "evaluate"
    /\ \E status \in {"send_disabled", "blocked"} : SkipItem(b, status)
    /\ UNCHANGED <<db, todo, policy, w, calls, lost, env>>

(* EvaluateOnlyGateService.evaluate: the reads.  Every check that is not   *)
(* dedupe or a limit depends on data fixed before the batch began, so its  *)
(* verdict is free.                                                        *)
Evaluate(b) ==
    /\ pc[b] = "evaluate"
    /\ \E v \in IF DuplicateContact(b, Item(b)) \/ LimitReached(b)
                THEN {"blocked"}
                ELSE {"passed_evaluate_only", "needs_review", "blocked"} :
          verdict' = [verdict EXCEPT ![b] = v]
    /\ pc' = [pc EXCEPT ![b] = "gate"]
    /\ UNCHANGED <<db, todo, policy, w, calls, lost, env>>

(* evaluate: the upsert of the intent's one gate-result row, which waits   *)
(* for any open transaction that has written it.                           *)
WriteGateResult(b) ==
    /\ pc[b] = "gate"
    /\ GateHolders(b, Item(b)) = {}
    /\ w' = [w EXCEPT ![b].gates = @ \cup {Item(b)}]
    /\ pc' = [pc EXCEPT ![b] = IF verdict[b] = "passed_evaluate_only"
                               THEN "reserve" ELSE "record"]
    /\ UNCHANGED <<db, local, calls, lost, env>>

(* ReserveForSendGateService.reserve, up to the insert.                    *)
Reserve(b) ==
    /\ pc[b] = "reserve"
    /\ \/ /\ MatchingReservation(b, Item(b))
          /\ pc' = [pc EXCEPT ![b] = "flush"]
          /\ UNCHANGED verdict
       \/ /\ ~MatchingReservation(b, Item(b))
          /\ ReservationConflict(b, Item(b))
          /\ SkipItem(b, "blocked")
       \/ /\ ~MatchingReservation(b, Item(b))
          /\ ~ReservationConflict(b, Item(b))
          /\ pc' = [pc EXCEPT ![b] = "insert"]
          /\ UNCHANGED verdict
    /\ UNCHANGED <<db, todo, policy, w, calls, lost, env>>

(* The insert inside a savepoint: a unique violation, on an active row or  *)
(* on the reservation id, blocks the item only.                            *)
InsertReservation(b) ==
    /\ pc[b] = "insert"
    /\ IndexHolders(b, Item(b)) = {}
    /\ IF Resv(b, Item(b)) # NoRow \/ ReservationConflict(b, Item(b))
       THEN SkipItem(b, "blocked") /\ UNCHANGED w
       ELSE /\ w' = [w EXCEPT ![b].resv[Item(b)] =
                                [status |-> "reserved", policy |-> policy[b]]]
            /\ pc' = [pc EXCEPT ![b] = "flush"]
            /\ UNCHANGED verdict
    /\ UNCHANGED <<db, todo, policy, calls, lost, env>>

(* reservation.status = "attempting_provider_send", flushed.               *)
FlushAttempt(b) ==
    /\ pc[b] = "flush"
    /\ ReentersIndex(b) => /\ IndexHolders(b, Item(b)) = {}
                           /\ ~ReservationConflict(b, Item(b))
    /\ w' = [w EXCEPT ![b].resv[Item(b)] =
                [Resv(b, Item(b)) EXCEPT !.status = "attempting_provider_send"]]
    /\ pc' = [pc EXCEPT ![b] = "provider"]
    /\ UNCHANGED <<db, local, calls, lost, env>>

(* The status of the reservation once the provider has answered; mutants:  *)
(* the intent's status is stored, a known-unsent failure is not settled.   *)
SettledAsSent(outcome) ==
    CASE outcome = "provider_accepted" -> "sent"
      [] outcome = "provider_rejected_known_unsent" -> "failed_known_unsent"
      [] outcome = "send_failed_uncertain" -> "outcome_uncertain"

SettledIfContacted(outcome) ==
    CASE outcome = "provider_accepted" -> "released"
      [] outcome = "provider_rejected_known_unsent" -> "attempting_provider_send"
      [] outcome = "send_failed_uncertain" -> "outcome_uncertain"

SettledAs(outcome) ==
    CASE outcome = "provider_accepted" -> "released"
      [] outcome = "provider_rejected_known_unsent" -> "failed_known_unsent"
      [] outcome = "send_failed_uncertain" -> "outcome_uncertain"

(* The adapter call and the records of its outcome.  An uncertain failure  *)
(* is one after which the message may or may not have been delivered.      *)
CallProvider(b) ==
    LET i == Item(b)
        Record(outcome, delivered, intentStatus, contact) ==
            /\ calls' = Append(calls, [batch |-> b, intent |-> i, policy |-> policy[b],
                                       outcome |-> outcome, delivered |-> delivered,
                                       at |-> now])
            /\ w' = [w EXCEPT
                       ![b].resv[i].status = SettledAs(outcome),
                       ![b].sent[i] = Append(@, outcome),
                       ![b].outreach[i] =
                          IF contact = NoRow THEN @
                          ELSE [batch |-> b, intent |-> i, status |-> contact, at |-> now]]
            /\ verdict' = [verdict EXCEPT ![b] = intentStatus]
    IN  /\ pc[b] = "provider"
        /\ \/ Record("provider_accepted", TRUE, "sent", "sent")
           \/ Record("provider_rejected_known_unsent", FALSE,
                     "send_failed_known_unsent", NoRow)
           \/ \E delivered \in BOOLEAN :
                 Record("send_failed_uncertain", delivered,
                        "send_failed_uncertain", "outcome_uncertain")
        /\ pc' = [pc EXCEPT ![b] = "record"]
        /\ UNCHANGED <<db, todo, policy, lost, env>>

(* _set_intent_status, flushed: waits for an open transaction that has     *)
(* written the intent's row.  The item is over.                            *)
RecordStatus(b) ==
    /\ pc[b] = "record"
    /\ IntentHolders(b, Item(b)) = {}
    /\ w' = [w EXCEPT ![b].status[Item(b)] = verdict[b]]
    /\ todo' = [todo EXCEPT ![b] = Tail(@)]
    /\ pc' = [pc EXCEPT ![b] = "next"]
    /\ UNCHANGED <<db, policy, verdict, calls, lost, env>>

(* The caller's one commit, after the last item.                           *)
Commit(b) ==
    /\ pc[b] = "next" /\ todo[b] = <<>>
    /\ resv' = [i \in Intents |-> Resv(b, i)]
    /\ outreach' = Outreach(b)
    /\ sent' = [i \in Intents |-> sent[i] \o w[b].sent[i]]
    /\ intent' = [i \in Intents |->
                    IF w[b].status[i] # NoRow
                    THEN [intent[i] EXCEPT !.status = w[b].status[i]]
                    ELSE intent[i]]
    /\ w' = [w EXCEPT ![b] = EmptyWriteSet]
    /\ pc' = [pc EXCEPT ![b] = "done"]
    /\ UNCHANGED <<local, calls, lost, env>>

(* The transaction ends without a commit: the write set is gone, the calls *)
(* made to the provider are not.                                           *)
RollBack(b) ==
    /\ lost' = lost \cup {i \in Intents : w[b].sent[i] # <<>>}
    /\ w' = [w EXCEPT ![b] = EmptyWriteSet]
    /\ todo' = [todo EXCEPT ![b] = <<>>]
    /\ pc' = [pc EXCEPT ![b] = "done"]

(* The process, or its connection, dies.                                   *)
Crash(b) ==
    /\ crashes < MaxCrashes
    /\ pc[b] \notin {"idle", "done"}
    /\ RollBack(b)
    /\ crashes' = crashes + 1
    /\ UNCHANGED <<db, policy, verdict, calls, activePolicy, now, cleared>>

(* The reuse of a failed reservation is flushed outside any savepoint, so  *)
(* a unique violation there ends the whole batch.                          *)
ReuseViolation(b) ==
    /\ pc[b] = "flush" /\ ReentersIndex(b)
    /\ IndexHolders(b, Item(b)) = {}
    /\ ReservationConflict(b, Item(b))
    /\ RollBack(b)
    /\ UNCHANGED <<db, policy, verdict, calls, env>>

(* PostgreSQL ends one of the transactions that wait for each other.       *)
DeadlockVictim(b) ==
    /\ Deadlocked(b)
    /\ RollBack(b)
    /\ UNCHANGED <<db, policy, verdict, calls, env>>

(* SQLite: "database is locked" when the write lock is not free in time.   *)
BusyTimeout(b) ==
    /\ pc[b] = "next" /\ todo[b] # <<>> /\ ~WriteLockFree(b)
    /\ RollBack(b)
    /\ UNCHANGED <<db, policy, verdict, calls, env>>

(* OutreachResolutionService.resolve, by an operator, from any status.     *)
Resolve ==
    \E o \in outreach, next \in {"sent", "provider_rejected_known_unsent",
                                 "outcome_uncertain", "void"} :
        /\ \A b \in Batches : Serialised => ~w[b].open
        /\ outreach' = (outreach \ {o}) \cup {[o EXCEPT !.status = next]}
        /\ cleared' = IF next \in ContactedStatuses THEN cleared
                      ELSE cleared \cup {o.intent}
        /\ UNCHANGED <<resv, sent, intent, activePolicy, now, pc, local, w, calls,
                       crashes, lost>>

(* DraftSendIntentQueueService.queue_draft for a draft that has an intent: *)
(* the intent is re-pinned to the latest approved policy and re-queued.    *)
QueueDraft(i) ==
    /\ \A b \in Batches : /\ i \notin w[b].gates /\ w[b].status[i] = NoRow
                          /\ Serialised => ~w[b].open
    /\ intent' = [intent EXCEPT ![i] = [status |-> "queued_for_send",
                                        policy |-> activePolicy]]
    /\ UNCHANGED <<resv, outreach, sent, env, pc, local, w, calls, lost>>

(* A new policy snapshot is promoted (external to delivery).               *)
PromotePolicy ==
    /\ activePolicy + 1 \in Policies
    /\ activePolicy' = activePolicy + 1
    /\ UNCHANGED <<db, now, pc, local, w, calls, crashes, lost, cleared>>

Tick ==
    /\ now < MaxTime
    /\ now' = now + 1
    /\ UNCHANGED <<db, activePolicy, pc, local, w, calls, crashes, lost, cleared>>

BatchStep(b) ==
    \/ LoadItem(b) \/ RefuseItem(b) \/ Evaluate(b) \/ WriteGateResult(b)
    \/ Reserve(b) \/ InsertReservation(b) \/ FlushAttempt(b) \/ CallProvider(b)
    \/ RecordStatus(b) \/ Commit(b) \/ ReuseViolation(b) \/ DeadlockVictim(b)

Next ==
    \/ \E b \in Batches : Start(b) \/ BatchStep(b) \/ Crash(b) \/ BusyTimeout(b)
    \/ Resolve
    \/ \E i \in Intents : QueueDraft(i)
    \/ PromotePolicy
    \/ Tick

Spec == Init /\ [][Next]_vars

(* A batch that has begun runs to its end: the threads are scheduled and   *)
(* the database resolves lock waits.                                       *)
LiveSpec == Spec /\ \A b \in Batches : WF_vars(BatchStep(b))
-----------------------------------------------------------------------------
Call == [batch : Batches, intent : Intents, policy : Policies, outcome : Outcomes,
         delivered : BOOLEAN, at : 0..MaxTime]

WriteSet == [open     : BOOLEAN,
             gates    : SUBSET Intents,
             resv     : [Intents -> ReservationRow \cup {NoRow}],
             outreach : [Intents -> OutreachRow \cup {NoRow}],
             sent     : [Intents -> Seq(Outcomes)],
             status   : [Intents -> IntentStatuses \cup {NoRow}]]

(* Every table and every batch holds values of its kind.                   *)
TypeOK ==
    /\ resv \in [Intents -> ReservationRow \cup {NoRow}]
    /\ outreach \in SUBSET OutreachRow
    /\ sent \in [Intents -> Seq(Outcomes)]
    /\ intent \in [Intents -> [status : IntentStatuses, policy : Policies]]
    /\ activePolicy \in Policies
    /\ now \in 0..MaxTime
    /\ pc \in [Batches -> {"idle", "next", "evaluate", "gate", "reserve", "insert",
                           "flush", "provider", "record", "done"}]
    /\ todo \in [Batches -> Seq(Intents)]
    /\ policy \in [Batches -> Policies]
    /\ verdict \in [Batches -> IntentStatuses \cup {"passed_evaluate_only"}]
    /\ w \in [Batches -> WriteSet]
    /\ calls \in Seq(Call)
    /\ crashes \in 0..MaxCrashes
    /\ lost \in SUBSET Intents
    /\ cleared \in SUBSET Intents

(* Committed reservations that the policy makes exclusive are exclusive:   *)
(* no two active ones for one recipient or for one company, whatever the   *)
(* concurrent batches, retries, rollbacks and policy changes.              *)
ReservationsExclusive ==
    \A i, j \in Intents :
        i # j /\ Active(resv[i]) /\ Active(resv[j])
            => ~Collide(i, resv[i].policy, j, resv[j].policy)

(* Once the provider has accepted an intent's message it is never asked    *)
(* again to deliver that intent, even by a batch that evaluated the gate   *)
(* before the first one committed; an intent whose acceptance was rolled   *)
(* back is excepted.                                                       *)
AcceptedIsTerminal ==
    \A k, l \in DOMAIN calls :
        /\ k < l
        /\ calls[k].intent = calls[l].intent
        /\ calls[k].outcome = "provider_accepted"
        => calls[k].intent \in lost

Excused(i) == i \in lost \cup cleared

(* The call delivered the message, or nobody knows whether it did.         *)
MayHaveReached(call) == call.delivered \/ call.outcome = "send_failed_uncertain"

(* The outreach record that keeps an intent's recipient from a second one. *)
Tells(o, call) == /\ o.batch = call.batch /\ o.intent = call.intent /\ o.at = call.at
                  /\ o.status \in ContactedStatuses

(* The committed records of an intent tell one story.  Its reservation and *)
(* its last sent message tell the same outcome, and no reservation is in   *)
(* the middle of an attempt; it has an outreach record exactly when one of *)
(* its messages was not refused; and when the batch that called the        *)
(* provider is over, a call that may have reached the recipient is told by *)
(* a record that still counts as a contact, unless that batch was rolled   *)
(* back or an operator cleared it.                                         *)
LedgerAgrees ==
    /\ \A i \in Intents :
          IF sent[i] = <<>> THEN resv[i] = NoRow
          ELSE /\ resv[i] # NoRow
               /\ CASE sent[i][Len(sent[i])] = "provider_accepted" ->
                         resv[i].status = "released"
                    [] sent[i][Len(sent[i])] = "provider_rejected_known_unsent" ->
                         resv[i].status = "failed_known_unsent"
                    [] sent[i][Len(sent[i])] = "send_failed_uncertain" ->
                         resv[i].status = "outcome_uncertain"
    /\ \A i \in Intents :
          (\E n \in DOMAIN sent[i] : sent[i][n] # "provider_rejected_known_unsent")
             <=> \E o \in outreach : o.intent = i
    /\ \A k \in DOMAIN calls :
          /\ pc[calls[k].batch] = "done"
          /\ MayHaveReached(calls[k])
          /\ ~Excused(calls[k].intent)
          => \E o \in outreach : Tells(o, calls[k])

(* Two intents for one company, or for one recipient, are not both         *)
(* delivered inside the dedupe window when the policy forbids the repeat,  *)
(* unless an operator cleared the earlier one or its record rolled back.   *)
ContactOnce ==
    \A k, l \in DOMAIN calls :
        /\ k < l
        /\ calls[k].delivered /\ calls[l].delivered
        /\ calls[k].intent # calls[l].intent
        /\ Collide(calls[k].intent, calls[k].policy, calls[l].intent, calls[l].policy)
        /\ ~Excused(calls[k].intent)
        => calls[l].at - calls[k].at > DedupeTicks

(* Not more messages leave in a day, or in a week, than the limits allow.  *)
LimitsRespected ==
    LET Delivered(window) == {k \in DOMAIN calls : /\ calls[k].delivered
                                                   /\ ~Excused(calls[k].intent)
                                                   /\ calls[k].at >= now - window}
    IN  /\ Cardinality(Delivered(DayTicks)) <= DailyLimit
        /\ Cardinality(Delivered(WeekTicks)) <= WeeklyLimit

(* An intent whose delivery ended uncertain is not handed to the provider  *)
(* again inside the dedupe window, unless an operator cleared it.          *)
UncertainNotRetried ==
    \A k, l \in DOMAIN calls :
        /\ k < l
        /\ calls[k].intent = calls[l].intent
        /\ calls[k].outcome = "send_failed_uncertain"
        /\ ~Excused(calls[k].intent)
        => calls[l].at - calls[k].at > DedupeTicks

(* A batch that has begun ends, whatever the lock waits between batches.   *)
BatchEnds == \A b \in Batches : pc[b] # "idle" ~> pc[b] = "done"
=============================================================================
