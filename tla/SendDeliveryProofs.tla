------------------------- MODULE SendDeliveryProofs -------------------------
(***************************************************************************)
(* Proofs about SendDelivery: the state has its type and at most one batch *)
(* at a time reserves; the committed reservations and sent messages tell   *)
(* the same story, and a message the provider has accepted is not handed   *)
(* to it again; and, on a database with one writer (SQLite), a recipient   *)
(* or a company is not contacted twice inside the dedupe window, an        *)
(* uncertain delivery is not retried inside it, and the daily and the      *)
(* weekly limit hold.                                                      *)
(***************************************************************************)
EXTENDS SendDelivery, SequenceTheorems, FiniteSetTheorems, TLAPS

Busy == {"evaluate", "gate", "reserve", "insert", "flush", "provider", "record"}

(* TypeOK made inductive: what a batch holds at each step of an item.      *)
TypeInv ==
    /\ TypeOK
    /\ \A b \in Batches :
        /\ pc[b] \in Busy => todo[b] # <<>>
        /\ pc[b] = "record" => verdict[b] \in IntentStatuses
        /\ pc[b] = "flush" => Resv(b, Item(b)) # NoRow
        /\ pc[b] = "provider" => w[b].resv[Item(b)] # NoRow

(* An ended transaction's write set is a write set.                        *)
LEMMA EmptyWriteSetType == EmptyWriteSet \in WriteSet
BY DEF EmptyWriteSet, WriteSet

(* The item of a batch that has items left, and the rest, are intents.     *)
LEMMA ItemType ==
    ASSUME TypeOK, NEW b \in Batches, todo[b] # <<>>
    PROVE  /\ Item(b) \in Intents
           /\ Tail(todo[b]) \in Seq(Intents)
BY DEF TypeOK, Item

(* The reservation a batch sees is a row, or none.                         *)
LEMMA ResvType ==
    ASSUME TypeOK, NEW b \in Batches, NEW i \in Intents
    PROVE  Resv(b, i) \in ReservationRow \cup {NoRow}
BY DEF TypeOK, Resv, WriteSet

(* The outreach records a batch sees are records.                          *)
LEMMA OutreachType ==
    ASSUME TypeOK, NEW b \in Batches
    PROVE  Outreach(b) \in SUBSET OutreachRow
BY DEF TypeOK, Outreach, OwnOutreach, WriteSet

(* The initial tables and batches hold values of their kinds.              *)
THEOREM TypeInit == Init => TypeInv
<1> SUFFICES ASSUME Init PROVE TypeInv
  OBVIOUS
<1> USE DeliveryAssumption, EmptyWriteSetType DEF Init
<1>1. TypeOK
  BY DEF TypeOK, IntentStatuses, ReservationRow
<1>2. QED
  BY <1>1 DEF TypeInv, Busy

(* The items of a request are a sequence of intents.                       *)
LEMMA ItemListsType == ItemLists \subseteq Seq(Intents)
<1> SUFFICES ASSUME NEW s \in ItemLists PROVE s \in Seq(Intents)
  OBVIOUS
<1>1. PICK n \in 1..MaxItems : s \in [1..n -> Intents]
  BY DEF ItemLists
<1>2. n \in Nat
  BY DeliveryAssumption
<1>3. QED
  BY <1>1, <1>2

(* A reservation row written in a transaction leaves the rest of the       *)
(* pending rows alone.                                                     *)
LEMMA ReservationWritten ==
    ASSUME w \in [Batches -> WriteSet],
           NEW b \in Batches, NEW i \in Intents, NEW r \in ReservationRow,
           w' = [w EXCEPT ![b].resv[i] = r]
    PROVE  /\ w' \in [Batches -> WriteSet]
           /\ \A c \in Batches \ {b} : w'[c] = w[c]
           /\ w'[b].resv[i] = r
<1> DEFINE new == [w[b].resv EXCEPT ![i] = r]
<1>1. w[b] \in WriteSet
  OBVIOUS
<1>2. new \in [Intents -> ReservationRow \cup {NoRow}] /\ new[i] = r
  BY <1>1 DEF WriteSet
<1>3. w' = [w EXCEPT ![b] = [w[b] EXCEPT !.resv = new]]
  OBVIOUS
<1> HIDE DEF new
<1>4. [w[b] EXCEPT !.resv = new] \in WriteSet
  BY <1>1, <1>2 DEF WriteSet
<1>5. [w[b] EXCEPT !.resv = new].resv = new
  BY <1>1 DEF WriteSet
<1>6. QED
  BY <1>2, <1>3, <1>4, <1>5

(* approve_and_send begins with intents.                                   *)
LEMMA TypeStart ==
    ASSUME TypeInv, NEW b \in Batches, Start(b)
    PROVE  TypeInv'
<1>1. PICK items \in ItemLists : todo' = [todo EXCEPT ![b] = items]
  BY DEF Start
<1>2. todo' \in [Batches -> Seq(Intents)]
  BY <1>1, ItemListsType DEF TypeInv, TypeOK
<1>3. TypeOK'
  BY <1>2 DEF TypeInv, TypeOK, Start, db, env
<1>4. QED
  BY <1>3 DEF TypeInv, TypeOK, Start, Busy, Item, Resv, db, env

(* Loading an item keeps the kinds.                                        *)
LEMMA TypeLoadItem ==
    ASSUME TypeInv, NEW b \in Batches, LoadItem(b)
    PROVE  TypeInv'
<1>1. Item(b) \in Intents
  BY ItemType DEF TypeInv, LoadItem
<1>2. w' \in [Batches -> WriteSet]
  <2>1. w \in [Batches -> WriteSet] /\ w' = [w EXCEPT ![b].open = TRUE]
    BY DEF LoadItem, TypeInv, TypeOK
  <2>2. w' = [w EXCEPT ![b] = [w[b] EXCEPT !.open = TRUE]]
    BY <2>1
  <2>3. w[b] \in WriteSet
    BY <2>1
  <2>4. [w[b] EXCEPT !.open = TRUE] \in WriteSet
    BY <2>3 DEF WriteSet
  <2>5. QED
    BY <2>1, <2>2, <2>4
<1>3. policy' \in [Batches -> Policies]
  BY <1>1 DEF LoadItem, TypeInv, TypeOK
<1>4. TypeOK'
  BY <1>2, <1>3 DEF TypeInv, TypeOK, LoadItem, db, env
<1>5. QED
  BY <1>4 DEF TypeInv, TypeOK, LoadItem, Busy, Item, Resv, WriteSet, db, env

(* Refusing an item keeps the kinds.                                       *)
LEMMA TypeRefuseItem ==
    ASSUME TypeInv, NEW b \in Batches, RefuseItem(b)
    PROVE  TypeInv'
<1>1. TypeOK'
  BY DEF TypeInv, TypeOK, RefuseItem, SkipItem, IntentStatuses, db, env
<1>2. QED
  BY <1>1 DEF TypeInv, TypeOK, RefuseItem, SkipItem, IntentStatuses, Busy, Item, Resv, db, env

(* The gate's reads keep the kinds.                                        *)
LEMMA TypeEvaluate ==
    ASSUME TypeInv, NEW b \in Batches, Evaluate(b)
    PROVE  TypeInv'
<1>1. PICK v \in {"passed_evaluate_only", "needs_review", "blocked"} :
         verdict' = [verdict EXCEPT ![b] = v]
  BY DEF Evaluate
<1>2. TypeOK'
  BY <1>1 DEF TypeInv, TypeOK, Evaluate, IntentStatuses, db, env
<1>3. QED
  BY <1>2 DEF TypeInv, TypeOK, Evaluate, Busy, Item, Resv, db, env

(* The gate-result upsert keeps the kinds.                                 *)
LEMMA TypeWriteGateResult ==
    ASSUME TypeInv, NEW b \in Batches, WriteGateResult(b)
    PROVE  TypeInv'
<1>1. Item(b) \in Intents
  BY ItemType DEF TypeInv, WriteGateResult, Busy
<1>2. w' \in [Batches -> WriteSet]
  <2>1. w \in [Batches -> WriteSet] /\ w' = [w EXCEPT ![b].gates = @ \cup {Item(b)}]
    BY DEF WriteGateResult, TypeInv, TypeOK
  <2> DEFINE new == w[b].gates \cup {Item(b)}
  <2>2. w' = [w EXCEPT ![b] = [w[b] EXCEPT !.gates = new]]
    BY <2>1
  <2>3. w[b] \in WriteSet
    BY <2>1
  <2>4. new \in SUBSET Intents
    BY <1>1, <2>3 DEF WriteSet
  <2> HIDE DEF new
  <2>5. [w[b] EXCEPT !.gates = new] \in WriteSet
    BY <2>3, <2>4 DEF WriteSet
  <2>6. QED
    BY <2>1, <2>2, <2>5
<1>3. TypeOK'
  BY <1>2 DEF TypeInv, TypeOK, WriteGateResult, db, local, env
<1>4. QED
  BY <1>3 DEF TypeInv, TypeOK, WriteGateResult, Busy, Item, Resv, WriteSet, db, local, env

(* The reservation's reads keep the kinds; a reuse has a row to reuse.     *)
LEMMA TypeReserve ==
    ASSUME TypeInv, NEW b \in Batches, Reserve(b)
    PROVE  TypeInv'
<1>1. TypeOK'
  BY DEF TypeInv, TypeOK, Reserve, SkipItem, IntentStatuses, db, env
<1>2. \A c \in Batches : Resv(c, Item(c))' = Resv(c, Item(c))
  BY DEF Reserve, Resv, Item, db
<1>3. /\ \A c \in Batches \ {b} : pc'[c] = pc[c] /\ verdict'[c] = verdict[c]
      /\ todo' = todo /\ w' = w
      /\ pc'[b] # "provider"
      /\ pc'[b] = "flush" => Resv(b, Item(b)) # NoRow
      /\ pc'[b] = "record" => verdict'[b] \in IntentStatuses
  BY DEF TypeInv, TypeOK, Reserve, SkipItem, MatchingReservation, IntentStatuses
<1>4. todo[b] # <<>>
  BY DEF TypeInv, Reserve, Busy
<1>5. QED
  BY <1>1, <1>2, <1>3, <1>4 DEF TypeInv, Busy, Item

(* The reservation's insert keeps the kinds.                               *)
LEMMA TypeInsertReservation ==
    ASSUME TypeInv, NEW b \in Batches, InsertReservation(b)
    PROVE  TypeInv'
<1> DEFINE row == [status |-> "reserved", policy |-> policy[b]]
<1>1. Item(b) \in Intents /\ todo[b] # <<>>
  BY ItemType DEF TypeInv, InsertReservation, Busy
<1>2. row \in ReservationRow /\ row # NoRow
  BY NoRowAssumption DEF TypeInv, TypeOK, ReservationRow, ActiveStatuses
<1>3. CASE w' = w /\ SkipItem(b, "blocked")
  BY <1>1, <1>3 DEF TypeInv, TypeOK, InsertReservation, SkipItem, IntentStatuses, Busy,
                    Item, Resv, db, env
<1>4. CASE /\ w' = [w EXCEPT ![b].resv[Item(b)] = row]
           /\ pc' = [pc EXCEPT ![b] = "flush"] /\ UNCHANGED verdict
  <2>1. w \in [Batches -> WriteSet]
    BY DEF TypeInv, TypeOK
  <2> HIDE DEF row
  <2>2. /\ w' \in [Batches -> WriteSet]
        /\ \A c \in Batches \ {b} : w'[c] = w[c]
        /\ w'[b].resv[Item(b)] = row
    BY <1>1, <1>2, <1>4, <2>1, ReservationWritten
  <2>3. TypeOK'
    BY <1>4, <2>2 DEF TypeInv, TypeOK, InsertReservation, db, env
  <2>4. /\ todo' = todo /\ resv' = resv /\ verdict' = verdict
        /\ pc' = [pc EXCEPT ![b] = "flush"]
    BY <1>4 DEF InsertReservation, db
  <2>5. QED
    BY <1>1, <1>2, <2>2, <2>3, <2>4 DEF TypeInv, TypeOK, Busy, Item, Resv
<1>5. QED
  BY <1>3, <1>4 DEF InsertReservation

(* The flush of the attempt keeps the kinds and leaves a row.              *)
LEMMA TypeFlushAttempt ==
    ASSUME TypeInv, NEW b \in Batches, FlushAttempt(b)
    PROVE  TypeInv'
<1> DEFINE row == [Resv(b, Item(b)) EXCEPT !.status = "attempting_provider_send"]
<1>1. Item(b) \in Intents /\ todo[b] # <<>>
  BY ItemType DEF TypeInv, FlushAttempt, Busy
<1>2. Resv(b, Item(b)) \in ReservationRow
  BY <1>1, ResvType DEF TypeInv, FlushAttempt
<1>3. row \in ReservationRow
  BY <1>2 DEF ReservationRow, ActiveStatuses
<1>4. row # NoRow
  BY <1>3, NoRowAssumption
<1>5. /\ w' = [w EXCEPT ![b].resv[Item(b)] = row]
      /\ w \in [Batches -> WriteSet]
  BY DEF FlushAttempt, TypeInv, TypeOK
<1>6. /\ w' \in [Batches -> WriteSet]
      /\ \A c \in Batches \ {b} : w'[c] = w[c]
      /\ w'[b].resv[Item(b)] = row
  <2> HIDE DEF row
  <2>1. QED
    BY <1>1, <1>3, <1>5, ReservationWritten
<1>7. TypeOK'
  BY <1>6 DEF TypeInv, TypeOK, FlushAttempt, db, local, env
<1>8. w'[b].resv[Item(b)] # NoRow
  BY <1>4, <1>6
<1>9. /\ todo' = todo /\ resv' = resv /\ verdict' = verdict
      /\ pc' = [pc EXCEPT ![b] = "provider"]
  BY DEF FlushAttempt, db, local
<1> HIDE DEF row
<1>10. QED
  BY <1>1, <1>6, <1>7, <1>8, <1>9 DEF TypeInv, TypeOK, Busy, Item, Resv

(* The intent's new status is one an intent may have.                      *)
LEMMA TypeRecordStatus ==
    ASSUME TypeInv, NEW b \in Batches, RecordStatus(b)
    PROVE  TypeInv'
<1>1. Item(b) \in Intents /\ todo[b] # <<>> /\ Tail(todo[b]) \in Seq(Intents)
  BY ItemType DEF TypeInv, RecordStatus, Busy
<1>2. verdict[b] \in IntentStatuses
  BY DEF TypeInv, RecordStatus
<1>3. /\ w' = [w EXCEPT ![b].status[Item(b)] = verdict[b]]
      /\ w \in [Batches -> WriteSet]
  BY DEF RecordStatus, TypeInv, TypeOK
<1>4. /\ w' \in [Batches -> WriteSet]
      /\ \A c \in Batches \ {b} : w'[c] = w[c]
  <2> DEFINE new == [w[b].status EXCEPT ![Item(b)] = verdict[b]]
  <2>1. w[b] \in WriteSet
    BY <1>3
  <2>2. new \in [Intents -> IntentStatuses \cup {NoRow}]
    BY <1>1, <1>2, <2>1 DEF WriteSet
  <2>3. w' = [w EXCEPT ![b] = [w[b] EXCEPT !.status = new]]
    BY <1>3
  <2> HIDE DEF new
  <2>4. [w[b] EXCEPT !.status = new] \in WriteSet
    BY <2>1, <2>2 DEF WriteSet
  <2>5. QED
    BY <1>3, <2>3, <2>4
<1>5. todo' \in [Batches -> Seq(Intents)]
  BY <1>1 DEF RecordStatus, TypeInv, TypeOK
<1>6. TypeOK'
  BY <1>4, <1>5 DEF TypeInv, TypeOK, RecordStatus, db, env
<1>7. QED
  BY <1>4, <1>6 DEF TypeInv, TypeOK, RecordStatus, Busy, Item, Resv, db, env

(* What a commit makes of the tables are tables.                           *)
LEMMA TypeCommit ==
    ASSUME TypeInv, NEW b \in Batches, Commit(b)
    PROVE  TypeInv'
<1>1. resv' \in [Intents -> ReservationRow \cup {NoRow}]
  BY ResvType DEF TypeInv, Commit
<1>2. outreach' \in SUBSET OutreachRow
  BY OutreachType DEF TypeInv, Commit
<1>3. sent' \in [Intents -> Seq(Outcomes)]
  BY DEF TypeInv, TypeOK, Commit, WriteSet
<1>4. intent' \in [Intents -> [status : IntentStatuses, policy : Policies]]
  <2>1. \A i \in Intents : /\ intent[i] \in [status : IntentStatuses, policy : Policies]
                           /\ w[b].status[i] \in IntentStatuses \cup {NoRow}
    BY DEF TypeInv, TypeOK, WriteSet
  <2>2. QED
    BY <2>1 DEF Commit
<1>5. /\ w' \in [Batches -> WriteSet]
      /\ \A c \in Batches \ {b} : w'[c] = w[c]
  BY EmptyWriteSetType DEF TypeInv, TypeOK, Commit
<1>6. TypeOK'
  BY <1>1, <1>2, <1>3, <1>4, <1>5 DEF TypeInv, TypeOK, Commit, local, env
<1>7. \A c \in Batches \ {b} : Resv(c, Item(c)) # NoRow /\ todo[c] # <<>>
                                => Resv(c, Item(c))' # NoRow
  BY <1>5, ItemType DEF TypeInv, Commit, Resv, Item, local
<1>8. QED
  BY <1>5, <1>6, <1>7 DEF TypeInv, TypeOK, Commit, Busy, Item, local, env

(* The records of the provider's answer are rows of their tables.          *)
LEMMA TypeCallProvider ==
    ASSUME TypeInv, NEW b \in Batches, CallProvider(b)
    PROVE  TypeInv'
<1> DEFINE i == Item(b)
<1>1. i \in Intents /\ todo[b] # <<>>
  BY ItemType DEF TypeInv, CallProvider, Busy
<1>2. PICK outcome \in Outcomes, delivered \in BOOLEAN,
           status \in {"sent", "send_failed_known_unsent", "send_failed_uncertain"},
           contact \in {NoRow, "sent", "outcome_uncertain"} :
        /\ calls' = Append(calls, [batch |-> b, intent |-> i, policy |-> policy[b],
                                   outcome |-> outcome, delivered |-> delivered,
                                   at |-> now])
        /\ w' = [w EXCEPT
                   ![b].resv[i].status = SettledAs(outcome),
                   ![b].sent[i] = Append(@, outcome),
                   ![b].outreach[i] =
                      IF contact = NoRow THEN @
                      ELSE [batch |-> b, intent |-> i, status |-> contact, at |-> now]]
        /\ verdict' = [verdict EXCEPT ![b] = status]
  BY DEF CallProvider, Outcomes
<1>3. w \in [Batches -> WriteSet] /\ now \in 0..MaxTime
  BY DEF TypeInv, TypeOK
<1>4. w[b].resv[i] \in ReservationRow
  <2>1. pc[b] = "provider"
    BY DEF CallProvider
  <2>2. w[b].resv[i] # NoRow
    BY <2>1 DEF TypeInv
  <2>3. w[b].resv \in [Intents -> ReservationRow \cup {NoRow}]
    BY <1>3 DEF WriteSet
  <2>4. QED
    BY <1>1, <2>2, <2>3
<1> DEFINE row  == [w[b].resv[i] EXCEPT !.status = SettledAs(outcome)]
           made == IF contact = NoRow THEN w[b].outreach[i]
                   ELSE [batch |-> b, intent |-> i, status |-> contact, at |-> now]
<1>5. row \in ReservationRow
  BY <1>4 DEF ReservationRow, SettledAs, Outcomes, ActiveStatuses, RetryableStatuses
<1>6. made \in OutreachRow \cup {NoRow}
  BY <1>1, <1>3 DEF OutreachRow, OutreachStatuses, ContactedStatuses, WriteSet
<1>7. w' = [w EXCEPT ![b] = [w[b] EXCEPT !.resv[i] = row,
                                         !.sent[i] = Append(w[b].sent[i], outcome),
                                         !.outreach[i] = made]]
  BY <1>2, <1>3
<1>8. Append(w[b].sent[i], outcome) \in Seq(Outcomes)
  BY <1>1, <1>3 DEF WriteSet
<1> HIDE DEF row, made
<1>9. /\ w' \in [Batches -> WriteSet]
      /\ \A c \in Batches \ {b} : w'[c] = w[c]
  <2>1. w[b] \in WriteSet
    BY <1>3
  <2> DEFINE resv1 == [w[b].resv EXCEPT ![i] = row]
             sent1 == [w[b].sent EXCEPT ![i] = Append(w[b].sent[i], outcome)]
             out1  == [w[b].outreach EXCEPT ![i] = made]
  <2>2. resv1 \in [Intents -> ReservationRow \cup {NoRow}]
    BY <1>1, <1>5, <2>1 DEF WriteSet
  <2>3. sent1 \in [Intents -> Seq(Outcomes)]
    BY <1>1, <1>8, <2>1 DEF WriteSet
  <2>4. out1 \in [Intents -> OutreachRow \cup {NoRow}]
    BY <1>1, <1>6, <2>1 DEF WriteSet
  <2>5. w' = [w EXCEPT ![b] = [w[b] EXCEPT !.resv = resv1, !.sent = sent1,
                                           !.outreach = out1]]
    BY <1>7
  <2> HIDE DEF resv1, sent1, out1
  <2>6. [w[b] EXCEPT !.resv = resv1, !.sent = sent1, !.outreach = out1] \in WriteSet
    BY <2>1, <2>2, <2>3, <2>4 DEF WriteSet
  <2>7. QED
    BY <1>3, <2>5, <2>6
<1>10. calls' \in Seq(Call)
  <2>1. policy[b] \in Policies /\ calls \in Seq(Call)
    BY DEF TypeInv, TypeOK
  <2>2. QED
    BY <1>1, <1>2, <1>3, <2>1 DEF Call
<1>11. verdict' \in [Batches -> IntentStatuses \cup {"passed_evaluate_only"}]
  BY <1>2 DEF TypeInv, TypeOK, IntentStatuses
<1>12. /\ pc' = [pc EXCEPT ![b] = "record"]
       /\ UNCHANGED <<db, todo, policy, lost, env>>
  BY DEF CallProvider
<1>13. TypeOK'
  BY <1>9, <1>10, <1>11, <1>12 DEF TypeInv, TypeOK, db, env
<1>14. verdict'[b] \in IntentStatuses /\ \A c \in Batches \ {b} : verdict'[c] = verdict[c]
  BY <1>2 DEF TypeInv, TypeOK, IntentStatuses
<1>15. QED
  BY <1>1, <1>9, <1>12, <1>13, <1>14 DEF TypeInv, TypeOK, Busy, Item, Resv, db

(* A transaction that ends without a commit keeps the kinds.               *)
LEMMA TypeRollBack ==
    ASSUME TypeInv, NEW b \in Batches, RollBack(b),
           UNCHANGED <<db, policy, verdict, calls, activePolicy, now, cleared>>,
           crashes' \in 0..MaxCrashes
    PROVE  TypeInv'
<1>1. /\ w' \in [Batches -> WriteSet]
      /\ \A c \in Batches \ {b} : w'[c] = w[c]
  BY EmptyWriteSetType DEF TypeInv, TypeOK, RollBack
<1>2. TypeOK'
  BY <1>1 DEF TypeInv, TypeOK, RollBack, db
<1>3. QED
  BY <1>1, <1>2 DEF TypeInv, TypeOK, RollBack, Busy, Item, Resv, db

(* The steps of nobody's batch leave every batch where it is.              *)
LEMMA TypeElsewhere ==
    ASSUME TypeInv, TypeOK',
           UNCHANGED <<resv, pc, todo, verdict, w>>
    PROVE  TypeInv'
BY DEF TypeInv, Item, Resv

(* An operator's resolution leaves outreach records.                       *)
LEMMA TypeResolve ==
    ASSUME TypeInv, Resolve
    PROVE  TypeInv'
<1>1. PICK o \in outreach, next \in {"sent", "provider_rejected_known_unsent",
                                     "outcome_uncertain", "void"} :
        /\ outreach' = (outreach \ {o}) \cup {[o EXCEPT !.status = next]}
        /\ cleared' = IF next \in ContactedStatuses THEN cleared
                      ELSE cleared \cup {o.intent}
        /\ UNCHANGED <<resv, sent, intent, activePolicy, now, pc, local, w, calls,
                       crashes, lost>>
  BY DEF Resolve
<1>2. o \in OutreachRow
  BY DEF TypeInv, TypeOK
<1>3. [o EXCEPT !.status = next] \in OutreachRow /\ o.intent \in Intents
  BY <1>2 DEF OutreachRow, OutreachStatuses, ContactedStatuses
<1>4. TypeOK'
  BY <1>1, <1>3 DEF TypeInv, TypeOK, local
<1>5. QED
  BY <1>1, <1>4, TypeElsewhere DEF local

(* Queueing a draft again keeps the kinds.                                 *)
LEMMA TypeQueueDraft ==
    ASSUME TypeInv, NEW i \in Intents, QueueDraft(i)
    PROVE  TypeInv'
<1>1. TypeOK'
  BY DEF TypeInv, TypeOK, QueueDraft, IntentStatuses, env, local
<1>2. QED
  BY <1>1, TypeElsewhere DEF QueueDraft, local

(* A policy promotion and the clock keep the kinds.                        *)
LEMMA TypeEnvironment ==
    ASSUME TypeInv, PromotePolicy \/ Tick
    PROVE  TypeInv'
<1>1. TypeOK'
  BY DeliveryAssumption DEF TypeInv, TypeOK, PromotePolicy, Tick, db, local
<1>2. QED
  BY <1>1, TypeElsewhere DEF PromotePolicy, Tick, db, local

(* Every step keeps TypeInv.                                               *)
LEMMA TypeNext == TypeInv /\ [Next]_vars => TypeInv'
<1> SUFFICES ASSUME TypeInv, [Next]_vars PROVE TypeInv'
  OBVIOUS
<1>1. ASSUME NEW b \in Batches, Start(b) PROVE TypeInv'
  BY <1>1, TypeStart
<1>2. ASSUME NEW b \in Batches, BatchStep(b) PROVE TypeInv'
  <2>1. CASE ReuseViolation(b)
    BY <2>1, TypeRollBack DEF ReuseViolation, env, TypeInv, TypeOK
  <2>2. CASE DeadlockVictim(b)
    BY <2>2, TypeRollBack DEF DeadlockVictim, env, TypeInv, TypeOK
  <2>3. QED
    BY <1>2, <2>1, <2>2, TypeLoadItem, TypeRefuseItem, TypeEvaluate,
       TypeWriteGateResult, TypeReserve, TypeInsertReservation, TypeFlushAttempt,
       TypeCallProvider, TypeRecordStatus, TypeCommit DEF BatchStep
<1>3. ASSUME NEW b \in Batches, Crash(b) PROVE TypeInv'
  BY <1>3, TypeRollBack, DeliveryAssumption DEF Crash, TypeInv, TypeOK
<1>4. ASSUME NEW b \in Batches, BusyTimeout(b) PROVE TypeInv'
  BY <1>4, TypeRollBack DEF BusyTimeout, env, TypeInv, TypeOK
<1>5. CASE UNCHANGED vars
  BY <1>5 DEF TypeInv, TypeOK, Item, Resv, vars
<1>6. QED
  BY <1>1, <1>2, <1>3, <1>4, <1>5, TypeResolve, TypeQueueDraft, TypeEnvironment DEF Next

(* Every table and every batch holds values of its kind, in every state.   *)
THEOREM TypeCorrect == Spec => []TypeOK
<1>1. TypeInv => TypeOK
  BY DEF TypeInv
<1>2. QED
  BY <1>1, TypeInit, TypeNext, PTL DEF Spec

-----------------------------------------------------------------------------
(* Why committed reservations stay exclusive: the indexes and the row      *)
(* locks keep the uncommitted ones exclusive too.                          *)
Wrote(b, i) == w[b].resv[i] # NoRow

Apart(i, r, j, s) == ~Collide(i, r.policy, j, s.policy)

(* An intent's reservation is touched only under the lock of its gate row, *)
(* which one batch holds at a time.                                        *)
GatesHeld ==
    /\ \A b, c \in Batches : b # c => w[b].gates \cap w[c].gates = {}
    /\ \A b \in Batches, i \in Intents : Wrote(b, i) => i \in w[b].gates
    /\ \A b \in Batches : pc[b] \in {"reserve", "insert", "flush", "provider"}
                            => Item(b) \in w[b].gates

(* The reservation an attempt is about to use, and the one it uses.        *)
AttemptsHeld ==
    \A b \in Batches :
        /\ pc[b] = "flush" =>
              /\ Resv(b, Item(b)).policy = policy[b]
              /\ Resv(b, Item(b)).status \in ActiveStatuses \cup RetryableStatuses
        /\ pc[b] = "provider" => Active(w[b].resv[Item(b)])

(* Rows of two open transactions; an open one's row and a committed row it *)
(* has not rewritten; two rows of one transaction.                         *)
ApartAcross ==
    \A b, c \in Batches : \A i, j \in Intents :
        b # c /\ Wrote(b, i) /\ Wrote(c, j) => Apart(i, w[b].resv[i], j, w[c].resv[j])

ApartFromCommitted ==
    \A b \in Batches : \A i, j \in Intents :
        i # j /\ Wrote(b, i) /\ ~Wrote(b, j) /\ Active(resv[j])
            => Apart(i, w[b].resv[i], j, resv[j])

ApartWithin ==
    \A b \in Batches : \A i, j \in Intents :
        i # j /\ Active(w[b].resv[i]) /\ Active(w[b].resv[j])
            => Apart(i, w[b].resv[i], j, w[b].resv[j])

LockInv ==
    /\ GatesHeld
    /\ AttemptsHeld
    /\ ApartAcross
    /\ ApartFromCommitted
    /\ ApartWithin
    /\ ReservationsExclusive

(* Two rows that do not collide do not collide the other way round.        *)
LEMMA ApartSymmetric ==
    ASSUME NEW i \in Intents, NEW j \in Intents, NEW r, NEW s, Apart(i, r, j, s)
    PROVE  Apart(j, s, i, r)
BY DEF Apart, Collide

(* With empty tables nothing is held and nothing collides.                 *)
THEOREM LockInit == Init => LockInv
BY DEF Init, LockInv, GatesHeld, AttemptsHeld, ApartAcross, ApartFromCommitted,
       ApartWithin, ReservationsExclusive, EmptyWriteSet, Wrote, Active

InSend == {"reserve", "insert", "flush", "provider"}

(* A step that writes no reservation and brings no batch into a send.      *)
LEMMA LockFrame ==
    ASSUME LockInv, resv' = resv,
           \A c \in Batches : w'[c].resv = w[c].resv /\ w'[c].gates = w[c].gates,
           \A c \in Batches :
              \/ pc'[c] \notin InSend
              \/ pc'[c] = pc[c] /\ todo'[c] = todo[c] /\ policy'[c] = policy[c]
    PROVE  LockInv'
<1>1. GatesHeld'
  BY DEF LockInv, GatesHeld, Wrote, Item, InSend
<1>2. AttemptsHeld'
  BY DEF LockInv, AttemptsHeld, Resv, Item, InSend
<1>3. ApartAcross' /\ ApartFromCommitted' /\ ApartWithin' /\ ReservationsExclusive'
  BY DEF LockInv, ApartAcross, ApartFromCommitted, ApartWithin, ReservationsExclusive,
         Wrote, Apart
<1>4. QED
  BY <1>1, <1>2, <1>3 DEF LockInv

(* A batch writes the reservation of an intent whose gate row it holds; *)
(* the row it writes is apart from what it could collide with.             *)
LEMMA LockWrite ==
    ASSUME LockInv, NEW b \in Batches, NEW i \in Intents, NEW r \in ReservationRow,
           w[b].resv \in [Intents -> ReservationRow \cup {NoRow}],
           i \in w[b].gates,
           resv' = resv,
           \A c \in Batches \ {b} : w'[c] = w[c],
           w'[b].gates = w[b].gates,
           w'[b].resv = [w[b].resv EXCEPT ![i] = r],
           \A c \in Batches \ {b} : \A j \in Intents :
              Wrote(c, j) => Apart(i, r, j, w[c].resv[j]),
           \A j \in Intents \ {i} :
              /\ ~Wrote(b, j) /\ Active(resv[j]) => Apart(i, r, j, resv[j])
              /\ Active(r) /\ Active(w[b].resv[j]) => Apart(i, r, j, w[b].resv[j])
    PROVE  /\ \A c, d \in Batches : c # d => (w[c].gates \cap w[d].gates = {})'
           /\ \A c \in Batches, j \in Intents : Wrote(c, j)' => j \in w'[c].gates
           /\ ApartAcross' /\ ApartFromCommitted' /\ ApartWithin'
           /\ ReservationsExclusive'
<1>1. \A j \in Intents : w'[b].resv[j] = IF j = i THEN r ELSE w[b].resv[j]
  OBVIOUS
<1>2. \A c, d \in Batches : c # d => (w[c].gates \cap w[d].gates = {})'
  BY DEF LockInv, GatesHeld
<1>3. \A c \in Batches, j \in Intents : Wrote(c, j)' => j \in w'[c].gates
  BY <1>1 DEF LockInv, GatesHeld, Wrote
<1>4. ApartAcross'
  <2> SUFFICES ASSUME NEW c \in Batches, NEW d \in Batches,
                      NEW j \in Intents, NEW k \in Intents,
                      c # d, Wrote(c, j)', Wrote(d, k)'
               PROVE  Apart(j, w'[c].resv[j], k, w'[d].resv[k])
    BY DEF ApartAcross, Apart
  <2>1. CASE c = b /\ j = i
    BY <1>1, <2>1 DEF Wrote
  <2>2. CASE d = b /\ k = i
    BY <1>1, <2>2, ApartSymmetric DEF Wrote
  <2>3. QED
    BY <1>1, <2>1, <2>2 DEF LockInv, ApartAcross, Wrote
<1>5. ApartFromCommitted'
  <2> SUFFICES ASSUME NEW c \in Batches, NEW j \in Intents, NEW k \in Intents,
                      j # k, Wrote(c, j)', ~Wrote(c, k)', Active(resv[k])
               PROVE  Apart(j, w'[c].resv[j], k, resv[k])
    BY DEF ApartFromCommitted, Apart, Active
  <2>1. r # NoRow
    BY NoRowAssumption
  <2>2. CASE c = b /\ j = i
    BY <1>1, <2>1, <2>2 DEF Wrote
  <2>3. QED
    BY <1>1, <2>1, <2>2 DEF LockInv, ApartFromCommitted, Wrote
<1>6. ApartWithin'
  <2> SUFFICES ASSUME NEW c \in Batches, NEW j \in Intents, NEW k \in Intents,
                      j # k, Active(w'[c].resv[j]), Active(w'[c].resv[k])
               PROVE  Apart(j, w'[c].resv[j], k, w'[c].resv[k])
    BY DEF ApartWithin, Apart, Active
  <2>1. CASE c = b /\ j = i
    BY <1>1, <2>1
  <2>2. CASE c = b /\ k = i
    BY <1>1, <2>2, ApartSymmetric
  <2>3. QED
    BY <1>1, <2>1, <2>2 DEF LockInv, ApartWithin
<1>7. ReservationsExclusive'
  BY DEF LockInv, ReservationsExclusive, Active
<1>8. QED
  BY <1>2, <1>3, <1>4, <1>5, <1>6, <1>7

(* The steps of an item before the gate passes it, and after its outcome.  *)
LEMMA LockQuiet ==
    ASSUME TypeInv, LockInv, NEW b \in Batches,
           Start(b) \/ LoadItem(b) \/ RefuseItem(b) \/ Evaluate(b) \/ RecordStatus(b)
    PROVE  LockInv'
<1>1. /\ DOMAIN pc = Batches /\ w \in [Batches -> WriteSet]
      /\ todo \in [Batches -> Seq(Intents)] /\ policy \in [Batches -> Policies]
  BY DEF TypeInv, TypeOK
<1>2. resv' = resv
  BY DEF Start, LoadItem, RefuseItem, Evaluate, RecordStatus, db
<1>3. \A c \in Batches : w'[c].resv = w[c].resv /\ w'[c].gates = w[c].gates
  <2>1. CASE w' = w
    BY <2>1
  <2>2. CASE w' = [w EXCEPT ![b].open = TRUE]
    BY <1>1, <2>2 DEF WriteSet
  <2>3. CASE w' = [w EXCEPT ![b].status[Item(b)] = verdict[b]]
    BY <1>1, <2>3 DEF WriteSet
  <2>4. QED
    BY <2>1, <2>2, <2>3 DEF Start, LoadItem, RefuseItem, Evaluate, RecordStatus
<1>4. \A c \in Batches :
         \/ pc'[c] \notin InSend
         \/ pc'[c] = pc[c] /\ todo'[c] = todo[c] /\ policy'[c] = policy[c]
  BY <1>1 DEF Start, LoadItem, RefuseItem, Evaluate, RecordStatus, SkipItem, InSend
<1>5. QED
  BY <1>2, <1>3, <1>4, LockFrame

(* The steps of the operator, the queue, the policy and the clock.         *)
LEMMA LockElsewhere ==
    ASSUME LockInv, UNCHANGED <<resv, pc, todo, policy, w>>
    PROVE  LockInv'
BY LockFrame

(* The gate row is taken while nobody else holds it.                       *)
LEMMA LockWriteGateResult ==
    ASSUME TypeInv, LockInv, NEW b \in Batches, WriteGateResult(b)
    PROVE  LockInv'
<1>1. w \in [Batches -> WriteSet] /\ w' = [w EXCEPT ![b].gates = @ \cup {Item(b)}]
  BY DEF WriteGateResult, TypeInv, TypeOK
<1>2. /\ \A c \in Batches : w'[c].resv = w[c].resv
      /\ w'[b].gates = w[b].gates \cup {Item(b)}
      /\ \A c \in Batches \ {b} : w'[c] = w[c]
  BY <1>1 DEF WriteSet
<1>3. \A c \in Batches \ {b} : Item(b) \notin w[c].gates
  BY DEF WriteGateResult, GateHolders
<1>4. /\ pc'[b] \in {"reserve", "record"}
      /\ \A c \in Batches \ {b} : pc'[c] = pc[c]
      /\ todo' = todo /\ policy' = policy /\ resv' = resv
  BY DEF WriteGateResult, TypeInv, TypeOK, local, db
<1>5. GatesHeld'
  <2>1. \A c, d \in Batches : c # d => w'[c].gates \cap w'[d].gates = {}
    BY <1>2, <1>3 DEF LockInv, GatesHeld
  <2>2. \A c \in Batches, i \in Intents : Wrote(c, i)' => i \in w'[c].gates
    BY <1>2 DEF LockInv, GatesHeld, Wrote
  <2>3. \A c \in Batches : pc'[c] \in {"reserve", "insert", "flush", "provider"}
                             => Item(c)' \in w'[c].gates
    BY <1>2, <1>4 DEF LockInv, GatesHeld, Item
  <2>4. QED
    BY <2>1, <2>2, <2>3 DEF GatesHeld
<1>6. AttemptsHeld'
  BY <1>2, <1>4 DEF LockInv, AttemptsHeld, Resv, Item
<1>7. ApartAcross' /\ ApartFromCommitted' /\ ApartWithin' /\ ReservationsExclusive'
  <2>1. ApartAcross'
    BY <1>2 DEF LockInv, ApartAcross, Wrote, Apart
  <2>2. ApartFromCommitted'
    BY <1>2, <1>4 DEF LockInv, ApartFromCommitted, Wrote, Apart
  <2>3. ApartWithin'
    BY <1>2 DEF LockInv, ApartWithin, Wrote, Apart
  <2>4. ReservationsExclusive'
    BY <1>4 DEF LockInv, ReservationsExclusive
  <2>5. QED
    BY <2>1, <2>2, <2>3, <2>4
<1>8. QED
  BY <1>5, <1>6, <1>7 DEF LockInv

(* Where the gate goes with its reservation, before it writes one.         *)
LEMMA LockReserve ==
    ASSUME TypeInv, LockInv, NEW b \in Batches, Reserve(b)
    PROVE  LockInv'
<1>1. /\ pc[b] = "reserve" /\ pc'[b] \in {"flush", "record", "insert"}
      /\ pc'[b] = "flush" => MatchingReservation(b, Item(b))
      /\ \A c \in Batches \ {b} : pc'[c] = pc[c]
      /\ todo' = todo /\ policy' = policy /\ resv' = resv /\ w' = w
  BY DEF Reserve, SkipItem, TypeInv, TypeOK, db
<1>2. GatesHeld'
  BY <1>1 DEF LockInv, GatesHeld, Wrote, Item
<1>3. AttemptsHeld'
  BY <1>1 DEF LockInv, AttemptsHeld, Resv, Item, MatchingReservation
<1>4. ApartAcross' /\ ApartFromCommitted' /\ ApartWithin' /\ ReservationsExclusive'
  BY <1>1 DEF LockInv, ApartAcross, ApartFromCommitted, ApartWithin,
              ReservationsExclusive, Wrote, Apart
<1>5. QED
  BY <1>2, <1>3, <1>4 DEF LockInv

(* What a row of batch b for intent i must be apart from to be written.    *)
ApartFromAll(b, i, r) ==
    /\ \A c \in Batches \ {b} : \A j \in Intents :
          Wrote(c, j) => Apart(i, r, j, w[c].resv[j])
    /\ \A j \in Intents \ {i} :
          /\ ~Wrote(b, j) /\ Active(resv[j]) => Apart(i, r, j, resv[j])
          /\ Active(r) /\ Active(w[b].resv[j]) => Apart(i, r, j, w[b].resv[j])

(* A row that enters the unique indexes: nobody holds a colliding entry    *)
(* and no visible active row collides.                                     *)
LEMMA EnteringApart ==
    ASSUME NEW b \in Batches, NEW i \in Intents, NEW r, r.policy = policy[b],
           IndexHolders(b, i) = {}, ~ReservationConflict(b, i)
    PROVE  ApartFromAll(b, i, r)
<1>1. \A c \in Batches \ {b} : \A j \in Intents :
         Wrote(c, j) => Apart(i, r, j, w[c].resv[j])
  BY DEF IndexHolders, Wrote, Apart
<1>2. \A j \in Intents : Active(Resv(b, j)) => Apart(i, r, j, Resv(b, j))
  BY DEF ReservationConflict, Apart
<1>3. QED
  BY <1>1, <1>2 DEF ApartFromAll, Resv, Wrote, Active

(* A row that rewrites the batch's own active row under the same policy.   *)
LEMMA OwnRowApart ==
    ASSUME LockInv, NEW b \in Batches, NEW i \in Intents, NEW r,
           Active(w[b].resv[i]), r.policy = w[b].resv[i].policy
    PROVE  ApartFromAll(b, i, r)
<1>1. Wrote(b, i)
  BY DEF Wrote, Active
<1>2. \A s : \A j \in Intents : Apart(i, w[b].resv[i], j, s) => Apart(i, r, j, s)
  BY DEF Apart
<1>3. QED
  BY <1>1, <1>2 DEF ApartFromAll, LockInv, ApartAcross, ApartFromCommitted, ApartWithin

(* A row that is first written over a committed active one, under the lock *)
(* of its gate row and under the same policy.                              *)
LEMMA CommittedRowApart ==
    ASSUME LockInv, NEW b \in Batches, NEW i \in Intents, NEW r,
           i \in w[b].gates, ~Wrote(b, i), Active(resv[i]),
           r.policy = resv[i].policy
    PROVE  ApartFromAll(b, i, r)
<1>1. \A s : \A j \in Intents : Apart(i, resv[i], j, s) => Apart(i, r, j, s)
  BY DEF Apart
<1>2. ASSUME NEW c \in Batches \ {b}, NEW j \in Intents, Wrote(c, j)
      PROVE  Apart(i, r, j, w[c].resv[j])
  <2>1. ~Wrote(c, i) /\ j # i
    BY <1>2 DEF LockInv, GatesHeld
  <2>2. Apart(j, w[c].resv[j], i, resv[i])
    BY <1>2, <2>1 DEF LockInv, ApartFromCommitted
  <2>3. QED
    BY <1>1, <2>2, ApartSymmetric
<1>3. ASSUME NEW j \in Intents \ {i}, ~Wrote(b, j), Active(resv[j])
      PROVE  Apart(i, r, j, resv[j])
  BY <1>1, <1>3 DEF LockInv, ReservationsExclusive, Apart
<1>4. ASSUME NEW j \in Intents \ {i}, Active(w[b].resv[j])
      PROVE  Apart(i, r, j, w[b].resv[j])
  <2>1. Apart(j, w[b].resv[j], i, resv[i])
    BY <1>4 DEF LockInv, ApartFromCommitted, Wrote, Active
  <2>2. QED
    BY <1>1, <2>1, ApartSymmetric
<1>5. QED
  BY <1>2, <1>3, <1>4 DEF ApartFromAll

(* A batch in a send writes its item's reservation and moves on.           *)
LEMMA LockSend ==
    ASSUME TypeInv, LockInv, NEW b \in Batches, NEW r \in ReservationRow,
           pc[b] \in InSend,
           ApartFromAll(b, Item(b), r),
           UNCHANGED <<resv, todo, policy>>,
           \A c \in Batches \ {b} : w'[c] = w[c] /\ pc'[c] = pc[c],
           w'[b].gates = w[b].gates,
           w'[b].resv = [w[b].resv EXCEPT ![Item(b)] = r],
           pc'[b] \in {"flush", "provider", "record"},
           pc'[b] = "flush" => r.policy = policy[b] /\ r.status \in ActiveStatuses,
           pc'[b] = "provider" => Active(r)
    PROVE  LockInv'
<1>1. Item(b) \in Intents
  BY ItemType DEF TypeInv, InSend, Busy
<1>2. w[b].resv \in [Intents -> ReservationRow \cup {NoRow}]
  BY DEF TypeInv, TypeOK, WriteSet
<1>3. Item(b) \in w[b].gates
  BY DEF LockInv, GatesHeld, InSend
<1>4. /\ \A c, d \in Batches : c # d => (w[c].gates \cap w[d].gates = {})'
      /\ \A c \in Batches, j \in Intents : Wrote(c, j)' => j \in w'[c].gates
      /\ ApartAcross' /\ ApartFromCommitted' /\ ApartWithin'
      /\ ReservationsExclusive'
  BY <1>1, <1>2, <1>3, LockWrite DEF ApartFromAll
<1>5. \A c \in Batches : pc'[c] \in {"reserve", "insert", "flush", "provider"}
                           => Item(c)' \in w'[c].gates
  BY <1>3 DEF LockInv, GatesHeld, Item
<1>6. GatesHeld'
  BY <1>4, <1>5 DEF GatesHeld
<1>7. w'[b].resv[Item(b)] = r /\ r # NoRow
  BY <1>1, <1>2, NoRowAssumption
<1>8. AttemptsHeld'
  <2>1. \A c \in Batches : /\ policy'[c] = policy[c] /\ Item(c)' = Item(c)
                           /\ resv'[Item(c)] = resv[Item(c)]
    BY DEF Item
  <2>2. ASSUME NEW c \in Batches \ {b}
        PROVE  /\ w'[c] = w[c] /\ pc'[c] = pc[c]
               /\ Resv(c, Item(c))' = Resv(c, Item(c))
    BY <2>1, <2>2 DEF Resv
  <2>3. Resv(b, Item(b))' = r
    BY <1>7, <2>1 DEF Resv
  <2>4. ASSUME NEW c \in Batches
        PROVE  /\ pc'[c] = "flush" =>
                    /\ Resv(c, Item(c))'.policy = policy'[c]
                    /\ Resv(c, Item(c))'.status \in ActiveStatuses \cup RetryableStatuses
               /\ pc'[c] = "provider" => Active(w'[c].resv[Item(c)])
    <3>1. CASE c = b
      BY <1>7, <2>1, <2>3, <3>1
    <3>2. CASE c # b
      BY <2>1, <2>2, <3>2 DEF LockInv, AttemptsHeld
    <3>3. QED
      BY <3>1, <3>2
  <2>5. QED
    BY <2>1, <2>4 DEF AttemptsHeld, Active
<1>9. QED
  BY <1>4, <1>6, <1>8 DEF LockInv

(* A fresh reservation is written past the indexes.                        *)
LEMMA LockInsertReservation ==
    ASSUME TypeInv, LockInv, NEW b \in Batches, InsertReservation(b)
    PROVE  LockInv'
<1> DEFINE i == Item(b)
           r == [status |-> "reserved", policy |-> policy[b]]
<1>1. i \in Intents
  BY ItemType DEF TypeInv, InsertReservation, Busy
<1>2. /\ DOMAIN pc = Batches /\ w \in [Batches -> WriteSet] /\ policy[b] \in Policies
      /\ pc[b] = "insert" /\ UNCHANGED <<resv, todo, policy>>
  BY DEF InsertReservation, TypeInv, TypeOK, db
<1>3. CASE SkipItem(b, "blocked") /\ UNCHANGED w
  BY <1>2, <1>3, LockFrame DEF SkipItem, InSend
<1>4. CASE /\ ~ReservationConflict(b, i)
           /\ IndexHolders(b, i) = {}
           /\ w' = [w EXCEPT ![b].resv[i] = r]
           /\ pc' = [pc EXCEPT ![b] = "flush"]
  <2>1. r \in ReservationRow /\ r.policy = policy[b] /\ r.status \in ActiveStatuses
    BY <1>2 DEF ReservationRow, ActiveStatuses
  <2>2. ApartFromAll(b, i, r)
    BY <1>1, <1>4, <2>1, EnteringApart
  <2>3. /\ \A c \in Batches \ {b} : w'[c] = w[c] /\ pc'[c] = pc[c]
        /\ w'[b].gates = w[b].gates
        /\ w'[b].resv = [w[b].resv EXCEPT ![i] = r]
        /\ pc'[b] = "flush"
    BY <1>2, <1>4 DEF WriteSet
  <2> HIDE DEF i, r
  <2>4. QED
    BY <1>2, <2>1, <2>2, <2>3, LockSend DEF InSend, i
<1>5. QED
  BY <1>3, <1>4 DEF InsertReservation

(* The reservation is marked as in an attempt.                             *)
LEMMA LockFlushAttempt ==
    ASSUME TypeInv, LockInv, NEW b \in Batches, FlushAttempt(b)
    PROVE  LockInv'
<1> DEFINE i == Item(b)
           r == [Resv(b, i) EXCEPT !.status = "attempting_provider_send"]
<1>1. i \in Intents
  BY ItemType DEF TypeInv, FlushAttempt, Busy
<1>2. /\ DOMAIN pc = Batches /\ w \in [Batches -> WriteSet]
      /\ pc[b] = "flush" /\ UNCHANGED <<resv, todo, policy>>
  BY DEF FlushAttempt, TypeInv, TypeOK, db, local
<1>3. /\ Resv(b, i) \in ReservationRow
      /\ Resv(b, i).policy = policy[b]
      /\ Resv(b, i).status \in ActiveStatuses \cup RetryableStatuses
  BY <1>1, <1>2, ResvType DEF TypeInv, LockInv, AttemptsHeld
<1>4. r \in ReservationRow /\ r.policy = policy[b] /\ r.status \in ActiveStatuses
  BY <1>3 DEF ReservationRow, ActiveStatuses
<1>5. ApartFromAll(b, i, r)
  <2>1. CASE ReentersIndex(b)
    BY <1>1, <1>4, <2>1, EnteringApart DEF FlushAttempt
  <2>2. CASE ~ReentersIndex(b)
    <3>1. Active(Resv(b, i))
      BY <1>3, <2>2, NoRowAssumption DEF ReentersIndex, Active
    <3>2. CASE Wrote(b, i)
      BY <1>1, <1>3, <1>4, <3>1, <3>2, OwnRowApart DEF Wrote, Resv
    <3>3. CASE ~Wrote(b, i)
      <4>1. i \in w[b].gates
        BY <1>2 DEF LockInv, GatesHeld
      <4>2. QED
        BY <1>1, <1>3, <1>4, <3>1, <3>3, <4>1, CommittedRowApart DEF Wrote, Resv
    <3>4. QED
      BY <3>2, <3>3
  <2>3. QED
    BY <2>1, <2>2
<1>6. /\ w' = [w EXCEPT ![b].resv[i] = r]
      /\ pc' = [pc EXCEPT ![b] = "provider"]
  BY DEF FlushAttempt
<1>7. Active(r)
  BY <1>4, NoRowAssumption DEF Active
<1> HIDE DEF i, r
<1>8. /\ \A c \in Batches \ {b} : w'[c] = w[c] /\ pc'[c] = pc[c]
      /\ w'[b].gates = w[b].gates
      /\ w'[b].resv = [w[b].resv EXCEPT ![i] = r]
      /\ pc'[b] = "provider"
  BY <1>2, <1>6 DEF WriteSet
<1>9. QED
  BY <1>2, <1>4, <1>5, <1>7, <1>8, LockSend DEF InSend, i

(* The reservation is settled by the provider's answer.                    *)
LEMMA LockCallProvider ==
    ASSUME TypeInv, LockInv, NEW b \in Batches, CallProvider(b)
    PROVE  LockInv'
<1> DEFINE i == Item(b)
<1>1. i \in Intents
  BY ItemType DEF TypeInv, CallProvider, Busy
<1>2. /\ DOMAIN pc = Batches /\ w \in [Batches -> WriteSet]
      /\ pc[b] = "provider" /\ UNCHANGED <<resv, todo, policy>>
      /\ pc' = [pc EXCEPT ![b] = "record"]
  BY DEF CallProvider, TypeInv, TypeOK, db
<1>3. PICK outcome \in Outcomes, contact \in {NoRow, "sent", "outcome_uncertain"} :
        w' = [w EXCEPT
                ![b].resv[i].status = SettledAs(outcome),
                ![b].sent[i] = Append(@, outcome),
                ![b].outreach[i] =
                   IF contact = NoRow THEN @
                   ELSE [batch |-> b, intent |-> i, status |-> contact, at |-> now]]
  BY DEF CallProvider, Outcomes
<1>4. Active(w[b].resv[i])
  BY <1>2 DEF LockInv, AttemptsHeld
<1>5. w[b].resv[i] \in ReservationRow
  BY <1>1, <1>2, <1>4 DEF WriteSet, Active
<1> DEFINE r == [w[b].resv[i] EXCEPT !.status = SettledAs(outcome)]
<1>6. r \in ReservationRow /\ r.policy = w[b].resv[i].policy
  BY <1>5 DEF ReservationRow, SettledAs, Outcomes, ActiveStatuses, RetryableStatuses
<1>7. /\ \A c \in Batches \ {b} : w'[c] = w[c]
      /\ w'[b].gates = w[b].gates
      /\ w'[b].resv = [w[b].resv EXCEPT ![i] = r]
  BY <1>1, <1>2, <1>3 DEF WriteSet
<1> HIDE DEF i, r
<1>8. ApartFromAll(b, i, r)
  BY <1>1, <1>4, <1>6, OwnRowApart
<1>9. QED
  BY <1>2, <1>6, <1>7, <1>8, LockSend DEF InSend, i

(* A transaction that ends holds nothing more.                             *)
LEMMA EndedWroteNothing ==
    ASSUME NEW b \in Batches, w'[b] = EmptyWriteSet
    PROVE  /\ \A i \in Intents : ~Wrote(b, i)' /\ ~Active(w'[b].resv[i])
           /\ w'[b].gates = {}
BY DEF EmptyWriteSet, Wrote, Active

(* The written rows become the committed ones; the rows of the other open  *)
(* transactions are apart from them, as they were while uncommitted.       *)
LEMMA LockCommit ==
    ASSUME TypeInv, LockInv, NEW b \in Batches, Commit(b)
    PROVE  LockInv'
<1>1. /\ w'[b] = EmptyWriteSet /\ pc'[b] = "done"
      /\ \A c \in Batches \ {b} : w'[c] = w[c] /\ pc'[c] = pc[c]
      /\ todo' = todo /\ policy' = policy
  BY DEF Commit, TypeInv, TypeOK, local
<1>2. \A i \in Intents : resv'[i] = IF Wrote(b, i) THEN w[b].resv[i] ELSE resv[i]
  BY DEF Commit, Resv, Wrote
<1>3. /\ \A i \in Intents : ~Wrote(b, i)' /\ ~Active(w'[b].resv[i])
      /\ w'[b].gates = {}
  BY <1>1, EndedWroteNothing
<1>4. \A c \in Batches \ {b}, i \in Intents : Wrote(c, i)' <=> Wrote(c, i)
  BY <1>1 DEF Wrote
<1>5. GatesHeld'
  <2>1. \A c, d \in Batches : c # d => w'[c].gates \cap w'[d].gates = {}
    BY <1>1, <1>3 DEF LockInv, GatesHeld
  <2>2. \A c \in Batches, i \in Intents : Wrote(c, i)' => i \in w'[c].gates
    BY <1>1, <1>3, <1>4 DEF LockInv, GatesHeld
  <2>3. \A c \in Batches : pc'[c] \in {"reserve", "insert", "flush", "provider"}
                             => Item(c)' \in w'[c].gates
    BY <1>1 DEF LockInv, GatesHeld, Item
  <2>4. QED
    BY <2>1, <2>2, <2>3 DEF GatesHeld
<1>6. AttemptsHeld'
  <2>1. ASSUME NEW c \in Batches \ {b}, pc[c] = "flush"
        PROVE  Resv(c, Item(c))' = Resv(c, Item(c))
    <3>1. Item(c) \in w[c].gates /\ Item(c) \in Intents
      BY <2>1, ItemType DEF LockInv, GatesHeld, TypeInv, Busy
    <3>2. ~Wrote(b, Item(c))
      BY <3>1 DEF LockInv, GatesHeld
    <3>3. resv'[Item(c)] = resv[Item(c)]
      BY <1>2, <3>1, <3>2
    <3>4. QED
      BY <1>1, <3>3 DEF Resv, Item
  <2>2. \A c \in Batches : Item(c)' = Item(c) /\ policy'[c] = policy[c]
    BY <1>1 DEF Item
  <2>3. ASSUME NEW c \in Batches
        PROVE  /\ pc'[c] = "flush" =>
                    /\ Resv(c, Item(c))'.policy = policy'[c]
                    /\ Resv(c, Item(c))'.status \in ActiveStatuses \cup RetryableStatuses
               /\ pc'[c] = "provider" => Active(w'[c].resv[Item(c)])
    <3>1. CASE c = b
      BY <1>1, <3>1
    <3>2. CASE c # b
      BY <1>1, <2>1, <2>2, <3>2 DEF LockInv, AttemptsHeld
    <3>3. QED
      BY <3>1, <3>2
  <2>4. QED
    BY <2>2, <2>3 DEF AttemptsHeld, Active
<1>7. ApartAcross'
  BY <1>1, <1>3, <1>4 DEF LockInv, ApartAcross, Apart
<1>8. ApartFromCommitted'
  <2> SUFFICES ASSUME NEW c \in Batches, NEW i \in Intents, NEW j \in Intents,
                      i # j, Wrote(c, i)', ~Wrote(c, j)', Active(resv'[j])
               PROVE  Apart(i, w'[c].resv[i], j, resv'[j])
    BY DEF ApartFromCommitted, Apart, Active
  <2>1. c # b /\ Wrote(c, i) /\ ~Wrote(c, j)
    BY <1>3, <1>4
  <2>2. CASE Wrote(b, j)
    BY <1>1, <1>2, <2>1, <2>2 DEF LockInv, ApartAcross
  <2>3. CASE ~Wrote(b, j)
    BY <1>1, <1>2, <2>1, <2>3 DEF LockInv, ApartFromCommitted
  <2>4. QED
    BY <2>2, <2>3
<1>9. ApartWithin'
  BY <1>1, <1>3 DEF LockInv, ApartWithin, Apart, Active
<1>10. ReservationsExclusive'
  <2> SUFFICES ASSUME NEW i \in Intents, NEW j \in Intents,
                      i # j, Active(resv'[i]), Active(resv'[j])
               PROVE  Apart(i, resv'[i], j, resv'[j])
    BY DEF ReservationsExclusive, Apart, Active
  <2>1. CASE Wrote(b, i) /\ Wrote(b, j)
    BY <1>2, <2>1 DEF LockInv, ApartWithin
  <2>2. CASE Wrote(b, i) /\ ~Wrote(b, j)
    BY <1>2, <2>2 DEF LockInv, ApartFromCommitted
  <2>3. CASE ~Wrote(b, i) /\ Wrote(b, j)
    BY <1>2, <2>3, ApartSymmetric DEF LockInv, ApartFromCommitted
  <2>4. CASE ~Wrote(b, i) /\ ~Wrote(b, j)
    BY <1>2, <2>4 DEF LockInv, ReservationsExclusive, Apart
  <2>5. QED
    BY <2>1, <2>2, <2>3, <2>4
<1>11. QED
  BY <1>5, <1>6, <1>7, <1>8, <1>9, <1>10 DEF LockInv

(* A transaction that ends without a commit leaves the committed rows.     *)
LEMMA LockRollBack ==
    ASSUME TypeInv, LockInv, NEW b \in Batches, RollBack(b),
           UNCHANGED <<resv, policy>>
    PROVE  LockInv'
<1>1. /\ w'[b] = EmptyWriteSet /\ pc'[b] = "done"
      /\ \A c \in Batches \ {b} : w'[c] = w[c] /\ pc'[c] = pc[c] /\ todo'[c] = todo[c]
  BY DEF RollBack, TypeInv, TypeOK
<1>2. /\ \A i \in Intents : ~Wrote(b, i)' /\ ~Active(w'[b].resv[i])
      /\ w'[b].gates = {}
  BY <1>1, EndedWroteNothing
<1>3. \A c \in Batches \ {b}, i \in Intents : Wrote(c, i)' <=> Wrote(c, i)
  BY <1>1 DEF Wrote
<1>4. GatesHeld'
  <2>1. \A c, d \in Batches : c # d => w'[c].gates \cap w'[d].gates = {}
    BY <1>1, <1>2 DEF LockInv, GatesHeld
  <2>2. \A c \in Batches, i \in Intents : Wrote(c, i)' => i \in w'[c].gates
    BY <1>1, <1>2, <1>3 DEF LockInv, GatesHeld
  <2>3. \A c \in Batches : pc'[c] \in {"reserve", "insert", "flush", "provider"}
                             => Item(c)' \in w'[c].gates
    BY <1>1 DEF LockInv, GatesHeld, Item
  <2>4. QED
    BY <2>1, <2>2, <2>3 DEF GatesHeld
<1>5. AttemptsHeld'
  <2>1. ASSUME NEW c \in Batches
        PROVE  /\ pc'[c] = "flush" =>
                    /\ Resv(c, Item(c))'.policy = policy'[c]
                    /\ Resv(c, Item(c))'.status \in ActiveStatuses \cup RetryableStatuses
               /\ pc'[c] = "provider" => Active(w'[c].resv[Item(c)'])
    <3>1. CASE c = b
      BY <1>1, <3>1
    <3>2. CASE c # b
      <4>1. /\ Item(c)' = Item(c) /\ policy'[c] = policy[c] /\ w'[c] = w[c]
            /\ Resv(c, Item(c))' = Resv(c, Item(c)) /\ pc'[c] = pc[c]
        BY <1>1, <3>2 DEF Item, Resv
      <4>2. QED
        BY <4>1 DEF LockInv, AttemptsHeld
    <3>3. QED
      BY <3>1, <3>2
  <2>2. QED
    BY <2>1 DEF AttemptsHeld, Active
<1>6. ApartAcross' /\ ApartFromCommitted'
  BY <1>1, <1>2, <1>3 DEF LockInv, ApartAcross, ApartFromCommitted, Apart
<1>7. ApartWithin' /\ ReservationsExclusive'
  BY <1>1, <1>2 DEF LockInv, ApartWithin, ReservationsExclusive, Apart, Active
<1>8. QED
  BY <1>4, <1>5, <1>6, <1>7 DEF LockInv

(* Every step keeps the locks and the rows apart.                          *)
LEMMA LockNext == TypeInv /\ LockInv /\ [Next]_vars => LockInv'
<1> SUFFICES ASSUME TypeInv, LockInv, [Next]_vars PROVE LockInv'
  OBVIOUS
<1>1. ASSUME NEW b \in Batches, BatchStep(b) PROVE LockInv'
  <2>1. CASE LoadItem(b) \/ RefuseItem(b) \/ Evaluate(b) \/ RecordStatus(b)
    BY <2>1, LockQuiet
  <2>2. CASE ReuseViolation(b) \/ DeadlockVictim(b)
    BY <2>2, LockRollBack DEF ReuseViolation, DeadlockVictim, db
  <2>3. QED
    BY <1>1, <2>1, <2>2, LockWriteGateResult, LockReserve, LockInsertReservation,
       LockFlushAttempt, LockCallProvider, LockCommit DEF BatchStep
<1>2. ASSUME NEW b \in Batches, Start(b) \/ Crash(b) \/ BusyTimeout(b) PROVE LockInv'
  BY <1>2, LockQuiet, LockRollBack DEF Crash, BusyTimeout, db
<1>3. CASE Resolve \/ (\E i \in Intents : QueueDraft(i)) \/ PromotePolicy \/ Tick
  BY <1>3, LockElsewhere DEF Resolve, QueueDraft, PromotePolicy, Tick, db, local
<1>4. CASE UNCHANGED vars
  BY <1>4, LockElsewhere DEF vars
<1>5. QED
  BY <1>1, <1>2, <1>3, <1>4 DEF Next

(* Committed reservations that the policy makes exclusive are exclusive,   *)
(* on both databases, for any number of intents, batches and policies.     *)
THEOREM ReservationsStayExclusive == Spec => []ReservationsExclusive
<1>1. LockInv => ReservationsExclusive
  BY DEF LockInv
<1>2. QED
  BY <1>1, TypeInit, TypeNext, LockInit, LockNext, PTL DEF Spec

-----------------------------------------------------------------------------
(* The committed tables agree.                                            *)

(* What a step of one batch leaves alone of another one.                   *)
Untouched(c) == /\ w'[c] = w[c] /\ pc'[c] = pc[c]
                /\ todo'[c] = todo[c] /\ policy'[c] = policy[c]
                /\ verdict'[c] = verdict[c]

(* A step of a batch leaves the others where they are.                     *)
LEMMA OthersUntouched ==
    ASSUME TypeInv, NEW b \in Batches,
           Start(b) \/ BatchStep(b) \/ Crash(b) \/ BusyTimeout(b)
    PROVE  \A c \in Batches \ {b} : Untouched(c)
<1> USE DEF Untouched, TypeInv, TypeOK
<1>1. CASE Start(b) \/ LoadItem(b) \/ RefuseItem(b) \/ Evaluate(b) \/ Reserve(b)
  BY <1>1 DEF Start, LoadItem, RefuseItem, Evaluate, Reserve, SkipItem
<1>2. CASE WriteGateResult(b) \/ InsertReservation(b) \/ FlushAttempt(b)
           \/ RecordStatus(b) \/ Commit(b)
  BY <1>2 DEF WriteGateResult, InsertReservation, FlushAttempt, RecordStatus, Commit,
              SkipItem, local
<1>3. CASE CallProvider(b)
  BY <1>3 DEF CallProvider
<1>4. CASE ReuseViolation(b) \/ DeadlockVictim(b) \/ Crash(b) \/ BusyTimeout(b)
  BY <1>4 DEF ReuseViolation, DeadlockVictim, Crash, BusyTimeout, RollBack
<1>5. QED
  BY <1>1, <1>2, <1>3, <1>4 DEF BatchStep

(* What a provider call that ends so writes.                               *)
CallMade(b, outcome, delivered, contact) ==
    LET i == Item(b)
    IN  /\ calls' = Append(calls, [batch |-> b, intent |-> i, policy |-> policy[b],
                                   outcome |-> outcome, delivered |-> delivered,
                                   at |-> now])
        /\ w'[b].resv = [w[b].resv EXCEPT
                           ![i] = [w[b].resv[i] EXCEPT !.status = SettledAs(outcome)]]
        /\ w'[b].sent = [w[b].sent EXCEPT ![i] = Append(w[b].sent[i], outcome)]
        /\ w'[b].outreach =
              IF contact = NoRow THEN w[b].outreach
              ELSE [w[b].outreach EXCEPT
                      ![i] = [batch |-> b, intent |-> i, status |-> contact, at |-> now]]
        /\ w'[b].gates = w[b].gates /\ w'[b].open = w[b].open

(* A provider call ends in one of its outcomes; one that may have reached  *)
(* the recipient leaves a contact record.                                  *)
LEMMA CallEffect ==
    ASSUME TypeInv, NEW b \in Batches, CallProvider(b)
    PROVE  \E outcome \in Outcomes, delivered \in BOOLEAN,
              contact \in {NoRow, "sent", "outcome_uncertain"} :
                 /\ CallMade(b, outcome, delivered, contact)
                 /\ delivered \/ outcome = "send_failed_uncertain"
                       => contact \in ContactedStatuses
                 /\ outcome = "provider_rejected_known_unsent" <=> contact = NoRow
<1> DEFINE i == Item(b)
<1>1. i \in Intents
  BY ItemType DEF TypeInv, CallProvider, Busy
<1>2. PICK outcome \in Outcomes, delivered \in BOOLEAN,
           contact \in {NoRow, "sent", "outcome_uncertain"} :
        /\ calls' = Append(calls, [batch |-> b, intent |-> i, policy |-> policy[b],
                                   outcome |-> outcome, delivered |-> delivered,
                                   at |-> now])
        /\ w' = [w EXCEPT
                   ![b].resv[i].status = SettledAs(outcome),
                   ![b].sent[i] = Append(@, outcome),
                   ![b].outreach[i] =
                      IF contact = NoRow THEN @
                      ELSE [batch |-> b, intent |-> i, status |-> contact, at |-> now]]
        /\ delivered \/ outcome = "send_failed_uncertain" => contact \in ContactedStatuses
        /\ outcome = "provider_rejected_known_unsent" <=> contact = NoRow
  BY NoRowAssumption DEF CallProvider, Outcomes, ContactedStatuses, OutreachStatuses
<1>3. w \in [Batches -> WriteSet]
  BY DEF TypeInv, TypeOK
<1> HIDE DEF i
<1> DEFINE made == [batch |-> b, intent |-> i, status |-> contact, at |-> now]
<1>4. /\ w'[b].resv = [w[b].resv EXCEPT
                         ![i] = [w[b].resv[i] EXCEPT !.status = SettledAs(outcome)]]
      /\ w'[b].sent = [w[b].sent EXCEPT ![i] = Append(w[b].sent[i], outcome)]
      /\ w'[b].gates = w[b].gates /\ w'[b].open = w[b].open
      /\ w'[b].outreach = [w[b].outreach EXCEPT
                              ![i] = IF contact = NoRow THEN w[b].outreach[i] ELSE made]
  BY <1>1, <1>2, <1>3 DEF WriteSet
<1>5. w[b].outreach = [w[b].outreach EXCEPT ![i] = w[b].outreach[i]]
  BY <1>3 DEF WriteSet
<1>6. CallMade(b, outcome, delivered, contact)
  BY <1>2, <1>4, <1>5 DEF CallMade, i
<1>7. QED
  BY <1>2, <1>6

(* A reservation that a batch writes before the provider is called.        *)
PreparedRow(b, r) ==
    /\ w'[b] = [w[b] EXCEPT !.resv = [w[b].resv EXCEPT ![Item(b)] = r]]
    /\ pc'[b] \in {"flush", "provider"} /\ r.status \in ActiveStatuses

(* Inserting a reservation, and flushing the attempt, write one row.       *)
LEMMA PrepareEffect ==
    ASSUME TypeInv, NEW b \in Batches, InsertReservation(b) \/ FlushAttempt(b)
    PROVE  \/ pc'[b] = "record" /\ w'[b] = w[b] /\ InsertReservation(b)
           \/ \E r \in ReservationRow : PreparedRow(b, r)
<1>1. Item(b) \in Intents
  BY ItemType DEF TypeInv, InsertReservation, FlushAttempt, Busy
<1>2. w \in [Batches -> WriteSet] /\ DOMAIN pc = Batches /\ policy[b] \in Policies
  BY DEF TypeInv, TypeOK
<1>3. CASE InsertReservation(b)
  <2> DEFINE r == [status |-> "reserved", policy |-> policy[b]]
  <2>1. CASE w' = w /\ SkipItem(b, "blocked")
    BY <1>2, <1>3, <2>1 DEF SkipItem
  <2>2. CASE /\ w' = [w EXCEPT ![b].resv[Item(b)] = r]
             /\ pc' = [pc EXCEPT ![b] = "flush"]
    <3>1. r \in ReservationRow /\ r.status \in ActiveStatuses
      BY <1>2 DEF ReservationRow, ActiveStatuses
    <3> HIDE DEF r
    <3>2. PreparedRow(b, r)
      BY <1>2, <2>2, <3>1 DEF PreparedRow
    <3>3. QED
      BY <3>1, <3>2
  <2>3. QED
    BY <1>3, <2>1, <2>2 DEF InsertReservation
<1>4. CASE FlushAttempt(b)
  <2> DEFINE r == [Resv(b, Item(b)) EXCEPT !.status = "attempting_provider_send"]
  <2>1. Resv(b, Item(b)) \in ReservationRow
    BY <1>1, <1>4, ResvType DEF TypeInv, FlushAttempt
  <2>2. r \in ReservationRow /\ r.status \in ActiveStatuses
    BY <2>1 DEF ReservationRow, ActiveStatuses
  <2>3. w' = [w EXCEPT ![b].resv[Item(b)] = r] /\ pc' = [pc EXCEPT ![b] = "provider"]
    BY <1>4 DEF FlushAttempt
  <2> HIDE DEF r
  <2>4. PreparedRow(b, r)
    BY <1>2, <2>2, <2>3 DEF PreparedRow
  <2>5. QED
    BY <2>2, <2>4
<1>5. QED
  BY <1>3, <1>4

-----------------------------------------------------------------------------
(* The messages of an intent, and its reservation, tell the same outcome.  *)
Agree(s, row) ==
    IF s = <<>> THEN row = NoRow
    ELSE row # NoRow /\ row.status = SettledAs(s[Len(s)])

(* Batch b is between the reservation of intent i and its outcome.         *)
InAttempt(b, i) == pc[b] \in {"flush", "provider"} /\ i = Item(b)

(* That agreement made inductive: what a transaction has written agrees    *)
(* too, but for the item it is about to send.                              *)
LedgerInv ==
    /\ \A i \in Intents : Agree(sent[i], resv[i])
    /\ \A b \in Batches, i \in Intents :
          ~InAttempt(b, i) => Agree(w[b].sent[i], w[b].resv[i])

(* Nothing has been sent and nothing is reserved.                          *)
LEMMA LedgerInit == Init => LedgerInv
BY DEF Init, LedgerInv, Agree, EmptyWriteSet

(* A step that writes no committed table, and touches the rows of an       *)
(* intent only inside its attempt or to make them agree.                   *)
LEMMA LedgerFrame ==
    ASSUME LedgerInv, UNCHANGED <<resv, sent>>,
           \A b \in Batches, i \in Intents :
              \/ InAttempt(b, i)'
              \/ /\ ~InAttempt(b, i)
                 /\ w'[b].sent[i] = w[b].sent[i] /\ w'[b].resv[i] = w[b].resv[i]
              \/ Agree(w'[b].sent[i], w'[b].resv[i])
    PROVE  LedgerInv'
BY DEF LedgerInv, Agree

(* Another batch's step leaves a batch's rows and attempt alone.           *)
LEMMA UntouchedLedger ==
    ASSUME NEW c \in Batches, Untouched(c)
    PROVE  \A i \in Intents :
              /\ InAttempt(c, i)' <=> InAttempt(c, i)
              /\ w'[c].sent[i] = w[c].sent[i] /\ w'[c].resv[i] = w[c].resv[i]
BY DEF Untouched, InAttempt, Item

(* The steps of an item outside its attempt.                               *)
LEMMA LedgerQuiet ==
    ASSUME TypeInv, LedgerInv, NEW b \in Batches,
           Start(b) \/ LoadItem(b) \/ RefuseItem(b) \/ Evaluate(b)
              \/ WriteGateResult(b) \/ Reserve(b) \/ RecordStatus(b)
    PROVE  LedgerInv'
<1>1. \A c \in Batches \ {b} : Untouched(c)
  BY OthersUntouched DEF BatchStep
<1>2. w \in [Batches -> WriteSet] /\ DOMAIN pc = Batches
  BY DEF TypeInv, TypeOK
<1>3. w'[b].resv = w[b].resv /\ w'[b].sent = w[b].sent
  <2>1. CASE Start(b) \/ RefuseItem(b) \/ Evaluate(b) \/ Reserve(b)
    BY <2>1 DEF Start, RefuseItem, Evaluate, Reserve
  <2>2. CASE LoadItem(b)
    BY <1>2, <2>2 DEF LoadItem, WriteSet
  <2>3. CASE WriteGateResult(b)
    BY <1>2, <2>3 DEF WriteGateResult, WriteSet
  <2>4. CASE RecordStatus(b)
    BY <1>2, <2>4 DEF RecordStatus, WriteSet
  <2>5. QED
    BY <2>1, <2>2, <2>3, <2>4
<1>4. UNCHANGED <<resv, sent>> /\ pc[b] \notin {"flush", "provider"}
  BY DEF Start, LoadItem, RefuseItem, Evaluate, WriteGateResult, Reserve, RecordStatus, db
<1>5. \A i \in Intents : ~InAttempt(b, i)
  BY <1>4 DEF InAttempt
<1>6. QED
  BY <1>1, <1>3, <1>4, <1>5, LedgerFrame, UntouchedLedger

(* A reservation is written inside the attempt it is for.                  *)
LEMMA LedgerPrepare ==
    ASSUME TypeInv, LedgerInv, NEW b \in Batches, InsertReservation(b) \/ FlushAttempt(b)
    PROVE  LedgerInv'
<1>1. \A c \in Batches \ {b} : Untouched(c)
  BY OthersUntouched DEF BatchStep
<1>2. UNCHANGED <<resv, sent, todo>> /\ w[b] \in WriteSet
  BY DEF InsertReservation, FlushAttempt, db, local, TypeInv, TypeOK
<1>3. CASE InsertReservation(b) /\ w'[b] = w[b]
  <2>1. \A i \in Intents : ~InAttempt(b, i)
    BY <1>3 DEF InsertReservation, InAttempt
  <2>2. QED
    BY <1>1, <1>2, <1>3, <2>1, LedgerFrame, UntouchedLedger
<1>4. ASSUME NEW r \in ReservationRow, PreparedRow(b, r)
      PROVE  LedgerInv'
  <2>1. pc'[b] \in {"flush", "provider"} /\ Item(b)' = Item(b)
    BY <1>2, <1>4 DEF PreparedRow, Item
  <2>2. pc[b] \in {"insert", "flush"}
    BY DEF InsertReservation, FlushAttempt
  <2>3. \A i \in Intents : i # Item(b) => /\ w'[b].sent[i] = w[b].sent[i]
                                          /\ w'[b].resv[i] = w[b].resv[i]
    BY <1>2, <1>4 DEF PreparedRow, WriteSet
  <2>4. \A i \in Intents : i = Item(b) => InAttempt(b, i)'
    BY <2>1 DEF InAttempt
  <2>5. \A i \in Intents : i # Item(b) => ~InAttempt(b, i)
    BY DEF InAttempt
  <2>6. QED
    BY <1>1, <1>2, <2>3, <2>4, <2>5, LedgerFrame, UntouchedLedger
<1>5. QED
  BY <1>3, <1>4, PrepareEffect

(* An outcome added to the messages agrees with its settlement.            *)
LEMMA AgreeAppend ==
    ASSUME NEW s \in Seq(Outcomes), NEW outcome \in Outcomes, NEW row,
           row # NoRow, row.status = SettledAs(outcome)
    PROVE  Agree(Append(s, outcome), row)
<1>1. Append(s, outcome) # <<>> /\ Len(Append(s, outcome)) = Len(s) + 1
  OBVIOUS
<1>2. Append(s, outcome)[Len(s) + 1] = outcome
  OBVIOUS
<1>3. QED
  BY <1>1, <1>2 DEF Agree

(* The answer of the provider is written to both.                          *)
LEMMA LedgerCallProvider ==
    ASSUME TypeInv, LedgerInv, NEW b \in Batches, CallProvider(b)
    PROVE  LedgerInv'
<1> DEFINE i == Item(b)
<1>1. \A c \in Batches \ {b} : Untouched(c)
  BY OthersUntouched DEF BatchStep
<1>2. /\ UNCHANGED <<resv, sent>> /\ w[b] \in WriteSet
      /\ i \in Intents /\ pc[b] = "provider" /\ w[b].resv[i] # NoRow
  BY ItemType DEF CallProvider, db, TypeInv, TypeOK, Busy
<1>3. PICK outcome \in Outcomes, delivered \in BOOLEAN,
           contact \in {NoRow, "sent", "outcome_uncertain"} :
              CallMade(b, outcome, delivered, contact)
  BY CallEffect
<1>4. w[b].resv[i] \in ReservationRow
  BY <1>2 DEF WriteSet
<1> DEFINE row == [w[b].resv[i] EXCEPT !.status = SettledAs(outcome)]
<1>5. row \in ReservationRow /\ row.status = SettledAs(outcome)
  BY <1>4 DEF ReservationRow, SettledAs, Outcomes, ActiveStatuses, RetryableStatuses
<1>6. /\ w'[b].resv = [w[b].resv EXCEPT ![i] = row]
      /\ w'[b].sent = [w[b].sent EXCEPT ![i] = Append(w[b].sent[i], outcome)]
  BY <1>3 DEF CallMade
<1> HIDE DEF row, i
<1>7. w[b].sent[i] \in Seq(Outcomes) /\ row # NoRow
  BY <1>2, <1>5, NoRowAssumption DEF WriteSet
<1>8. Agree(w'[b].sent[i], w'[b].resv[i])
  <2>1. w'[b].resv[i] = row /\ w'[b].sent[i] = Append(w[b].sent[i], outcome)
    BY <1>2, <1>6 DEF WriteSet
  <2>2. QED
    BY <1>5, <1>7, <2>1, AgreeAppend
<1>9. \A j \in Intents \ {i} : /\ ~InAttempt(b, j)
                               /\ w'[b].sent[j] = w[b].sent[j]
                               /\ w'[b].resv[j] = w[b].resv[j]
  BY <1>2, <1>6 DEF InAttempt, i, WriteSet
<1>10. QED
  BY <1>1, <1>2, <1>8, <1>9, LedgerFrame, UntouchedLedger

(* A commit carries an agreement to the tables, or leaves the one there.   *)
LEMMA LedgerCommit ==
    ASSUME TypeInv, LedgerInv, NEW b \in Batches, Commit(b)
    PROVE  LedgerInv'
<1>1. \A c \in Batches \ {b} : Untouched(c)
  BY OthersUntouched DEF BatchStep
<1>2. \A i \in Intents : Agree(w[b].sent[i], w[b].resv[i]) /\ Agree(sent[i], resv[i])
  BY DEF LedgerInv, InAttempt, Commit
<1>3. \A i \in Intents : /\ sent'[i] = sent[i] \o w[b].sent[i]
                         /\ resv'[i] = IF w[b].resv[i] # NoRow THEN w[b].resv[i]
                                       ELSE resv[i]
  BY DEF Commit, Resv
<1>4. \A i \in Intents : sent[i] \in Seq(Outcomes) /\ w[b].sent[i] \in Seq(Outcomes)
  BY DEF TypeInv, TypeOK, WriteSet
<1>5. ASSUME NEW i \in Intents PROVE Agree(sent'[i], resv'[i])
  <2>1. CASE w[b].sent[i] = <<>>
    <3>1. sent[i] \o <<>> = sent[i]
      BY <1>4, ConcatEmptySeq
    <3>2. sent'[i] = sent[i] /\ resv'[i] = resv[i]
      BY <1>2, <1>3, <2>1, <3>1 DEF Agree
    <3>3. QED
      BY <1>2, <3>2
  <2>2. CASE w[b].sent[i] # <<>>
    <3> DEFINE s == sent[i]  t == w[b].sent[i]
    <3>1. s \in Seq(Outcomes) /\ t \in Seq(Outcomes) /\ t # <<>>
      BY <1>4, <2>2
    <3> HIDE DEF s, t
    <3>2. s \o t # <<>> /\ (s \o t)[Len(s \o t)] = t[Len(t)]
      BY <3>1
    <3>3. sent'[i] = s \o t /\ resv'[i] = w[b].resv[i] /\ Agree(t, w[b].resv[i])
      BY <1>2, <1>3, <2>2 DEF Agree, s, t
    <3>4. QED
      BY <3>1, <3>2, <3>3 DEF Agree
  <2>3. QED
    BY <2>1, <2>2
<1>6. \A i \in Intents : Agree(w'[b].sent[i], w'[b].resv[i])
  BY DEF Commit, TypeInv, TypeOK, EmptyWriteSet, Agree
<1>7. ASSUME NEW c \in Batches, NEW i \in Intents, ~InAttempt(c, i)'
      PROVE  Agree(w'[c].sent[i], w'[c].resv[i])
  <2>1. CASE c = b
    BY <1>6, <2>1
  <2>2. CASE c # b
    BY <1>1, <1>7, <2>2, UntouchedLedger DEF LedgerInv
  <2>3. QED
    BY <2>1, <2>2
<1>8. QED
  BY <1>5, <1>7 DEF LedgerInv, Agree

(* A transaction that ends without a commit has written nothing.           *)
LEMMA LedgerRollBack ==
    ASSUME TypeInv, LedgerInv, NEW b \in Batches, UNCHANGED db,
           ReuseViolation(b) \/ DeadlockVictim(b) \/ Crash(b) \/ BusyTimeout(b)
    PROVE  LedgerInv'
<1>1. \A c \in Batches \ {b} : Untouched(c)
  BY OthersUntouched DEF BatchStep
<1>2. w'[b] = EmptyWriteSet /\ UNCHANGED <<resv, sent>>
  BY DEF ReuseViolation, DeadlockVictim, Crash, BusyTimeout, RollBack, TypeInv, TypeOK, db
<1>3. \A i \in Intents : Agree(w'[b].sent[i], w'[b].resv[i])
  BY <1>2 DEF EmptyWriteSet, Agree
<1>4. QED
  BY <1>1, <1>2, <1>3, LedgerFrame, UntouchedLedger

(* Every step keeps the two in agreement.                                  *)
LEMMA LedgerNext == TypeInv /\ LedgerInv /\ [Next]_vars => LedgerInv'
<1> SUFFICES ASSUME TypeInv, LedgerInv, [Next]_vars PROVE LedgerInv'
  OBVIOUS
<1>1. ASSUME NEW b \in Batches, Start(b) \/ BatchStep(b) \/ Crash(b) \/ BusyTimeout(b)
      PROVE  LedgerInv'
  <2>1. CASE ReuseViolation(b) \/ DeadlockVictim(b) \/ Crash(b) \/ BusyTimeout(b)
    BY <2>1, LedgerRollBack DEF ReuseViolation, DeadlockVictim, Crash, BusyTimeout
  <2>2. QED
    BY <1>1, <2>1, LedgerQuiet, LedgerPrepare, LedgerCallProvider, LedgerCommit
       DEF BatchStep
<1>2. ASSUME UNCHANGED <<resv, sent, pc, todo, w>> PROVE LedgerInv'
  BY <1>2, LedgerFrame DEF InAttempt, Item
<1>3. CASE Resolve \/ (\E i \in Intents : QueueDraft(i)) \/ PromotePolicy \/ Tick
  BY <1>2, <1>3 DEF Resolve, QueueDraft, PromotePolicy, Tick, db, local
<1>4. CASE UNCHANGED vars
  BY <1>2, <1>4 DEF vars
<1>5. QED
  BY <1>1, <1>3, <1>4 DEF Next

-----------------------------------------------------------------------------
(* Why an accepted message is not sent again: its reservation is released, *)
(* in the table or in the transaction that made the call, and a released   *)
(* reservation is neither reused nor written over.                         *)
Released(row) == row # NoRow /\ row.status = "released"

Closed(i) == Released(resv[i]) \/ \E b \in Batches : Released(w[b].resv[i])

AcceptedClosed ==
    \A k \in DOMAIN calls :
        calls[k].outcome = "provider_accepted"
            => calls[k].intent \in lost \/ Closed(calls[k].intent)

AttemptsOpen ==
    \A b \in Batches : pc[b] \in {"flush", "provider"} => ~Closed(Item(b))

ReleasedIsKept ==
    \A b \in Batches, i \in Intents : Wrote(b, i) => ~Released(resv[i])

TerminalInv ==
    /\ AcceptedIsTerminal
    /\ AcceptedClosed
    /\ AttemptsOpen
    /\ ReleasedIsKept

(* No call has been made.                                                  *)
LEMMA TerminalInit == Init => TerminalInv
BY DEF Init, TerminalInv, AcceptedIsTerminal, AcceptedClosed, AttemptsOpen,
       ReleasedIsKept, Released, Closed, EmptyWriteSet, Wrote

(* Every call is for an intent.                                            *)
LEMMA CallIntents ==
    ASSUME calls \in Seq(Call)
    PROVE  \A k \in DOMAIN calls : calls[k] \in Call /\ calls[k].intent \in Intents
<1>1. \A k \in DOMAIN calls : calls[k] \in Call
  OBVIOUS
<1>2. QED
  BY <1>1 DEF Call

(* Without a new call, what is closed must stay so, or be lost.            *)
LEMMA CallsFrame ==
    ASSUME TypeInv, TerminalInv, calls' = calls, lost \subseteq lost',
           \A i \in Intents : Closed(i) => Closed(i)' \/ i \in lost'
    PROVE  AcceptedIsTerminal' /\ AcceptedClosed'
<1>1. \A k \in DOMAIN calls : calls[k].intent \in Intents
  BY CallIntents DEF TypeInv, TypeOK
<1>2. QED
  BY <1>1 DEF TerminalInv, AcceptedIsTerminal, AcceptedClosed

(* A step that writes no reservation closes nothing and opens nothing.     *)
LEMMA ClosedFrame ==
    ASSUME resv' = resv, \A c \in Batches : w'[c].resv = w[c].resv
    PROVE  /\ \A i : Closed(i)' <=> Closed(i)
           /\ \A c \in Batches, i \in Intents : Wrote(c, i)' <=> Wrote(c, i)
BY DEF Closed, Wrote

(* A step that writes no reservation and brings no batch into an attempt   *)
(* on a closed intent.                                                     *)
LEMMA TerminalFrame ==
    ASSUME TypeInv, TerminalInv, UNCHANGED <<calls, lost, resv>>,
           \A c \in Batches : w'[c].resv = w[c].resv,
           \A c \in Batches :
              \/ pc'[c] \notin {"flush", "provider"}
              \/ pc'[c] = pc[c] /\ Item(c)' = Item(c)
              \/ ~Closed(Item(c)')
    PROVE  TerminalInv'
<1>1. /\ \A i : Closed(i)' <=> Closed(i)
      /\ \A c \in Batches, i \in Intents : Wrote(c, i)' <=> Wrote(c, i)
  BY ClosedFrame
<1>2. AcceptedIsTerminal' /\ AcceptedClosed'
  BY <1>1, CallsFrame
<1>3. AttemptsOpen'
  <2> SUFFICES ASSUME NEW c \in Batches, pc'[c] \in {"flush", "provider"}
               PROVE  ~Closed(Item(c)')
    BY <1>1 DEF AttemptsOpen, Closed
  <2>1. QED
    BY DEF TerminalInv, AttemptsOpen
<1>4. ReleasedIsKept'
  BY <1>1 DEF TerminalInv, ReleasedIsKept
<1>5. QED
  BY <1>2, <1>3, <1>4 DEF TerminalInv

(* The batch that holds an intent's gate row decides whether it is closed: *)
(* when the row the batch sees is not released, the intent is not closed.  *)
LEMMA SeenOpen ==
    ASSUME LockInv, TerminalInv, NEW b \in Batches, NEW i \in Intents,
           i \in w[b].gates, ~Released(Resv(b, i))
    PROVE  ~Closed(i)
<1>1. \A c \in Batches \ {b} : ~Wrote(c, i)
  BY DEF LockInv, GatesHeld
<1>2. CASE Wrote(b, i)
  BY <1>1, <1>2 DEF Closed, Released, Wrote, Resv, TerminalInv, ReleasedIsKept
<1>3. CASE ~Wrote(b, i)
  BY <1>1, <1>3 DEF Closed, Released, Wrote, Resv
<1>4. QED
  BY <1>2, <1>3

(* The steps of an item outside its attempt; a reservation that is reused  *)
(* is not a released one.                                                  *)
LEMMA TerminalQuiet ==
    ASSUME TypeInv, LockInv, TerminalInv, NEW b \in Batches,
           Start(b) \/ LoadItem(b) \/ RefuseItem(b) \/ Evaluate(b)
              \/ WriteGateResult(b) \/ Reserve(b) \/ RecordStatus(b)
    PROVE  TerminalInv'
<1>1. \A c \in Batches \ {b} : Untouched(c)
  BY OthersUntouched DEF BatchStep
<1>2. w \in [Batches -> WriteSet] /\ DOMAIN pc = Batches
  BY DEF TypeInv, TypeOK
<1>3. w'[b].resv = w[b].resv
  <2>1. CASE Start(b) \/ RefuseItem(b) \/ Evaluate(b) \/ Reserve(b)
    BY <2>1 DEF Start, RefuseItem, Evaluate, Reserve
  <2>2. CASE LoadItem(b)
    BY <1>2, <2>2 DEF LoadItem, WriteSet
  <2>3. CASE WriteGateResult(b)
    BY <1>2, <2>3 DEF WriteGateResult, WriteSet
  <2>4. CASE RecordStatus(b)
    BY <1>2, <2>4 DEF RecordStatus, WriteSet
  <2>5. QED
    BY <2>1, <2>2, <2>3, <2>4
<1>4. UNCHANGED <<calls, lost, resv>>
  BY DEF Start, LoadItem, RefuseItem, Evaluate, WriteGateResult, Reserve, RecordStatus, db
<1>5. \A c \in Batches \ {b} : Item(c)' = Item(c) /\ pc'[c] = pc[c]
  BY <1>1 DEF Untouched, Item
<1>6. CASE Reserve(b) /\ pc'[b] = "flush"
  <2>1. /\ MatchingReservation(b, Item(b)) /\ Item(b)' = Item(b)
        /\ pc[b] = "reserve" /\ Item(b) \in Intents
    BY <1>2, <1>6, ItemType DEF Reserve, SkipItem, Item, TypeInv, Busy
  <2>2. Item(b) \in w[b].gates
    BY <2>1 DEF LockInv, GatesHeld
  <2>3. ~Released(Resv(b, Item(b)))
    BY <2>1 DEF MatchingReservation, Released, ActiveStatuses, RetryableStatuses
  <2>4. ~Closed(Item(b)')
    BY <2>1, <2>2, <2>3, SeenOpen
  <2>5. QED
    BY <1>1, <1>3, <1>4, <1>5, <2>4, TerminalFrame DEF Untouched
<1>7. CASE ~(Reserve(b) /\ pc'[b] = "flush")
  <2>1. pc'[b] \notin {"flush", "provider"}
    BY <1>2, <1>7 DEF Start, LoadItem, RefuseItem, Evaluate, WriteGateResult, Reserve,
                      RecordStatus, SkipItem
  <2>2. QED
    BY <1>1, <1>3, <1>4, <1>5, <2>1, TerminalFrame DEF Untouched
<1>8. QED
  BY <1>6, <1>7

(* In an attempt on an intent that is not closed, a batch writes a row.    *)
LEMMA TerminalWrite ==
    ASSUME TypeInv, LockInv, TerminalInv, NEW b \in Batches, NEW r \in ReservationRow,
           NEW i \in Intents, i = Item(b), pc[b] \in InSend, ~Closed(i),
           UNCHANGED <<resv, todo>>,
           \A c \in Batches \ {b} : Untouched(c),
           w'[b].resv = [w[b].resv EXCEPT ![i] = r],
           r.status = "released" => pc'[b] \notin {"flush", "provider"}
    PROVE  /\ \A j \in Intents \ {i} : Closed(j)' <=> Closed(j)
           /\ Closed(i)' <=> r.status = "released"
           /\ ReleasedIsKept' /\ AttemptsOpen'
<1>1. w[b].resv \in [Intents -> ReservationRow \cup {NoRow}]
  BY DEF TypeInv, TypeOK, WriteSet
<1>2. Item(b)' = i /\ i \in w[b].gates
  BY DEF Item, LockInv, GatesHeld, InSend
<1>3. \A j \in Intents : w'[b].resv[j] = IF j = i THEN r ELSE w[b].resv[j]
  BY <1>1
<1>4. r # NoRow
  BY NoRowAssumption
<1>5. \A c \in Batches \ {b} : w'[c] = w[c] /\ Item(c)' = Item(c) /\ pc'[c] = pc[c]
  BY DEF Untouched, Item
<1>6. \A j \in Intents \ {i} : Closed(j)' <=> Closed(j)
  BY <1>3, <1>5 DEF Closed
<1>7. Closed(i)' <=> r.status = "released"
  BY <1>3, <1>4, <1>5 DEF Closed, Released
<1>8. ReleasedIsKept'
  BY <1>3, <1>5 DEF TerminalInv, ReleasedIsKept, Wrote, Closed
<1>9. AttemptsOpen'
  <2> SUFFICES ASSUME NEW c \in Batches, pc'[c] \in {"flush", "provider"}
               PROVE  ~Closed(Item(c))'
    BY DEF AttemptsOpen
  <2>1. CASE c = b
    BY <1>2, <1>7, <2>1 DEF Closed
  <2>2. CASE c # b
    <3>1. PICK j \in Intents : j = Item(c)
      BY <1>5, <2>2, ItemType DEF TypeInv, Busy
    <3>2. j # i /\ Item(c)' = j /\ ~Closed(j)
      BY <1>2, <1>5, <2>2, <3>1 DEF LockInv, GatesHeld, TerminalInv, AttemptsOpen
    <3>3. ~Closed(j)'
      BY <1>6, <3>2
    <3>4. QED
      BY <3>2, <3>3 DEF Closed
  <2>3. QED
    BY <2>1, <2>2
<1>10. QED
  BY <1>6, <1>7, <1>8, <1>9

(* A reservation is only prepared for an intent that is not closed.        *)
LEMMA TerminalPrepare ==
    ASSUME TypeInv, LockInv, TerminalInv, NEW b \in Batches,
           InsertReservation(b) \/ FlushAttempt(b)
    PROVE  TerminalInv'
<1>1. \A c \in Batches \ {b} : Untouched(c)
  BY OthersUntouched DEF BatchStep
<1>2. /\ UNCHANGED <<resv, todo, calls, lost>> /\ w[b] \in WriteSet
      /\ pc[b] \in InSend
  BY DEF InsertReservation, FlushAttempt, db, local, TypeInv, TypeOK, InSend
<1>3. CASE pc'[b] = "record" /\ w'[b] = w[b]
  BY <1>1, <1>2, <1>3, TerminalFrame DEF Untouched, Item
<1>4. ASSUME NEW r \in ReservationRow, PreparedRow(b, r)
      PROVE  TerminalInv'
  <2>1. PICK i \in Intents : i = Item(b)
    BY <1>2, ItemType DEF TypeInv, InSend, Busy
  <2>2. ~Closed(i)
    <3>1. CASE FlushAttempt(b)
      BY <2>1, <3>1 DEF FlushAttempt, TerminalInv, AttemptsOpen
    <3>2. CASE InsertReservation(b)
      <4>1. pc'[b] # "record"
        BY <1>4 DEF PreparedRow
      <4>2. Resv(b, i) = NoRow /\ i \in w[b].gates
        BY <2>1, <3>2, <4>1
           DEF InsertReservation, SkipItem, TypeInv, TypeOK, LockInv, GatesHeld
      <4>3. QED
        BY <4>2, SeenOpen DEF Released
    <3>3. QED
      BY <3>1, <3>2
  <2>3. /\ w'[b].resv = [w[b].resv EXCEPT ![i] = r]
        /\ r.status # "released"
    BY <1>2, <1>4, <2>1 DEF PreparedRow, WriteSet, ActiveStatuses
  <2>4. /\ \A j \in Intents \ {i} : Closed(j)' <=> Closed(j)
        /\ ReleasedIsKept' /\ AttemptsOpen'
    BY <1>1, <1>2, <2>1, <2>2, <2>3, TerminalWrite
  <2>5. \A j \in Intents : Closed(j) => Closed(j)'
    BY <2>2, <2>4
  <2>6. QED
    BY <1>2, <2>4, <2>5, CallsFrame DEF TerminalInv
<1>5. QED
  BY <1>3, <1>4, PrepareEffect

(* The calls after one more has been made.                                 *)
LEMMA OneMoreCall ==
    ASSUME calls \in Seq(Call), NEW new, calls' = Append(calls, new)
    PROVE  /\ DOMAIN calls' = DOMAIN calls \cup {Len(calls) + 1}
           /\ \A k \in DOMAIN calls : calls'[k] = calls[k] /\ k < Len(calls) + 1
           /\ calls'[Len(calls) + 1] = new
           /\ DOMAIN calls = 1..Len(calls) /\ Len(calls) \in Nat
<1>1. Len(calls) \in Nat /\ DOMAIN calls = 1..Len(calls)
  OBVIOUS
<1>2. /\ DOMAIN Append(calls, new) = 1..Len(calls) + 1
      /\ \A k \in 1..Len(calls) : Append(calls, new)[k] = calls[k]
      /\ Append(calls, new)[Len(calls) + 1] = new
  BY <1>1
<1>3. QED
  BY <1>1, <1>2

(* A call is made for an intent that no accepted call has closed; when it  *)
(* is accepted, it closes the intent.                                      *)
LEMMA TerminalCallProvider ==
    ASSUME TypeInv, LockInv, TerminalInv, NEW b \in Batches, CallProvider(b)
    PROVE  TerminalInv'
<1>1. \A c \in Batches \ {b} : Untouched(c)
  BY OthersUntouched DEF BatchStep
<1>2. /\ UNCHANGED <<resv, todo, lost>> /\ w[b] \in WriteSet
      /\ pc[b] = "provider" /\ pc'[b] = "record" /\ w[b].resv[Item(b)] # NoRow
      /\ calls \in Seq(Call)
  BY DEF CallProvider, db, TypeInv, TypeOK
<1>3. PICK i \in Intents : i = Item(b)
  BY ItemType DEF CallProvider, TypeInv, Busy
<1>4. PICK outcome \in Outcomes, delivered \in BOOLEAN,
           contact \in {NoRow, "sent", "outcome_uncertain"} :
              CallMade(b, outcome, delivered, contact)
  BY CallEffect
<1>5. PICK row \in ReservationRow :
         /\ row.status = SettledAs(outcome)
         /\ w'[b].resv = [w[b].resv EXCEPT ![i] = row]
  <2>1. w[b].resv[i] \in ReservationRow
    BY <1>2, <1>3 DEF WriteSet
  <2> DEFINE row == [w[b].resv[i] EXCEPT !.status = SettledAs(outcome)]
  <2>2. row \in ReservationRow /\ row.status = SettledAs(outcome)
    BY <2>1 DEF ReservationRow, SettledAs, Outcomes, ActiveStatuses, RetryableStatuses
  <2>3. w'[b].resv = [w[b].resv EXCEPT ![i] = row]
    BY <1>3, <1>4 DEF CallMade
  <2>4. QED
    BY <2>2, <2>3
<1>6. PICK new : /\ calls' = Append(calls, new)
                 /\ new.intent = i /\ new.outcome = outcome
  BY <1>3, <1>4 DEF CallMade
<1>7. ~Closed(i)
  BY <1>2, <1>3 DEF TerminalInv, AttemptsOpen
<1>8. /\ \A j \in Intents \ {i} : Closed(j)' <=> Closed(j)
      /\ Closed(i)' <=> row.status = "released"
      /\ ReleasedIsKept' /\ AttemptsOpen'
  BY <1>1, <1>2, <1>3, <1>5, <1>7, TerminalWrite DEF InSend
<1>9. /\ DOMAIN calls' = DOMAIN calls \cup {Len(calls) + 1}
      /\ \A k \in DOMAIN calls : calls'[k] = calls[k] /\ k < Len(calls) + 1
      /\ calls'[Len(calls) + 1] = new
      /\ DOMAIN calls = 1..Len(calls) /\ Len(calls) \in Nat
  BY <1>2, <1>6, OneMoreCall
<1>10. \A k \in DOMAIN calls :
          calls[k].outcome = "provider_accepted" /\ calls[k].intent = i => i \in lost
  BY <1>7 DEF TerminalInv, AcceptedClosed
<1>11. AcceptedIsTerminal'
  <2> SUFFICES ASSUME NEW k \in DOMAIN calls', NEW l \in DOMAIN calls', k < l,
                      calls'[k].intent = calls'[l].intent,
                      calls'[k].outcome = "provider_accepted"
               PROVE  calls'[k].intent \in lost
    BY <1>2 DEF AcceptedIsTerminal
  <2>1. k \in DOMAIN calls
    BY <1>9
  <2>2. CASE l \in DOMAIN calls
    BY <1>9, <2>1, <2>2 DEF TerminalInv, AcceptedIsTerminal
  <2>3. CASE l = Len(calls) + 1
    BY <1>6, <1>9, <1>10, <2>1, <2>3
  <2>4. QED
    BY <1>9, <2>2, <2>3
<1>12. AcceptedClosed'
  <2> SUFFICES ASSUME NEW k \in DOMAIN calls', calls'[k].outcome = "provider_accepted"
               PROVE  calls'[k].intent \in lost \/ Closed(calls[k].intent)'
    BY <1>2 DEF AcceptedClosed
  <2>1. CASE k \in DOMAIN calls
    <3>1. PICK j \in Intents : j = calls[k].intent
      BY <1>2, <2>1, CallIntents
    <3>2. calls'[k].intent = j /\ (j \in lost \/ Closed(j))
      BY <1>9, <2>1, <3>1 DEF TerminalInv, AcceptedClosed
    <3>3. j \in lost \/ Closed(j)'
      BY <1>7, <1>8, <3>2
    <3>4. QED
      BY <3>2, <3>3 DEF Closed
  <2>2. CASE k = Len(calls) + 1
    <3>1. calls'[k].intent = i /\ Closed(i)'
      BY <1>5, <1>6, <1>8, <1>9, <2>2 DEF SettledAs
    <3>2. QED
      BY <3>1 DEF Closed
  <2>3. QED
    BY <1>9, <2>1, <2>2
<1>13. QED
  BY <1>8, <1>11, <1>12 DEF TerminalInv

(* A commit moves what is closed to the table.                             *)
LEMMA TerminalCommit ==
    ASSUME TypeInv, LockInv, TerminalInv, NEW b \in Batches, Commit(b)
    PROVE  TerminalInv'
<1>1. \A c \in Batches \ {b} : Untouched(c)
  BY OthersUntouched DEF BatchStep
<1>2. /\ w'[b] = EmptyWriteSet /\ pc'[b] = "done" /\ UNCHANGED <<calls, lost>>
      /\ \A i \in Intents : resv'[i] = IF Wrote(b, i) THEN w[b].resv[i] ELSE resv[i]
  BY DEF Commit, TypeInv, TypeOK, Resv, Wrote
<1>3. \A i \in Intents : ~Wrote(b, i)' /\ ~Released(w'[b].resv[i])
  BY <1>2 DEF EmptyWriteSet, Wrote, Released
<1>4. \A i \in Intents : Released(resv'[i]) <=> Released(resv[i]) \/ Released(w[b].resv[i])
  BY <1>2 DEF TerminalInv, ReleasedIsKept, Wrote, Released
<1>5. \A i \in Intents : Closed(i)' <=> Closed(i)
  <2> SUFFICES ASSUME NEW i \in Intents PROVE Closed(i)' <=> Closed(i)
    OBVIOUS
  <2>1. \A c \in Batches \ {b} : w'[c].resv[i] = w[c].resv[i]
    BY <1>1 DEF Untouched
  <2>2. QED
    BY <1>3, <1>4, <2>1 DEF Closed
<1>6. AttemptsOpen'
  <2> SUFFICES ASSUME NEW c \in Batches, pc'[c] \in {"flush", "provider"}
               PROVE  ~Closed(Item(c))'
    BY DEF AttemptsOpen, Closed
  <2>1. c # b /\ Untouched(c)
    BY <1>1, <1>2
  <2>2. Item(c)' = Item(c) /\ Item(c) \in Intents /\ pc'[c] = pc[c]
    BY <2>1, ItemType DEF Untouched, Item, TypeInv, Busy
  <2>3. QED
    BY <1>5, <2>2 DEF TerminalInv, AttemptsOpen, Closed
<1>7. ReleasedIsKept'
  <2> SUFFICES ASSUME NEW c \in Batches, NEW i \in Intents, Wrote(c, i)'
               PROVE  ~Released(resv'[i])
    BY DEF ReleasedIsKept, Released
  <2>1. c # b /\ Wrote(c, i)
    BY <1>1, <1>3 DEF Untouched, Wrote
  <2>2. ~Wrote(b, i)
    BY <2>1 DEF LockInv, GatesHeld
  <2>3. QED
    BY <1>2, <2>1, <2>2 DEF TerminalInv, ReleasedIsKept
<1>8. QED
  BY <1>2, <1>5, <1>6, <1>7, CallsFrame DEF TerminalInv

(* What a lost transaction had closed is lost.                             *)
LEMMA TerminalRollBack ==
    ASSUME TypeInv, LedgerInv, TerminalInv, NEW b \in Batches,
           ReuseViolation(b) \/ DeadlockVictim(b) \/ Crash(b) \/ BusyTimeout(b)
    PROVE  TerminalInv'
<1>1. \A c \in Batches \ {b} : Untouched(c)
  BY OthersUntouched DEF BatchStep
<1>2. /\ w'[b] = EmptyWriteSet /\ pc'[b] = "done" /\ UNCHANGED <<calls, resv>>
      /\ lost' = lost \cup {i \in Intents : w[b].sent[i] # <<>>}
  BY DEF ReuseViolation, DeadlockVictim, Crash, BusyTimeout, RollBack, TypeInv, TypeOK, db
<1>3. \A i \in Intents : ~Wrote(b, i)' /\ ~Released(w'[b].resv[i])
  BY <1>2 DEF EmptyWriteSet, Wrote, Released
<1>4. ASSUME NEW i \in Intents, Released(w[b].resv[i]) PROVE i \in lost'
  <2>1. ~InAttempt(b, i)
    BY <1>4 DEF InAttempt, TerminalInv, AttemptsOpen, Closed
  <2>2. w[b].sent[i] # <<>>
    BY <1>4, <2>1 DEF LedgerInv, Agree, Released
  <2>3. QED
    BY <1>2, <2>2
<1>5. \A i \in Intents : /\ Closed(i)' => Closed(i)
                         /\ Closed(i) => Closed(i)' \/ i \in lost'
  <2> SUFFICES ASSUME NEW i \in Intents
               PROVE  /\ Closed(i)' => Closed(i)
                      /\ Closed(i) => Closed(i)' \/ i \in lost'
    OBVIOUS
  <2>1. \A c \in Batches \ {b} : w'[c].resv[i] = w[c].resv[i]
    BY <1>1 DEF Untouched
  <2>2. QED
    BY <1>2, <1>3, <1>4, <2>1 DEF Closed
<1>6. AttemptsOpen'
  <2> SUFFICES ASSUME NEW c \in Batches, pc'[c] \in {"flush", "provider"}
               PROVE  ~Closed(Item(c))'
    BY DEF AttemptsOpen, Closed
  <2>1. c # b /\ Untouched(c)
    BY <1>1, <1>2
  <2>2. Item(c)' = Item(c) /\ Item(c) \in Intents /\ pc'[c] = pc[c]
    BY <2>1, ItemType DEF Untouched, Item, TypeInv, Busy
  <2>3. QED
    BY <1>5, <2>2 DEF TerminalInv, AttemptsOpen, Closed
<1>7. ReleasedIsKept'
  BY <1>1, <1>2, <1>3 DEF TerminalInv, ReleasedIsKept, Untouched, Wrote
<1>8. QED
  BY <1>2, <1>5, <1>6, <1>7, CallsFrame DEF TerminalInv

(* Every step keeps what is closed closed.                                 *)
LEMMA TerminalNext ==
    TypeInv /\ LockInv /\ LedgerInv /\ TerminalInv /\ [Next]_vars => TerminalInv'
<1> SUFFICES ASSUME TypeInv, LockInv, LedgerInv, TerminalInv, [Next]_vars
             PROVE  TerminalInv'
  OBVIOUS
<1>1. ASSUME NEW b \in Batches, Start(b) \/ BatchStep(b) \/ Crash(b) \/ BusyTimeout(b)
      PROVE  TerminalInv'
  BY <1>1, TerminalQuiet, TerminalPrepare, TerminalCallProvider, TerminalCommit,
     TerminalRollBack DEF BatchStep
<1>2. ASSUME UNCHANGED <<resv, pc, todo, w, calls, lost>> PROVE TerminalInv'
  BY <1>2, TerminalFrame DEF Item
<1>3. CASE Resolve \/ (\E i \in Intents : QueueDraft(i)) \/ PromotePolicy \/ Tick
  BY <1>2, <1>3 DEF Resolve, QueueDraft, PromotePolicy, Tick, db, local
<1>4. CASE UNCHANGED vars
  BY <1>2, <1>4 DEF vars
<1>5. QED
  BY <1>1, <1>3, <1>4 DEF Next

(* Once the provider has accepted an intent's message it is never asked    *)
(* again to deliver that intent, on both databases, unless the acceptance  *)
(* was rolled back.                                                        *)
THEOREM AcceptedStaysTerminal == Spec => []AcceptedIsTerminal
<1>1. TerminalInv => AcceptedIsTerminal
  BY DEF TerminalInv
<1>2. QED
  BY <1>1, TypeInit, TypeNext, LockInit, LockNext, LedgerInit, LedgerNext,
     TerminalInit, TerminalNext, PTL DEF Spec

-----------------------------------------------------------------------------
(* One writer: no second contact, no early retry, no limit overrun.        *)

(* The steps of a batch that neither open nor end its transaction, nor     *)
(* call the provider.                                                      *)
InnerStep(b) ==
    \/ RefuseItem(b) \/ Evaluate(b) \/ WriteGateResult(b) \/ Reserve(b)
    \/ InsertReservation(b) \/ FlushAttempt(b)

(* The steps that end a transaction without a commit.                      *)
Fails(b) == ReuseViolation(b) \/ DeadlockVictim(b) \/ Crash(b) \/ BusyTimeout(b)

(* Such a step records no contact.                                         *)
LEMMA InnerKeeps ==
    ASSUME TypeInv, NEW b \in Batches, InnerStep(b) \/ Start(b) \/ RecordStatus(b)
    PROVE  /\ w'[b].open = w[b].open /\ w'[b].outreach = w[b].outreach
           /\ w'[b].sent = w[b].sent
           /\ UNCHANGED <<outreach, calls, lost, cleared, now, policy>>
<1>1. w[b] \in WriteSet /\ w \in [Batches -> WriteSet]
  BY DEF TypeInv, TypeOK
<1>2. CASE InsertReservation(b) \/ FlushAttempt(b)
  <2>1. UNCHANGED <<outreach, calls, lost, cleared, now, policy>>
    BY <1>2 DEF InsertReservation, FlushAttempt, db, env, local
  <2>2. w'[b] = w[b] \/ \E r \in ReservationRow : PreparedRow(b, r)
    BY <1>2, PrepareEffect
  <2>3. QED
    BY <1>1, <2>1, <2>2 DEF PreparedRow, WriteSet
<1>3. CASE Start(b) \/ RefuseItem(b) \/ Evaluate(b) \/ Reserve(b)
  BY <1>3 DEF Start, RefuseItem, Evaluate, Reserve, db, env
<1>4. CASE WriteGateResult(b)
  BY <1>1, <1>4 DEF WriteGateResult, WriteSet, db, env, local
<1>5. CASE RecordStatus(b)
  BY <1>1, <1>5 DEF RecordStatus, WriteSet, db, env
<1>6. QED
  BY <1>2, <1>3, <1>4, <1>5 DEF InnerStep

(* Where such a step takes the batch.                                      *)
LEMMA InnerMoves ==
    ASSUME TypeInv, NEW b \in Batches, InnerStep(b)
    PROVE  /\ pc[b] \in Busy \ {"record", "provider"} /\ pc'[b] \in Busy
           /\ UNCHANGED todo
<1> USE DEF Busy, TypeInv, TypeOK
<1>1. CASE RefuseItem(b) \/ Evaluate(b) \/ Reserve(b)
  BY <1>1 DEF RefuseItem, Evaluate, Reserve, SkipItem
<1>2. CASE WriteGateResult(b) \/ InsertReservation(b) \/ FlushAttempt(b)
  BY <1>2 DEF WriteGateResult, InsertReservation, FlushAttempt, SkipItem, local
<1>3. QED
  BY <1>1, <1>2 DEF InnerStep

(* A failed transaction leaves nothing, but its calls are lost.            *)
LEMMA FailEffect ==
    ASSUME TypeInv, NEW b \in Batches, Fails(b)
    PROVE  /\ w'[b] = EmptyWriteSet /\ todo'[b] = <<>> /\ pc'[b] = "done"
           /\ lost' = lost \cup {i \in Intents : w[b].sent[i] # <<>>}
           /\ UNCHANGED <<outreach, calls, cleared, now, policy>>
BY DEF Fails, ReuseViolation, DeadlockVictim, Crash, BusyTimeout, RollBack,
       TypeInv, TypeOK, db, env

-----------------------------------------------------------------------------
(* With one writer, the transactions that have written are one.            *)
WriterInv ==
    /\ \A b \in Batches : /\ pc[b] \in Busy => w[b].open
                          /\ pc[b] \in {"idle", "done"} => ~w[b].open
    /\ \A b \in Batches, i \in Intents : w[b].outreach[i] # NoRow => w[b].open
    /\ \A b, c \in Batches : w[b].open /\ w[c].open => b = c

(* Nobody has written.                                                     *)
LEMMA WriterInit == Init => WriterInv
BY DEF Init, WriterInv, EmptyWriteSet, Busy

(* A step of one batch keeps WriterInv when the batch's own state does and *)
(* no other transaction is open when it opens one.                         *)
LEMMA WriterFrame ==
    ASSUME WriterInv, NEW b \in Batches,
           \A c \in Batches \ {b} : Untouched(c),
           pc'[b] \in Busy => w'[b].open,
           pc'[b] \in {"idle", "done"} => ~w'[b].open,
           \A i \in Intents : w'[b].outreach[i] # NoRow => w'[b].open,
           w'[b].open => w[b].open \/ \A c \in Batches \ {b} : ~w[c].open
    PROVE  WriterInv'
BY DEF WriterInv, Untouched

(* Every step keeps the transactions that have written one.                *)
LEMMA WriterNext ==
    ASSUME Serialised, TypeInv, WriterInv, [Next]_vars
    PROVE  WriterInv'
<1>1. ASSUME NEW b \in Batches, Start(b) \/ BatchStep(b) \/ Crash(b) \/ BusyTimeout(b)
      PROVE  WriterInv'
  <2>1. \A c \in Batches \ {b} : Untouched(c)
    BY <1>1, OthersUntouched
  <2>2. w[b] \in WriteSet /\ w \in [Batches -> WriteSet] /\ DOMAIN pc = Batches
    BY DEF TypeInv, TypeOK
  <2>3. CASE InnerStep(b)
    BY <2>1, <2>3, InnerKeeps, InnerMoves, WriterFrame DEF WriterInv, Busy
  <2>4. CASE Start(b)
    <3>1. w'[b] = w[b] /\ pc[b] = "idle" /\ pc'[b] = "next"
      BY <2>2, <2>4 DEF Start
    <3>2. QED
      BY <2>1, <3>1, WriterFrame DEF WriterInv, Busy
  <2>5. CASE RecordStatus(b)
    <3>1. pc[b] = "record" /\ pc'[b] = "next"
      BY <2>2, <2>5 DEF RecordStatus
    <3>2. QED
      BY <2>1, <2>5, <3>1, InnerKeeps, WriterFrame DEF WriterInv, Busy
  <2>6. CASE LoadItem(b)
    <3>1. /\ w'[b].open /\ w'[b].outreach = w[b].outreach /\ pc'[b] = "evaluate"
          /\ \A c \in Batches \ {b} : ~w[c].open
      BY <2>2, <2>6 DEF LoadItem, WriteLockFree, WriteSet
    <3>2. QED
      BY <2>1, <3>1, WriterFrame DEF WriterInv, Busy
  <2>7. CASE CallProvider(b)
    <3>1. pc[b] = "provider" /\ pc'[b] = "record" /\ w'[b].open = w[b].open
      BY <2>2, <2>7, CallEffect DEF CallProvider, CallMade
    <3>2. w[b].open
      BY <3>1 DEF WriterInv, Busy
    <3>3. QED
      BY <2>1, <3>1, <3>2, WriterFrame DEF Busy
  <2>8. CASE Commit(b) \/ Fails(b)
    <3>1. w'[b] = EmptyWriteSet /\ pc'[b] = "done"
      BY <2>2, <2>8, FailEffect DEF Commit
    <3>2. ~w'[b].open /\ \A i \in Intents : w'[b].outreach[i] = NoRow
      BY <3>1 DEF EmptyWriteSet
    <3>3. QED
      BY <2>1, <3>1, <3>2, WriterFrame DEF Busy
  <2>9. QED
    BY <1>1, <2>3, <2>4, <2>5, <2>6, <2>7, <2>8 DEF BatchStep, InnerStep, Fails
<1>2. CASE UNCHANGED <<pc, w>>
  BY <1>2 DEF WriterInv
<1>3. QED
  BY <1>1, <1>2 DEF Next, Resolve, QueueDraft, PromotePolicy, Tick, vars

-----------------------------------------------------------------------------
(* A batch calls the provider once for an intent: its items are distinct,  *)
(* and the one that has been sent is over, or about to be.                 *)
ItemsDistinct ==
    \A b \in Batches : \A m, n \in DOMAIN todo[b] : todo[b][m] = todo[b][n] => m = n

SentIsOver ==
    \A k \in DOMAIN calls : \A b \in Batches : calls[k].batch = b =>
        /\ pc[b] # "idle"
        /\ \A n \in DOMAIN todo[b] :
              todo[b][n] = calls[k].intent => n = 1 /\ pc[b] = "record"

CalledOnce ==
    \A k, l \in DOMAIN calls :
        calls[k].batch = calls[l].batch /\ calls[k].intent = calls[l].intent => k = l

(* What a transaction has recorded of a contact, it has called for.        *)
OwnRecords ==
    \A b \in Batches, i \in Intents : w[b].outreach[i] # NoRow =>
        /\ w[b].outreach[i].intent = i /\ w[b].sent[i] # <<>>
        /\ \E k \in DOMAIN calls : calls[k].batch = b /\ calls[k].intent = i

ItemsInv == ItemsDistinct /\ SentIsOver /\ CalledOnce /\ OwnRecords

(* Nothing has been called for.                                            *)
LEMMA ItemsInit == Init => ItemsInv
BY DEF Init, ItemsInv, ItemsDistinct, SentIsOver, CalledOnce, OwnRecords, EmptyWriteSet

(* A step without a call that starts no batch and ends no item.            *)
LEMMA ItemsFrame ==
    ASSUME ItemsInv, calls' = calls,
           \A c \in Batches :
              \/ w'[c] = EmptyWriteSet
              \/ w'[c].outreach = w[c].outreach /\ w'[c].sent = w[c].sent,
           \A c \in Batches :
              \/ todo'[c] = todo[c] /\ pc'[c] = pc[c]
              \/ todo'[c] = todo[c] /\ pc[c] \notin {"idle", "record"} /\ pc'[c] # "idle"
              \/ todo'[c] = <<>> /\ pc'[c] # "idle"
    PROVE  ItemsInv'
<1>1. ItemsDistinct' /\ CalledOnce'
  BY DEF ItemsInv, ItemsDistinct, CalledOnce
<1>2. SentIsOver'
  BY DEF ItemsInv, SentIsOver
<1>3. OwnRecords'
  BY DEF ItemsInv, OwnRecords, EmptyWriteSet
<1>4. QED
  BY <1>1, <1>2, <1>3 DEF ItemsInv

(* A batch begins with distinct items and has made no call.                *)
LEMMA ItemsStart ==
    ASSUME TypeInv, ItemsInv, NEW b \in Batches, Start(b)
    PROVE  ItemsInv'
<1>1. PICK items \in ItemLists : todo' = [todo EXCEPT ![b] = items]
  BY DEF Start
<1>2. /\ UNCHANGED <<w, calls>> /\ pc[b] = "idle" /\ pc'[b] = "next"
      /\ todo'[b] = items
      /\ \A c \in Batches \ {b} : pc'[c] = pc[c] /\ todo'[c] = todo[c]
  BY <1>1 DEF Start, TypeInv, TypeOK
<1>3. \A m, n \in DOMAIN items : items[m] = items[n] => m = n
  BY DEF ItemLists
<1>4. ItemsDistinct'
  BY <1>2, <1>3 DEF ItemsInv, ItemsDistinct
<1>5. SentIsOver'
  BY <1>2 DEF ItemsInv, SentIsOver
<1>6. CalledOnce' /\ OwnRecords'
  BY <1>2 DEF ItemsInv, CalledOnce, OwnRecords
<1>7. QED
  BY <1>4, <1>5, <1>6 DEF ItemsInv

(* The item that has been sent leaves the list; none of the rest has been. *)
LEMMA ItemsRecordStatus ==
    ASSUME TypeInv, ItemsInv, NEW b \in Batches, RecordStatus(b)
    PROVE  ItemsInv'
<1>1. /\ calls' = calls /\ pc'[b] = "next" /\ todo'[b] = Tail(todo[b])
      /\ \A c \in Batches \ {b} : pc'[c] = pc[c] /\ todo'[c] = todo[c]
      /\ todo[b] \in Seq(Intents) /\ todo[b] # <<>>
  BY DEF RecordStatus, TypeInv, TypeOK, Busy
<1>2. \A c \in Batches : w'[c].outreach = w[c].outreach /\ w'[c].sent = w[c].sent
  BY InnerKeeps, OthersUntouched DEF Untouched, BatchStep
<1>3. \A n \in DOMAIN todo'[b] : /\ n + 1 \in DOMAIN todo[b] /\ n \in Nat \ {0}
                                 /\ todo'[b][n] = todo[b][n + 1]
  BY <1>1
<1>4. ItemsDistinct'
  <2> SUFFICES ASSUME NEW c \in Batches, NEW m \in DOMAIN todo'[c],
                      NEW n \in DOMAIN todo'[c], todo'[c][m] = todo'[c][n]
               PROVE  m = n
    BY DEF ItemsDistinct
  <2>1. CASE c = b
    <3>1. m + 1 = n + 1 /\ m \in Nat /\ n \in Nat
      BY <1>3, <2>1 DEF ItemsInv, ItemsDistinct
    <3>2. QED
      BY <3>1
  <2>2. CASE c # b
    BY <1>1, <2>2 DEF ItemsInv, ItemsDistinct
  <2>3. QED
    BY <2>1, <2>2
<1>5. SentIsOver'
  <2> SUFFICES ASSUME NEW k \in DOMAIN calls, NEW c \in Batches, calls[k].batch = c
               PROVE  /\ pc'[c] # "idle"
                      /\ \A n \in DOMAIN todo'[c] :
                            todo'[c][n] = calls[k].intent => n = 1 /\ pc'[c] = "record"
    BY <1>1 DEF SentIsOver
  <2>1. CASE c = b
    <3>1. \A n \in DOMAIN todo'[b] : todo'[b][n] # calls[k].intent
      <4> SUFFICES ASSUME NEW n \in DOMAIN todo'[b], todo'[b][n] = calls[k].intent
                   PROVE  FALSE
        OBVIOUS
      <4>1. n + 1 = 1 /\ n \in Nat \ {0}
        BY <1>3, <2>1 DEF ItemsInv, SentIsOver
      <4>2. QED
        BY <4>1
    <3>2. QED
      BY <1>1, <2>1, <3>1
  <2>2. CASE c # b
    BY <1>1, <2>2 DEF ItemsInv, SentIsOver
  <2>3. QED
    BY <2>1, <2>2
<1>6. CalledOnce' /\ OwnRecords'
  BY <1>1, <1>2 DEF ItemsInv, CalledOnce, OwnRecords
<1>7. QED
  BY <1>4, <1>5, <1>6 DEF ItemsInv

(* A list with something added to it is not empty.                         *)
LEMMA AppendNotEmpty ==
    ASSUME NEW S, NEW s \in Seq(S), NEW x \in S
    PROVE  Append(s, x) # <<>>
<1>1. Len(Append(s, x)) = Len(s) + 1 /\ Len(s) \in Nat
  OBVIOUS
<1>2. QED
  BY <1>1

(* The call of an item that has not been called for.                       *)
LEMMA ItemsCallProvider ==
    ASSUME TypeInv, ItemsInv, NEW b \in Batches, CallProvider(b)
    PROVE  ItemsInv'
<1>1. /\ pc[b] = "provider" /\ pc'[b] = "record" /\ todo' = todo
      /\ todo[b] \in Seq(Intents) /\ todo[b] # <<>> /\ calls \in Seq(Call)
      /\ w[b] \in WriteSet /\ \A c \in Batches \ {b} : pc'[c] = pc[c]
  BY DEF CallProvider, TypeInv, TypeOK, Busy
<1>2. PICK i \in Intents : i = Item(b)
  BY ItemType DEF CallProvider, TypeInv, Busy
<1>3. todo[b][1] = i /\ 1 \in DOMAIN todo[b]
  BY <1>1, <1>2 DEF Item
<1>4. PICK outcome \in Outcomes, delivered \in BOOLEAN,
           contact \in {NoRow, "sent", "outcome_uncertain"} :
              CallMade(b, outcome, delivered, contact)
  BY CallEffect
<1>5. PICK new : calls' = Append(calls, new) /\ new.batch = b /\ new.intent = i
  BY <1>2, <1>4 DEF CallMade
<1>6. /\ DOMAIN calls' = DOMAIN calls \cup {Len(calls) + 1}
      /\ \A k \in DOMAIN calls : calls'[k] = calls[k] /\ k < Len(calls) + 1
      /\ calls'[Len(calls) + 1] = new
  BY <1>1, <1>5, OneMoreCall
<1>7. \A k \in DOMAIN calls : ~(calls[k].batch = b /\ calls[k].intent = i)
  BY <1>1, <1>3 DEF ItemsInv, SentIsOver
<1>8. ItemsDistinct'
  BY <1>1 DEF ItemsInv, ItemsDistinct
<1>9. SentIsOver'
  <2> SUFFICES ASSUME NEW k \in DOMAIN calls', NEW c \in Batches, calls'[k].batch = c
               PROVE  /\ pc'[c] # "idle"
                      /\ \A n \in DOMAIN todo[c] :
                            todo[c][n] = calls'[k].intent => n = 1 /\ pc'[c] = "record"
    BY <1>1 DEF SentIsOver
  <2>1. CASE k \in DOMAIN calls
    <3>1. /\ calls[k].batch = c /\ calls'[k].intent = calls[k].intent
          /\ pc[c] # "idle"
          /\ \A n \in DOMAIN todo[c] :
                todo[c][n] = calls[k].intent => n = 1 /\ pc[c] = "record"
      BY <1>6, <2>1 DEF ItemsInv, SentIsOver
    <3>2. QED
      BY <1>1, <3>1
  <2>2. CASE k = Len(calls) + 1
    BY <1>1, <1>3, <1>5, <1>6, <2>2 DEF ItemsInv, ItemsDistinct
  <2>3. QED
    BY <1>6, <2>1, <2>2
<1>10. CalledOnce'
  <2> SUFFICES ASSUME NEW k \in DOMAIN calls', NEW l \in DOMAIN calls',
                      calls'[k].batch = calls'[l].batch,
                      calls'[k].intent = calls'[l].intent
               PROVE  k = l
    BY DEF CalledOnce
  <2>1. CASE k \in DOMAIN calls /\ l \in DOMAIN calls
    BY <1>6, <2>1 DEF ItemsInv, CalledOnce
  <2>2. CASE k \notin DOMAIN calls \/ l \notin DOMAIN calls
    BY <1>5, <1>6, <1>7, <2>2
  <2>3. QED
    BY <2>1, <2>2
<1>11. OwnRecords'
  <2> SUFFICES ASSUME NEW c \in Batches, NEW j \in Intents, w'[c].outreach[j] # NoRow
               PROVE  /\ w'[c].outreach[j].intent = j /\ w'[c].sent[j] # <<>>
                      /\ \E k \in DOMAIN calls' :
                            calls'[k].batch = c /\ calls'[k].intent = j
    BY DEF OwnRecords
  <2>1. CASE c = b /\ j = i
    <3>1. w'[b].sent[i] # <<>>
      <4>1. /\ w'[b].sent = [w[b].sent EXCEPT ![i] = Append(w[b].sent[i], outcome)]
            /\ w[b].sent \in [Intents -> Seq(Outcomes)]
        BY <1>1, <1>2, <1>4 DEF CallMade, WriteSet
      <4>2. w[b].sent[i] \in Seq(Outcomes)
        BY <4>1
      <4>3. Append(w[b].sent[i], outcome) # <<>>
        BY <4>2, AppendNotEmpty
      <4>4. QED
        BY <4>1, <4>3
    <3>2. w'[b].outreach[i].intent = i
      <4>1. w[b].outreach \in [Intents -> OutreachRow \cup {NoRow}]
        BY <1>1 DEF WriteSet
      <4>2. CASE contact = NoRow
        <5>1. w[b].outreach[i] # NoRow
          BY <1>4, <2>1, <4>2 DEF CallMade
        <5>2. QED
          BY <1>4, <4>2, <5>1 DEF CallMade, ItemsInv, OwnRecords
      <4>3. CASE contact # NoRow
        BY <1>2, <1>4, <4>1, <4>3 DEF CallMade
      <4>4. QED
        BY <4>2, <4>3
    <3>3. QED
      BY <1>5, <1>6, <2>1, <3>1, <3>2
  <2>2. CASE ~(c = b /\ j = i)
    <3>1. w'[c].outreach[j] = w[c].outreach[j] /\ w'[c].sent[j] = w[c].sent[j]
      <4>1. CASE c = b
        BY <1>1, <1>2, <1>4, <2>2, <4>1 DEF CallMade, WriteSet
      <4>2. CASE c # b
        BY <4>2, OthersUntouched DEF Untouched, BatchStep
      <4>3. QED
        BY <4>1, <4>2
    <3>2. \E k \in DOMAIN calls : calls'[k].batch = c /\ calls'[k].intent = j
      BY <1>6, <3>1 DEF ItemsInv, OwnRecords
    <3>3. QED
      BY <1>6, <3>1, <3>2 DEF ItemsInv, OwnRecords
  <2>3. QED
    BY <2>1, <2>2
<1>12. QED
  BY <1>8, <1>9, <1>10, <1>11 DEF ItemsInv

(* Every step keeps an item's call the only one of its batch.              *)
LEMMA ItemsNext == TypeInv /\ ItemsInv /\ [Next]_vars => ItemsInv'
<1> SUFFICES ASSUME TypeInv, ItemsInv, [Next]_vars PROVE ItemsInv'
  OBVIOUS
<1>1. ASSUME NEW b \in Batches, Start(b) \/ BatchStep(b) \/ Crash(b) \/ BusyTimeout(b)
      PROVE  ItemsInv'
  <2>1. \A c \in Batches \ {b} : Untouched(c)
    BY <1>1, OthersUntouched
  <2>2. w[b] \in WriteSet /\ w \in [Batches -> WriteSet] /\ DOMAIN pc = Batches
    BY DEF TypeInv, TypeOK
  <2>3. CASE InnerStep(b)
    BY <2>1, <2>3, InnerKeeps, InnerMoves, ItemsFrame DEF Untouched, Busy
  <2>4. CASE LoadItem(b)
    <3>1. /\ w'[b].outreach = w[b].outreach /\ w'[b].sent = w[b].sent
          /\ pc[b] = "next" /\ pc'[b] = "evaluate" /\ UNCHANGED <<calls, todo>>
      BY <2>2, <2>4 DEF LoadItem, WriteSet
    <3>2. QED
      BY <2>1, <3>1, ItemsFrame DEF Untouched
  <2>5. CASE Commit(b) \/ Fails(b)
    <3>1. w'[b] = EmptyWriteSet /\ pc'[b] = "done" /\ todo'[b] = <<>> /\ calls' = calls
      BY <2>2, <2>5, FailEffect DEF Commit, local
    <3>2. QED
      BY <2>1, <3>1, ItemsFrame DEF Untouched
  <2>6. QED
    BY <1>1, <2>3, <2>4, <2>5, ItemsStart, ItemsRecordStatus, ItemsCallProvider
       DEF BatchStep, InnerStep, Fails
<1>2. CASE UNCHANGED <<pc, todo, w, calls>>
  BY <1>2, ItemsFrame
<1>3. QED
  BY <1>1, <1>2 DEF Next, Resolve, QueueDraft, PromotePolicy, Tick, vars, local

-----------------------------------------------------------------------------
(* A delivery, or what may be one, has a contact record that its batch     *)
(* sees, unless the intent is excused.                                     *)
ContactsRecorded ==
    \A k \in DOMAIN calls :
        MayHaveReached(calls[k]) /\ ~Excused(calls[k].intent)
            => \E o \in Outreach(calls[k].batch) : Tells(o, calls[k])

(* No call has been made.                                                  *)
LEMMA ContactsInit == Init => ContactsRecorded
BY DEF Init, ContactsRecorded

(* Without a new call, a contact record must stay, be resolved as another  *)
(* contact, or excuse its intent.                                          *)
LEMMA ContactsFrame ==
    ASSUME TypeInv, ContactsRecorded, calls' = calls,
           lost \subseteq lost', cleared \subseteq cleared',
           \A c \in Batches : \A o \in Outreach(c) :
              o.status \in ContactedStatuses =>
                 \/ o.intent \in lost' \cup cleared'
                 \/ \E p \in Outreach(c)' :
                       /\ p.batch = o.batch /\ p.intent = o.intent /\ p.at = o.at
                       /\ p.status \in ContactedStatuses
    PROVE  ContactsRecorded'
<1> SUFFICES ASSUME NEW k \in DOMAIN calls, MayHaveReached(calls[k]),
                    calls[k].intent \notin lost' \cup cleared'
             PROVE  \E p \in Outreach(calls[k].batch)' : Tells(p, calls[k])
  BY DEF ContactsRecorded, Excused, MayHaveReached, Tells, Outreach, OwnOutreach
<1>1. PICK c \in Batches : c = calls[k].batch
  BY CallIntents DEF TypeInv, TypeOK, Call
<1>2. PICK o \in Outreach(c) : Tells(o, calls[k])
  BY <1>1 DEF ContactsRecorded, Excused
<1>3. PICK p \in Outreach(c)' : /\ p.batch = o.batch /\ p.intent = o.intent /\ p.at = o.at
                                /\ p.status \in ContactedStatuses
  BY <1>2 DEF Tells
<1>4. Tells(p, calls[k])
  BY <1>2, <1>3 DEF Tells
<1>5. QED
  BY <1>1, <1>3, <1>4 DEF Outreach, OwnOutreach

(* What a batch sees of the outreach records changes with the table and    *)
(* with its own records only.                                              *)
LEMMA OutreachSame ==
    ASSUME NEW c \in Batches, outreach' = outreach, w'[c].outreach = w[c].outreach
    PROVE  Outreach(c)' = Outreach(c)
BY DEF Outreach, OwnOutreach

(* The step of one batch when no record is written.                        *)
LEMMA ContactsQuiet ==
    ASSUME TypeInv, ContactsRecorded, UNCHANGED <<outreach, calls, lost, cleared>>,
           \A c \in Batches : w'[c].outreach = w[c].outreach
    PROVE  ContactsRecorded'
<1>1. \A c \in Batches : Outreach(c)' = Outreach(c)
  BY OutreachSame
<1>2. QED
  BY <1>1, ContactsFrame

(* A commit moves the records of a transaction to the table.               *)
LEMMA ContactsCommit ==
    ASSUME TypeInv, ContactsRecorded, NEW b \in Batches, Commit(b)
    PROVE  ContactsRecorded'
<1>1. \A c \in Batches \ {b} : Untouched(c)
  BY OthersUntouched DEF BatchStep
<1>2. outreach' = Outreach(b) /\ UNCHANGED <<calls, lost, cleared>>
  BY DEF Commit, env
<1>3. \A c \in Batches : Outreach(c) \subseteq Outreach(c)'
  <2> SUFFICES ASSUME NEW c \in Batches PROVE Outreach(c) \subseteq Outreach(c)'
    OBVIOUS
  <2>1. CASE c = b
    BY <1>2, <2>1 DEF Outreach
  <2>2. CASE c # b
    BY <1>1, <1>2, <2>2 DEF Outreach, OwnOutreach, Untouched
  <2>3. QED
    BY <2>1, <2>2
<1>4. QED
  BY <1>2, <1>3, ContactsFrame

(* The records of a lost transaction are of intents that are now excused.  *)
LEMMA ContactsFail ==
    ASSUME TypeInv, ItemsInv, ContactsRecorded, NEW b \in Batches, Fails(b)
    PROVE  ContactsRecorded'
<1>1. \A c \in Batches \ {b} : Untouched(c)
  BY OthersUntouched DEF BatchStep, Fails
<1>2. /\ UNCHANGED <<outreach, calls, cleared>>
      /\ lost' = lost \cup {i \in Intents : w[b].sent[i] # <<>>}
  BY FailEffect
<1>3. ASSUME NEW o \in OwnOutreach(b) PROVE o.intent \in lost'
  BY <1>2, <1>3 DEF OwnOutreach, ItemsInv, OwnRecords
<1>4. ASSUME NEW c \in Batches, NEW o \in Outreach(c), o.intent \notin lost'
      PROVE  o \in Outreach(c)'
  <2>1. CASE c = b
    BY <1>2, <1>3, <1>4, <2>1 DEF Outreach
  <2>2. CASE c # b
    BY <1>1, <1>2, <1>4, <2>2 DEF Outreach, OwnOutreach, Untouched
  <2>3. QED
    BY <2>1, <2>2
<1>5. QED
  BY <1>2, <1>4, ContactsFrame

(* An operator's resolution leaves a contact, or clears the intent.        *)
LEMMA ContactsResolve ==
    ASSUME TypeInv, ContactsRecorded, Resolve
    PROVE  ContactsRecorded'
<1>1. PICK o \in outreach, next \in {"sent", "provider_rejected_known_unsent",
                                     "outcome_uncertain", "void"} :
        /\ outreach' = (outreach \ {o}) \cup {[o EXCEPT !.status = next]}
        /\ cleared' = IF next \in ContactedStatuses THEN cleared
                      ELSE cleared \cup {o.intent}
        /\ UNCHANGED <<w, calls, lost>>
  BY DEF Resolve
<1>2. o \in OutreachRow
  BY DEF TypeInv, TypeOK
<1> DEFINE p == [o EXCEPT !.status = next]
<1>3. /\ p.batch = o.batch /\ p.intent = o.intent /\ p.at = o.at
      /\ p.status = next /\ p \in outreach'
  BY <1>1, <1>2 DEF OutreachRow
<1> HIDE DEF p
<1>4. \A c \in Batches : outreach' \subseteq Outreach(c)' /\ OwnOutreach(c)' = OwnOutreach(c)
  BY <1>1 DEF Outreach, OwnOutreach
<1>5. ASSUME NEW c \in Batches, NEW q \in Outreach(c), q.status \in ContactedStatuses
      PROVE  \/ q.intent \in lost' \cup cleared'
             \/ \E r \in Outreach(c)' :
                   /\ r.batch = q.batch /\ r.intent = q.intent /\ r.at = q.at
                   /\ r.status \in ContactedStatuses
  <2>1. CASE q \in Outreach(c)'
    BY <1>5, <2>1
  <2>2. CASE q \notin Outreach(c)'
    <3>1. q = o
      BY <1>1, <1>4, <1>5, <2>2 DEF Outreach
    <3>2. CASE next \in ContactedStatuses
      BY <1>3, <1>4, <3>1, <3>2
    <3>3. CASE next \notin ContactedStatuses
      BY <1>1, <3>1, <3>3
    <3>4. QED
      BY <3>2, <3>3
  <2>3. QED
    BY <2>1, <2>2
<1>6. lost \subseteq lost' /\ cleared \subseteq cleared' /\ calls' = calls
  BY <1>1
<1>7. QED
  BY <1>5, <1>6, ContactsFrame

(* A call that may have reached somebody leaves its contact record.        *)
LEMMA ContactsCallProvider ==
    ASSUME TypeInv, ItemsInv, ContactsRecorded, NEW b \in Batches, CallProvider(b)
    PROVE  ContactsRecorded'
<1>1. \A c \in Batches \ {b} : Untouched(c)
  BY OthersUntouched DEF BatchStep
<1>2. /\ pc[b] = "provider" /\ w[b] \in WriteSet /\ calls \in Seq(Call)
      /\ todo[b] # <<>> /\ todo[b] \in Seq(Intents)
      /\ UNCHANGED <<outreach, lost, cleared>>
  BY DEF CallProvider, TypeInv, TypeOK, Busy, db, env
<1>3. PICK i \in Intents : i = Item(b)
  BY ItemType DEF CallProvider, TypeInv, Busy
<1>4. PICK outcome \in Outcomes, delivered \in BOOLEAN,
           contact \in {NoRow, "sent", "outcome_uncertain"} :
              /\ CallMade(b, outcome, delivered, contact)
              /\ delivered \/ outcome = "send_failed_uncertain"
                    => contact \in ContactedStatuses
  BY CallEffect
<1> DEFINE new == [batch |-> b, intent |-> i, policy |-> policy[b],
                   outcome |-> outcome, delivered |-> delivered, at |-> now]
           row == [batch |-> b, intent |-> i, status |-> contact, at |-> now]
<1>5. calls' = Append(calls, new)
  BY <1>3, <1>4 DEF CallMade
<1>6. /\ DOMAIN calls' = DOMAIN calls \cup {Len(calls) + 1}
      /\ \A k \in DOMAIN calls : calls'[k] = calls[k] /\ k < Len(calls) + 1
      /\ calls'[Len(calls) + 1] = new
  <2> HIDE DEF new
  <2>1. QED
    BY <1>2, <1>5, OneMoreCall
<1>7. w[b].outreach[i] = NoRow
  <2>1. 1 \in DOMAIN todo[b] /\ todo[b][1] = i
    BY <1>2, <1>3 DEF Item
  <2>2. ASSUME w[b].outreach[i] # NoRow PROVE FALSE
    <3>1. PICK k \in DOMAIN calls : calls[k].batch = b /\ calls[k].intent = i
      BY <2>2 DEF ItemsInv, OwnRecords
    <3>2. pc[b] = "record"
      BY <2>1, <3>1 DEF ItemsInv, SentIsOver
    <3>3. QED
      BY <1>2, <3>2
  <2>3. QED
    BY <2>2
<1>8. OwnOutreach(b) \subseteq OwnOutreach(b)'
  <2>1. \A j \in Intents \ {i} : w'[b].outreach[j] = w[b].outreach[j]
    BY <1>2, <1>3, <1>4 DEF CallMade, WriteSet
  <2>2. QED
    BY <1>7, <2>1 DEF OwnOutreach
<1>9. \A c \in Batches : Outreach(c) \subseteq Outreach(c)'
  <2> SUFFICES ASSUME NEW c \in Batches PROVE Outreach(c) \subseteq Outreach(c)'
    OBVIOUS
  <2>1. CASE c = b
    BY <1>2, <1>8, <2>1 DEF Outreach
  <2>2. CASE c # b
    BY <1>1, <1>2, <2>2 DEF Outreach, OwnOutreach, Untouched
  <2>3. QED
    BY <2>1, <2>2
<1>10. contact \in ContactedStatuses => row \in Outreach(b)'
  <2> HIDE DEF row
  <2>1. SUFFICES ASSUME contact \in ContactedStatuses PROVE row \in Outreach(b)'
    OBVIOUS
  <2>2. contact # NoRow
    BY <2>1, NoRowAssumption DEF OutreachStatuses
  <2>3. w[b].outreach \in [Intents -> OutreachRow \cup {NoRow}]
    BY <1>2 DEF WriteSet
  <2>4. w'[b].outreach = [w[b].outreach EXCEPT ![i] = row]
    BY <1>3, <1>4, <2>2 DEF CallMade, row
  <2>5. w'[b].outreach[i] = row
    BY <2>3, <2>4
  <2>6. row # NoRow
    <3>1. now \in 0..MaxTime
      BY DEF TypeInv, TypeOK
    <3>2. row \in OutreachRow
      BY <2>1, <3>1 DEF row, OutreachRow, OutreachStatuses
    <3>3. QED
      BY <3>2, NoRowAssumption
  <2>7. QED
    BY <2>5, <2>6 DEF Outreach, OwnOutreach
<1>11. SUFFICES ASSUME NEW k \in DOMAIN calls', MayHaveReached(calls'[k]),
                       ~Excused(calls'[k].intent)
                PROVE  \E o \in Outreach(calls[k].batch)' : Tells(o, calls'[k])
  BY <1>2 DEF ContactsRecorded, Excused, MayHaveReached, Tells
<1>12. CASE k \in DOMAIN calls
  <2>1. PICK c \in Batches : c = calls[k].batch
    BY <1>2, <1>12, CallIntents DEF Call
  <2>2. PICK o \in Outreach(c) : Tells(o, calls[k])
    BY <1>6, <1>11, <1>12, <2>1 DEF ContactsRecorded
  <2>3. o \in Outreach(c)'
    BY <1>9, <2>2
  <2>4. QED
    BY <1>6, <1>12, <2>1, <2>2, <2>3 DEF Outreach, OwnOutreach
<1>13. CASE k = Len(calls) + 1
  <2>1. calls'[k] = new
    BY <1>6, <1>13
  <2>2. contact \in ContactedStatuses
    BY <1>4, <1>11, <2>1 DEF MayHaveReached
  <2>3. Tells(row, new) /\ row \in Outreach(b)' /\ new.batch = b
    BY <1>10, <2>2 DEF Tells
  <2>4. QED
    BY <2>1, <2>3 DEF Outreach, OwnOutreach
<1>14. QED
  BY <1>6, <1>12, <1>13

(* Every step keeps the contacts on record.                                *)
LEMMA ContactsNext ==
    TypeInv /\ ItemsInv /\ ContactsRecorded /\ [Next]_vars => ContactsRecorded'
<1> SUFFICES ASSUME TypeInv, ItemsInv, ContactsRecorded, [Next]_vars
             PROVE  ContactsRecorded'
  OBVIOUS
<1>1. ASSUME NEW b \in Batches, Start(b) \/ BatchStep(b) \/ Crash(b) \/ BusyTimeout(b)
      PROVE  ContactsRecorded'
  <2>1. \A c \in Batches \ {b} : Untouched(c)
    BY <1>1, OthersUntouched
  <2>2. CASE InnerStep(b) \/ Start(b) \/ RecordStatus(b)
    BY <2>1, <2>2, InnerKeeps, ContactsQuiet DEF Untouched
  <2>3. CASE LoadItem(b)
    <3>1. w'[b].outreach = w[b].outreach /\ UNCHANGED <<outreach, calls, lost, cleared>>
      BY <2>3 DEF LoadItem, WriteSet, TypeInv, TypeOK, db, env
    <3>2. QED
      BY <2>1, <3>1, ContactsQuiet DEF Untouched
  <2>4. QED
    BY <1>1, <2>2, <2>3, ContactsCommit, ContactsFail, ContactsCallProvider
       DEF BatchStep, InnerStep, Fails
<1>2. CASE UNCHANGED <<outreach, calls, lost, cleared, w>>
  BY <1>2, ContactsQuiet
<1>3. CASE (\E i \in Intents : QueueDraft(i)) \/ PromotePolicy \/ Tick \/ UNCHANGED vars
  BY <1>2, <1>3 DEF QueueDraft, PromotePolicy, Tick, vars, db, env
<1>4. QED
  BY <1>1, <1>3, ContactsResolve DEF Next

-----------------------------------------------------------------------------
(* A message that was not refused leaves an outreach record, in the table  *)
(* or in the transaction that wrote it.                                    *)
NotRefused(s) == \E n \in DOMAIN s : s[n] # "provider_rejected_known_unsent"

OnRecord(i) == \E o \in outreach : o.intent = i

RecordsMatch ==
    /\ \A i \in Intents : NotRefused(sent[i]) <=> OnRecord(i)
    /\ \A b \in Batches, i \in Intents :
          NotRefused(w[b].sent[i]) <=> w[b].outreach[i] # NoRow

(* A batch that is over has written nothing that is not committed.         *)
OverIsWritten == \A b \in Batches : pc[b] = "done" => w[b] = EmptyWriteSet

(* No message has been sent.                                               *)
LEMMA MatchInit == Init => RecordsMatch /\ OverIsWritten
BY DEF Init, RecordsMatch, OverIsWritten, NotRefused, OnRecord, EmptyWriteSet

(* An empty write set matches.                                             *)
LEMMA EmptyMatches ==
    \A i \in Intents : /\ ~NotRefused(EmptyWriteSet.sent[i])
                       /\ EmptyWriteSet.outreach[i] = NoRow
BY DEF NotRefused, EmptyWriteSet

(* A step that writes neither messages nor records, or forgets them.       *)
LEMMA MatchFrame ==
    ASSUME RecordsMatch, UNCHANGED sent,
           \A i \in Intents : OnRecord(i)' <=> OnRecord(i),
           \A c \in Batches :
              \/ w'[c] = EmptyWriteSet
              \/ w'[c].outreach = w[c].outreach /\ w'[c].sent = w[c].sent
    PROVE  RecordsMatch'
<1>1. ASSUME NEW c \in Batches, NEW i \in Intents
      PROVE  NotRefused(w'[c].sent[i]) <=> w'[c].outreach[i] # NoRow
  <2>1. CASE w'[c] = EmptyWriteSet
    BY <2>1, EmptyMatches
  <2>2. CASE w'[c].outreach = w[c].outreach /\ w'[c].sent = w[c].sent
    BY <2>2 DEF RecordsMatch
  <2>3. QED
    BY <2>1, <2>2
<1>2. \A i \in Intents : NotRefused(sent'[i]) <=> OnRecord(i)'
  BY DEF RecordsMatch
<1>3. QED
  BY <1>1, <1>2 DEF RecordsMatch, NotRefused

(* One message more is one outcome more.                                   *)
LEMMA AppendNotRefused ==
    ASSUME NEW s \in Seq(Outcomes), NEW outcome \in Outcomes
    PROVE  NotRefused(Append(s, outcome))
              <=> NotRefused(s) \/ outcome # "provider_rejected_known_unsent"
<1> DEFINE t == Append(s, outcome)
<1>1. /\ DOMAIN t = 1..Len(s) + 1 /\ DOMAIN s = 1..Len(s) /\ Len(s) \in Nat
      /\ \A n \in 1..Len(s) : t[n] = s[n]
      /\ t[Len(s) + 1] = outcome
  OBVIOUS
<1> HIDE DEF t
<1>2. Len(s) + 1 \in DOMAIN t /\ DOMAIN s \subseteq DOMAIN t
  BY <1>1
<1>3. \A n \in DOMAIN t : n \in DOMAIN s \/ n = Len(s) + 1
  BY <1>1
<1>4. NotRefused(t) <=> NotRefused(s) \/ outcome # "provider_rejected_known_unsent"
  BY <1>1, <1>2, <1>3 DEF NotRefused
<1>5. QED
  BY <1>4 DEF t

(* The messages of a commit follow the ones that are there.                *)
LEMMA ConcatNotRefused ==
    ASSUME NEW s \in Seq(Outcomes), NEW t \in Seq(Outcomes)
    PROVE  NotRefused(s \o t) <=> NotRefused(s) \/ NotRefused(t)
<1> DEFINE u == s \o t
<1>1. /\ DOMAIN u = 1..Len(s) + Len(t) /\ DOMAIN s = 1..Len(s) /\ DOMAIN t = 1..Len(t)
      /\ Len(s) \in Nat /\ Len(t) \in Nat
      /\ \A n \in 1..Len(s) : u[n] = s[n]
      /\ \A n \in 1..Len(t) : u[Len(s) + n] = t[n]
  OBVIOUS
<1> HIDE DEF u
<1>2. /\ \A n \in DOMAIN s : n \in DOMAIN u
      /\ \A n \in DOMAIN t : Len(s) + n \in DOMAIN u
  BY <1>1
<1>3. ASSUME NEW n \in DOMAIN u
      PROVE  n \in DOMAIN s \/ \E m \in DOMAIN t : n = Len(s) + m
  <2>1. CASE n > Len(s)
    <3>1. n - Len(s) \in DOMAIN t /\ n = Len(s) + (n - Len(s))
      BY <1>1, <2>1
    <3>2. QED
      BY <3>1
  <2>2. QED
    BY <1>1, <2>1
<1>4. NotRefused(u) => NotRefused(s) \/ NotRefused(t)
  BY <1>1, <1>3 DEF NotRefused
<1>5. NotRefused(s) => NotRefused(u)
  BY <1>1, <1>2 DEF NotRefused
<1>6. NotRefused(t) => NotRefused(u)
  BY <1>1, <1>2 DEF NotRefused
<1>7. QED
  BY <1>4, <1>5, <1>6 DEF u

(* The provider's answer is recorded with the message.                     *)
LEMMA MatchCallProvider ==
    ASSUME TypeInv, RecordsMatch, NEW b \in Batches, CallProvider(b)
    PROVE  RecordsMatch'
<1>1. \A c \in Batches \ {b} : w'[c] = w[c]
  BY OthersUntouched DEF BatchStep, Untouched
<1>2. w[b] \in WriteSet /\ UNCHANGED <<sent, outreach>>
  BY DEF CallProvider, TypeInv, TypeOK, db
<1>3. PICK i \in Intents : i = Item(b)
  BY ItemType DEF CallProvider, TypeInv, Busy
<1>4. PICK outcome \in Outcomes, delivered \in BOOLEAN,
           contact \in {NoRow, "sent", "outcome_uncertain"} :
              /\ CallMade(b, outcome, delivered, contact)
              /\ outcome = "provider_rejected_known_unsent" <=> contact = NoRow
  BY CallEffect
<1>5. /\ w[b].sent \in [Intents -> Seq(Outcomes)]
      /\ w[b].outreach \in [Intents -> OutreachRow \cup {NoRow}]
  BY <1>2 DEF WriteSet
<1>6. w'[b].sent = [w[b].sent EXCEPT ![i] = Append(w[b].sent[i], outcome)]
  BY <1>3, <1>4 DEF CallMade
<1>7. /\ w[b].sent[i] \in Seq(Outcomes)
      /\ w'[b].sent[i] = Append(w[b].sent[i], outcome)
      /\ \A j \in Intents \ {i} : w'[b].sent[j] = w[b].sent[j]
  BY <1>5, <1>6
<1>8. NotRefused(w'[b].sent[i])
         <=> NotRefused(w[b].sent[i]) \/ outcome # "provider_rejected_known_unsent"
  BY <1>7, AppendNotRefused
<1>9. \A j \in Intents \ {i} : w'[b].outreach[j] = w[b].outreach[j]
  BY <1>3, <1>4, <1>5 DEF CallMade
<1>10. w'[b].outreach[i] # NoRow <=> w[b].outreach[i] # NoRow \/ contact # NoRow
  <2>1. CASE contact = NoRow
    BY <1>4, <2>1 DEF CallMade
  <2>2. CASE contact # NoRow
    <3> DEFINE row == [batch |-> b, intent |-> i, status |-> contact, at |-> now]
    <3>1. now \in 0..MaxTime
      BY DEF TypeInv, TypeOK
    <3>2. row \in OutreachRow
      BY <2>2, <3>1 DEF OutreachRow, OutreachStatuses, ContactedStatuses
    <3>3. w'[b].outreach = [w[b].outreach EXCEPT ![i] = row]
      BY <1>3, <1>4, <2>2 DEF CallMade
    <3>4. w'[b].outreach[i] = row
      BY <1>5, <3>3
    <3>5. row # NoRow
      BY <3>2, NoRowAssumption
    <3>6. QED
      BY <2>2, <3>4, <3>5
  <2>3. QED
    BY <2>1, <2>2
<1>11. ASSUME NEW c \in Batches, NEW j \in Intents
       PROVE  NotRefused(w'[c].sent[j]) <=> w'[c].outreach[j] # NoRow
  <2>1. CASE c = b /\ j = i
    BY <1>4, <1>8, <1>10, <2>1 DEF RecordsMatch
  <2>2. CASE c = b /\ j # i
    BY <1>7, <1>9, <2>2 DEF RecordsMatch
  <2>3. CASE c # b
    BY <1>1, <2>3 DEF RecordsMatch
  <2>4. QED
    BY <2>1, <2>2, <2>3
<1>12. \A j \in Intents : NotRefused(sent'[j]) <=> OnRecord(j)'
  BY <1>2 DEF RecordsMatch, OnRecord
<1>13. QED
  BY <1>11, <1>12 DEF RecordsMatch, NotRefused

(* A commit writes the messages and their records.                         *)
LEMMA MatchCommit ==
    ASSUME TypeInv, ItemsInv, RecordsMatch, NEW b \in Batches, Commit(b)
    PROVE  RecordsMatch'
<1>1. \A c \in Batches \ {b} : w'[c] = w[c]
  BY OthersUntouched DEF BatchStep, Untouched
<1>2. /\ w'[b] = EmptyWriteSet /\ outreach' = outreach \cup OwnOutreach(b)
      /\ \A i \in Intents : sent'[i] = sent[i] \o w[b].sent[i]
  BY DEF Commit, TypeInv, TypeOK, Outreach
<1>3. ASSUME NEW i \in Intents PROVE NotRefused(sent'[i]) <=> OnRecord(i)'
  <2>1. sent[i] \in Seq(Outcomes) /\ w[b].sent[i] \in Seq(Outcomes)
    BY DEF TypeInv, TypeOK, WriteSet
  <2>2. NotRefused(sent'[i]) <=> NotRefused(sent[i]) \/ NotRefused(w[b].sent[i])
    <3>1. NotRefused(sent[i] \o w[b].sent[i])
             <=> NotRefused(sent[i]) \/ NotRefused(w[b].sent[i])
      BY <2>1, ConcatNotRefused
    <3>2. sent'[i] = sent[i] \o w[b].sent[i]
      BY <1>2
    <3>3. QED
      BY <3>1, <3>2
  <2>3. (\E o \in OwnOutreach(b) : o.intent = i) <=> w[b].outreach[i] # NoRow
    BY DEF OwnOutreach, ItemsInv, OwnRecords
  <2>4. OnRecord(i)' <=> OnRecord(i) \/ \E o \in OwnOutreach(b) : o.intent = i
    BY <1>2 DEF OnRecord
  <2>5. QED
    BY <2>2, <2>3, <2>4 DEF RecordsMatch
<1>4. ASSUME NEW c \in Batches, NEW i \in Intents
      PROVE  NotRefused(w'[c].sent[i]) <=> w'[c].outreach[i] # NoRow
  <2>1. CASE c = b
    BY <1>2, <2>1, EmptyMatches
  <2>2. CASE c # b
    BY <1>1, <2>2 DEF RecordsMatch
  <2>3. QED
    BY <2>1, <2>2
<1>5. QED
  BY <1>3, <1>4 DEF RecordsMatch, NotRefused

(* An operator's resolution keeps the intent of the record.                *)
LEMMA MatchResolve ==
    ASSUME TypeInv, RecordsMatch, Resolve
    PROVE  RecordsMatch'
<1>1. PICK o \in outreach, next \in {"sent", "provider_rejected_known_unsent",
                                     "outcome_uncertain", "void"} :
        /\ outreach' = (outreach \ {o}) \cup {[o EXCEPT !.status = next]}
        /\ UNCHANGED <<w, sent>>
  BY DEF Resolve
<1>2. o \in OutreachRow
  BY DEF TypeInv, TypeOK
<1> DEFINE p == [o EXCEPT !.status = next]
<1>3. p.intent = o.intent /\ p \in outreach'
  BY <1>1, <1>2 DEF OutreachRow
<1>4. outreach' = (outreach \ {o}) \cup {p}
  BY <1>1
<1> HIDE DEF p
<1>5. \A i \in Intents : OnRecord(i)' <=> OnRecord(i)
  BY <1>3, <1>4 DEF OnRecord
<1>6. QED
  BY <1>1, <1>5, MatchFrame

(* Every step keeps the records of the messages, and leaves nothing in the *)
(* transaction of a batch that is over.                                    *)
LEMMA MatchNext ==
    TypeInv /\ ItemsInv /\ RecordsMatch /\ OverIsWritten /\ [Next]_vars
       => RecordsMatch' /\ OverIsWritten'
<1> SUFFICES ASSUME TypeInv, ItemsInv, RecordsMatch, OverIsWritten, [Next]_vars
             PROVE  RecordsMatch' /\ OverIsWritten'
  OBVIOUS
<1>1. ASSUME NEW b \in Batches, Start(b) \/ BatchStep(b) \/ Crash(b) \/ BusyTimeout(b)
      PROVE  RecordsMatch' /\ OverIsWritten'
  <2>1. \A c \in Batches \ {b} : Untouched(c)
    BY <1>1, OthersUntouched
  <2>2. w[b] \in WriteSet /\ w \in [Batches -> WriteSet] /\ DOMAIN pc = Batches
    BY DEF TypeInv, TypeOK
  <2>3. OverIsWritten' <=> (pc'[b] = "done" => w'[b] = EmptyWriteSet)
    BY <2>1 DEF OverIsWritten, Untouched
  <2>4. CASE InnerStep(b) \/ Start(b) \/ RecordStatus(b)
    <3>1. UNCHANGED <<sent, outreach>>
          /\ w'[b].outreach = w[b].outreach /\ w'[b].sent = w[b].sent
      BY <2>4, InnerKeeps
         DEF InnerStep, Start, RecordStatus, RefuseItem, Evaluate, WriteGateResult,
             Reserve, InsertReservation, FlushAttempt, db
    <3>2. pc'[b] # "done"
      <4>1. CASE InnerStep(b)
        BY <4>1, InnerMoves DEF Busy
      <4>2. CASE Start(b) \/ RecordStatus(b)
        BY <2>2, <4>2 DEF Start, RecordStatus
      <4>3. QED
        BY <2>4, <4>1, <4>2
    <3>3. RecordsMatch'
      BY <2>1, <3>1, MatchFrame DEF Untouched, OnRecord
    <3>4. QED
      BY <2>3, <3>2, <3>3
  <2>5. CASE LoadItem(b)
    <3>1. /\ UNCHANGED <<sent, outreach>> /\ pc'[b] # "done"
          /\ w'[b].outreach = w[b].outreach /\ w'[b].sent = w[b].sent
      BY <2>2, <2>5 DEF LoadItem, WriteSet, db
    <3>2. RecordsMatch'
      BY <2>1, <3>1, MatchFrame DEF Untouched, OnRecord
    <3>3. QED
      BY <2>3, <3>1, <3>2
  <2>6. CASE CallProvider(b)
    BY <2>2, <2>3, <2>6, MatchCallProvider DEF CallProvider
  <2>7. CASE Commit(b)
    BY <2>2, <2>3, <2>7, MatchCommit DEF Commit
  <2>8. CASE Fails(b)
    <3>1. w'[b] = EmptyWriteSet /\ UNCHANGED <<sent, outreach>>
      BY <2>2, <2>8, FailEffect
         DEF Fails, ReuseViolation, DeadlockVictim, Crash, BusyTimeout, db
    <3>2. RecordsMatch'
      BY <2>1, <3>1, MatchFrame DEF Untouched, OnRecord
    <3>3. QED
      BY <2>3, <3>1, <3>2
  <2>9. QED
    BY <1>1, <2>4, <2>5, <2>6, <2>7, <2>8 DEF BatchStep, InnerStep, Fails
<1>2. CASE UNCHANGED <<sent, outreach, pc, w>>
  <2>1. RecordsMatch'
    BY <1>2, MatchFrame DEF OnRecord
  <2>2. QED
    BY <1>2, <2>1 DEF OverIsWritten
<1>3. CASE Resolve
  BY <1>3, MatchResolve DEF Resolve, OverIsWritten
<1>4. CASE (\E i \in Intents : QueueDraft(i)) \/ PromotePolicy \/ Tick \/ UNCHANGED vars
  BY <1>2, <1>4 DEF QueueDraft, PromotePolicy, Tick, vars, db, env
<1>5. QED
  BY <1>1, <1>3, <1>4 DEF Next

(* LedgerAgrees follows: Agree says of every outcome its settlement, and a *)
(* batch that is over sees the committed records only.                     *)
LEMMA AgreementIsLedger ==
    TypeInv /\ LedgerInv /\ RecordsMatch /\ OverIsWritten /\ ContactsRecorded
       => LedgerAgrees
<1> SUFFICES ASSUME TypeInv, LedgerInv, RecordsMatch, OverIsWritten, ContactsRecorded
             PROVE  LedgerAgrees
  OBVIOUS
<1>1. ASSUME NEW i \in Intents, sent[i] # <<>>
      PROVE  /\ resv[i] # NoRow
             /\ resv[i].status = SettledAs(sent[i][Len(sent[i])])
             /\ sent[i][Len(sent[i])] \in Outcomes
  <2>1. sent[i] \in Seq(Outcomes)
    BY DEF TypeInv, TypeOK
  <2>2. sent[i][Len(sent[i])] \in Outcomes
    BY <1>1, <2>1
  <2>3. QED
    BY <1>1, <2>2 DEF LedgerInv, Agree
<1>2. \A i \in Intents : sent[i] = <<>> => resv[i] = NoRow
  BY DEF LedgerInv, Agree
<1>3. \A i \in Intents :
         (\E n \in DOMAIN sent[i] : sent[i][n] # "provider_rejected_known_unsent")
            <=> \E o \in outreach : o.intent = i
  BY DEF RecordsMatch, NotRefused, OnRecord
<1>4. ASSUME NEW k \in DOMAIN calls, pc[calls[k].batch] = "done",
             MayHaveReached(calls[k]), ~Excused(calls[k].intent)
      PROVE  \E o \in outreach : Tells(o, calls[k])
  <2>1. PICK c \in Batches : c = calls[k].batch
    BY CallIntents DEF TypeInv, TypeOK, Call
  <2>2. OwnOutreach(c) = {}
    BY <1>4, <2>1 DEF OverIsWritten, OwnOutreach, EmptyWriteSet
  <2>3. QED
    BY <1>4, <2>1, <2>2 DEF ContactsRecorded, Outreach
<1>5. QED
  BY <1>1, <1>2, <1>3, <1>4 DEF LedgerAgrees, SettledAs, Outcomes

(* The committed reservation, messages and outreach records of an intent   *)
(* agree, and what may have reached a recipient is on record once its      *)
(* batch is over: for any intents, batches, policies and clock, and on     *)
(* both databases.                                                         *)
THEOREM LedgerAlwaysAgrees == Spec => []LedgerAgrees
BY TypeInit, TypeNext, LedgerInit, LedgerNext, ItemsInit, ItemsNext, ContactsInit,
   ContactsNext, MatchInit, MatchNext, AgreementIsLedger, PTL DEF Spec

-----------------------------------------------------------------------------
(* What the gate found when it passed an item is true until the item's     *)
(* provider call: with one writer nobody else can record a contact.        *)
Passing(b) == \/ pc[b] = "gate" /\ verdict[b] = "passed_evaluate_only"
              \/ pc[b] \in InSend

StillClear ==
    \A b \in Batches : Passing(b) => ~DuplicateContact(b, Item(b)) /\ ~LimitReached(b)

OutreachFinite == IsFiniteSet(outreach)

(* No batch has passed the gate, and no record has been written.           *)
LEMMA ClearInit == Init => StillClear /\ OutreachFinite
BY FS_EmptySet DEF Init, StillClear, Passing, InSend, OutreachFinite

(* A batch sees finitely many outreach records.                            *)
LEMMA OutreachSeenFinite ==
    ASSUME OutreachFinite, NEW b \in Batches
    PROVE  IsFiniteSet(Outreach(b))
<1> DEFINE rows == {w[b].outreach[i] : i \in Intents}
           f == [i \in Intents |-> w[b].outreach[i]]
<1>1. f \in Surjection(Intents, rows)
  BY DEF Surjection
<1> HIDE DEF f
<1>2. IsFiniteSet(rows)
  <2> HIDE DEF rows
  <2>1. QED
    BY <1>1, FS_Surjection, DeliveryAssumption
<1>3. OwnOutreach(b) \in SUBSET rows
  BY DEF OwnOutreach
<1>4. IsFiniteSet(OwnOutreach(b))
  <2> HIDE DEF rows
  <2>1. QED
    BY <1>2, <1>3, FS_Subset
<1>5. QED
  BY <1>4, FS_Union DEF Outreach, OutreachFinite

(* Every step leaves finitely many outreach records.                       *)
LEMMA FiniteNext == TypeInv /\ OutreachFinite /\ [Next]_vars => OutreachFinite'
<1> SUFFICES ASSUME TypeInv, OutreachFinite, [Next]_vars PROVE OutreachFinite'
  OBVIOUS
<1>1. CASE outreach' = outreach
  BY <1>1 DEF OutreachFinite
<1>2. CASE \E b \in Batches : outreach' = Outreach(b)
  BY <1>2, OutreachSeenFinite DEF OutreachFinite
<1>3. CASE Resolve
  <2>1. PICK o \in outreach : \E p : outreach' = (outreach \ {o}) \cup {p}
    BY <1>3 DEF Resolve
  <2>2. IsFiniteSet(outreach \ {o})
    BY FS_RemoveElement DEF OutreachFinite
  <2>3. QED
    BY <2>1, <2>2, FS_AddElement DEF OutreachFinite
<1>4. ASSUME NEW b \in Batches, Start(b) \/ BatchStep(b) \/ Crash(b) \/ BusyTimeout(b)
      PROVE  outreach' = outreach \/ outreach' = Outreach(b)
  BY <1>4, InnerKeeps, FailEffect
     DEF BatchStep, InnerStep, Fails, LoadItem, CallProvider, Commit, db
<1>5. QED
  BY <1>1, <1>2, <1>3, <1>4 DEF Next, QueueDraft, PromotePolicy, Tick, vars, db

(* What the gate reads is the records the batch sees, the policy of its    *)
(* item and the clock; a later clock sees fewer contacts.                  *)
LEMMA GateReads ==
    ASSUME TypeInv, OutreachFinite, NEW b \in Batches,
           now' \in {now, now + 1},
           policy'[b] = policy[b], Item(b)' = Item(b), Outreach(b)' = Outreach(b)
    PROVE  /\ DuplicateContact(b, Item(b))' => DuplicateContact(b, Item(b))
           /\ LimitReached(b)' => LimitReached(b)
<1>1. /\ now \in Nat /\ now' \in Nat /\ now' >= now
      /\ DayTicks \in Nat /\ WeekTicks \in Nat /\ DedupeTicks \in Nat
      /\ DailyLimit \in Nat /\ WeeklyLimit \in Nat
  BY DeliveryAssumption DEF TypeInv, TypeOK
<1>2. \A o \in Outreach(b) : o.at \in Nat
  BY OutreachType, DeliveryAssumption DEF TypeInv, OutreachRow
<1>3. \A o \in Outreach(b), window \in Nat : Contacted(o, window)' => Contacted(o, window)
  BY <1>1, <1>2 DEF Contacted
<1>4. DuplicateContact(b, Item(b))' => DuplicateContact(b, Item(b))
  BY <1>1, <1>3 DEF DuplicateContact, Contacted
<1> DEFINE Seen(window) == {o \in Outreach(b) : Contacted(o, window)}
           Left(window) == {o \in Outreach(b) : o.status \in ContactedStatuses
                                                /\ o.at >= now' - window}
<1>5. ASSUME NEW window \in Nat
      PROVE  /\ Cardinality(Left(window)) <= Cardinality(Seen(window))
             /\ Cardinality(Left(window)) \in Nat /\ Cardinality(Seen(window)) \in Nat
  <2>1. Left(window) \in SUBSET Seen(window)
    BY <1>3 DEF Contacted
  <2>2. Seen(window) \in SUBSET Outreach(b)
    OBVIOUS
  <2> HIDE DEF Seen, Left
  <2>3. IsFiniteSet(Seen(window))
    BY <2>2, OutreachSeenFinite, FS_Subset
  <2>4. QED
    BY <2>1, <2>3, FS_Subset, FS_CardinalityType
<1>6. LimitReached(b)' <=> \/ Cardinality(Left(DayTicks)) >= DailyLimit
                           \/ Cardinality(Left(WeekTicks)) >= WeeklyLimit
  BY DEF LimitReached, Contacted
<1>7. LimitReached(b) <=> \/ Cardinality(Seen(DayTicks)) >= DailyLimit
                          \/ Cardinality(Seen(WeekTicks)) >= WeeklyLimit
  BY DEF LimitReached
<1> HIDE DEF Seen, Left
<1>8. QED
  BY <1>1, <1>4, <1>5, <1>6, <1>7

(* A step that brings nobody past the gate, with the records unchanged.    *)
LEMMA ClearFrame ==
    ASSUME TypeInv, OutreachFinite, StillClear, NEW c \in Batches,
           Passing(c)' => Passing(c),
           now' \in {now, now + 1},
           policy'[c] = policy[c], Item(c)' = Item(c), Outreach(c)' = Outreach(c)
    PROVE  Passing(c)' => ~DuplicateContact(c, Item(c))' /\ ~LimitReached(c)'
BY GateReads DEF StillClear

(* The batch's own steps: the gate passes an item that is clear, and what  *)
(* follows writes no contact before the call.                              *)
LEMMA ClearOwn ==
    ASSUME TypeInv, OutreachFinite, StillClear, NEW b \in Batches,
           Start(b) \/ BatchStep(b) \/ Crash(b) \/ BusyTimeout(b), now' = now
    PROVE  Passing(b)' => ~DuplicateContact(b, Item(b))' /\ ~LimitReached(b)'
<1>1. DOMAIN pc = Batches /\ DOMAIN verdict = Batches
  BY DEF TypeInv, TypeOK
<1>2. CASE Evaluate(b)
  <2>1. Passing(b)' => ~DuplicateContact(b, Item(b)) /\ ~LimitReached(b)
    BY <1>1, <1>2 DEF Evaluate, Passing, InSend
  <2>2. /\ policy'[b] = policy[b] /\ Item(b)' = Item(b)
        /\ Outreach(b)' = Outreach(b)
    BY <1>2 DEF Evaluate, Outreach, OwnOutreach, Item, db
  <2>3. QED
    BY <2>1, <2>2, GateReads
<1>3. CASE WriteGateResult(b) \/ Reserve(b) \/ InsertReservation(b) \/ FlushAttempt(b)
  <2>1. Passing(b)' => Passing(b)
    BY <1>1, <1>3 DEF WriteGateResult, Reserve, InsertReservation, FlushAttempt,
                      Passing, InSend, local
  <2>2. /\ policy'[b] = policy[b] /\ Item(b)' = Item(b)
        /\ Outreach(b)' = Outreach(b)
    BY <1>3, InnerKeeps, InnerMoves, OutreachSame DEF InnerStep, Item
  <2>3. QED
    BY <2>1, <2>2, ClearFrame
<1>4. CASE Start(b) \/ LoadItem(b) \/ RefuseItem(b) \/ RecordStatus(b) \/ CallProvider(b)
  <2>1. pc'[b] \in {"next", "evaluate", "record"}
    BY <1>1, <1>4 DEF Start, LoadItem, RefuseItem, SkipItem, RecordStatus, CallProvider
  <2>2. QED
    BY <2>1 DEF Passing, InSend
<1>5. CASE Commit(b) \/ Fails(b)
  <2>1. pc'[b] = "done"
    BY <1>1, <1>5, FailEffect DEF Commit
  <2>2. QED
    BY <2>1 DEF Passing, InSend
<1>6. QED
  BY <1>2, <1>3, <1>4, <1>5 DEF BatchStep, Fails

(* Every step keeps what the gate found true.                              *)
LEMMA ClearNext ==
    ASSUME Serialised, TypeInv, OutreachFinite, WriterInv, StillClear, [Next]_vars
    PROVE  StillClear'
<1>1. \A c \in Batches : Passing(c) => w[c].open
  BY DEF WriterInv, Passing, Busy, InSend
<1>2. ASSUME NEW b \in Batches, Start(b) \/ BatchStep(b) \/ Crash(b) \/ BusyTimeout(b)
      PROVE  StillClear'
  <2>1. \A c \in Batches \ {b} : Untouched(c)
    BY <1>2, OthersUntouched
  <2>2. now' = now
    BY <1>2, InnerKeeps, FailEffect
       DEF BatchStep, InnerStep, Fails, LoadItem, CallProvider, Commit, env
  <2>3. ASSUME NEW c \in Batches \ {b}
        PROVE  Passing(c)' => ~DuplicateContact(c, Item(c))' /\ ~LimitReached(c)'
    <3>1. Item(c)' = Item(c) /\ policy'[c] = policy[c] /\ Passing(c)' = Passing(c)
      BY <2>1, <2>3 DEF Untouched, Item, Passing
    <3>2. Passing(c) => outreach' = outreach
      <4>1. CASE Commit(b)
        <5>1. Passing(c) => OwnOutreach(b) = {}
          BY <1>1, <2>3 DEF WriterInv, OwnOutreach
        <5>2. QED
          BY <4>1, <5>1 DEF Commit, Outreach
      <4>2. CASE ~Commit(b)
        BY <1>2, <4>2, InnerKeeps, FailEffect
           DEF BatchStep, InnerStep, Fails, LoadItem, CallProvider, db
      <4>3. QED
        BY <4>1, <4>2
    <3>3. Passing(c) => Outreach(c)' = Outreach(c)
      BY <2>1, <2>3, <3>2, OutreachSame DEF Untouched
    <3>4. QED
      BY <2>2, <3>1, <3>3, ClearFrame
  <2>4. Passing(b)' => ~DuplicateContact(b, Item(b))' /\ ~LimitReached(b)'
    BY <1>2, <2>2, ClearOwn
  <2>5. QED
    BY <2>3, <2>4 DEF StillClear
<1>3. CASE Resolve
  <2>1. \A c \in Batches : ~w[c].open /\ pc'[c] = pc[c] /\ verdict'[c] = verdict[c]
    BY <1>3 DEF Resolve, local
  <2>2. QED
    BY <1>1, <2>1 DEF StillClear, Passing
<1>4. CASE (\E i \in Intents : QueueDraft(i)) \/ PromotePolicy \/ Tick \/ UNCHANGED vars
  <2>1. /\ UNCHANGED <<outreach, pc, todo, policy, verdict, w>>
        /\ now' \in {now, now + 1}
    BY <1>4 DEF QueueDraft, PromotePolicy, Tick, vars, db, env, local
  <2>2. ASSUME NEW c \in Batches
        PROVE  /\ Passing(c)' = Passing(c)
               /\ Item(c)' = Item(c) /\ Outreach(c)' = Outreach(c)
    BY <2>1, OutreachSame DEF Passing, Item
  <2>3. QED
    BY <2>1, <2>2, ClearFrame DEF StillClear
<1>5. QED
  BY <1>2, <1>3, <1>4 DEF Next

-----------------------------------------------------------------------------
(* The invariant of a database with one writer.                            *)
OneWriterInv ==
    /\ TypeInv /\ WriterInv /\ ItemsInv
    /\ ContactsRecorded /\ OutreachFinite /\ StillClear

(* It holds at first and every step keeps it.                              *)
LEMMA OneWriterInit == Init => OneWriterInv
BY TypeInit, WriterInit, ItemsInit, ContactsInit, ClearInit DEF OneWriterInv

(* Every step of a serialised send keeps the contact ledgers with one writer. *)
LEMMA OneWriterNext == Serialised => (OneWriterInv /\ [Next]_vars => OneWriterInv')
BY TypeNext, WriterNext, ItemsNext, ContactsNext, FiniteNext, ClearNext
   DEF OneWriterInv

(* Just before its call, a batch sees the contact record of every call     *)
(* that may have reached somebody.                                         *)
LEMMA SeenContact ==
    ASSUME OneWriterInv, NEW b \in Batches, pc[b] = "provider",
           NEW k \in DOMAIN calls, MayHaveReached(calls[k]), ~Excused(calls[k].intent)
    PROVE  \E o \in Outreach(b) : Tells(o, calls[k])
<1>1. PICK c \in Batches : c = calls[k].batch
  BY CallIntents DEF OneWriterInv, TypeInv, TypeOK, Call
<1>2. PICK o \in Outreach(c) : Tells(o, calls[k])
  BY <1>1 DEF OneWriterInv, ContactsRecorded
<1>3. w[b].open
  BY DEF OneWriterInv, WriterInv, Busy
<1>4. CASE c = b
  BY <1>2, <1>4
<1>5. CASE c # b
  <2>1. OwnOutreach(c) = {}
    BY <1>3, <1>5 DEF OneWriterInv, WriterInv, OwnOutreach
  <2>2. QED
    BY <1>2, <2>1 DEF Outreach
<1>6. QED
  BY <1>4, <1>5

(* So a call inside the dedupe window repeats no contact that the policy   *)
(* of its item forbids to repeat.                                          *)
LEMMA CallOutsideWindow ==
    ASSUME OneWriterInv, NEW b \in Batches, pc[b] = "provider",
           NEW k \in DOMAIN calls, MayHaveReached(calls[k]), ~Excused(calls[k].intent),
           \/ /\ ~RepeatRecipient[policy[b]]
              /\ RecipientOf[calls[k].intent] = RecipientOf[Item(b)]
           \/ /\ ~RepeatCompany[policy[b]]
              /\ CompanyOf[calls[k].intent] = CompanyOf[Item(b)]
    PROVE  now - calls[k].at > DedupeTicks
<1>1. PICK o \in Outreach(b) : Tells(o, calls[k])
  BY SeenContact
<1>2. ~DuplicateContact(b, Item(b))
  BY DEF OneWriterInv, StillClear, Passing, InSend
<1>3. ~(o.at >= now - DedupeTicks)
  BY <1>1, <1>2 DEF DuplicateContact, Contacted, Tells
<1>4. o.at = calls[k].at /\ o.at \in Nat /\ now \in Nat /\ DedupeTicks \in Nat
  BY <1>1, OutreachType, DeliveryAssumption
     DEF Tells, OneWriterInv, TypeInv, TypeOK, OutreachRow
<1>5. QED
  BY <1>3, <1>4

(* The new call of a step that makes one.                                  *)
LEMMA NewCall ==
    ASSUME TypeInv, NEW b \in Batches, CallProvider(b)
    PROVE  /\ UNCHANGED <<lost, cleared, now>> /\ pc[b] = "provider"
           /\ DOMAIN calls = 1..Len(calls) /\ Len(calls) \in Nat
           /\ DOMAIN calls' = DOMAIN calls \cup {Len(calls) + 1}
           /\ \A k \in DOMAIN calls : calls'[k] = calls[k] /\ k < Len(calls) + 1
           /\ calls'[Len(calls) + 1].batch = b
           /\ calls'[Len(calls) + 1].intent = Item(b)
           /\ calls'[Len(calls) + 1].policy = policy[b]
           /\ calls'[Len(calls) + 1].at = now
<1>1. UNCHANGED <<lost, cleared, now>> /\ pc[b] = "provider" /\ calls \in Seq(Call)
  BY DEF CallProvider, env, TypeInv, TypeOK
<1>2. PICK outcome \in Outcomes, delivered \in BOOLEAN,
           contact \in {NoRow, "sent", "outcome_uncertain"} :
              CallMade(b, outcome, delivered, contact)
  BY CallEffect
<1> DEFINE new == [batch |-> b, intent |-> Item(b), policy |-> policy[b],
                   outcome |-> outcome, delivered |-> delivered, at |-> now]
<1>3. calls' = Append(calls, new)
  BY <1>2 DEF CallMade
<1>4. /\ new.batch = b /\ new.intent = Item(b)
      /\ new.policy = policy[b] /\ new.at = now
  OBVIOUS
<1> HIDE DEF new
<1>5. QED
  BY <1>1, <1>3, <1>4, OneMoreCall

(* The steps that make no call only excuse more intents and let time pass. *)
LEMMA NoCall ==
    ASSUME TypeInv, [Next]_vars, ~\E b \in Batches : CallProvider(b)
    PROVE  /\ calls' = calls /\ lost \subseteq lost' /\ cleared \subseteq cleared'
           /\ now' \in {now, now + 1}
<1>1. ASSUME NEW b \in Batches, Start(b) \/ BatchStep(b) \/ Crash(b) \/ BusyTimeout(b)
      PROVE  /\ calls' = calls /\ lost \subseteq lost' /\ cleared \subseteq cleared'
             /\ now' = now
  BY <1>1, InnerKeeps, FailEffect DEF BatchStep, InnerStep, Fails, LoadItem, Commit, env
<1>2. CASE Resolve \/ (\E i \in Intents : QueueDraft(i)) \/ PromotePolicy \/ Tick
           \/ UNCHANGED vars
  BY <1>2 DEF Resolve, QueueDraft, PromotePolicy, Tick, vars, env
<1>3. QED
  BY <1>1, <1>2 DEF Next

(* Every step keeps ContactOnce.                                           *)
LEMMA ContactOnceNext ==
    OneWriterInv /\ ContactOnce /\ [Next]_vars => ContactOnce'
<1> SUFFICES ASSUME OneWriterInv, ContactOnce, [Next]_vars,
                    NEW k \in DOMAIN calls', NEW l \in DOMAIN calls', k < l,
                    calls'[k].delivered, calls'[l].delivered,
                    calls'[k].intent # calls'[l].intent,
                    Collide(calls'[k].intent, calls'[k].policy,
                            calls'[l].intent, calls'[l].policy),
                    calls'[k].intent \notin lost' \cup cleared'
             PROVE  calls'[l].at - calls'[k].at > DedupeTicks
  BY DEF ContactOnce, Excused, Collide
<1>1. CASE \E b \in Batches : CallProvider(b)
  <2>1. PICK b \in Batches : CallProvider(b)
    BY <1>1
  <2>2. k \in DOMAIN calls /\ calls'[k] = calls[k]
    BY <2>1, NewCall DEF OneWriterInv
  <2>3. CASE l \in DOMAIN calls
    BY <2>1, <2>2, <2>3, NewCall DEF OneWriterInv, ContactOnce, Excused
  <2>4. CASE l \notin DOMAIN calls
    <3>1. /\ calls'[l].intent = Item(b) /\ calls'[l].policy = policy[b]
          /\ calls'[l].at = now /\ pc[b] = "provider"
          /\ lost' = lost /\ cleared' = cleared
      BY <2>1, <2>4, NewCall DEF OneWriterInv
    <3>2. MayHaveReached(calls[k]) /\ ~Excused(calls[k].intent)
      BY <2>2, <3>1 DEF MayHaveReached, Excused
    <3>3. \/ /\ ~RepeatRecipient[policy[b]]
             /\ RecipientOf[calls[k].intent] = RecipientOf[Item(b)]
          \/ /\ ~RepeatCompany[policy[b]]
             /\ CompanyOf[calls[k].intent] = CompanyOf[Item(b)]
      BY <2>2, <3>1 DEF Collide
    <3>4. QED
      BY <2>2, <3>1, <3>2, <3>3, CallOutsideWindow
  <2>5. QED
    BY <2>3, <2>4
<1>2. CASE ~\E b \in Batches : CallProvider(b)
  BY <1>2, NoCall DEF OneWriterInv, ContactOnce, Excused
<1>3. QED
  BY <1>1, <1>2

(* On SQLite: two intents for one company, or for one recipient, are not   *)
(* both delivered inside the dedupe window when the policy forbids the     *)
(* repeat, unless the earlier one was cleared or its record rolled back.   *)
THEOREM ContactedOnce == ASSUME Serialised PROVE Spec => []ContactOnce
<1>1. Init => ContactOnce
  BY DEF Init, ContactOnce
<1>2. OneWriterInv /\ [Next]_vars => OneWriterInv'
  BY OneWriterNext
<1>3. QED
  BY <1>1, <1>2, OneWriterInit, ContactOnceNext, PTL DEF Spec

(* Every step keeps UncertainNotRetried.                                   *)
LEMMA UncertainNext ==
    ASSUME \A p \in Policies : ~RepeatRecipient[p] \/ ~RepeatCompany[p],
           OneWriterInv, UncertainNotRetried, [Next]_vars
    PROVE  UncertainNotRetried'
<1> SUFFICES ASSUME NEW k \in DOMAIN calls', NEW l \in DOMAIN calls', k < l,
                    calls'[k].intent = calls'[l].intent,
                    calls'[k].outcome = "send_failed_uncertain",
                    calls'[k].intent \notin lost' \cup cleared'
             PROVE  calls'[l].at - calls'[k].at > DedupeTicks
  BY DEF UncertainNotRetried, Excused
<1>1. CASE \E b \in Batches : CallProvider(b)
  <2>1. PICK b \in Batches : CallProvider(b)
    BY <1>1
  <2>2. k \in DOMAIN calls /\ calls'[k] = calls[k]
    BY <2>1, NewCall DEF OneWriterInv
  <2>3. CASE l \in DOMAIN calls
    BY <2>1, <2>2, <2>3, NewCall DEF OneWriterInv, UncertainNotRetried, Excused
  <2>4. CASE l \notin DOMAIN calls
    <3>1. /\ calls'[l].intent = Item(b) /\ calls'[l].at = now /\ pc[b] = "provider"
          /\ lost' = lost /\ cleared' = cleared
      BY <2>1, <2>4, NewCall DEF OneWriterInv
    <3>2. MayHaveReached(calls[k]) /\ ~Excused(calls[k].intent)
      BY <2>2, <3>1 DEF MayHaveReached, Excused
    <3>3. policy[b] \in Policies /\ calls[k].intent = Item(b)
      BY <2>2, <3>1 DEF OneWriterInv, TypeInv, TypeOK
    <3>4. QED
      BY <2>2, <3>1, <3>2, <3>3, CallOutsideWindow
  <2>5. QED
    BY <2>3, <2>4
<1>2. CASE ~\E b \in Batches : CallProvider(b)
  BY <1>2, NoCall DEF OneWriterInv, UncertainNotRetried, Excused
<1>3. QED
  BY <1>1, <1>2

(* On SQLite, when every policy forbids one of the two repeats: an intent  *)
(* whose delivery ended uncertain is not handed to the provider again      *)
(* inside the dedupe window, unless an operator cleared it or its record   *)
(* rolled back.                                                            *)
THEOREM UncertainIsNotRetried ==
    ASSUME Serialised, \A p \in Policies : ~RepeatRecipient[p] \/ ~RepeatCompany[p]
    PROVE  Spec => []UncertainNotRetried
<1>1. Init => UncertainNotRetried
  BY DEF Init, UncertainNotRetried
<1>2. OneWriterInv /\ [Next]_vars => OneWriterInv'
  BY OneWriterNext
<1>3. OneWriterInv /\ UncertainNotRetried /\ [Next]_vars => UncertainNotRetried'
  BY UncertainNext
<1>4. QED
  BY <1>1, <1>2, <1>3, OneWriterInit, PTL DEF Spec

-----------------------------------------------------------------------------
(* The deliveries inside a window that count towards a limit.              *)
DeliveredIn(window) == {k \in DOMAIN calls : /\ calls[k].delivered
                                             /\ ~Excused(calls[k].intent)
                                             /\ calls[k].at >= now - window}

ContactsIn(b, window) == {o \in Outreach(b) : Contacted(o, window)}

(* The calls are finitely many, so the deliveries in a window are.         *)
LEMMA DeliveredFinite ==
    ASSUME TypeInv, NEW S \in SUBSET DOMAIN calls
    PROVE  IsFiniteSet(S) /\ Cardinality(S) \in Nat
<1>1. DOMAIN calls = 1..Len(calls) /\ Len(calls) \in Nat
  BY DEF TypeInv, TypeOK
<1>2. IsFiniteSet(DOMAIN calls)
  BY <1>1, FS_Interval
<1>3. QED
  BY <1>2, FS_Subset, FS_CardinalityType

(* Each delivery in a window has a contact record of its own in it.        *)
LEMMA DeliveredHaveContacts ==
    ASSUME OneWriterInv, NEW b \in Batches, pc[b] = "provider", NEW window \in Nat
    PROVE  Cardinality(DeliveredIn(window)) <= Cardinality(ContactsIn(b, window))
<1> DEFINE D == DeliveredIn(window)
           C == ContactsIn(b, window)
           f == [k \in D |-> CHOOSE o \in Outreach(b) : Tells(o, calls[k])]
<1>1. ASSUME NEW k \in D
      PROVE  f[k] \in Outreach(b) /\ Tells(f[k], calls[k])
  <2>1. k \in DOMAIN calls /\ MayHaveReached(calls[k]) /\ ~Excused(calls[k].intent)
    BY DEF DeliveredIn, MayHaveReached
  <2>2. \E o \in Outreach(b) : Tells(o, calls[k])
    BY <2>1, SeenContact
  <2>3. QED
    BY <2>2
<1>2. \A k \in D : f[k] \in C
  BY <1>1 DEF DeliveredIn, ContactsIn, Contacted, Tells
<1>3. \A k, l \in D : f[k] = f[l] => k = l
  <2> SUFFICES ASSUME NEW k \in D, NEW l \in D, f[k] = f[l] PROVE k = l
    OBVIOUS
  <2>1. calls[k].batch = calls[l].batch /\ calls[k].intent = calls[l].intent
    BY <1>1 DEF Tells
  <2>2. k \in DOMAIN calls /\ l \in DOMAIN calls
    BY DEF DeliveredIn
  <2>3. QED
    BY <2>1, <2>2 DEF OneWriterInv, ItemsInv, CalledOnce
<1>4. DOMAIN f = D
  OBVIOUS
<1>5. f \in [D -> C]
  BY <1>2, <1>4
<1>6. IsFiniteSet(C)
  <2>1. C \in SUBSET Outreach(b)
    BY DEF ContactsIn
  <2>2. QED
    BY <2>1, OutreachSeenFinite, FS_Subset DEF OneWriterInv
<1> HIDE DEF f
<1>7. f \in Injection(D, C)
  BY <1>3, <1>4, <1>5 DEF Injection, IsInjective
<1>8. QED
  BY <1>6, <1>7, FS_Injection

(* A call adds one delivery at most to a window in which the gate found    *)
(* room; every other step adds none.                                       *)
LEMMA LimitNext ==
    ASSUME OneWriterInv, [Next]_vars, NEW window \in Nat, NEW limit \in Nat,
           Cardinality(DeliveredIn(window)) <= limit,
           \A b \in Batches : pc[b] = "provider"
                                 => ~(Cardinality(ContactsIn(b, window)) >= limit)
    PROVE  Cardinality(DeliveredIn(window)') <= limit
<1> DEFINE D == DeliveredIn(window)
           E == {k \in DOMAIN calls' : /\ calls'[k].delivered
                                       /\ calls'[k].intent \notin lost' \cup cleared'
                                       /\ calls'[k].at >= now' - window}
<1>1. DeliveredIn(window)' = E
  BY DEF DeliveredIn, Excused
<1>2. IsFiniteSet(D) /\ Cardinality(D) \in Nat
  <2>1. D \in SUBSET DOMAIN calls
    BY DEF DeliveredIn
  <2>2. QED
    BY <2>1, DeliveredFinite DEF OneWriterInv
<1>3. now \in Nat /\ calls \in Seq(Call)
  BY DeliveryAssumption DEF OneWriterInv, TypeInv, TypeOK
<1>4. CASE ~\E b \in Batches : CallProvider(b)
  <2>1. /\ calls' = calls /\ lost \subseteq lost' /\ cleared \subseteq cleared'
        /\ now' \in {now, now + 1}
    BY <1>4, NoCall DEF OneWriterInv
  <2>2. \A k \in DOMAIN calls : calls[k].at \in Nat
    BY <1>3, CallIntents, DeliveryAssumption DEF Call
  <2>3. E \in SUBSET D
    BY <1>3, <2>1, <2>2 DEF DeliveredIn, Excused
  <2> HIDE DEF D, E
  <2>4. Cardinality(E) <= Cardinality(D) /\ Cardinality(E) \in Nat
    BY <1>2, <2>3, FS_Subset, FS_CardinalityType
  <2>5. Cardinality(D) <= limit
    BY DEF D
  <2>6. QED
    BY <1>1, <1>2, <2>4, <2>5
<1>5. CASE \E b \in Batches : CallProvider(b)
  <2>1. PICK b \in Batches : CallProvider(b)
    BY <1>5
  <2>2. /\ pc[b] = "provider" /\ lost' = lost /\ cleared' = cleared /\ now' = now
        /\ DOMAIN calls' = DOMAIN calls \cup {Len(calls) + 1}
        /\ \A k \in DOMAIN calls : calls'[k] = calls[k]
    BY <2>1, NewCall DEF OneWriterInv
  <2>3. E \in SUBSET (D \cup {Len(calls) + 1})
    BY <2>2 DEF DeliveredIn, Excused
  <2>4. Cardinality(D) <= Cardinality(ContactsIn(b, window))
    BY <2>2, DeliveredHaveContacts
  <2>5. Cardinality(ContactsIn(b, window)) \in Nat
    <3>1. ContactsIn(b, window) \in SUBSET Outreach(b)
      BY DEF ContactsIn
    <3>2. QED
      BY <3>1, OutreachSeenFinite, FS_Subset, FS_CardinalityType DEF OneWriterInv
  <2>6. ~(Cardinality(ContactsIn(b, window)) >= limit)
    BY <2>2
  <2> HIDE DEF D, E
  <2>7. Cardinality(D) + 1 <= limit
    BY <1>2, <2>4, <2>5, <2>6
  <2>8. /\ IsFiniteSet(D \cup {Len(calls) + 1})
        /\ Cardinality(D \cup {Len(calls) + 1}) <= Cardinality(D) + 1
        /\ Cardinality(D \cup {Len(calls) + 1}) \in Nat
    <3> DEFINE n == Len(calls) + 1
    <3> HIDE DEF n
    <3>1. /\ IsFiniteSet(D \cup {n})
          /\ Cardinality(D \cup {n}) = IF n \in D THEN Cardinality(D)
                                       ELSE Cardinality(D) + 1
      BY <1>2, FS_AddElement
    <3>2. Cardinality(D \cup {n}) <= Cardinality(D) + 1 /\ Cardinality(D \cup {n}) \in Nat
      BY <1>2, <3>1
    <3>3. QED
      BY <3>1, <3>2 DEF n
  <2>9. Cardinality(E) <= Cardinality(D \cup {Len(calls) + 1}) /\ Cardinality(E) \in Nat
    BY <2>3, <2>8, FS_Subset, FS_CardinalityType
  <2>10. QED
    BY <1>1, <1>2, <2>7, <2>8, <2>9
<1>6. QED
  BY <1>4, <1>5

(* Every step keeps LimitsRespected.                                       *)
LEMMA LimitsNext == OneWriterInv /\ LimitsRespected /\ [Next]_vars => LimitsRespected'
<1> SUFFICES ASSUME OneWriterInv, LimitsRespected, [Next]_vars PROVE LimitsRespected'
  OBVIOUS
<1>1. /\ Cardinality(DeliveredIn(DayTicks)) <= DailyLimit
      /\ Cardinality(DeliveredIn(WeekTicks)) <= WeeklyLimit
  BY DEF LimitsRespected, DeliveredIn
<1>2. ASSUME NEW b \in Batches, pc[b] = "provider"
      PROVE  /\ ~(Cardinality(ContactsIn(b, DayTicks)) >= DailyLimit)
             /\ ~(Cardinality(ContactsIn(b, WeekTicks)) >= WeeklyLimit)
  <2>1. ~LimitReached(b)
    BY <1>2 DEF OneWriterInv, StillClear, Passing, InSend
  <2>2. QED
    BY <2>1 DEF LimitReached, ContactsIn
<1>3. /\ Cardinality(DeliveredIn(DayTicks)') <= DailyLimit
      /\ Cardinality(DeliveredIn(WeekTicks)') <= WeeklyLimit
  BY <1>1, <1>2, LimitNext, DeliveryAssumption
<1>4. QED
  BY <1>3 DEF LimitsRespected, DeliveredIn

(* On SQLite: not more messages leave in a day, or in a week, than the     *)
(* limits allow, the cleared and the rolled back excepted.                 *)
THEOREM LimitsStayRespected == ASSUME Serialised PROVE Spec => []LimitsRespected
<1>1. Init => LimitsRespected
  <2> SUFFICES ASSUME Init PROVE LimitsRespected
    OBVIOUS
  <2>1. \A window : DeliveredIn(window) = {}
    BY DEF Init, DeliveredIn
  <2>2. /\ Cardinality(DeliveredIn(DayTicks)) = 0
        /\ Cardinality(DeliveredIn(WeekTicks)) = 0
    BY <2>1, FS_EmptySet
  <2>3. QED
    BY <2>2, DeliveryAssumption DEF LimitsRespected, DeliveredIn
<1>2. OneWriterInv /\ [Next]_vars => OneWriterInv'
  BY OneWriterNext
<1>3. QED
  BY <1>1, <1>2, OneWriterInit, LimitsNext, PTL DEF Spec

=============================================================================
