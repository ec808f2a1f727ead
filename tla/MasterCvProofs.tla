--------------------------- MODULE MasterCvProofs ---------------------------
(***************************************************************************)
(* Proofs about ProfileSnapshots and MasterCv: that ledgers are not        *)
(* reworded in place; that the approved facts are one bundle of one run    *)
(* while no promotion is overtaken; and, when an edit's check of its       *)
(* document is not stale, that approved versions say what was approved,    *)
(* never change, and come in the order of their approval.                  *)
(***************************************************************************)
EXTENDS MasterCv, FiniteSetTheorems, SequenceTheorems, WellFoundedInduction, TLAPS

(* Every set of numbers that is not empty has a least one.                 *)
LEMMA LeastNumber ==
    ASSUME NEW T \in SUBSET Nat, T # {}
    PROVE  \E n \in T : \A m \in T : n <= m
<1> DEFINE R == OpToRel(<, Nat)
<1>1. IsWellFoundedOn(R, Nat)
  BY NatLessThanWellFounded
<1>2. \A m, n \in Nat : m < n => <<m, n>> \in R
  BY DEF OpToRel
<1> HIDE DEF R
<1>3. PICK n \in T : \A m \in T : ~(<<m, n>> \in R)
  BY <1>1, WFMin
<1>4. n \in Nat /\ \A m \in T : m \in Nat /\ ~(m < n)
  BY <1>2, <1>3
<1>5. \A m \in T : n <= m
  BY <1>4
<1>6. QED
  BY <1>3, <1>5

(* A function over the indices of a sequence is a sequence as long.        *)
LEMMA FunctionIsSeq ==
    ASSUME NEW S, NEW n \in Nat, NEW f \in [1..n -> S]
    PROVE  f \in Seq(S) /\ Len(f) = n
OBVIOUS

(* The largest of some row numbers.                                        *)
LEMMA MaxOfRows ==
    ASSUME NEW n \in Nat, NEW T, T \subseteq 0..n, T # {}
    PROVE  Max(T) \in T /\ \A m \in T : m <= Max(T)
<1>1. PICK bounds : bounds = {x \in Nat : \A m \in T : m <= x}
  OBVIOUS
<1>2. n \in bounds
  BY <1>1
<1>3. PICK b \in bounds : \A y \in bounds : b <= y
  BY <1>1, <1>2, LeastNumber
<1>4. b \in T
  <2>1. CASE b = 0
    <3>1. PICK x \in T : TRUE
      OBVIOUS
    <3>2. x \in Nat /\ x <= 0
      BY <1>1, <1>3, <2>1
    <3>3. QED
      BY <2>1, <3>1, <3>2
  <2>2. CASE b # 0 /\ b \notin T
    <3>1. \A m \in T : m <= b - 1
      BY <1>1, <1>3, <2>2
    <3>2. b - 1 \in bounds
      BY <1>1, <1>3, <2>2, <3>1
    <3>3. QED
      BY <1>1, <1>3, <3>2
  <2>3. QED
    BY <2>1, <2>2
<1>5. \E x \in T : \A y \in T : x >= y
  BY <1>1, <1>3, <1>4
<1>6. PICK x : x = Max(T)
  OBVIOUS
<1>7. x \in T /\ \A y \in T : x >= y
  BY <1>5, <1>6 DEF Max
<1>8. QED
  BY <1>6, <1>7
-----------------------------------------------------------------------------
(* The approved facts.  Alike: what a row keeps of its identity and of     *)
(* what its claims say.  Behind: rows that were those of the ledger once.  *)
Alike(old, new) ==
    /\ new.run = old.run /\ new.pid = old.pid
    /\ \A c \in Claims :
          /\ new.claims[c].text = old.claims[c].text
          /\ new.claims[c].state = "review" <=> old.claims[c].state = "review"
Reviewed(claims) == \A c \in Claims : claims[c].state # "review"
Behind(rows) ==
    /\ rows \in Seq(Row) /\ Len(rows) <= Len(ledger)
    /\ \A l \in 1..Len(rows) :
          /\ Alike(rows[l], ledger[l])
          /\ rows[l].status = "approved" => Reviewed(rows[l].claims)

(* A run has one live row in the ledger, under its own profile id; what is *)
(* approved is reviewed and on record, and, unless requests were overtaken,*)
(* it is one row of a kind, of one run.                                    *)
RowPerRun ==
    \A l, m \in Ledgers :
        /\ ledger[l].run = ledger[m].run /\ ledger[l].run # NoRun
        /\ ledger[l].status # "none" /\ ledger[m].status # "none"
        => l = m
OwnIds == \A l \in Ledgers : ledger[l].run # NoRun => ledger[l].pid[1] = ledger[l].run
AllReviewed == \A l \in ApprovedLedgers : Reviewed(ledger[l].claims)
OnRecord == Record(ledger) \subseteq said

OneLedger == \A l, m \in ApprovedLedgers : l = m
FactsOfOneRun ==
    \A t, u \in Facts, r, s \in OnboardingRuns :
        facts[t][r] = "approved" /\ facts[u][s] = "approved" => r = s
LedgerOfTheRun ==
    \A l \in ApprovedLedgers, t \in Facts, r \in OnboardingRuns :
        facts[t][r] = "approved" => ledger[l].pid[1] = r
Bundled == OneLedger /\ FactsOfOneRun /\ LedgerOfTheRun
InTime == stale \cap {"promote", "replace"} = {}

ProfileTyped == ProfileTypeOK /\ Len(ledger) <= MaxLedgers
ProfileInv ==
    /\ ProfileTyped /\ RowPerRun /\ OwnIds /\ AllReviewed /\ OnRecord
    /\ Behind(late.ledger)
    /\ InTime => Bundled

(* What a step does to a ledger row that was approved.                     *)
LedgerKept ==
    \A l \in Ledgers : ledger[l].status \in {"approved", "superseded"} =>
        /\ \A c \in Claims : ledger'[l].claims[c].text = ledger[l].claims[c].text
        /\ "claim" \notin stale' => ledger'[l].claims = ledger[l].claims

LEMMA LedgerTyped ==
    ASSUME ProfileTyped
    PROVE  /\ ledger \in Seq(Row) /\ Ledgers = 1..Len(ledger) /\ Len(ledger) \in 0..MaxLedgers
           /\ \A l \in Ledgers : ledger[l] \in Row
           /\ ledger \in [1..Len(ledger) -> Row] /\ MaxLedgers \in Nat
           /\ facts \in [Facts -> [OnboardingRuns -> SnapshotStatus]]
           /\ unfit \subseteq OnboardingRuns /\ Now \in Snapshot /\ late \in Snapshot
           /\ Now.facts = facts /\ Now.unfit = unfit /\ Now.ledger = ledger
<1>1. Now \in Snapshot /\ late \in Snapshot /\ Len(ledger) <= MaxLedgers /\ MaxLedgers \in Nat
  BY ProfileSnapshotsAssumption DEF ProfileTyped, ProfileTypeOK
<1>2. Now.facts = facts /\ Now.unfit = unfit /\ Now.ledger = ledger
  BY DEF Now
<1>3. PICK now \in Snapshot : now = Now
  BY <1>1
<1>4. /\ now.ledger \in Seq(Row) /\ now.unfit \subseteq OnboardingRuns
      /\ now.facts \in [Facts -> [OnboardingRuns -> SnapshotStatus]]
  BY DEF Snapshot
<1>5. ledger \in Seq(Row)
  BY <1>2, <1>3, <1>4
<1>6. Ledgers = 1..Len(ledger) /\ Len(ledger) \in Nat /\ ledger \in [1..Len(ledger) -> Row]
  BY <1>5, LenProperties DEF Ledgers
<1>7. QED
  BY <1>1, <1>2, <1>3, <1>4, <1>5, <1>6

(* The same of the rows a request has read.                                *)
LEMMA ReadTyped ==
    ASSUME NEW read \in Snapshot
    PROVE  /\ read.ledger \in Seq(Row) /\ DOMAIN read.ledger = 1..Len(read.ledger)
           /\ Len(read.ledger) \in Nat /\ \A l \in 1..Len(read.ledger) : read.ledger[l] \in Row
           /\ read.facts \in [Facts -> [OnboardingRuns -> SnapshotStatus]]
<1>1. /\ read.ledger \in Seq(Row)
      /\ read.facts \in [Facts -> [OnboardingRuns -> SnapshotStatus]]
  BY DEF Snapshot
<1>2. PICK rows \in Seq(Row) : rows = read.ledger
  BY <1>1
<1>3. DOMAIN rows = 1..Len(rows) /\ Len(rows) \in Nat /\ \A l \in 1..Len(rows) : rows[l] \in Row
  BY LenProperties, ElementOfSeq
<1>4. QED
  BY <1>1, <1>2, <1>3

LEMMA NewestApprovedOf ==
    ASSUME NEW rows \in Seq(Row), ApprovedOf(rows) # {}
    PROVE  Newest(rows) \in ApprovedOf(rows) /\ Viewed(rows) \in ApprovedOf(rows)
<1>1. ApprovedOf(rows) \subseteq 0..Len(rows) /\ Len(rows) \in Nat
  BY LenProperties DEF ApprovedOf
<1>2. Newest(rows) \in ApprovedOf(rows)
  BY <1>1, MaxOfRows DEF Newest
<1>3. PICK T : T = {l \in ApprovedOf(rows) : rows[l].run # NoRun}
  OBVIOUS
<1>4. T # {} => Max(T) \in T
  BY <1>1, <1>3, MaxOfRows
<1>5. Viewed(rows) = IF T = {} THEN Newest(rows) ELSE Max(T)
  BY <1>3 DEF Viewed
<1>6. QED
  BY <1>2, <1>3, <1>4, <1>5

LEMMA CurrentApproved ==
    ASSUME ProfileTyped, ApprovedLedgers # {}
    PROVE  CurrentLedger \in ApprovedLedgers
BY LedgerTyped, NewestApprovedOf DEF CurrentLedger, ApprovedLedgers

LEMMA ClaimSets ==
    ASSUME NEW claims \in [Claims -> Claim]
    PROVE  /\ Tailored(claims) \subseteq Claims /\ Supported(claims) \subseteq Tailored(claims)
           /\ \A c \in Tailored(claims) : claims[c].text \in Wordings
           /\ Reviewed(claims) <=> Tailored(claims) = Supported(claims)
<1>1. /\ Tailored(claims) \subseteq Claims /\ Supported(claims) \subseteq Tailored(claims)
      /\ \A c \in Tailored(claims) : claims[c].text \in Wordings
  BY DEF Tailored, Supported, Claim
<1>2. Reviewed(claims) => Tailored(claims) = Supported(claims)
  BY DEF Tailored, Supported, Reviewed
<1>3. ASSUME Tailored(claims) = Supported(claims), NEW c \in Claims, claims[c].state = "review"
      PROVE  FALSE
  <2>1. c \in Tailored(claims)
    BY <1>3 DEF Tailored
  <2>2. c \in Supported(claims)
    BY <1>3, <2>1
  <2>3. QED
    BY <1>3, <2>2 DEF Supported
<1>4. QED
  BY <1>1, <1>2, <1>3 DEF Reviewed

LEMMA RowTyped ==
    ASSUME NEW row \in Row
    PROVE  /\ row.run \in OnboardingRuns \cup {NoRun} /\ row.pid \in ProfileIds
           /\ row.status \in SnapshotStatus /\ row.claims \in [Claims -> Claim]
           /\ Says(row) \subseteq ProfileIds \X Claims \X Wordings
<1>1. /\ row.run \in OnboardingRuns \cup {NoRun} /\ row.pid \in ProfileIds
      /\ row.status \in SnapshotStatus /\ row.claims \in [Claims -> Claim]
  BY DEF Row
<1>2. PICK claims \in [Claims -> Claim] : claims = row.claims
  BY <1>1
<1>3. /\ Tailored(claims) \subseteq Claims
      /\ \A c \in Tailored(claims) : claims[c].text \in Wordings
  BY ClaimSets
<1>4. Says(row) = {<<row.pid, c, claims[c].text>> : c \in Tailored(claims)}
  BY <1>2 DEF Says
<1>5. QED
  BY <1>1, <1>3, <1>4

LEMMA RecordTyped ==
    ASSUME NEW rows \in Seq(Row)
    PROVE  Record(rows) \subseteq ProfileIds \X Claims \X Wordings
<1>1. \A l \in ApprovedOf(rows) : rows[l] \in Row
  BY LenProperties, ElementOfSeq DEF ApprovedOf
<1>2. \A l \in ApprovedOf(rows) : Says(rows[l]) \subseteq ProfileIds \X Claims \X Wordings
  BY <1>1, RowTyped
<1>3. QED
  BY <1>2 DEF Record

LEMMA UnreadTyped ==
    /\ Unread \in Snapshot /\ Unread.ledger = <<>> /\ Len(Unread.ledger) = 0
    /\ Unread.ledger \in Seq(Row)
BY DEF Unread, Snapshot, SnapshotStatus

LEMMA ProfileInitInv == ProfileInit => ProfileInv
<1> SUFFICES ASSUME ProfileInit PROVE ProfileInv
  OBVIOUS
<1>1. ledger = <<>> /\ Len(ledger) = 0 /\ Ledgers = {} /\ ApprovedLedgers = {}
  BY UnreadTyped DEF ProfileInit, Ledgers, ApprovedLedgers, ApprovedOf
<1>2. Now = Unread
  BY DEF ProfileInit, Now, Unread
<1>3. ProfileTypeOK
  BY <1>2, UnreadTyped, ProfileSnapshotsAssumption DEF ProfileInit, ProfileTypeOK
<1>4. \A t \in Facts, r \in OnboardingRuns : facts[t][r] = "none"
  BY DEF ProfileInit, Unread
<1>5. Bundled
  BY <1>1, <1>4 DEF Bundled, OneLedger, FactsOfOneRun, LedgerOfTheRun
<1>6. RowPerRun /\ OwnIds /\ AllReviewed
  BY <1>1 DEF RowPerRun, OwnIds, AllReviewed
<1>7. OnRecord
  BY <1>1 DEF OnRecord, Record, ApprovedLedgers
<1>8. Behind(late.ledger)
  BY <1>1, UnreadTyped DEF ProfileInit, Behind
<1>9. QED
  BY <1>1, <1>3, <1>5, <1>6, <1>7, <1>8, ProfileSnapshotsAssumption
     DEF ProfileInv, ProfileTyped

(* The rows after each operation.  Same(l): row l keeps all but its status.*)
Same(l) ==
    /\ ledger'[l].run = ledger[l].run /\ ledger'[l].pid = ledger[l].pid
    /\ ledger'[l].claims = ledger[l].claims
Grown ==
    /\ ledger' \in Seq(Row) /\ Len(ledger) <= Len(ledger') /\ Len(ledger') <= MaxLedgers
    /\ \A l \in Ledgers : Alike(ledger[l], ledger'[l])

LEMMA SameAlike ==
    ASSUME NEW l, Same(l)
    PROVE  Alike(ledger[l], ledger'[l])
BY DEF Same, Alike

LEMMA BehindGrown ==
    ASSUME ProfileTyped, Grown, NEW rows, Behind(rows)
    PROVE  Behind(rows)'
<1>1. Len(ledger) \in Nat /\ Len(ledger') \in Nat /\ Len(rows) \in Nat /\ Ledgers = 1..Len(ledger)
  BY LedgerTyped, LenProperties DEF Grown, Behind
<1>2. ASSUME NEW l \in 1..Len(rows) PROVE Alike(rows[l], ledger'[l])
  <2>1. l \in Ledgers
    BY <1>1 DEF Behind
  <2>2. Alike(rows[l], ledger[l]) /\ Alike(ledger[l], ledger'[l])
    BY <2>1 DEF Behind, Grown
  <2>3. QED
    BY <2>2 DEF Alike
<1>3. Len(rows) <= Len(ledger')
  BY <1>1 DEF Behind, Grown
<1>4. QED
  BY <1>2, <1>3 DEF Behind

LEMMA NowBehind == ASSUME ProfileInv PROVE Behind(ledger)
<1>1. ledger \in Seq(Row) /\ Ledgers = 1..Len(ledger) /\ Len(ledger) \in Nat
  BY LedgerTyped DEF ProfileInv
<1>2. \A l \in 1..Len(ledger) : Alike(ledger[l], ledger[l])
  BY DEF Alike
<1>3. \A l \in 1..Len(ledger) : ledger[l].status = "approved" => Reviewed(ledger[l].claims)
  BY <1>1 DEF ProfileInv, AllReviewed, ApprovedLedgers, ApprovedOf, Ledgers
<1>4. QED
  BY <1>1, <1>2, <1>3 DEF Behind

(* What a request leaves, whatever overtook it.                            *)
Leaves ==
    /\ facts' \in [Facts -> [OnboardingRuns -> SnapshotStatus]] /\ UNCHANGED unfit
    /\ Grown /\ RowPerRun' /\ OwnIds' /\ AllReviewed'
    /\ stale \subseteq stale' /\ stale' \subseteq {"promote", "claim", "replace", "open"}
    /\ InTime' => Bundled'
    /\ LedgerKept

LEMMA Marked ==
    ASSUME ProfileTyped, NEW request \in {"promote", "claim", "replace"}, NEW read,
           Mark(request, read)
    PROVE  /\ stale \subseteq stale' /\ stale' \subseteq {"promote", "claim", "replace", "open"}
           /\ request \notin stale' => read = Now
           /\ InTime' => InTime
<1>1. stale \subseteq {"promote", "claim", "replace", "open"}
  BY DEF ProfileTyped, ProfileTypeOK
<1>2. stale \subseteq stale' /\ stale' \subseteq {"promote", "claim", "replace", "open"}
      /\ (request \notin stale' => read = Now)
  BY <1>1 DEF Mark
<1>3. InTime' => InTime
  BY <1>2 DEF InTime
<1>4. QED
  BY <1>2, <1>3

(* A promotion changes the status of rows that are still there.            *)
LEMMA PromoteRows ==
    ASSUME ProfileInv, NEW read \in Snapshot, Behind(read.ledger),
           NEW r \in OnboardingRuns, Promote(read, r)
    PROVE  /\ facts' \in [Facts -> [OnboardingRuns -> SnapshotStatus]]
           /\ ledger' \in Seq(Row) /\ Len(ledger') = Len(ledger) /\ Ledgers' = Ledgers
           /\ \A l \in Ledgers :
                 /\ Same(l)
                 /\ ledger'[l].status # "none" => ledger[l].status # "none"
                 /\ ledger'[l].status = "approved" /\ ledger[l].status # "approved" =>
                        Reviewed(ledger[l].claims)
<1>1. /\ ledger \in Seq(Row) /\ Ledgers = 1..Len(ledger) /\ Len(ledger) \in Nat
      /\ ledger \in [1..Len(ledger) -> Row]
      /\ facts \in [Facts -> [OnboardingRuns -> SnapshotStatus]]
  BY LedgerTyped DEF ProfileInv
<1>2. PICK was \in Seq(Row) :
          /\ was = read.ledger /\ DOMAIN was = 1..Len(was) /\ Len(was) \in Nat
          /\ \A l \in 1..Len(was) : was[l] \in Row
  BY ReadTyped
<1>3. read.facts \in [Facts -> [OnboardingRuns -> SnapshotStatus]]
  BY ReadTyped
<1>4. PICK newFacts : newFacts = SupersedeFacts(read.facts, r)
  OBVIOUS
<1>5. PICK newStatus : newStatus = SupersedeLedgers(was, r)
  OBVIOUS
<1>6. PICK rows : rows = {l \in DOMAIN was : newStatus[l] # was[l].status}
  OBVIOUS
<1>7. /\ Valid(read, r) /\ Kept(rows)
      /\ facts' = [t \in Facts |-> [s \in OnboardingRuns |->
                      IF newFacts[t][s] # read.facts[t][s] THEN newFacts[t][s]
                      ELSE facts[t][s]]]
      /\ ledger' = [l \in Ledgers |-> IF l \in rows
                        THEN [ledger[l] EXCEPT !.status = newStatus[l]] ELSE ledger[l]]
  BY <1>2, <1>4, <1>5, <1>6 DEF Promote, Kept
<1>8. \A t \in Facts, s \in OnboardingRuns : newFacts[t][s] \in SnapshotStatus
  <2>1. ASSUME NEW t \in Facts, NEW s \in OnboardingRuns
        PROVE  newFacts[t][s] \in SnapshotStatus
    <3>1. CASE s = r
      BY <1>4, <3>1 DEF SupersedeFacts, SnapshotStatus
    <3>2. CASE s # r /\ read.facts[t][s] = "approved"
      BY <1>4, <3>2 DEF SupersedeFacts, SnapshotStatus
    <3>3. CASE s # r /\ read.facts[t][s] # "approved"
      BY <1>3, <1>4, <3>3 DEF SupersedeFacts
    <3>4. QED
      BY <3>1, <3>2, <3>3
  <2>2. QED
    BY <2>1
<1>9. facts' \in [Facts -> [OnboardingRuns -> SnapshotStatus]]
  BY <1>1, <1>7, <1>8
<1>10. ASSUME NEW l \in rows
       PROVE  /\ l \in 1..Len(was) /\ l \in Ledgers /\ ledger[l].status # "none"
              /\ newStatus[l] \in {"approved", "superseded"}
              /\ newStatus[l] = "approved" => Reviewed(ledger[l].claims)
  <2>1. l \in 1..Len(was) /\ newStatus[l] # was[l].status
    BY <1>2, <1>6
  <2>2. l \in Ledgers
    BY <1>1, <1>2, <2>1 DEF Behind
  <2>3. CASE l \in RowsOf(was, r)
    <3>1. newStatus[l] = "approved"
      BY <1>2, <1>5, <2>1, <2>3 DEF SupersedeLedgers
    <3>2. Reviewed(was[l].claims)
      BY <1>2, <1>7, <2>3 DEF Valid, Reviewed
    <3>3. Alike(was[l], ledger[l])
      BY <1>2, <2>1 DEF Behind
    <3>4. Reviewed(ledger[l].claims)
      BY <3>2, <3>3 DEF Alike, Reviewed
    <3>5. QED
      BY <1>7, <2>1, <2>2, <3>1, <3>4 DEF Kept
  <2>4. CASE l \notin RowsOf(was, r)
    <3>1. newStatus[l] = IF l \in ApprovedOf(was) \ RowsOf(was, r) THEN "superseded"
                         ELSE was[l].status
      BY <1>2, <1>5, <2>1, <2>4 DEF SupersedeLedgers
    <3>2. newStatus[l] = "superseded"
      BY <2>1, <3>1
    <3>3. QED
      BY <1>7, <2>1, <2>2, <3>2 DEF Kept
  <2>5. QED
    BY <2>3, <2>4
<1>11. ASSUME NEW l \in Ledgers
       PROVE  /\ ledger'[l] \in Row /\ Same(l)
              /\ ledger'[l].status # "none" => ledger[l].status # "none"
              /\ ledger'[l].status = "approved" /\ ledger[l].status # "approved" =>
                     Reviewed(ledger[l].claims)
  <2>1. PICK row \in Row : row = ledger[l]
    BY <1>1
  <2>2. CASE l \in rows
    <3>1. PICK status \in {"approved", "superseded"} : status = newStatus[l]
      BY <1>10, <2>2
    <3>2. PICK new : new = [row EXCEPT !.status = status]
      OBVIOUS
    <3>3. /\ new \in Row /\ new.run = row.run /\ new.pid = row.pid
          /\ new.claims = row.claims /\ new.status = status
      BY <3>2 DEF Row, SnapshotStatus
    <3>4. ledger'[l] = new
      BY <1>7, <2>1, <2>2, <3>1, <3>2
    <3>5. row.status # "none" /\ (status = "approved" => Reviewed(row.claims))
      BY <1>10, <2>1, <2>2, <3>1
    <3>6. QED
      BY <2>1, <3>3, <3>4, <3>5 DEF Same
  <2>3. CASE l \notin rows
    <3>1. ledger'[l] = row
      BY <1>7, <2>1, <2>3
    <3>2. QED
      BY <2>1, <3>1 DEF Same
  <2>4. QED
    BY <2>2, <2>3
<1>12. ledger' \in [1..Len(ledger) -> Row]
  <2>1. ledger' = [l \in 1..Len(ledger) |-> ledger'[l]]
    BY <1>1, <1>7
  <2>2. QED
    BY <1>1, <1>11, <2>1
<1>13. ledger' \in Seq(Row) /\ Len(ledger') = Len(ledger)
  BY <1>1, <1>12, FunctionIsSeq
<1>14. Ledgers' = Ledgers
  BY <1>1, <1>13, LenProperties DEF Ledgers
<1>15. QED
  BY <1>9, <1>11, <1>13, <1>14

(* A promotion that nothing overtakes leaves nothing else approved.        *)
LEMMA PromoteInTime ==
    ASSUME ProfileInv, NEW r \in OnboardingRuns, Promote(Now, r)
    PROVE  Bundled'
<1>1. /\ ledger \in Seq(Row) /\ Ledgers = 1..Len(ledger) /\ ledger \in [1..Len(ledger) -> Row]
      /\ facts \in [Facts -> [OnboardingRuns -> SnapshotStatus]]
      /\ Now \in Snapshot /\ Now.facts = facts /\ Now.ledger = ledger
  BY LedgerTyped DEF ProfileInv
<1>2. PICK newFacts : newFacts = SupersedeFacts(facts, r)
  OBVIOUS
<1>3. PICK newStatus : newStatus = SupersedeLedgers(ledger, r)
  OBVIOUS
<1>4. PICK rows : rows = {l \in DOMAIN ledger : newStatus[l] # ledger[l].status}
  OBVIOUS
<1>5. /\ facts' = [t \in Facts |-> [s \in OnboardingRuns |->
                      IF newFacts[t][s] # facts[t][s] THEN newFacts[t][s] ELSE facts[t][s]]]
      /\ ledger' = [l \in Ledgers |-> IF l \in rows
                        THEN [ledger[l] EXCEPT !.status = newStatus[l]] ELSE ledger[l]]
  BY <1>1, <1>2, <1>3, <1>4 DEF Promote
<1>6. Behind(Now.ledger)
  BY <1>1, NowBehind
<1>7. Ledgers' = Ledgers /\ \A l \in Ledgers : Same(l)
  BY <1>1, <1>6, PromoteRows
<1>8. \A t \in Facts, s \in OnboardingRuns : facts'[t][s] = "approved" => s = r
  <2>1. ASSUME NEW t \in Facts, NEW s \in OnboardingRuns, s # r
        PROVE  facts'[t][s] # "approved"
    <3>1. facts'[t][s] = newFacts[t][s]
      BY <1>5
    <3>2. newFacts[t][s] = IF facts[t][s] = "approved" THEN "superseded" ELSE facts[t][s]
      BY <1>2, <2>1 DEF SupersedeFacts
    <3>3. QED
      BY <3>1, <3>2
  <2>2. QED
    BY <2>1
<1>9. ASSUME NEW l \in Ledgers, l \notin RowsOf(ledger, r)
      PROVE  ledger'[l].status # "approved"
  <2>1. PICK row \in Row : row = ledger[l]
    BY <1>1
  <2>2. newStatus[l] = IF row.status = "approved" THEN "superseded" ELSE row.status
    BY <1>3, <1>9, <2>1 DEF SupersedeLedgers, ApprovedOf, Ledgers
  <2>3. CASE l \in rows
    <3>1. PICK status : status = newStatus[l]
      OBVIOUS
    <3>2. ledger'[l] = [row EXCEPT !.status = status]
      BY <1>5, <2>1, <2>3, <3>1
    <3>3. ledger'[l].status = status
      BY <3>2 DEF Row
    <3>4. QED
      BY <2>2, <3>1, <3>3
  <2>4. CASE l \notin rows
    <3>1. ledger'[l] = row /\ newStatus[l] = row.status
      BY <1>4, <1>5, <2>1, <2>4 DEF Ledgers
    <3>2. QED
      BY <2>2, <3>1
  <2>5. QED
    BY <2>3, <2>4
<1>10. ApprovedLedgers' \subseteq RowsOf(ledger, r)
  BY <1>7, <1>9 DEF ApprovedLedgers, ApprovedOf, Ledgers
<1>11. /\ \A l \in RowsOf(ledger, r) : l \in Ledgers /\ ledger[l].run = r
                                      /\ ledger[l].status # "none"
       /\ r # NoRun
  BY ProfileSnapshotsAssumption DEF RowsOf, Ledgers
<1>12. \A l, m \in RowsOf(ledger, r) : l = m
  BY <1>11 DEF ProfileInv, RowPerRun
<1>13. OneLedger'
  BY <1>10, <1>12 DEF OneLedger
<1>14. FactsOfOneRun'
  BY <1>8 DEF FactsOfOneRun
<1>15. LedgerOfTheRun'
  BY <1>7, <1>8, <1>10, <1>11 DEF ProfileInv, LedgerOfTheRun, OwnIds, Same
<1>16. QED
  BY <1>13, <1>14, <1>15 DEF Bundled

LEMMA PromoteLeaves ==
    ASSUME ProfileInv, NEW read \in Snapshot, Behind(read.ledger),
           NEW r \in OnboardingRuns, Promote(read, r)
    PROVE  Leaves
<1>1. /\ ledger \in Seq(Row) /\ Ledgers = 1..Len(ledger) /\ Len(ledger) \in 0..MaxLedgers
      /\ MaxLedgers \in Nat
  BY LedgerTyped DEF ProfileInv
<1>2. /\ facts' \in [Facts -> [OnboardingRuns -> SnapshotStatus]]
      /\ ledger' \in Seq(Row) /\ Len(ledger') = Len(ledger) /\ Ledgers' = Ledgers
      /\ \A l \in Ledgers :
            /\ Same(l)
            /\ ledger'[l].status # "none" => ledger[l].status # "none"
            /\ ledger'[l].status = "approved" /\ ledger[l].status # "approved" =>
                   Reviewed(ledger[l].claims)
  BY PromoteRows
<1>3. Mark("promote", read) /\ UNCHANGED unfit
  BY DEF Promote
<1>4. /\ stale \subseteq stale' /\ stale' \subseteq {"promote", "claim", "replace", "open"}
      /\ "promote" \notin stale' => read = Now
  BY <1>3, Marked DEF ProfileInv
<1>5. Grown
  BY <1>1, <1>2, SameAlike DEF Grown
<1>6. RowPerRun' /\ OwnIds'
  BY <1>2 DEF ProfileInv, RowPerRun, OwnIds, Same
<1>7. AllReviewed'
  <2>1. ASSUME NEW l \in ApprovedLedgers' PROVE Reviewed(ledger'[l].claims)
    <3>1. l \in Ledgers /\ ledger'[l].status = "approved" /\ ledger'[l].claims = ledger[l].claims
      BY <1>2 DEF ApprovedLedgers, ApprovedOf, Ledgers, Same
    <3>2. CASE ledger[l].status = "approved"
      BY <3>1, <3>2 DEF ProfileInv, AllReviewed, ApprovedLedgers, ApprovedOf, Ledgers
    <3>3. CASE ledger[l].status # "approved"
      BY <1>2, <3>1, <3>3
    <3>4. QED
      BY <3>2, <3>3
  <2>2. QED
    BY <2>1 DEF AllReviewed
<1>8. InTime' => Bundled'
  <2>1. ASSUME InTime' PROVE Bundled'
    <3>1. "promote" \notin stale'
      BY <2>1 DEF InTime
    <3>2. Promote(Now, r)
      BY <1>4, <3>1
    <3>3. QED
      BY <3>2, PromoteInTime
  <2>2. QED
    BY <2>1
<1>9. LedgerKept
  BY <1>2 DEF LedgerKept, Same
<1>10. QED
  BY <1>2, <1>3, <1>4, <1>5, <1>6, <1>7, <1>8, <1>9 DEF Leaves


(* A claim of a candidate, confirmed in the JSON that was read.            *)
LEMMA CandidateClaimLeaves ==
    ASSUME ProfileInv, NEW read \in Snapshot, Behind(read.ledger),
           NEW r \in OnboardingRuns, NEW c \in Claims, ApproveCandidateClaim(read, r, c)
    PROVE  Leaves
<1>1. /\ ledger \in Seq(Row) /\ Ledgers = 1..Len(ledger) /\ Len(ledger) \in 0..MaxLedgers
      /\ ledger \in [1..Len(ledger) -> Row] /\ MaxLedgers \in Nat /\ Now.ledger = ledger
      /\ facts \in [Facts -> [OnboardingRuns -> SnapshotStatus]]
  BY LedgerTyped DEF ProfileInv
<1>2. PICK rows \in Seq(Row) :
          /\ rows = read.ledger /\ DOMAIN rows = 1..Len(rows) /\ Len(rows) \in Nat
          /\ \A l \in 1..Len(rows) : rows[l] \in Row
  BY ReadTyped
<1>3. PICK l : l = Max(Candidates(rows, r))
  OBVIOUS
<1>4. PICK was : was = rows[l].claims
  OBVIOUS
<1>5. PICK claims : claims = [was EXCEPT ![c].state = "approved"]
  OBVIOUS
<1>6. /\ Candidates(rows, r) # {} /\ was[c].state = "proposed"
      /\ ledger' = [ledger EXCEPT ![l].claims = claims]
      /\ Mark("claim", read) /\ UNCHANGED facts /\ UNCHANGED unfit
  BY <1>2, <1>3, <1>4, <1>5 DEF ApproveCandidateClaim
<1>7. l \in 1..Len(rows) /\ rows[l].status = "candidate"
  <2>1. Candidates(rows, r) \subseteq 0..Len(rows)
    BY <1>2 DEF Candidates, RowsOf
  <2>2. l \in Candidates(rows, r)
    BY <1>2, <1>3, <1>6, <2>1, MaxOfRows
  <2>3. QED
    BY <1>2, <2>2 DEF Candidates, RowsOf
<1>8. l \in Ledgers /\ Alike(rows[l], ledger[l])
  BY <1>1, <1>2, <1>7 DEF Behind
<1>9. PICK row \in Row : row = ledger[l]
  BY <1>1, <1>8
<1>10. was \in [Claims -> Claim] /\ row.claims \in [Claims -> Claim]
  BY <1>2, <1>4, <1>7, RowTyped
<1>11. /\ claims \in [Claims -> Claim]
       /\ \A d \in Claims : /\ claims[d].text = was[d].text
                            /\ claims[d].state = "review" <=> was[d].state = "review"
  <2>1. PICK claim : claim = [was[c] EXCEPT !.state = "approved"]
    OBVIOUS
  <2>2. claim \in Claim /\ claim.text = was[c].text /\ claim.state = "approved"
    BY <1>10, <2>1 DEF Claim
  <2>3. claims = [was EXCEPT ![c] = claim]
    BY <1>5, <2>1
  <2>4. QED
    BY <1>6, <1>10, <2>2, <2>3
<1>12. PICK new : new = [row EXCEPT !.claims = claims]
  OBVIOUS
<1>13. /\ new \in Row /\ new.run = row.run /\ new.pid = row.pid
       /\ new.status = row.status /\ new.claims = claims
  BY <1>11, <1>12 DEF Row
<1>14. ledger' = [ledger EXCEPT ![l] = new]
  BY <1>1, <1>6, <1>8, <1>9, <1>12
<1>15. Alike(row, new) /\ (Reviewed(row.claims) => Reviewed(new.claims))
  <2>1. \A d \in Claims : /\ claims[d].text = row.claims[d].text
                          /\ claims[d].state = "review" <=> row.claims[d].state = "review"
    BY <1>4, <1>8, <1>9, <1>11 DEF Alike
  <2>2. QED
    BY <1>13, <2>1 DEF Alike, Reviewed
<1>16. /\ ledger' \in [1..Len(ledger) -> Row] /\ ledger'[l] = new
       /\ \A m \in Ledgers : m # l => ledger'[m] = ledger[m]
  BY <1>1, <1>8, <1>13, <1>14
<1>17. ledger' \in Seq(Row) /\ Len(ledger') = Len(ledger)
  <2>1. PICK n : n = Len(ledger)
    OBVIOUS
  <2>2. PICK after : after = ledger'
    OBVIOUS
  <2>3. after \in [1..n -> Row]
    BY <1>16, <2>1, <2>2
  <2>4. after \in Seq(Row) /\ Len(after) = n
    BY <1>1, <2>1, <2>3, FunctionIsSeq
  <2>5. QED
    BY <2>1, <2>2, <2>4
<1>18. Ledgers' = Ledgers
  BY <1>1, <1>17, LenProperties DEF Ledgers
<1>19. \A m \in Ledgers :
           /\ ledger'[m].run = ledger[m].run /\ ledger'[m].pid = ledger[m].pid
           /\ ledger'[m].status = ledger[m].status /\ Alike(ledger[m], ledger'[m])
           /\ Reviewed(ledger[m].claims) => Reviewed(ledger'[m].claims)
  <2>1. ASSUME NEW m \in Ledgers, m # l
        PROVE  ledger'[m] = ledger[m] /\ Alike(ledger[m], ledger'[m])
    BY <1>16, <2>1 DEF Alike
  <2>2. QED
    BY <1>9, <1>13, <1>15, <1>16, <2>1
<1>20. ApprovedLedgers' = ApprovedLedgers
  BY <1>18, <1>19 DEF ApprovedLedgers, ApprovedOf, Ledgers
<1>21. Grown
  BY <1>1, <1>17, <1>19 DEF Grown
<1>22. RowPerRun' /\ OwnIds'
  BY <1>18, <1>19 DEF ProfileInv, RowPerRun, OwnIds
<1>23. \A m \in ApprovedLedgers : m \in Ledgers
  BY DEF ApprovedLedgers, ApprovedOf, Ledgers
<1>24. AllReviewed'
  BY <1>19, <1>20, <1>23 DEF ProfileInv, AllReviewed
<1>25. /\ stale \subseteq stale' /\ stale' \subseteq {"promote", "claim", "replace", "open"}
       /\ ("claim" \notin stale' => read = Now) /\ (InTime' => InTime)
  BY <1>6, Marked DEF ProfileInv
<1>26. Bundled => Bundled'
  <2>1. OneLedger => OneLedger'
    BY <1>20 DEF OneLedger
  <2>2. FactsOfOneRun => FactsOfOneRun'
    BY <1>6 DEF FactsOfOneRun
  <2>3. LedgerOfTheRun => LedgerOfTheRun'
    BY <1>6, <1>19, <1>20, <1>23 DEF LedgerOfTheRun
  <2>4. QED
    BY <2>1, <2>2, <2>3 DEF Bundled
<1>27. InTime' => Bundled'
  BY <1>25, <1>26 DEF ProfileInv
<1>28. LedgerKept
  <2>1. ASSUME NEW m \in Ledgers, ledger[m].status \in {"approved", "superseded"},
               "claim" \notin stale'
        PROVE  ledger'[m].claims = ledger[m].claims
    <3>1. rows = ledger
      BY <1>1, <1>2, <1>25, <2>1
    <3>2. m # l
      BY <1>7, <2>1, <3>1
    <3>3. QED
      BY <1>16, <2>1, <3>2
  <2>2. \A m \in Ledgers, d \in Claims : ledger'[m].claims[d].text = ledger[m].claims[d].text
    BY <1>19 DEF Alike
  <2>3. QED
    BY <2>1, <2>2 DEF LedgerKept
<1>29. QED
  BY <1>1, <1>6, <1>21, <1>22, <1>24, <1>25, <1>27, <1>28 DEF Leaves

(* A new row that replaces another.                                        *)
LEMMA ReplaceLeaves ==
    ASSUME ProfileInv, NEW read \in Snapshot, Behind(read.ledger),
           NEW l \in ApprovedOf(read.ledger), NEW pid \in ProfileIds,
           NEW claims \in [Claims -> Claim], pid[1] = read.ledger[l].pid[1],
           Reviewed(claims), Replace(read, l, pid, claims)
    PROVE  Leaves
<1>1. /\ ledger \in Seq(Row) /\ Ledgers = 1..Len(ledger) /\ Len(ledger) \in 0..MaxLedgers
      /\ ledger \in [1..Len(ledger) -> Row] /\ MaxLedgers \in Nat /\ Now.ledger = ledger
      /\ facts \in [Facts -> [OnboardingRuns -> SnapshotStatus]]
  BY LedgerTyped DEF ProfileInv
<1>2. PICK old : old = [ledger EXCEPT ![l].status = "superseded"]
  OBVIOUS
<1>3. PICK new : new = [run |-> NoRun, pid |-> pid, status |-> "approved", claims |-> claims]
  OBVIOUS
<1>4. PICK n : n = Len(ledger) + 1
  OBVIOUS
<1>5. /\ Len(ledger) < MaxLedgers /\ Kept({l}) /\ ledger' = Append(old, new)
      /\ Mark("replace", read) /\ UNCHANGED facts /\ UNCHANGED unfit
  BY <1>2, <1>3 DEF Replace
<1>6. l \in Ledgers /\ ledger[l].status # "none"
  <2>1. l \in 1..Len(read.ledger)
    BY ReadTyped DEF ApprovedOf
  <2>2. Len(read.ledger) <= Len(ledger) /\ Len(read.ledger) \in Nat
    BY ReadTyped DEF Behind
  <2>3. QED
    BY <1>1, <1>5, <2>1, <2>2 DEF Kept
<1>7. /\ new \in Row /\ new.run = NoRun /\ new.pid = pid
      /\ new.status = "approved" /\ new.claims = claims
  BY <1>3 DEF Row, SnapshotStatus
<1>8. /\ old \in [1..Len(ledger) -> Row]
      /\ \A m \in Ledgers : /\ old[m].run = ledger[m].run /\ old[m].pid = ledger[m].pid
                            /\ old[m].claims = ledger[m].claims
                            /\ m # l => old[m].status = ledger[m].status
      /\ old[l].status = "superseded"
  <2>1. PICK row \in Row : row = ledger[l]
    BY <1>1, <1>6
  <2>2. PICK after : after = [row EXCEPT !.status = "superseded"]
    OBVIOUS
  <2>3. /\ after \in Row /\ after.run = row.run /\ after.pid = row.pid
        /\ after.claims = row.claims /\ after.status = "superseded"
    BY <2>2 DEF Row, SnapshotStatus
  <2>4. old = [ledger EXCEPT ![l] = after]
    BY <1>1, <1>2, <1>6, <2>1, <2>2
  <2>5. /\ old \in [1..Len(ledger) -> Row] /\ old[l] = after
        /\ \A m \in Ledgers : m # l => old[m] = ledger[m]
    BY <1>1, <1>6, <2>3, <2>4
  <2>6. QED
    BY <2>1, <2>3, <2>5
<1>9. old \in Seq(Row) /\ Len(old) = Len(ledger)
  BY <1>1, <1>8, FunctionIsSeq
<1>10. /\ ledger' \in Seq(Row) /\ Len(ledger') = n
       /\ \A m \in Ledgers : ledger'[m] = old[m]
       /\ ledger'[n] = new
  BY <1>1, <1>4, <1>5, <1>7, <1>9, AppendProperties
<1>11. Ledgers' = Ledgers \cup {n} /\ n \notin Ledgers
  <2>1. Ledgers' = 1..n
    BY <1>10, LenProperties DEF Ledgers
  <2>2. QED
    BY <1>1, <1>4, <2>1
<1>12. \A m \in Ledgers : /\ Same(m) /\ (m # l => ledger'[m].status = ledger[m].status)
                          /\ ledger'[m].status # "none" => ledger[m].status # "none"
  BY <1>6, <1>8, <1>10 DEF Same
<1>13. ledger'[l].status = "superseded"
  BY <1>6, <1>8, <1>10
<1>14. Grown
  <2>1. /\ ledger' \in Seq(Row) /\ Len(ledger) <= Len(ledger')
        /\ Len(ledger') <= MaxLedgers
    BY <1>1, <1>4, <1>5, <1>10
  <2>2. \A m \in Ledgers : Alike(ledger[m], ledger'[m])
    BY <1>12, SameAlike
  <2>3. QED
    BY <2>1, <2>2 DEF Grown
<1>15. RowPerRun'
  <2>1. \A m \in Ledgers : ledger'[m].run = ledger[m].run
    BY <1>12 DEF Same
  <2>2. QED
    BY <1>7, <1>10, <1>11, <1>12, <2>1 DEF ProfileInv, RowPerRun
<1>16. OwnIds'
  BY <1>7, <1>10, <1>11, <1>12 DEF ProfileInv, OwnIds, Same
<1>17. \A m \in ApprovedLedgers' : m = n \/ (m \in ApprovedLedgers /\ m # l)
  BY <1>11, <1>12, <1>13 DEF ApprovedLedgers, ApprovedOf, Ledgers
<1>18. AllReviewed'
  <2>1. ASSUME NEW m \in ApprovedLedgers' PROVE Reviewed(ledger'[m].claims)
    <3>1. CASE m = n
      BY <1>7, <1>10, <3>1
    <3>2. CASE m \in ApprovedLedgers
      <4>1. m \in Ledgers /\ Reviewed(ledger[m].claims)
        BY <3>2 DEF ProfileInv, AllReviewed, ApprovedLedgers, ApprovedOf, Ledgers
      <4>2. QED
        BY <1>12, <4>1 DEF Same
    <3>3. QED
      BY <1>17, <3>1, <3>2
  <2>2. QED
    BY <2>1 DEF AllReviewed
<1>19. /\ stale \subseteq stale' /\ stale' \subseteq {"promote", "claim", "replace", "open"}
       /\ ("replace" \notin stale' => read = Now) /\ (InTime' => InTime)
  BY <1>5, Marked DEF ProfileInv
<1>20. InTime' => Bundled'
  <2>1. ASSUME InTime' PROVE Bundled'
    <3>1. "replace" \notin stale' /\ Bundled
      BY <1>19, <2>1 DEF InTime, ProfileInv
    <3>2. read.ledger = ledger
      BY <1>1, <1>19, <3>1
    <3>3. l \in ApprovedLedgers /\ pid[1] = ledger[l].pid[1]
      BY <3>2 DEF ApprovedLedgers
    <3>4. \A m \in ApprovedLedgers' : m = n
      BY <1>17, <3>1, <3>3 DEF Bundled, OneLedger
    <3>5. OneLedger'
      BY <3>4 DEF OneLedger
    <3>6. FactsOfOneRun'
      BY <1>5, <3>1 DEF Bundled, FactsOfOneRun
    <3>7. LedgerOfTheRun'
      BY <1>5, <1>7, <1>10, <3>1, <3>3, <3>4 DEF Bundled, LedgerOfTheRun
    <3>8. QED
      BY <3>5, <3>6, <3>7 DEF Bundled
  <2>2. QED
    BY <2>1
<1>21. LedgerKept
  BY <1>12 DEF LedgerKept, Same
<1>22. QED
  BY <1>1, <1>5, <1>14, <1>15, <1>16, <1>18, <1>19, <1>20, <1>21 DEF Leaves



(* What a request has read of an approved row, and one claim more of it.   *)
LEMMA ApprovedRead ==
    ASSUME NEW read \in Snapshot, Behind(read.ledger), NEW l \in ApprovedOf(read.ledger)
    PROVE  /\ read.ledger[l].pid \in ProfileIds
           /\ read.ledger[l].claims \in [Claims -> Claim]
           /\ Reviewed(read.ledger[l].claims)
<1>1. l \in 1..Len(read.ledger) /\ read.ledger[l] \in Row /\ read.ledger[l].status = "approved"
  BY ReadTyped DEF ApprovedOf
<1>2. Reviewed(read.ledger[l].claims)
  BY <1>1 DEF Behind
<1>3. QED
  BY <1>1, <1>2, RowTyped

LEMMA OneMoreClaim ==
    ASSUME NEW claims \in [Claims -> Claim], Reviewed(claims), NEW c \in Claims,
           NEW claim \in Claim, claim.state = "approved"
    PROVE  /\ [claims EXCEPT ![c] = claim] \in [Claims -> Claim]
           /\ Reviewed([claims EXCEPT ![c] = claim])
BY DEF Reviewed

LEMMA ProfileClaimLeaves ==
    ASSUME ProfileInv, NEW read \in Snapshot, Behind(read.ledger),
           NEW c \in Claims, ApproveProfileClaim(read, c)
    PROVE  Leaves
<1>1. PICK l : l = Viewed(read.ledger)
  OBVIOUS
<1>2. l \in ApprovedOf(read.ledger)
  BY <1>1, ReadTyped, NewestApprovedOf DEF ApproveProfileClaim
<1>3. PICK row : row = read.ledger[l]
  OBVIOUS
<1>4. row.pid \in ProfileIds /\ row.claims \in [Claims -> Claim] /\ Reviewed(row.claims)
  BY <1>2, <1>3, ApprovedRead
<1>5. PICK claim : claim = [row.claims[c] EXCEPT !.state = "approved"]
  OBVIOUS
<1>6. claim \in Claim /\ claim.state = "approved"
  BY <1>4, <1>5 DEF Claim
<1>7. PICK claims : claims = [row.claims EXCEPT ![c] = claim]
  OBVIOUS
<1>8. claims \in [Claims -> Claim] /\ Reviewed(claims)
  BY <1>4, <1>6, <1>7, OneMoreClaim
<1>9. claims = [row.claims EXCEPT ![c].state = "approved"]
  BY <1>4, <1>5, <1>7
<1>10. Replace(read, l, row.pid, claims)
  BY <1>1, <1>3, <1>9 DEF ApproveProfileClaim
<1>11. QED
  BY <1>2, <1>3, <1>4, <1>8, <1>10, ReplaceLeaves

LEMMA ProposalLeaves ==
    ASSUME ProfileInv, NEW read \in Snapshot, Behind(read.ledger),
           NEW c \in Claims, NEW text \in Wordings, ApproveProposal(read, c, text)
    PROVE  Leaves
<1>1. PICK l : l = Newest(read.ledger)
  OBVIOUS
<1>2. l \in ApprovedOf(read.ledger)
  BY <1>1, ReadTyped, NewestApprovedOf DEF ApproveProposal
<1>3. PICK row : row = read.ledger[l]
  OBVIOUS
<1>4. row.pid \in ProfileIds /\ row.claims \in [Claims -> Claim] /\ Reviewed(row.claims)
  BY <1>2, <1>3, ApprovedRead
<1>5. PICK claim : claim = [text |-> text, state |-> "approved"]
  OBVIOUS
<1>6. claim \in Claim /\ claim.state = "approved"
  BY <1>5 DEF Claim
<1>7. PICK claims : claims = [row.claims EXCEPT ![c] = claim]
  OBVIOUS
<1>8. claims \in [Claims -> Claim] /\ Reviewed(claims)
  BY <1>4, <1>6, <1>7, OneMoreClaim
<1>9. PICK pid : pid = <<row.pid[1], Len(ledger) + 1>>
  OBVIOUS
<1>10. Replace(read, l, pid, claims)
  BY <1>1, <1>3, <1>5, <1>7, <1>9 DEF ApproveProposal
<1>11. Len(ledger) \in Nat /\ MaxLedgers \in Nat /\ Len(ledger) < MaxLedgers
  BY <1>10, LedgerTyped DEF ProfileInv, Replace
<1>12. Len(ledger) + 1 \in 0..MaxLedgers
  BY <1>11
<1>13. row.pid[1] \in OnboardingRuns
  BY <1>4 DEF ProfileIds
<1>14. pid \in ProfileIds /\ pid[1] = row.pid[1]
  BY <1>9, <1>12, <1>13 DEF ProfileIds
<1>15. QED
  BY <1>2, <1>3, <1>8, <1>10, <1>14, ReplaceLeaves

LEMMA RequestLeaves ==
    ASSUME ProfileInv, NEW read \in {Now, late}, ProfileRequest(read)
    PROVE  Leaves
<1>1. read \in Snapshot /\ Behind(read.ledger)
  BY LedgerTyped, NowBehind DEF ProfileInv
<1>2. QED
  BY <1>1, PromoteLeaves, CandidateClaimLeaves, ProfileClaimLeaves DEF ProfileRequest

(* What every change of the approved facts keeps.                          *)
LEMMA StateKeeps ==
    ASSUME ProfileTyped, Grown, RowPerRun', OwnIds', AllReviewed', OnRecord',
           facts' \in [Facts -> [OnboardingRuns -> SnapshotStatus]],
           unfit' \subseteq OnboardingRuns,
           late' \in Snapshot, Behind(late.ledger)',
           said' \subseteq ProfileIds \X Claims \X Wordings,
           stale' \subseteq {"promote", "claim", "replace", "open"},
           spans' \in 0..MaxSpans, InTime' => Bundled'
    PROVE  ProfileInv'
<1>1. PICK now : now = [facts |-> facts', unfit |-> unfit', ledger |-> ledger']
  OBVIOUS
<1>2. now \in Snapshot
  BY <1>1 DEF Grown, Snapshot
<1>3. Now' = now
  BY <1>1 DEF Now
<1>4. ProfileTypeOK'
  BY <1>2, <1>3 DEF ProfileTypeOK
<1>5. Len(ledger') <= MaxLedgers
  BY DEF Grown
<1>6. QED
  BY <1>4, <1>5 DEF ProfileInv, ProfileTyped

LEMMA RequestKeeps ==
    ASSUME ProfileInv, Leaves, Recorded, late' \in {late, Unread}
    PROVE  /\ ProfileInv' /\ said \subseteq said' /\ stale \subseteq stale'
           /\ Len(ledger) <= Len(ledger') /\ LedgerKept
<1>1. /\ said' = said \cup Record(ledger') /\ spans' = spans
      /\ said \subseteq ProfileIds \X Claims \X Wordings /\ spans \in 0..MaxSpans
      /\ late \in Snapshot /\ Behind(late.ledger) /\ unfit \subseteq OnboardingRuns
  BY LedgerTyped DEF Recorded, ProfileInv, ProfileTyped, ProfileTypeOK
<1>2. PICK rows \in Seq(Row) : rows = ledger'
  BY DEF Leaves, Grown
<1>3. Record(rows) \subseteq ProfileIds \X Claims \X Wordings
  BY RecordTyped
<1>4. said' \subseteq ProfileIds \X Claims \X Wordings /\ OnRecord'
  BY <1>1, <1>2, <1>3 DEF OnRecord
<1>5. late' \in Snapshot
  BY <1>1, UnreadTyped
<1>6. PICK then : then = late'.ledger
  OBVIOUS
<1>7. Behind(then)
  <2>1. CASE late' = late
    BY <1>1, <1>6, <2>1
  <2>2. CASE late' = Unread
    <3>1. then = <<>> /\ then \in Seq(Row) /\ Len(then) = 0
      BY <1>6, <2>2, UnreadTyped
    <3>2. Len(ledger) \in Nat
      BY LedgerTyped DEF ProfileInv
    <3>3. QED
      BY <3>1, <3>2 DEF Behind
  <2>3. QED
    BY <2>1, <2>2
<1>8. Behind(then)'
  BY <1>7, BehindGrown DEF ProfileInv, Leaves
<1>9. Behind(late.ledger)'
  BY <1>6, <1>8 DEF Behind
<1>10. ProfileInv'
  BY <1>1, <1>4, <1>5, <1>9, StateKeeps DEF ProfileInv, Leaves
<1>11. QED
  BY <1>1, <1>10 DEF Leaves, Grown

(* An import of a run deletes its rows and adds a candidate.               *)
LEMMA ImportRows ==
    ASSUME ProfileTyped, NEW r \in OnboardingRuns, ImportProfile(r)
    PROVE  /\ ledger' \in Seq(Row) /\ Len(ledger') = Len(ledger) + 1
           /\ Len(ledger') <= MaxLedgers
           /\ Ledgers' = Ledgers \cup {Len(ledger) + 1} /\ Len(ledger) + 1 \notin Ledgers
           /\ \A m \in Ledgers : Same(m)
                  /\ ledger'[m].status = IF ledger[m].run = r THEN "none" ELSE ledger[m].status
           /\ ledger'[Len(ledger) + 1].run = r /\ ledger'[Len(ledger) + 1].pid = <<r, 0>>
           /\ ledger'[Len(ledger) + 1].status = "candidate"
           /\ facts' \in [Facts -> [OnboardingRuns -> SnapshotStatus]]
           /\ unfit' \subseteq OnboardingRuns
           /\ \A t \in Facts, s \in OnboardingRuns :
                  facts'[t][s] = "approved" => s # r /\ facts[t][s] = "approved"
<1>1. PICK o \in Outputs :
          /\ ledger' = Append(Cleared(RowsOf(ledger, r)),
                              [run |-> r, pid |-> <<r, 0>>, status |-> "candidate",
                               claims |-> o.claims])
          /\ facts' = [t \in Facts |-> [facts[t] EXCEPT
                          ![r] = IF t \in o.missing THEN "none" ELSE "candidate"]]
          /\ unfit' = IF o.fit THEN unfit \ {r} ELSE unfit \cup {r}
  BY DEF ImportProfile
<1>2. PICK old : old = Cleared(RowsOf(ledger, r))
  OBVIOUS
<1>3. PICK new : new = [run |-> r, pid |-> <<r, 0>>, status |-> "candidate", claims |-> o.claims]
  OBVIOUS
<1>4. /\ ledger \in Seq(Row) /\ Ledgers = 1..Len(ledger) /\ Len(ledger) \in 0..MaxLedgers
      /\ Len(ledger) < MaxLedgers /\ MaxLedgers \in Nat
      /\ ledger \in [1..Len(ledger) -> Row]
      /\ facts \in [Facts -> [OnboardingRuns -> SnapshotStatus]]
      /\ unfit \subseteq OnboardingRuns
  BY LedgerTyped DEF ImportProfile
<1>5. new \in Row
  BY <1>3, ProfileSnapshotsAssumption DEF Row, SnapshotStatus, ProfileIds, Output
<1>6. ASSUME NEW m \in Ledgers
      PROVE  /\ old[m] \in Row /\ old[m].run = ledger[m].run
             /\ old[m].pid = ledger[m].pid /\ old[m].claims = ledger[m].claims
             /\ old[m].status = IF ledger[m].run = r THEN "none" ELSE ledger[m].status
  <2>1. ledger[m] \in Row
    BY <1>4
  <2>2. CASE m \in RowsOf(ledger, r)
    <3>1. old[m] = [ledger[m] EXCEPT !.status = "none"]
      BY <1>2, <2>2 DEF Cleared
    <3>2. ledger[m].run = r
      BY <2>2 DEF RowsOf
    <3>3. QED
      BY <2>1, <3>1, <3>2 DEF Row, SnapshotStatus
  <2>3. CASE m \notin RowsOf(ledger, r)
    <3>1. old[m] = ledger[m]
      BY <1>2, <2>3 DEF Cleared
    <3>2. ledger[m].run = r => ledger[m].status = "none"
      BY <2>3 DEF RowsOf, Ledgers
    <3>3. QED
      BY <2>1, <3>1, <3>2
  <2>4. QED
    BY <2>2, <2>3
<1>7. old \in [1..Len(ledger) -> Row]
  <2>1. old = [l \in 1..Len(ledger) |-> old[l]]
    BY <1>2, <1>4 DEF Cleared
  <2>2. QED
    BY <1>4, <1>6, <2>1
<1>8. old \in Seq(Row) /\ Len(old) = Len(ledger)
  BY <1>4, <1>7, FunctionIsSeq
<1>9. /\ Append(old, new) \in Seq(Row) /\ Len(Append(old, new)) = Len(ledger) + 1
      /\ \A m \in Ledgers : Append(old, new)[m] = old[m]
      /\ Append(old, new)[Len(ledger) + 1] = new
  BY <1>4, <1>5, <1>8, AppendProperties
<1>10. ledger' = Append(old, new)
  BY <1>1, <1>2, <1>3
<1>11. Ledgers' = Ledgers \cup {Len(ledger) + 1} /\ Len(ledger) + 1 \notin Ledgers
  BY <1>4, <1>9, <1>10, LenProperties DEF Ledgers
<1>12. /\ facts' \in [Facts -> [OnboardingRuns -> SnapshotStatus]]
       /\ \A t \in Facts, s \in OnboardingRuns :
              facts'[t][s] = "approved" => s # r /\ facts[t][s] = "approved"
  <2>1. ASSUME NEW t \in Facts
        PROVE  /\ facts'[t] \in [OnboardingRuns -> SnapshotStatus]
               /\ \A s \in OnboardingRuns :
                      facts'[t][s] = "approved" => s # r /\ facts[t][s] = "approved"
    <3>1. PICK status : status = IF t \in o.missing THEN "none" ELSE "candidate"
      OBVIOUS
    <3>2. status \in SnapshotStatus /\ status # "approved"
      BY <3>1 DEF SnapshotStatus
    <3>3. facts'[t] = [facts[t] EXCEPT ![r] = status]
      BY <1>1, <3>1
    <3>4. QED
      BY <1>4, <3>2, <3>3
  <2>2. facts' = [t \in Facts |-> facts'[t]]
    BY <1>1
  <2>3. QED
    BY <2>1, <2>2
<1>13. unfit' \subseteq OnboardingRuns
  BY <1>1, <1>4
<1>14. \A m \in Ledgers : Same(m)
           /\ ledger'[m].status = IF ledger[m].run = r THEN "none" ELSE ledger[m].status
  BY <1>6, <1>9, <1>10 DEF Same
<1>15. /\ new.run = r /\ new.pid = <<r, 0>> /\ new.status = "candidate"
       /\ Len(ledger') = Len(ledger) + 1 /\ ledger'[Len(ledger) + 1] = new
  BY <1>3, <1>9, <1>10
<1>16. ledger' \in Seq(Row) /\ Len(ledger') <= MaxLedgers
  BY <1>4, <1>9, <1>10
<1>17. QED
  BY <1>11, <1>12, <1>13, <1>14, <1>15, <1>16

LEMMA ImportKeeps ==
    ASSUME ProfileInv, NEW r \in OnboardingRuns, ImportProfile(r)
    PROVE  /\ ProfileInv' /\ said \subseteq said' /\ stale \subseteq stale'
           /\ Len(ledger) <= Len(ledger') /\ LedgerKept
<1>1. PICK n : n = Len(ledger) + 1
  OBVIOUS
<1>2. /\ ledger' \in Seq(Row) /\ Len(ledger') = n /\ Len(ledger') <= MaxLedgers
      /\ Ledgers' = Ledgers \cup {n} /\ n \notin Ledgers
      /\ \A m \in Ledgers : Same(m)
             /\ ledger'[m].status = IF ledger[m].run = r THEN "none" ELSE ledger[m].status
      /\ ledger'[n].run = r /\ ledger'[n].pid = <<r, 0>> /\ ledger'[n].status = "candidate"
      /\ facts' \in [Facts -> [OnboardingRuns -> SnapshotStatus]]
      /\ unfit' \subseteq OnboardingRuns
      /\ \A t \in Facts, s \in OnboardingRuns :
             facts'[t][s] = "approved" => s # r /\ facts[t][s] = "approved"
  BY <1>1, ImportRows DEF ProfileInv
<1>3. said' = said /\ late' = late /\ stale' = stale /\ spans' = spans
  BY DEF ImportProfile
<1>4. Len(ledger) \in Nat
  BY LedgerTyped DEF ProfileInv
<1>5. Grown
  <2>1. Len(ledger) <= Len(ledger')
    BY <1>1, <1>2, <1>4
  <2>2. \A m \in Ledgers : Alike(ledger[m], ledger'[m])
    BY <1>2, SameAlike
  <2>3. QED
    BY <1>2, <2>1, <2>2 DEF Grown
<1>6. \A m \in ApprovedLedgers' : m \in ApprovedLedgers /\ m \in Ledgers /\ Same(m)
  BY <1>2 DEF ApprovedLedgers, ApprovedOf, Ledgers
<1>7. RowPerRun'
  BY <1>2 DEF ProfileInv, RowPerRun, Same
<1>8. OwnIds'
  BY <1>2 DEF ProfileInv, OwnIds, Same
<1>9. AllReviewed'
  BY <1>6 DEF ProfileInv, AllReviewed, Same
<1>10. OnRecord'
  <2>1. \A m \in ApprovedLedgers' : Says(ledger'[m]) = Says(ledger[m])
    BY <1>6 DEF Same, Says
  <2>2. Record(ledger') \subseteq Record(ledger)
    BY <1>6, <2>1 DEF Record, ApprovedLedgers
  <2>3. QED
    BY <1>3, <2>2 DEF ProfileInv, OnRecord
<1>11. Bundled => Bundled'
  <2>1. OneLedger => OneLedger'
    BY <1>6 DEF OneLedger
  <2>2. FactsOfOneRun => FactsOfOneRun'
    BY <1>2 DEF FactsOfOneRun
  <2>3. LedgerOfTheRun => LedgerOfTheRun'
    BY <1>2, <1>6 DEF LedgerOfTheRun, Same
  <2>4. QED
    BY <2>1, <2>2, <2>3 DEF Bundled
<1>12. InTime' => Bundled'
  BY <1>3, <1>11 DEF ProfileInv, InTime
<1>13. PICK then : then = late.ledger
  OBVIOUS
<1>14. Behind(then)'
  BY <1>5, <1>13, BehindGrown DEF ProfileInv
<1>15. Behind(late.ledger)'
  BY <1>3, <1>13, <1>14 DEF Behind
<1>16. /\ late' \in Snapshot /\ said' \subseteq ProfileIds \X Claims \X Wordings
       /\ stale' \subseteq {"promote", "claim", "replace", "open"} /\ spans' \in 0..MaxSpans
  BY <1>3 DEF ProfileInv, ProfileTyped, ProfileTypeOK
<1>17. ProfileInv'
  BY <1>2, <1>5, <1>7, <1>8, <1>9, <1>10, <1>12, <1>15, <1>16, StateKeeps DEF ProfileInv
<1>18. LedgerKept
  BY <1>2 DEF LedgerKept, Same
<1>19. QED
  BY <1>3, <1>5, <1>17, <1>18 DEF Grown

(* Steps that leave the facts alone.                                       *)
LEMMA ProfileStands ==
    ASSUME ProfileInv, UNCHANGED <<facts, unfit, ledger, said>>,
           late' \in {late, Now, Unread}, stale' \in {stale, stale \cup {"open"}},
           spans' \in 0..MaxSpans
    PROVE  /\ ProfileInv' /\ said \subseteq said' /\ stale \subseteq stale'
           /\ Len(ledger) <= Len(ledger') /\ LedgerKept
<1>1. /\ facts' = facts /\ unfit' = unfit /\ ledger' = ledger /\ said' = said
  OBVIOUS
<1>2. /\ ledger \in Seq(Row) /\ Len(ledger) \in 0..MaxLedgers /\ Ledgers = 1..Len(ledger)
      /\ MaxLedgers \in Nat /\ unfit \subseteq OnboardingRuns
      /\ facts \in [Facts -> [OnboardingRuns -> SnapshotStatus]]
      /\ Now \in Snapshot /\ late \in Snapshot /\ Now.ledger = ledger
  BY LedgerTyped DEF ProfileInv
<1>3. Grown
  <2>1. \A m \in Ledgers : Alike(ledger[m], ledger'[m])
    BY <1>1 DEF Alike
  <2>2. QED
    BY <1>1, <1>2, <2>1 DEF Grown
<1>4. RowPerRun' /\ OwnIds' /\ AllReviewed' /\ OnRecord'
  BY <1>1 DEF ProfileInv, RowPerRun, OwnIds, AllReviewed, OnRecord, Ledgers, ApprovedLedgers
<1>5. Bundled => Bundled'
  BY <1>1 DEF Bundled, OneLedger, FactsOfOneRun, LedgerOfTheRun, ApprovedLedgers
<1>6. InTime' => Bundled'
  BY <1>5 DEF ProfileInv, InTime
<1>7. late' \in Snapshot
  BY <1>2, UnreadTyped
<1>8. PICK then : then = late'.ledger
  OBVIOUS
<1>9. Behind(then)
  <2>1. CASE late' = late
    BY <1>8, <2>1 DEF ProfileInv
  <2>2. CASE late' = Now
    BY <1>2, <1>8, <2>2, NowBehind
  <2>3. CASE late' = Unread
    <3>1. then = <<>> /\ then \in Seq(Row) /\ Len(then) = 0
      BY <1>8, <2>3, UnreadTyped
    <3>2. QED
      BY <1>2, <3>1 DEF Behind
  <2>4. QED
    BY <2>1, <2>2, <2>3
<1>10. Behind(then)'
  BY <1>3, <1>9, BehindGrown DEF ProfileInv
<1>11. Behind(late.ledger)'
  BY <1>8, <1>10 DEF Behind
<1>12. /\ said' \subseteq ProfileIds \X Claims \X Wordings
       /\ stale' \subseteq {"promote", "claim", "replace", "open"}
  BY <1>1 DEF ProfileInv, ProfileTyped, ProfileTypeOK
<1>13. ProfileInv'
  BY <1>1, <1>2, <1>3, <1>4, <1>6, <1>7, <1>11, <1>12, StateKeeps DEF ProfileInv
<1>14. LedgerKept
  BY <1>1 DEF LedgerKept
<1>15. QED
  BY <1>1, <1>2, <1>13, <1>14

(* The steps of the model as the profile sees them, and all that the       *)
(* builder needs to know of them.                                          *)
ProfileStep ==
    \/ \E r \in OnboardingRuns : Import(r)
    \/ ProfileNext
    \/ ApproveAnyProposal

LEMMA ProfileStepKeeps ==
    ASSUME ProfileInv, ProfileStep
    PROVE  /\ ProfileInv' /\ said \subseteq said' /\ stale \subseteq stale'
           /\ Len(ledger) <= Len(ledger') /\ LedgerKept
<1>1. late \in Snapshot /\ Now \in Snapshot /\ Behind(late.ledger) /\ Behind(Now.ledger)
  BY LedgerTyped, NowBehind DEF ProfileInv
<1>2. CASE \E r \in OnboardingRuns : Import(r)
  BY <1>2, ImportKeeps DEF Import
<1>3. CASE ProfileRequest(Now) /\ Recorded /\ UNCHANGED late
  <2>1. Leaves
    BY <1>3, RequestLeaves
  <2>2. QED
    BY <1>3, <2>1, RequestKeeps
<1>4. CASE ProfileRequest(late) /\ Recorded /\ late' = Unread
  <2>1. Leaves
    BY <1>4, RequestLeaves
  <2>2. QED
    BY <1>4, <2>1, RequestKeeps
<1>5. CASE ReadEarly \/ Refuse
  <2>1. /\ UNCHANGED <<facts, unfit, ledger, said>> /\ late' \in {late, Now, Unread}
        /\ stale' = stale
    BY <1>5 DEF ReadEarly, Refuse
  <2>2. spans \in 0..MaxSpans /\ MaxSpans \in Nat
    BY ProfileSnapshotsAssumption DEF ProfileInv, ProfileTyped, ProfileTypeOK
  <2>3. spans' \in 0..MaxSpans
    BY <1>5, <2>2 DEF ReadEarly, Refuse
  <2>4. QED
    BY <2>1, <2>3, ProfileStands
<1>6. CASE ApproveAnyProposal
  <2>1. PICK c \in Claims, text \in Wordings, read \in {Now, late} :
            ApproveProposal(read, c, text) /\ late' \in {late, Unread}
    BY <1>6 DEF ApproveAnyProposal
  <2>2. Leaves /\ Recorded
    BY <1>1, <2>1, ProposalLeaves DEF ApproveProposal
  <2>3. QED
    BY <2>1, <2>2, RequestKeeps
<1>7. QED
  BY <1>2, <1>3, <1>4, <1>5, <1>6 DEF ProfileStep, ProfileNext

(* The other steps read the facts, and at most mark what was overtaken.    *)
Reads ==
    /\ UNCHANGED <<facts, unfit, ledger, said, late>>
    /\ stale' = stale \/ stale' = stale \cup {"open"}
    /\ spans' = spans \/ (spans < MaxSpans /\ spans' = spans + 1)

LEMMA NextParts == ASSUME [Next]_vars PROVE ProfileStep \/ Reads
<1>1. UNCHANGED profileVars => Reads
  BY DEF profileVars, Reads
<1>2. CASE (\E r \in OnboardingRuns : Import(r)) \/ ProfileNext \/ ApproveAnyProposal
  BY <1>2 DEF ProfileStep
<1>3. CASE EditAtOnce \/ EditCommits \/ EndMessage \/ Approve
  BY <1>1, <1>3 DEF EditAtOnce, EditCommits, EndMessage, Approve
<1>4. CASE OpeningReads \/ OpeningInserts \/ EditReads
  BY <1>4 DEF OpeningReads, OpeningInserts, EditReads, Reads
<1>5. CASE StartSession \/ \E d \in Docs : RestoreVersion(d)
  <2>1. CASE StartSession
    BY <1>1, <2>1 DEF StartSession, Open
  <2>2. CASE \E d \in Docs : RestoreVersion(d)
    BY <1>1, <2>2 DEF RestoreVersion, Reopen, Open
  <2>3. QED
    BY <1>5, <2>1, <2>2
<1>6. CASE \E s \in DOMAIN sessions : ResetSession(s)
  <2>1. PICK s \in DOMAIN sessions : ResetSession(s)
    BY <1>6
  <2>2. QED
    BY <1>1, <2>1 DEF ResetSession, Reopen, Open
<1>7. CASE \E s \in DOMAIN sessions : CloseSession(s) \/ BeginMessage(s)
  BY <1>1, <1>7 DEF CloseSession, BeginMessage, Reads
<1>8. CASE UNCHANGED vars
  BY <1>1, <1>8 DEF vars
<1>9. QED
  BY <1>2, <1>3, <1>4, <1>5, <1>6, <1>7, <1>8 DEF Next

LEMMA ReadsKeep ==
    ASSUME ProfileInv, Reads
    PROVE  /\ ProfileInv' /\ said \subseteq said' /\ stale \subseteq stale'
           /\ Len(ledger) <= Len(ledger') /\ LedgerKept
<1>1. spans \in 0..MaxSpans /\ MaxSpans \in Nat
  BY ProfileSnapshotsAssumption DEF ProfileInv, ProfileTyped, ProfileTypeOK
<1>2. spans' \in 0..MaxSpans
  BY <1>1 DEF Reads
<1>3. QED
  BY <1>2, ProfileStands DEF Reads

LEMMA ProfileNextInv ==
    ProfileInv /\ [Next]_vars => ProfileInv' /\ [LedgerKept]_ledger
BY NextParts, ProfileStepKeeps, ReadsKeep

LEMMA ProfileHolds == Spec => []ProfileInv
<1>1. Init => ProfileInv
  BY ProfileInitInv DEF Init
<1>2. QED
  BY <1>1, ProfileNextInv, PTL DEF Spec

(* LedgerImmutable: no import, promotion, approval of a claim or proposal  *)
(* of the builder rewords in place what a ledger said once it had been     *)
(* approved, whatever has overtaken it; and its claims do not change       *)
(* otherwise either, except by a confirmation of a candidate's claim that  *)
(* commits after a promotion of that candidate.                            *)
THEOREM LedgerStaysImmutable == Spec => LedgerImmutable
<1>1. ProfileInv /\ [Next]_vars => [LedgerKept]_ledger
  BY ProfileNextInv
<1>2. QED
  BY <1>1, ProfileHolds, PTL DEF Spec, LedgerImmutable, LedgerKept
-----------------------------------------------------------------------------

(* The builder.  Every block that needs no review and is not exempt has    *)
(* words on record, in documents and candidates.  Until a session is       *)
(* inserted beside an active one, an active session is the only one, over  *)
(* a candidate newer than every approved version, and a message or an edit *)
(* under way has read the document its session still has, if that is       *)
(* active.                                                                 *)
Single == "open" \notin stale

DocRow == [status : {"candidate", "approved"}, ver : 1..MaxDocuments, ledger : Nat,
           user : OnboardingRuns \cup {NoRun}, content : Content]
SessionStatus == {"active", "closed", "completed"}
SessionRow == [status : SessionStatus, base : Nat, cand : Content]

Worded(content) ==
    \A b \in Blocks :
        ~content.blocks[b].exempt /\ ~content.blocks[b].review =>
            <<content.pid, content.blocks[b].claim, content.blocks[b].text>> \in said

DocsInv ==
    /\ docs \in Seq(DocRow) /\ Len(docs) <= MaxDocuments
    /\ \A d \in 1..Len(docs) :
          /\ docs[d].ver = d /\ docs[d].ledger \in 1..Len(ledger)
          /\ Worded(docs[d].content)
          /\ docs[d].status = "approved" => \A b \in Blocks : ~docs[d].content.blocks[b].review

OneOpen ==
    /\ \A s, t \in 1..Len(sessions) :
          sessions[s].status = "active" /\ sessions[t].status = "active" => s = t
    /\ \A s \in 1..Len(sessions) : sessions[s].status = "active" =>
          /\ docs[sessions[s].cand.doc].status = "candidate"
          /\ \A d \in 1..Len(docs) : docs[d].status = "approved" => d < sessions[s].cand.doc

SessionsInv ==
    /\ sessions \in Seq(SessionRow) /\ Len(sessions) <= MaxSessions
    /\ \A s \in 1..Len(sessions) :
          /\ sessions[s].base \in 0..Len(docs) /\ sessions[s].cand.doc \in 1..Len(docs)
          /\ Worded(sessions[s].cand)
    /\ Single => OneOpen

Holds(p) ==
    /\ p \in Pending /\ p.sess \in 1..Len(sessions)
    /\ p.read \in Content /\ p.read.doc \in 1..Len(docs)
    /\ Single /\ sessions[p.sess].status = "active" =>
          p.read.doc = sessions[p.sess].cand.doc

Ready(new) ==
    /\ new \in Opening /\ new.base \in 0..Len(docs) /\ new.ledger \in 1..Len(ledger)
    /\ new.cand \in Content /\ Worded(new.cand)

PendingInv ==
    /\ msg = Nothing \/ Holds(msg)
    /\ edit = Nothing \/ (Holds(edit) /\ edit.cand \in Content
                          /\ edit.cand.doc = edit.read.doc)
    /\ opening = NoOpening \/ Ready(opening)

CvInv == ProfileInv /\ DocsInv /\ SessionsInv /\ PendingInv

(* What a step does to approved versions, and when it approves another.    *)
VersionsKept ==
    \A d \in 1..Len(docs) : docs[d].status = "approved" =>
        d \in 1..Len(docs') /\ docs'[d].status = "approved" /\ docs'[d].content = docs[d].content
NewestApproved ==
    \A d \in 1..Len(docs) :
        docs[d].status = "candidate" /\ docs'[d].status = "approved" /\ "open" \notin stale =>
            \A e \in 1..Len(docs) : docs[e].status = "approved" => docs[e].ver < docs[d].ver

LEMMA CvTyped ==
    ASSUME CvInv
    PROVE  /\ Len(docs) \in Nat /\ Docs = 1..Len(docs) /\ docs \in [1..Len(docs) -> DocRow]
           /\ Len(sessions) \in Nat /\ DOMAIN sessions = 1..Len(sessions)
           /\ sessions \in [1..Len(sessions) -> SessionRow]
           /\ {MaxDocuments, MaxSessions, MaxRevision} \subseteq Nat
           /\ MaxRevision >= 1
BY LenProperties, MasterCvAssumption DEF CvInv, DocsInv, SessionsInv, Docs

LEMMA CvInit == Init => CvInv
<1> SUFFICES ASSUME Init PROVE CvInv
  OBVIOUS
<1>1. ProfileInv
  BY ProfileInitInv DEF Init
<1>2. /\ docs = <<>> /\ sessions = <<>> /\ Len(<<>>) = 0
      /\ msg = Nothing /\ edit = Nothing /\ opening = NoOpening
  BY DEF Init
<1>3. <<>> \in Seq(DocRow) /\ <<>> \in Seq(SessionRow)
  OBVIOUS
<1>4. {MaxDocuments, MaxSessions} \subseteq Nat
  BY MasterCvAssumption
<1>5. DocsInv
  BY <1>2, <1>3, <1>4 DEF DocsInv
<1>6. SessionsInv
  BY <1>2, <1>3, <1>4 DEF SessionsInv, OneOpen
<1>7. PendingInv
  BY <1>2 DEF PendingInv
<1>8. QED
  BY <1>1, <1>5, <1>6, <1>7 DEF CvInv

(* Stands: all but what the requests under way hold.  Onward: what every   *)
(* step does to the facts.                                                 *)
Onward ==
    /\ ProfileInv' /\ said \subseteq said' /\ stale \subseteq stale'
    /\ Len(ledger) <= Len(ledger')
Stands ==
    /\ ProfileInv' /\ DocsInv' /\ SessionsInv' /\ VersionsKept /\ NewestApproved
    /\ \A p : Holds(p) => Holds(p)'
    /\ \A new : Ready(new) => Ready(new)'

LEMMA ReadsOnward ==
    ASSUME CvInv, Reads
    PROVE  Onward /\ UNCHANGED ledger /\ UNCHANGED said /\ UNCHANGED facts
BY ReadsKeep DEF CvInv, Onward, Reads

LEMMA SameReads == UNCHANGED profileVars => Reads /\ UNCHANGED stale /\ UNCHANGED spans
BY DEF profileVars, Reads

LEMMA LedgersTyped ==
    ASSUME CvInv, Onward
    PROVE  Len(ledger) \in Nat /\ Len(ledger') \in Nat /\ (Single' => Single)
<1>1. Len(ledger) \in Nat
  BY LedgerTyped DEF CvInv, ProfileInv
<1>2. ProfileTyped'
  BY DEF Onward, ProfileInv
<1>3. ledger' \in Seq(Row)
  BY <1>2 DEF ProfileTyped, ProfileTypeOK, Now, Snapshot
<1>4. Len(ledger') \in Nat
  BY <1>3, LenProperties
<1>5. QED
  BY <1>1, <1>4 DEF Onward, Single

(* Requests under way that wait or end.                                    *)
LEMMA PendingKeeps ==
    ASSUME CvInv, Stands, msg' \in {msg, Nothing}, edit' \in {edit, Nothing},
           opening' \in {opening, NoOpening}
    PROVE  CvInv' /\ VersionsKept /\ NewestApproved
<1>1. PICK m : m = msg
  OBVIOUS
<1>2. PICK e : e = edit
  OBVIOUS
<1>3. PICK o : o = opening
  OBVIOUS
<1>4. msg' = Nothing \/ Holds(msg)'
  <2>1. m = Nothing \/ Holds(m)'
    BY <1>1 DEF CvInv, PendingInv, Stands
  <2>2. msg' = m => (Holds(m)' => Holds(msg)')
    BY DEF Holds
  <2>3. QED
    BY <1>1, <2>1, <2>2
<1>5. edit' = Nothing \/ (Holds(edit)' /\ edit'.cand \in Content
                          /\ edit'.cand.doc = edit'.read.doc)
  <2>1. e = Nothing \/ (Holds(e)' /\ e.cand \in Content /\ e.cand.doc = e.read.doc)
    BY <1>2 DEF CvInv, PendingInv, Stands
  <2>2. edit' = e => (Holds(e)' => Holds(edit)')
    BY DEF Holds
  <2>3. QED
    BY <1>2, <2>1, <2>2
<1>6. opening' = NoOpening \/ Ready(opening)'
  <2>1. o = NoOpening \/ Ready(o)'
    BY <1>3 DEF CvInv, PendingInv, Stands
  <2>2. opening' = o => (Ready(o)' => Ready(opening)')
    BY DEF Ready
  <2>3. QED
    BY <1>3, <2>1, <2>2
<1>7. PendingInv'
  BY <1>4, <1>5, <1>6 DEF PendingInv
<1>8. QED
  BY <1>7 DEF CvInv, Stands

LEMMA HoldsKept ==
    ASSUME CvInv, Onward, Len(docs') \in Nat, Len(docs) <= Len(docs'),
           Len(sessions') \in Nat, Len(sessions) <= Len(sessions'),
           \A s \in 1..Len(sessions) : Single' /\ sessions'[s].status = "active" =>
               /\ sessions[s].status = "active"
               /\ sessions'[s].cand.doc = sessions[s].cand.doc
    PROVE  (\A p : Holds(p) => Holds(p)') /\ (\A new : Ready(new) => Ready(new)')
<1>1. /\ Len(docs) \in Nat /\ Len(sessions) \in Nat
      /\ Len(ledger) \in Nat /\ Len(ledger') \in Nat /\ (Single' => Single)
  BY CvTyped, LedgersTyped
<1>2. ASSUME NEW p, Holds(p) PROVE Holds(p)'
  <2>1. /\ p \in Pending /\ p.sess \in 1..Len(sessions)
        /\ p.read \in Content /\ p.read.doc \in 1..Len(docs)
    BY <1>2 DEF Holds
  <2>2. p.sess \in 1..Len(sessions') /\ p.read.doc \in 1..Len(docs')
    BY <1>1, <2>1
  <2>3. ASSUME Single', sessions'[p.sess].status = "active"
        PROVE  p.read.doc = sessions'[p.sess].cand.doc
    <3>1. /\ sessions[p.sess].status = "active"
          /\ sessions'[p.sess].cand.doc = sessions[p.sess].cand.doc
      BY <2>1, <2>3
    <3>2. QED
      BY <1>1, <1>2, <2>3, <3>1 DEF Holds
  <2>4. QED
    BY <2>1, <2>2, <2>3 DEF Holds
<1>3. ASSUME NEW new, Ready(new) PROVE Ready(new)'
  <2>1. /\ new \in Opening /\ new.base \in 0..Len(docs) /\ new.ledger \in 1..Len(ledger)
        /\ new.cand \in Content /\ Worded(new.cand)
    BY <1>3 DEF Ready
  <2>2. new.base \in 0..Len(docs')
    BY <1>1, <2>1
  <2>3. new.ledger \in 1..Len(ledger')
    BY <1>1, <2>1 DEF Onward
  <2>4. Worded(new.cand)'
    BY <2>1 DEF Worded, Onward
  <2>5. QED
    BY <2>1, <2>2, <2>3, <2>4 DEF Ready
<1>4. QED
  BY <1>2, <1>3


(* Sessions that are closed, and profiles that change, leave the builder   *)
(* as it is.                                                               *)
Closes ==
    /\ sessions' \in Seq(SessionRow) /\ Len(sessions') = Len(sessions)
    /\ \A s \in 1..Len(sessions) :
          /\ sessions'[s].base = sessions[s].base /\ sessions'[s].cand = sessions[s].cand
          /\ sessions'[s].status # sessions[s].status => sessions'[s].status # "active"

LEMMA ClosesStands ==
    ASSUME CvInv, Onward, Closes, UNCHANGED docs
    PROVE  Stands
<1>1. /\ Len(docs) \in Nat /\ Len(sessions) \in Nat /\ docs' = docs
      /\ Len(sessions') = Len(sessions)
  BY CvTyped DEF Closes
<1>2. /\ Len(ledger) \in Nat /\ Len(ledger') \in Nat /\ (Single' => Single)
      /\ Len(ledger) <= Len(ledger') /\ said \subseteq said'
  BY LedgersTyped DEF Onward
<1>3. DocsInv'
  <2>1. \A d \in 1..Len(docs) : Worded(docs[d].content)'
    BY <1>1, <1>2 DEF CvInv, DocsInv, Worded
  <2>2. QED
    BY <1>1, <1>2, <2>1 DEF CvInv, DocsInv
<1>4. OneOpen => OneOpen'
  BY <1>1 DEF OneOpen, Closes
<1>5. SessionsInv'
  <2>1. \A s \in 1..Len(sessions) : Worded(sessions[s].cand)'
    <3>1. \A s \in 1..Len(sessions) : sessions'[s].cand = sessions[s].cand
      BY DEF Closes
    <3>2. \A s \in 1..Len(sessions) : Worded(sessions[s].cand)
      BY DEF CvInv, SessionsInv
    <3>3. QED
      BY <1>2, <3>1, <3>2 DEF Worded
  <2>2. QED
    BY <1>1, <1>2, <1>4, <2>1 DEF CvInv, SessionsInv, Closes
<1>6. (\A p : Holds(p) => Holds(p)') /\ (\A new : Ready(new) => Ready(new)')
  <2>1. \A s \in 1..Len(sessions) : Single' /\ sessions'[s].status = "active" =>
            sessions[s].status = "active" /\ sessions'[s].cand.doc = sessions[s].cand.doc
    BY DEF Closes
  <2>2. QED
    BY <1>1, <2>1, HoldsKept
<1>7. VersionsKept /\ NewestApproved
  BY <1>1 DEF VersionsKept, NewestApproved
<1>8. QED
  BY <1>3, <1>5, <1>6, <1>7 DEF Stands, Onward

(* The ways to close sessions.                                             *)
LEMMA ClosedOne ==
    ASSUME CvInv, NEW s \in 1..Len(sessions),
           sessions' = [sessions EXCEPT ![s].status = "closed"]
    PROVE  Closes
<1>1. sessions \in [1..Len(sessions) -> SessionRow] /\ Len(sessions) \in Nat
  BY CvTyped
<1>2. /\ sessions' \in [1..Len(sessions) -> SessionRow]
      /\ \A t \in 1..Len(sessions) :
            /\ sessions'[t].base = sessions[t].base /\ sessions'[t].cand = sessions[t].cand
            /\ sessions'[t].status # sessions[t].status => sessions'[t].status = "closed"
  BY <1>1 DEF SessionRow, SessionStatus
<1>3. sessions' \in Seq(SessionRow) /\ Len(sessions') = Len(sessions)
  BY <1>1, <1>2, FunctionIsSeq
<1>4. QED
  BY <1>2, <1>3 DEF Closes

(* A status of each session that closes some of them.                      *)
ClosesOnly(status) ==
    /\ status \in [1..Len(sessions) -> SessionStatus]
    /\ \A s \in 1..Len(sessions) : status[s] \in {sessions[s].status, "closed"}
NoneActive(status) == \A s \in 1..Len(sessions) : status[s] # "active"

LEMMA ActiveAre ==
    ASSUME CvInv
    PROVE  /\ Active \subseteq 1..Len(sessions)
           /\ \A s \in 1..Len(sessions) : s \in Active <=> sessions[s].status = "active"
BY CvTyped DEF Active

LEMMA StatusesClosing ==
    ASSUME CvInv
    PROVE  /\ ClosesOnly(Statuses) /\ (Active = {} => NoneActive(Statuses))
           /\ \A s \in 1..Len(sessions) : Statuses[s] = sessions[s].status
           /\ \A s \in 1..Len(sessions) : \A status : ClosesOnly(status) =>
                 ClosesOnly(ClosedToo(status, s))
<1>1. sessions \in [1..Len(sessions) -> SessionRow] /\ DOMAIN sessions = 1..Len(sessions)
  BY CvTyped
<1>2. \A s \in 1..Len(sessions) : Statuses[s] = sessions[s].status
  BY <1>1 DEF Statuses
<1>3. ClosesOnly(Statuses)
  BY <1>1 DEF ClosesOnly, Statuses, SessionRow
<1>4. Active = {} => NoneActive(Statuses)
  BY <1>2, ActiveAre DEF NoneActive
<1>5. ASSUME NEW s \in 1..Len(sessions), NEW status, ClosesOnly(status)
      PROVE  ClosesOnly(ClosedToo(status, s))
  BY <1>5 DEF ClosesOnly, ClosedToo, SessionStatus
<1>6. QED
  BY <1>2, <1>3, <1>4, <1>5

LEMMA ClosingsClosing ==
    ASSUME CvInv, NEW status \in Closings
    PROVE  ClosesOnly(status) /\ (Single => NoneActive(status))
<1>1. CASE Active = {}
  BY <1>1, StatusesClosing DEF Closings
<1>2. CASE Active # {}
  <2>1. PICK s \in Active : status = ClosedToo(Statuses, s)
    BY <1>2 DEF Closings
  <2>2. s \in 1..Len(sessions) /\ sessions[s].status = "active"
    BY ActiveAre
  <2>3. ClosesOnly(status)
    BY <2>1, <2>2, StatusesClosing
  <2>4. ASSUME Single, NEW t \in 1..Len(sessions) PROVE status[t] # "active"
    <3>1. Statuses \in [1..Len(sessions) -> SessionStatus]
      BY StatusesClosing DEF ClosesOnly
    <3>2. CASE t = s
      BY <2>1, <2>2, <3>1, <3>2 DEF ClosedToo
    <3>3. CASE t # s
      <4>1. sessions[t].status # "active"
        BY <2>2, <2>4, <3>3 DEF CvInv, SessionsInv, OneOpen
      <4>2. status[t] = sessions[t].status
        BY <2>1, <3>1, <3>3, StatusesClosing DEF ClosedToo
      <4>3. QED
        BY <4>1, <4>2
    <3>4. QED
      BY <3>2, <3>3
  <2>5. QED
    BY <2>3, <2>4 DEF NoneActive
<1>3. QED
  BY <1>1, <1>2

LEMMA ClosedSome ==
    ASSUME CvInv, NEW status, ClosesOnly(status),
           sessions' = [s \in DOMAIN sessions |-> [sessions[s] EXCEPT !.status = status[s]]]
    PROVE  Closes
<1>1. sessions \in [1..Len(sessions) -> SessionRow] /\ Len(sessions) \in Nat
      /\ DOMAIN sessions = 1..Len(sessions)
  BY CvTyped
<1>2. ASSUME NEW t \in 1..Len(sessions)
      PROVE  /\ sessions'[t] \in SessionRow
             /\ sessions'[t].base = sessions[t].base /\ sessions'[t].cand = sessions[t].cand
             /\ sessions'[t].status = status[t]
  <2>1. sessions'[t] = [sessions[t] EXCEPT !.status = status[t]]
    BY <1>1
  <2>2. sessions[t] \in SessionRow /\ status[t] \in SessionStatus
    BY <1>1 DEF ClosesOnly
  <2>3. QED
    BY <2>1, <2>2 DEF SessionRow
<1>3. sessions' \in [1..Len(sessions) -> SessionRow]
  BY <1>1, <1>2
<1>4. sessions' \in Seq(SessionRow) /\ Len(sessions') = Len(sessions)
  BY <1>1, <1>3, FunctionIsSeq
<1>5. \A t \in 1..Len(sessions) : status[t] \in {sessions[t].status, "closed"}
  BY DEF ClosesOnly
<1>6. QED
  BY <1>2, <1>4, <1>5 DEF Closes
-----------------------------------------------------------------------------
(* What a new document holds.                                              *)
LEMMA NextVersionIs == ASSUME CvInv PROVE NextVersion = Len(docs) + 1
<1>1. Len(docs) \in Nat /\ Docs = 1..Len(docs)
  BY CvTyped
<1>2. PICK T : T = {0} \cup {docs[d].ver : d \in Docs}
  OBVIOUS
<1>3. T = 0..Len(docs)
  <2>1. \A d \in 1..Len(docs) : docs[d].ver = d
    BY DEF CvInv, DocsInv
  <2>2. T = {0} \cup {docs[d].ver : d \in 1..Len(docs)}
    BY <1>1, <1>2
  <2>3. {docs[d].ver : d \in 1..Len(docs)} = 1..Len(docs)
    BY <2>1
  <2>4. {0} \cup 1..Len(docs) = 0..Len(docs)
    BY <1>1
  <2>5. QED
    BY <2>2, <2>3, <2>4
<1>4. Max(T) \in T /\ \A m \in T : m <= Max(T)
  BY <1>1, <1>3, MaxOfRows
<1>5. Max(T) = Len(docs)
  BY <1>1, <1>3, <1>4
<1>6. NextVersion = 1 + Max(T)
  BY <1>2 DEF NextVersion
<1>7. QED
  BY <1>1, <1>5, <1>6

LEMMA ApprovedUserTyped ==
    ASSUME ProfileTyped
    PROVE  ApprovedUser \in OnboardingRuns \cup {NoRun}
<1>1. Imported \subseteq 0..Len(ledger) /\ Len(ledger) \in Nat
  BY LedgerTyped DEF Imported
<1>2. \A l \in Imported : ledger[l].run \in OnboardingRuns
  BY DEF Imported, ApprovedUsers
<1>3. Imported # {} => Max(Imported) \in Imported
  BY <1>1, MaxOfRows
<1>4. QED
  BY <1>2, <1>3 DEF ApprovedUser

LEMMA LatestApproved ==
    ASSUME CvInv, Approved # {}
    PROVE  Latest \in Approved
<1>1. /\ Len(docs) \in Nat /\ Docs = 1..Len(docs)
      /\ \A d \in 1..Len(docs) : docs[d].ver = d
  BY CvTyped DEF CvInv, DocsInv
<1>2. Approved \subseteq 0..Len(docs)
  BY <1>1 DEF Approved
<1>3. Max(Approved) \in Approved /\ \A m \in Approved : m <= Max(Approved)
  BY <1>1, <1>2, MaxOfRows
<1>4. PICK m \in Approved : \A e \in Approved : e <= m
  BY <1>3
<1>5. \A e \in Approved : e \in 1..Len(docs) /\ docs[e].ver = e
  BY <1>1 DEF Approved
<1>6. \A e \in Approved : docs[e].ver <= docs[m].ver
  BY <1>4, <1>5
<1>7. \E d \in Approved : \A e \in Approved : docs[e].ver <= docs[d].ver
  BY <1>4, <1>6
<1>8. QED
  BY <1>7 DEF Latest

LEMMA BasesTyped ==
    ASSUME CvInv
    PROVE  /\ 0 \in 0..Len(docs) /\ {} \in SUBSET Blocks
           /\ \A d \in Approved : d \in 0..Len(docs) /\ docs[d].content.flags \in SUBSET Blocks
           /\ \A s \in 1..Len(sessions) : sessions[s].base \in 0..Len(docs)
<1>1. Len(docs) \in Nat /\ Docs = 1..Len(docs) /\ docs \in [1..Len(docs) -> DocRow]
  BY CvTyped
<1>2. \A s \in 1..Len(sessions) : sessions[s].base \in 0..Len(docs)
  BY DEF CvInv, SessionsInv
<1>3. ASSUME NEW d \in Approved
      PROVE  d \in 0..Len(docs) /\ docs[d].content.flags \in SUBSET Blocks
  <2>1. d \in 1..Len(docs)
    BY <1>1 DEF Approved
  <2>2. docs[d].content \in Content
    BY <1>1, <2>1 DEF DocRow
  <2>3. docs[d].content.flags \in SUBSET Blocks
    BY <2>2 DEF Content
  <2>4. QED
    BY <1>1, <2>1, <2>3
<1>4. QED
  BY <1>1, <1>2, <1>3

LEMMA StartIsPrepared ==
    ASSUME CvInv
    PROVE  \E base \in 0..Len(docs), flags \in SUBSET Blocks :
               PreparedStart = Prepared(base, flags)
<1>1. CASE Approved = {}
  BY <1>1, BasesTyped DEF PreparedStart
<1>2. CASE Approved # {}
  <2>1. Latest \in 0..Len(docs) /\ docs[Latest].content.flags \in SUBSET Blocks
    BY <1>2, LatestApproved, BasesTyped
  <2>2. QED
    BY <1>2, <2>1 DEF PreparedStart
<1>3. QED
  BY <1>1, <1>2

LEMMA ContentOf ==
    ASSUME NEW d \in 1..MaxDocuments, NEW pid \in ProfileIds, NEW rev \in 1..MaxRevision,
           NEW blocks \in [Blocks -> Block \cup {NoBlock}], NEW flags \in SUBSET Blocks,
           NEW content,
           content = [doc |-> d, pid |-> pid, rev |-> rev, blocks |-> blocks, flags |-> flags]
    PROVE  /\ content \in Content /\ content.doc = d /\ content.pid = pid
           /\ content.rev = rev /\ content.blocks = blocks /\ content.flags = flags
BY DEF Content

(* The default candidate, and the copy of a version.                       *)
LEMMA DefaultContent ==
    ASSUME CvInv, ApprovedLedgers # {}, Len(docs) < MaxDocuments, NEW cand,
           cand = [doc |-> 1, pid |-> ledger[CurrentLedger].pid, rev |-> 1,
                   blocks |-> DefaultBlocks(CurrentLedger), flags |-> {}]
    PROVE  cand \in Content /\ Worded(cand)
<1>1. Len(docs) \in Nat /\ {MaxDocuments, MaxRevision} \subseteq Nat /\ MaxRevision >= 1
  BY CvTyped
<1>2. 1 \in 1..MaxDocuments /\ 1 \in 1..MaxRevision
  BY <1>1
<1>3. PICK l \in Ledgers : l = CurrentLedger /\ l \in ApprovedLedgers
  BY CurrentApproved DEF CvInv, ProfileInv, ApprovedLedgers, ApprovedOf, Ledgers
<1>4. ledger[l] \in Row /\ Says(ledger[l]) \subseteq said
  BY <1>3, LedgerTyped DEF CvInv, ProfileInv, OnRecord, Record, ApprovedLedgers
<1>5. PICK claims \in [Claims -> Claim] : claims = ledger[l].claims
  BY <1>4, RowTyped
<1>6. PICK pid \in ProfileIds : pid = ledger[l].pid
  BY <1>4, RowTyped
<1>7. /\ Supported(claims) \subseteq Tailored(claims) /\ Tailored(claims) \subseteq Claims
      /\ \A c \in Tailored(claims) : claims[c].text \in Wordings
  BY ClaimSets
<1>8. PICK blocks : blocks = DefaultBlocks(l)
  OBVIOUS
<1>9. \A b \in Blocks : blocks[b] = IF b \in Supported(claims)
                                    THEN [claim |-> b, text |-> claims[b].text,
                                          review |-> FALSE, exempt |-> FALSE]
                                    ELSE NoBlock
  BY <1>5, <1>8 DEF DefaultBlocks
<1>10. ASSUME NEW b \in Blocks
       PROVE  /\ blocks[b] \in Block \cup {NoBlock}
              /\ ~blocks[b].exempt =>
                     /\ b \in Tailored(claims) /\ blocks[b].claim = b
                     /\ blocks[b].text = claims[b].text
  <2>1. CASE b \in Supported(claims)
    <3>1. b \in Tailored(claims) /\ b \in Claims /\ claims[b].text \in Wordings
      BY <1>7, <2>1
    <3>2. blocks[b] = [claim |-> b, text |-> claims[b].text, review |-> FALSE,
                       exempt |-> FALSE]
      BY <1>9, <2>1
    <3>3. QED
      BY <3>1, <3>2 DEF Block
  <2>2. CASE b \notin Supported(claims)
    <3>1. blocks[b] = NoBlock
      BY <1>9, <2>2
    <3>2. NoBlock.exempt = TRUE
      BY DEF NoBlock
    <3>3. QED
      BY <3>1, <3>2
  <2>3. QED
    BY <2>1, <2>2
<1>11. blocks \in [Blocks -> Block \cup {NoBlock}]
  BY <1>8, <1>10 DEF DefaultBlocks
<1>12. PICK none \in SUBSET Blocks : none = {}
  OBVIOUS
<1>13. PICK one \in 1..MaxDocuments : one = 1 /\ one \in 1..MaxRevision
  BY <1>2
<1>14. cand \in Content /\ cand.blocks = blocks /\ cand.pid = pid
  <2>1. cand = [doc |-> one, pid |-> pid, rev |-> one, blocks |-> blocks, flags |-> none]
    BY <1>3, <1>6, <1>8, <1>12, <1>13
  <2>2. QED
    BY <1>11, <1>13, <2>1, ContentOf
<1>15. \A c \in Tailored(claims) : <<pid, c, claims[c].text>> \in said
  BY <1>4, <1>5, <1>6 DEF Says
<1>16. ASSUME NEW b \in Blocks, ~blocks[b].exempt
       PROVE  <<cand.pid, blocks[b].claim, blocks[b].text>> \in said
  <2>1. b \in Tailored(claims) /\ blocks[b].claim = b /\ blocks[b].text = claims[b].text
    BY <1>10, <1>16
  <2>2. QED
    BY <1>14, <1>15, <2>1
<1>17. QED
  BY <1>14, <1>16 DEF Worded

LEMMA PreparedReady ==
    ASSUME CvInv, NEW base \in 0..Len(docs), NEW flags \in SUBSET Blocks,
           ApprovedLedgers # {}, Room
    PROVE  Ready(Prepared(base, flags))
<1>1. /\ Len(docs) \in Nat /\ docs \in [1..Len(docs) -> DocRow]
      /\ {MaxDocuments, MaxRevision} \subseteq Nat /\ MaxRevision >= 1
      /\ Len(docs) < MaxDocuments /\ Len(docs) <= MaxDocuments
  BY CvTyped DEF Room
<1>2. PICK l \in Ledgers : l = CurrentLedger
  BY CurrentApproved DEF CvInv, ProfileInv, ApprovedLedgers, ApprovedOf, Ledgers
<1>3. l \in 1..Len(ledger) /\ l \in 0..MaxLedgers
  BY LedgerTyped DEF CvInv, ProfileInv
<1>4. PICK cand : cand = IF base = 0
                         THEN [doc |-> 1, pid |-> ledger[l].pid, rev |-> 1,
                               blocks |-> DefaultBlocks(l), flags |-> {}]
                         ELSE [docs[base].content EXCEPT !.rev = 1, !.flags = flags]
  OBVIOUS
<1>5. cand \in Content /\ Worded(cand)
  <2>1. CASE base = 0
    BY <1>1, <1>2, <1>4, <2>1, DefaultContent
  <2>2. CASE base # 0
    <3>1. base \in 1..Len(docs)
      BY <1>1, <2>2
    <3>2. PICK old \in Content : old = docs[base].content
      BY <1>1, <3>1 DEF DocRow
    <3>3. Worded(old)
      BY <3>1, <3>2 DEF CvInv, DocsInv
    <3>4. cand = [old EXCEPT !.rev = 1, !.flags = flags]
      BY <1>4, <2>2, <3>2
    <3>5. cand \in Content /\ cand.blocks = old.blocks /\ cand.pid = old.pid
      <4>1. PICK one \in 1..MaxRevision : one = 1
        BY <1>1
      <4>2. cand = [old EXCEPT !.rev = one, !.flags = flags]
        BY <3>4, <4>1
      <4>3. QED
        BY <4>2 DEF Content
    <3>6. QED
      BY <3>3, <3>5 DEF Worded
  <2>3. QED
    BY <2>1, <2>2
<1>6. PICK user \in OnboardingRuns \cup {NoRun} : user = ApprovedUser
  BY ApprovedUserTyped DEF CvInv, ProfileInv
<1>7. PICK new : new = [base |-> base, ledger |-> l, user |-> user, cand |-> cand]
  OBVIOUS
<1>8. new = Prepared(base, flags)
  BY <1>2, <1>4, <1>6, <1>7 DEF Prepared
<1>9. base \in 0..MaxDocuments
  BY <1>1
<1>10. new \in Opening /\ new.base = base /\ new.ledger = l /\ new.cand = cand
  BY <1>3, <1>5, <1>7, <1>9 DEF Opening
<1>11. QED
  BY <1>3, <1>5, <1>8, <1>10 DEF Ready


(* A document appended leaves the others as they were.                     *)
LEMMA DocAppended ==
    ASSUME CvInv, Onward, NEW cand \in Content, cand.doc = Len(docs) + 1, Worded(cand),
           NEW l \in 1..Len(ledger), NEW user \in OnboardingRuns \cup {NoRun},
           Len(docs) < MaxDocuments,
           docs' = Append(docs, [status |-> "candidate", ver |-> NextVersion,
                                 ledger |-> l, user |-> user, content |-> cand])
    PROVE  /\ DocsInv' /\ VersionsKept /\ NewestApproved
           /\ Len(docs') = Len(docs) + 1
           /\ \A d \in 1..Len(docs) : docs'[d] = docs[d]
           /\ docs'[cand.doc].status = "candidate"
<1>1. PICK row : row = [status |-> "candidate", ver |-> NextVersion, ledger |-> l,
                        user |-> user, content |-> cand]
  OBVIOUS
<1>2. Len(docs) \in Nat /\ docs \in Seq(DocRow) /\ MaxDocuments \in Nat
  BY CvTyped DEF CvInv, DocsInv
<1>3. NextVersion = Len(docs) + 1 /\ NextVersion \in 1..MaxDocuments
  BY <1>2, NextVersionIs
<1>4. /\ Len(ledger) \in Nat /\ Len(ledger') \in Nat /\ Len(ledger) <= Len(ledger')
      /\ said \subseteq said'
  BY LedgersTyped DEF Onward
<1>5. row \in DocRow
  BY <1>1, <1>3, <1>4 DEF DocRow
<1>6. /\ Append(docs, row) \in Seq(DocRow) /\ Len(Append(docs, row)) = Len(docs) + 1
      /\ \A d \in 1..Len(docs) : Append(docs, row)[d] = docs[d]
      /\ Append(docs, row)[Len(docs) + 1] = row
  BY <1>2, <1>5, AppendProperties
<1>7. docs' = Append(docs, row)
  BY <1>1
<1>8. DocsInv'
  <2>1. docs' \in Seq(DocRow) /\ Len(docs') <= MaxDocuments
    BY <1>2, <1>6, <1>7
  <2>2. ASSUME NEW d \in 1..(Len(docs) + 1)
        PROVE  /\ docs'[d].ver = d /\ docs'[d].ledger \in 1..Len(ledger)
               /\ Worded(docs'[d].content)
               /\ docs'[d].status = "approved" =>
                      \A b \in Blocks : ~docs'[d].content.blocks[b].review
    <3>1. CASE d \in 1..Len(docs)
      BY <1>6, <1>7, <3>1 DEF CvInv, DocsInv
    <3>2. CASE d = Len(docs) + 1
      BY <1>1, <1>3, <1>4, <1>6, <1>7, <3>2
    <3>3. QED
      BY <1>2, <3>1, <3>2
  <2>3. Len(docs') = Len(docs) + 1
    BY <1>6, <1>7
  <2>4. ASSUME NEW d \in 1..Len(docs') PROVE Worded(docs[d].content)'
    <3>1. Worded(docs'[d].content)
      BY <2>2, <2>3
    <3>2. QED
      BY <1>4, <3>1 DEF Worded
  <2>5. ASSUME NEW d \in 1..Len(docs')
        PROVE  /\ docs'[d].ver = d /\ docs'[d].ledger \in 1..Len(ledger')
               /\ docs'[d].status = "approved" =>
                      \A b \in Blocks : ~docs'[d].content.blocks[b].review
    <3>1. d \in 1..(Len(docs) + 1)
      BY <2>3
    <3>2. docs'[d].ledger \in 1..Len(ledger)
      BY <2>2, <3>1
    <3>3. docs'[d].ledger \in 1..Len(ledger')
      BY <1>4, <3>2
    <3>4. QED
      BY <2>2, <3>1, <3>3
  <2>6. QED
    BY <2>1, <2>4, <2>5 DEF DocsInv
<1>9. VersionsKept /\ NewestApproved
  BY <1>2, <1>6, <1>7 DEF VersionsKept, NewestApproved
<1>10. QED
  BY <1>1, <1>6, <1>7, <1>8, <1>9

LEMMA InsertStands ==
    ASSUME CvInv, Onward, NEW new, Ready(new), NEW status, ClosesOnly(status),
           Single' => NoneActive(status), Insert(new, status)
    PROVE  Stands
<1>1. PICK cand : cand = [new.cand EXCEPT !.doc = Len(docs) + 1]
  OBVIOUS
<1>2. /\ Len(docs) < MaxDocuments /\ Len(sessions) < MaxSessions
      /\ docs' = Append(docs, [status |-> "candidate", ver |-> NextVersion,
                               ledger |-> new.ledger, user |-> new.user,
                               content |-> cand])
      /\ sessions' = Append([s \in DOMAIN sessions |->
                                [sessions[s] EXCEPT !.status = status[s]]],
                            [status |-> "active", base |-> new.base, cand |-> cand])
  BY <1>1 DEF Insert, Room
<1>3. /\ sessions \in [1..Len(sessions) -> SessionRow] /\ DOMAIN sessions = 1..Len(sessions)
      /\ Len(sessions) \in Nat /\ Len(docs) \in Nat
      /\ MaxSessions \in Nat /\ MaxDocuments \in Nat
  BY CvTyped
<1>4. /\ new.cand \in Content /\ Worded(new.cand) /\ new.base \in 0..Len(docs)
      /\ new.ledger \in 1..Len(ledger) /\ new.user \in OnboardingRuns \cup {NoRun}
  BY DEF Ready, Opening
<1>5. cand \in Content /\ cand.doc = Len(docs) + 1 /\ Worded(cand)
  <2>1. PICK d \in 1..MaxDocuments : d = Len(docs) + 1
    BY <1>2, <1>3
  <2>2. PICK was \in Content : was = new.cand
    BY <1>4
  <2>3. cand = [was EXCEPT !.doc = d]
    BY <1>1, <2>1, <2>2
  <2>4. cand \in Content /\ cand.doc = d /\ cand.blocks = was.blocks /\ cand.pid = was.pid
    BY <2>3 DEF Content
  <2>5. QED
    BY <1>4, <2>1, <2>2, <2>4 DEF Worded
<1>6. /\ DocsInv' /\ VersionsKept /\ NewestApproved
      /\ Len(docs') = Len(docs) + 1
      /\ \A d \in 1..Len(docs) : docs'[d] = docs[d]
      /\ docs'[cand.doc].status = "candidate"
  BY <1>2, <1>4, <1>5, DocAppended
<1>7. PICK old : old = [s \in 1..Len(sessions) |-> [sessions[s] EXCEPT !.status = status[s]]]
  OBVIOUS
<1>8. PICK row : row = [status |-> "active", base |-> new.base, cand |-> cand]
  OBVIOUS
<1>9. ASSUME NEW s \in 1..Len(sessions)
      PROVE  /\ old[s] \in SessionRow /\ old[s].status = status[s]
             /\ old[s].base = sessions[s].base /\ old[s].cand = sessions[s].cand
  <2>1. old[s] = [sessions[s] EXCEPT !.status = status[s]]
    BY <1>7
  <2>2. sessions[s] \in SessionRow /\ status[s] \in SessionStatus
    BY <1>3 DEF ClosesOnly
  <2>3. QED
    BY <2>1, <2>2 DEF SessionRow
<1>10. old \in [1..Len(sessions) -> SessionRow]
  BY <1>7, <1>9
<1>11. old \in Seq(SessionRow) /\ Len(old) = Len(sessions)
  BY <1>3, <1>10, FunctionIsSeq
<1>12. row \in SessionRow
  BY <1>3, <1>4, <1>5, <1>8 DEF SessionRow, SessionStatus
<1>13. /\ Append(old, row) \in Seq(SessionRow) /\ Len(Append(old, row)) = Len(sessions) + 1
       /\ \A s \in 1..Len(sessions) : Append(old, row)[s] = old[s]
       /\ Append(old, row)[Len(sessions) + 1] = row
  BY <1>11, <1>12, AppendProperties
<1>14. sessions' = Append(old, row)
  BY <1>2, <1>3, <1>7, <1>8
<1>15. /\ sessions' \in Seq(SessionRow) /\ Len(sessions') = Len(sessions) + 1
       /\ \A s \in 1..Len(sessions) :
             /\ sessions'[s].status = status[s]
             /\ sessions'[s].base = sessions[s].base /\ sessions'[s].cand = sessions[s].cand
       /\ sessions'[Len(sessions) + 1].base = new.base
       /\ sessions'[Len(sessions) + 1].cand = cand
  BY <1>8, <1>9, <1>13, <1>14
<1>16. said \subseteq said' /\ (Single' => Single)
  BY LedgersTyped DEF Onward
<1>17. ASSUME NEW s \in 1..(Len(sessions) + 1)
       PROVE  /\ sessions'[s].base \in 0..(Len(docs) + 1)
              /\ sessions'[s].cand.doc \in 1..(Len(docs) + 1)
              /\ Worded(sessions'[s].cand)
              /\ Single' /\ sessions'[s].status = "active" => s = Len(sessions) + 1
  <2>1. CASE s \in 1..Len(sessions)
    <3>1. /\ sessions[s].base \in 0..Len(docs) /\ sessions[s].cand.doc \in 1..Len(docs)
          /\ Worded(sessions[s].cand)
      BY <2>1 DEF CvInv, SessionsInv
    <3>2. Single' => status[s] # "active"
      BY <2>1 DEF NoneActive
    <3>3. QED
      BY <1>3, <1>15, <2>1, <3>1, <3>2
  <2>2. CASE s = Len(sessions) + 1
    BY <1>3, <1>4, <1>5, <1>15, <2>2
  <2>3. QED
    BY <1>3, <2>1, <2>2
<1>18. SessionsInv'
  <2>1. Single' => OneOpen'
    <3>1. /\ docs'[cand.doc].status = "candidate"
          /\ \A d \in 1..Len(docs') : docs'[d].status = "approved" => d < cand.doc
      BY <1>3, <1>5, <1>6
    <3>2. ASSUME Single', NEW s \in 1..Len(sessions'), sessions'[s].status = "active"
          PROVE  s = Len(sessions) + 1 /\ sessions'[s].cand = cand
      BY <1>15, <1>17, <3>2
    <3>3. QED
      BY <3>1, <3>2 DEF OneOpen
  <2>2. Len(sessions') <= MaxSessions
    BY <1>2, <1>3, <1>15
  <2>3. ASSUME NEW s \in 1..Len(sessions') PROVE Worded(sessions[s].cand)'
    <3>1. Worded(sessions'[s].cand)
      BY <1>15, <1>17
    <3>2. QED
      BY <1>16, <3>1 DEF Worded
  <2>4. QED
    BY <1>6, <1>15, <1>17, <2>1, <2>2, <2>3 DEF SessionsInv
<1>19. (\A p : Holds(p) => Holds(p)') /\ (\A n : Ready(n) => Ready(n)')
  <2>1. \A s \in 1..Len(sessions) : Single' /\ sessions'[s].status = "active" =>
            sessions[s].status = "active" /\ sessions'[s].cand.doc = sessions[s].cand.doc
    BY <1>15 DEF NoneActive
  <2>2. /\ Len(docs') \in Nat /\ Len(docs) <= Len(docs')
        /\ Len(sessions') \in Nat /\ Len(sessions) <= Len(sessions')
    BY <1>3, <1>6, <1>15
  <2>3. QED
    BY <2>1, <2>2, HoldsKept
<1>20. QED
  BY <1>6, <1>18, <1>19 DEF Stands, Onward

LEMMA OpenKeeps ==
    ASSUME CvInv, NEW base \in 0..Len(docs), NEW flags \in SUBSET Blocks,
           NEW status, ClosesOnly(status), Single => NoneActive(status),
           Open(Prepared(base, flags), status)
    PROVE  CvInv' /\ VersionsKept /\ NewestApproved
<1>1. PICK new : new = Prepared(base, flags)
  OBVIOUS
<1>2. /\ ApprovedLedgers # {} /\ Insert(new, status) /\ UNCHANGED profileVars
      /\ UNCHANGED msg /\ UNCHANGED edit /\ UNCHANGED opening
  BY <1>1 DEF Open
<1>3. Onward /\ (Single' => Single)
  BY <1>2, SameReads, ReadsOnward, LedgersTyped
<1>4. Room
  BY <1>2 DEF Insert
<1>5. Ready(new)
  BY <1>1, <1>2, <1>4, PreparedReady
<1>6. Stands
  BY <1>2, <1>3, <1>5, InsertStands
<1>7. QED
  BY <1>2, <1>6, PendingKeeps

(* Sessions closed, and nothing else.                                      *)
LEMMA OnlyCloses ==
    ASSUME CvInv, Closes, UNCHANGED <<profileVars, docs, msg, edit, opening>>
    PROVE  CvInv' /\ VersionsKept /\ NewestApproved
<1>1. /\ UNCHANGED profileVars /\ UNCHANGED docs
      /\ UNCHANGED msg /\ UNCHANGED edit /\ UNCHANGED opening
  OBVIOUS
<1>2. Onward
  BY <1>1, SameReads, ReadsOnward
<1>3. Stands
  BY <1>1, <1>2, ClosesStands
<1>4. QED
  BY <1>1, <1>3, PendingKeeps

LEMMA ReopenKeeps ==
    ASSUME CvInv, NEW base \in 0..Len(docs), NEW flags \in SUBSET Blocks,
           NEW status, ClosesOnly(status), Single => NoneActive(status),
           Reopen(Prepared(base, flags), status)
    PROVE  CvInv' /\ VersionsKept /\ NewestApproved
<1>1. CASE Open(Prepared(base, flags), status)
  BY <1>1, OpenKeeps
<1>2. CASE ~Open(Prepared(base, flags), status)
  <2>1. /\ sessions' = [s \in DOMAIN sessions |-> [sessions[s] EXCEPT !.status = status[s]]]
        /\ UNCHANGED <<profileVars, docs, msg, edit, opening>>
    BY <1>2 DEF Reopen
  <2>2. Closes
    BY <2>1, ClosedSome
  <2>3. QED
    BY <2>1, <2>2, OnlyCloses
<1>3. QED
  BY <1>1, <1>2

LEMMA StartKeeps ==
    ASSUME CvInv, StartSession
    PROVE  CvInv' /\ VersionsKept /\ NewestApproved
<1>1. Active = {} /\ Open(PreparedStart, Statuses)
  BY DEF StartSession
<1>2. ClosesOnly(Statuses) /\ NoneActive(Statuses)
  BY <1>1, StatusesClosing
<1>3. PICK base \in 0..Len(docs), flags \in SUBSET Blocks :
          PreparedStart = Prepared(base, flags)
  BY StartIsPrepared
<1>4. Open(Prepared(base, flags), Statuses)
  BY <1>1, <1>3
<1>5. QED
  BY <1>2, <1>4, OpenKeeps

LEMMA RestoreKeeps ==
    ASSUME CvInv, NEW d \in Docs, RestoreVersion(d)
    PROVE  CvInv' /\ VersionsKept /\ NewestApproved
<1>1. PICK status \in Closings : d \in Approved /\ Reopen(Prepared(d, {}), status)
  BY DEF RestoreVersion
<1>2. d \in 0..Len(docs) /\ {} \in SUBSET Blocks
  BY <1>1, BasesTyped
<1>3. ClosesOnly(status) /\ (Single => NoneActive(status))
  BY ClosingsClosing
<1>4. QED
  BY <1>1, <1>2, <1>3, ReopenKeeps

LEMMA CloseOneKeeps ==
    ASSUME CvInv, NEW s \in DOMAIN sessions,
           sessions' = [sessions EXCEPT ![s].status = "closed"],
           UNCHANGED <<profileVars, docs, msg, edit, opening>>
    PROVE  CvInv' /\ VersionsKept /\ NewestApproved
<1>1. Closes
  BY CvTyped, ClosedOne
<1>2. QED
  BY <1>1, OnlyCloses

LEMMA ResetKeeps ==
    ASSUME CvInv, NEW s \in DOMAIN sessions, ResetSession(s)
    PROVE  CvInv' /\ VersionsKept /\ NewestApproved
<1>1. /\ s \in 1..Len(sessions) /\ sessions[s].base \in 0..Len(docs)
      /\ {} \in SUBSET Blocks
  BY CvTyped, BasesTyped
<1>2. CASE \E status \in Closings :
               Reopen(Prepared(sessions[s].base, {}), ClosedToo(status, s))
  <2>1. PICK status \in Closings :
            Reopen(Prepared(sessions[s].base, {}), ClosedToo(status, s))
    BY <1>2
  <2>2. ClosesOnly(status) /\ (Single => NoneActive(status))
    BY ClosingsClosing
  <2>3. ClosesOnly(ClosedToo(status, s))
    BY <1>1, <2>2, StatusesClosing
  <2>4. NoneActive(status) => NoneActive(ClosedToo(status, s))
    BY <1>1, <2>2 DEF ClosesOnly, NoneActive, ClosedToo
  <2>5. PICK base \in 0..Len(docs) : base = sessions[s].base
    BY <1>1
  <2>6. PICK closed : closed = ClosedToo(status, s)
    OBVIOUS
  <2>7. QED
    BY <1>1, <2>1, <2>2, <2>3, <2>4, <2>5, <2>6, ReopenKeeps
<1>3. CASE Active \subseteq {s} /\ Reopen(PreparedStart, ClosedToo(Statuses, s))
  <2>1. ClosesOnly(Statuses) /\ \A t \in 1..Len(sessions) : Statuses[t] = sessions[t].status
    BY StatusesClosing
  <2>2. PICK status : status = ClosedToo(Statuses, s)
    OBVIOUS
  <2>3. ClosesOnly(status)
    BY <1>1, <2>1, <2>2, StatusesClosing
  <2>4. \A t \in 1..Len(sessions) : t # s => Statuses[t] # "active"
    BY <1>3, <2>1, ActiveAre
  <2>5. NoneActive(status)
    BY <1>1, <2>1, <2>2, <2>4 DEF ClosesOnly, NoneActive, ClosedToo
  <2>6. PICK base \in 0..Len(docs), flags \in SUBSET Blocks :
            PreparedStart = Prepared(base, flags)
    BY StartIsPrepared
  <2>7. QED
    BY <1>3, <2>2, <2>3, <2>5, <2>6, ReopenKeeps
<1>4. CASE /\ sessions' = [sessions EXCEPT ![s].status = "closed"]
           /\ UNCHANGED <<profileVars, docs, msg, edit, opening>>
  BY <1>4, CloseOneKeeps
<1>5. QED
  BY <1>2, <1>3, <1>4 DEF ResetSession

(* Imports, promotions and approvals of claims, seen from the builder.     *)
LEMMA ProfileStepInBuilder ==
    ASSUME CvInv, UNCHANGED builderVars,
           (\E r \in OnboardingRuns : Import(r)) \/ ProfileNext
    PROVE  CvInv' /\ VersionsKept /\ NewestApproved
<1>1. Onward
  BY ProfileStepKeeps DEF ProfileStep, CvInv, Onward
<1>2. /\ UNCHANGED sessions /\ UNCHANGED docs
      /\ UNCHANGED msg /\ UNCHANGED edit /\ UNCHANGED opening
  BY DEF builderVars
<1>3. Closes
  BY <1>2 DEF Closes, CvInv, SessionsInv
<1>4. Stands
  BY <1>1, <1>2, <1>3, ClosesStands
<1>5. QED
  BY <1>2, <1>4, PendingKeeps

LEMMA ApproveProposalKeeps ==
    ASSUME CvInv, ApproveAnyProposal
    PROVE  CvInv' /\ VersionsKept /\ NewestApproved
<1>1. Onward
  BY ProfileStepKeeps DEF ProfileStep, CvInv, Onward
<1>2. PICK c \in Claims, text \in Wordings, read \in {Now, late} :
          ApproveProposal(read, c, text)
  BY DEF ApproveAnyProposal
<1>3. /\ UNCHANGED docs /\ UNCHANGED msg /\ UNCHANGED edit /\ UNCHANGED opening
      /\ \E s \in Active \cup DOMAIN sessions :
            sessions' = [sessions EXCEPT ![s].status = "closed"]
  BY <1>2 DEF ApproveProposal
<1>4. PICK s \in 1..Len(sessions) : sessions' = [sessions EXCEPT ![s].status = "closed"]
  BY <1>3, ActiveAre, CvTyped
<1>5. Closes
  BY <1>4, ClosedOne
<1>6. Stands
  BY <1>1, <1>3, <1>5, ClosesStands
<1>7. QED
  BY <1>3, <1>6, PendingKeeps

(* Committing nothing stands too.                                          *)
LEMMA NothingStored ==
    ASSUME CvInv, Onward, UNCHANGED docs, UNCHANGED sessions
    PROVE  Stands
<1>1. Closes
  BY DEF Closes, CvInv, SessionsInv
<1>2. QED
  BY <1>1, ClosesStands

LEMMA OpeningReadsKeeps ==
    ASSUME CvInv, OpeningReads
    PROVE  CvInv' /\ VersionsKept /\ NewestApproved
<1>1. /\ ApprovedLedgers # {} /\ Room
      /\ opening' \in {PreparedStart} \cup {Prepared(d, {}) : d \in Approved}
      /\ UNCHANGED docs /\ UNCHANGED sessions /\ UNCHANGED msg /\ UNCHANGED edit
      /\ Reads
  BY DEF OpeningReads, Reads
<1>2. Onward
  BY <1>1, ReadsOnward
<1>3. Stands
  BY <1>1, <1>2, NothingStored
<1>4. PICK base \in 0..Len(docs), flags \in SUBSET Blocks : opening' = Prepared(base, flags)
  BY <1>1, StartIsPrepared, BasesTyped
<1>5. PICK new : new = opening'
  OBVIOUS
<1>6. Ready(new)
  BY <1>1, <1>4, <1>5, PreparedReady
<1>7. Ready(new)'
  BY <1>3, <1>6 DEF Stands
<1>8. Ready(opening)'
  BY <1>5, <1>7 DEF Ready
<1>9. PICK m : m = msg
  OBVIOUS
<1>10. PICK e : e = edit
  OBVIOUS
<1>11. msg' = Nothing \/ Holds(msg)'
  <2>1. m = Nothing \/ Holds(m)'
    BY <1>3, <1>9 DEF CvInv, PendingInv, Stands
  <2>2. QED
    BY <1>1, <1>9, <2>1 DEF Holds
<1>12. edit' = Nothing \/ (Holds(edit)' /\ edit'.cand \in Content
                           /\ edit'.cand.doc = edit'.read.doc)
  <2>1. e = Nothing \/ (Holds(e)' /\ e.cand \in Content /\ e.cand.doc = e.read.doc)
    BY <1>3, <1>10 DEF CvInv, PendingInv, Stands
  <2>2. QED
    BY <1>1, <1>10, <2>1 DEF Holds
<1>13. PendingInv'
  BY <1>8, <1>11, <1>12 DEF PendingInv
<1>14. QED
  BY <1>3, <1>13 DEF CvInv, Stands

LEMMA OpeningInsertsKeeps ==
    ASSUME CvInv, OpeningInserts
    PROVE  CvInv' /\ VersionsKept /\ NewestApproved
<1>1. /\ opening # NoOpening /\ opening' = NoOpening
      /\ UNCHANGED msg /\ UNCHANGED edit /\ Reads
      /\ \/ /\ Insert(opening, Statuses)
            /\ stale' = IF Active = {} THEN stale ELSE stale \cup {"open"}
         \/ UNCHANGED docs /\ UNCHANGED sessions
  BY DEF OpeningInserts, Reads
<1>2. Onward
  BY <1>1, ReadsOnward
<1>3. Ready(opening)
  BY <1>1 DEF CvInv, PendingInv
<1>4. Stands
  <2>1. CASE /\ Insert(opening, Statuses)
             /\ stale' = IF Active = {} THEN stale ELSE stale \cup {"open"}
    <3>1. Single' => Active = {}
      BY <2>1 DEF Single
    <3>2. ClosesOnly(Statuses) /\ (Single' => NoneActive(Statuses))
      BY <3>1, StatusesClosing
    <3>3. PICK new : new = opening
      OBVIOUS
    <3>4. PICK status : status = Statuses
      OBVIOUS
    <3>5. QED
      BY <1>2, <1>3, <2>1, <3>2, <3>3, <3>4, InsertStands
  <2>2. CASE UNCHANGED docs /\ UNCHANGED sessions
    BY <1>2, <2>2, NothingStored
  <2>3. QED
    BY <1>1, <2>1, <2>2
<1>5. QED
  BY <1>1, <1>4, PendingKeeps

-----------------------------------------------------------------------------
(* The edits of a candidate.                                               *)
LEMMA SessionCand ==
    ASSUME CvInv, NEW s \in 1..Len(sessions)
    PROVE  sessions[s].cand \in Content /\ sessions[s].cand.doc \in 1..Len(docs)
<1>1. sessions[s] \in SessionRow
  BY CvTyped
<1>2. QED
  BY <1>1 DEF SessionRow, CvInv, SessionsInv

LEMMA RewordedTyped ==
    ASSUME NEW cand \in Content, NEW b \in Blocks, NEW text \in Wordings,
           NEW exempt \in BOOLEAN, NEW new, new = Reworded(cand, b, text, exempt)
    PROVE  new \in Content /\ new.doc = cand.doc
<1>1. PICK block : block = [claim |-> NoClaim, text |-> text, review |-> TRUE,
                            exempt |-> exempt]
  OBVIOUS
<1>2. block \in Block
  BY <1>1 DEF Block
<1>3. PICK blocks : blocks = [cand.blocks EXCEPT ![b] = block]
  OBVIOUS
<1>4. PICK flags : flags = cand.flags \cup {b}
  OBVIOUS
<1>5. blocks \in [Blocks -> Block \cup {NoBlock}] /\ flags \in SUBSET Blocks
  BY <1>2, <1>3, <1>4 DEF Content
<1>6. new = [cand EXCEPT !.blocks = blocks, !.flags = flags]
  BY <1>1, <1>3, <1>4 DEF Reworded
<1>7. QED
  BY <1>5, <1>6 DEF Content

LEMMA ToggledTyped ==
    ASSUME NEW cand \in Content, NEW b \in Present(cand), cand.blocks[b].claim = NoClaim,
           NEW new, new = [cand EXCEPT !.blocks[b].exempt = ~@]
    PROVE  new \in Content /\ new.doc = cand.doc
<1>1. b \in Blocks /\ cand.blocks[b] \in Block
  BY DEF Present, Content
<1>2. PICK block \in Block : block = cand.blocks[b]
  BY <1>1
<1>3. PICK turned \in BOOLEAN : turned = ~block.exempt
  OBVIOUS
<1>4. PICK shown : shown = [block EXCEPT !.exempt = turned]
  OBVIOUS
<1>5. /\ block \in [claim : Claims \cup {NoClaim}, text : Wordings, review : BOOLEAN,
                    exempt : BOOLEAN]
      /\ block.claim = NoClaim
  BY <1>2 DEF Block
<1>6. /\ shown \in [claim : Claims \cup {NoClaim}, text : Wordings, review : BOOLEAN,
                    exempt : BOOLEAN]
      /\ shown.claim = NoClaim
  BY <1>4, <1>5
<1>7. shown \in Block
  BY <1>6 DEF Block
<1>8. PICK blocks : blocks = [cand.blocks EXCEPT ![b] = shown]
  OBVIOUS
<1>9. blocks \in [Blocks -> Block \cup {NoBlock}]
  BY <1>1, <1>7, <1>8 DEF Content
<1>10. PICK was : was = cand.blocks
  OBVIOUS
<1>11. cand = [cand EXCEPT !.blocks = was]
  BY <1>10 DEF Content
<1>12. new = [cand EXCEPT !.blocks = blocks]
  <2>1. blocks = [was EXCEPT ![b] = [was[b] EXCEPT !.exempt = ~was[b].exempt]]
    BY <1>2, <1>3, <1>4, <1>8, <1>10
  <2>2. new = [cand EXCEPT !.blocks =
                   [cand.blocks EXCEPT ![b] = [cand.blocks[b] EXCEPT
                                                  !.exempt = ~cand.blocks[b].exempt]]]
    OBVIOUS
  <2>3. QED
    BY <1>10, <2>1, <2>2
<1>13. QED
  BY <1>9, <1>12 DEF Content

LEMMA EditsTyped ==
    ASSUME NEW read \in Content, NEW new \in Edits(read)
    PROVE  new \in Content /\ new.doc = read.doc
<1>1. CASE new = read
  BY <1>1
<1>2. ASSUME NEW b \in Present(read), new \in Rewordings(read, b)
      PROVE  new \in Content /\ new.doc = read.doc
  <2>1. PICK text \in Wordings, exempt \in BOOLEAN : new = Reworded(read, b, text, exempt)
    BY <1>2 DEF Rewordings
  <2>2. b \in Blocks
    BY DEF Present
  <2>3. QED
    BY <2>1, <2>2, RewordedTyped
<1>3. ASSUME NEW b \in Present(read), read.blocks[b].claim = NoClaim,
             new = Toggled(read, b)
      PROVE  new \in Content /\ new.doc = read.doc
  BY <1>3, ToggledTyped DEF Toggled
<1>4. \/ new \in {read}
      \/ new \in UNION {Rewordings(read, b) : b \in Present(read)}
      \/ new \in {Toggled(read, b) :
                     b \in {x \in Present(read) : read.blocks[x].claim = NoClaim}}
  BY DEF Edits
<1>5. CASE new \in UNION {Rewordings(read, b) : b \in Present(read)}
  BY <1>2, <1>5
<1>6. CASE new \in {Toggled(read, b) :
                       b \in {x \in Present(read) : read.blocks[x].claim = NoClaim}}
  <2>1. PICK b \in {x \in Present(read) : read.blocks[x].claim = NoClaim} :
            new = Toggled(read, b)
    BY <1>6
  <2>2. b \in Present(read) /\ read.blocks[b].claim = NoClaim
    OBVIOUS
  <2>3. QED
    BY <1>3, <2>1, <2>2
<1>7. QED
  BY <1>1, <1>4, <1>5, <1>6

LEMMA EditReadsKeeps ==
    ASSUME CvInv, EditReads
    PROVE  CvInv' /\ VersionsKept /\ NewestApproved
<1>1. PICK s \in Active : \E x \in Edits(sessions[s].cand) :
          edit' = [sess |-> s, read |-> sessions[s].cand, cand |-> x]
  BY DEF EditReads
<1>2. PICK read : read = sessions[s].cand
  OBVIOUS
<1>3. PICK cand \in Edits(read) : edit' = [sess |-> s, read |-> read, cand |-> cand]
  BY <1>1, <1>2
<1>4. /\ UNCHANGED docs /\ UNCHANGED sessions /\ UNCHANGED msg /\ UNCHANGED opening
      /\ UNCHANGED stale /\ Reads
  BY DEF EditReads, Reads
<1>5. s \in 1..Len(sessions)
  BY ActiveAre
<1>6. read \in Content /\ read.doc \in 1..Len(docs)
  BY <1>2, <1>5, SessionCand
<1>7. cand \in Content /\ cand.doc = read.doc
  BY <1>3, <1>2, <1>6, EditsTyped
<1>8. Len(sessions) \in Nat /\ MaxSessions \in Nat /\ Len(sessions) <= MaxSessions
  BY CvTyped DEF CvInv, SessionsInv
<1>9. edit'.sess = s /\ edit'.read = read /\ edit'.cand = cand /\ edit' \in Pending
  BY <1>3, <1>2, <1>5, <1>6, <1>7, <1>8 DEF Pending
<1>10. Holds(edit)'
  BY <1>2, <1>4, <1>5, <1>6, <1>9 DEF Holds
<1>11. Onward
  BY <1>4, ReadsOnward
<1>12. Stands
  BY <1>4, <1>11, NothingStored
<1>13. PICK m : m = msg
  OBVIOUS
<1>14. PICK o : o = opening
  OBVIOUS
<1>15. msg' = Nothing \/ Holds(msg)'
  <2>1. m = Nothing \/ Holds(m)'
    BY <1>12, <1>13 DEF CvInv, PendingInv, Stands
  <2>2. QED
    BY <1>4, <1>13, <2>1 DEF Holds
<1>16. opening' = NoOpening \/ Ready(opening)'
  <2>1. o = NoOpening \/ Ready(o)'
    BY <1>12, <1>14 DEF CvInv, PendingInv, Stands
  <2>2. QED
    BY <1>4, <1>14, <2>1 DEF Ready
<1>17. PendingInv'
  BY <1>7, <1>9, <1>10, <1>15, <1>16 DEF PendingInv
<1>18. QED
  BY <1>12, <1>17 DEF CvInv, Stands

LEMMA BeginMessageKeeps ==
    ASSUME CvInv, NEW s \in DOMAIN sessions, BeginMessage(s)
    PROVE  CvInv' /\ VersionsKept /\ NewestApproved
<1>1. /\ msg' = [Nothing EXCEPT !.sess = s, !.read = sessions[s].cand]
      /\ UNCHANGED docs /\ UNCHANGED sessions /\ UNCHANGED edit /\ UNCHANGED opening
      /\ UNCHANGED stale /\ Reads
  BY DEF BeginMessage, Reads
<1>2. s \in 1..Len(sessions)
  BY CvTyped
<1>3. PICK read \in Content : read = sessions[s].cand /\ read.doc \in 1..Len(docs)
  BY <1>2, SessionCand
<1>4. Len(sessions) \in Nat /\ MaxSessions \in Nat /\ Len(sessions) <= MaxSessions
  BY CvTyped DEF CvInv, SessionsInv
<1>5. msg'.sess = s /\ msg'.read = read /\ msg' \in Pending
  <2>1. Nothing \in Pending
    BY <1>4 DEF Nothing, Pending
  <2>2. s \in 0..MaxSessions
    BY <1>2, <1>4
  <2>3. QED
    BY <1>1, <1>3, <2>1, <2>2 DEF Pending
<1>6. Holds(msg)'
  BY <1>1, <1>2, <1>3, <1>5 DEF Holds
<1>7. Onward
  BY <1>1, ReadsOnward
<1>8. Stands
  BY <1>1, <1>7, NothingStored
<1>9. PICK e : e = edit
  OBVIOUS
<1>10. PICK o : o = opening
  OBVIOUS
<1>11. edit' = Nothing \/ (Holds(edit)' /\ edit'.cand \in Content
                           /\ edit'.cand.doc = edit'.read.doc)
  <2>1. e = Nothing \/ (Holds(e)' /\ e.cand \in Content /\ e.cand.doc = e.read.doc)
    BY <1>8, <1>9 DEF CvInv, PendingInv, Stands
  <2>2. QED
    BY <1>1, <1>9, <2>1 DEF Holds
<1>12. opening' = NoOpening \/ Ready(opening)'
  <2>1. o = NoOpening \/ Ready(o)'
    BY <1>8, <1>10 DEF CvInv, PendingInv, Stands
  <2>2. QED
    BY <1>1, <1>10, <2>1 DEF Ready
<1>13. PendingInv'
  BY <1>6, <1>11, <1>12 DEF PendingInv
<1>14. QED
  BY <1>8, <1>13 DEF CvInv, Stands
-----------------------------------------------------------------------------
(* What an update stores: the words of a block that needs no review and is *)
(* not exempt are those of an approved claim of the profile the document   *)
(* names.                                                                  *)
LEMMA UpdatedContent ==
    ASSUME CvInv, NEW read \in Content, NEW cand \in Content, Accepted(read, cand)
    PROVE  /\ Updated(read, cand) \in Content /\ Updated(read, cand).doc = cand.doc
           /\ Worded(Updated(read, cand))
<1>1. PICK l \in Ledgers : l = CurrentLedger /\ l \in ApprovedLedgers
  BY CurrentApproved DEF CvInv, ProfileInv, ApprovedLedgers, ApprovedOf, Ledgers, Accepted
<1>2. Says(ledger[l]) \subseteq said /\ cand.pid = ledger[l].pid
  BY <1>1 DEF CvInv, ProfileInv, OnRecord, Record, ApprovedLedgers, Accepted
<1>3. PICK claims : claims = ledger[l].claims
  OBVIOUS
<1>4. PICK bad : bad = Unsupported(cand.blocks, l)
  OBVIOUS
<1>5. PICK blocks : blocks = [b \in Blocks |-> IF b \in bad
                                THEN [cand.blocks[b] EXCEPT !.review = TRUE]
                                ELSE cand.blocks[b]]
  OBVIOUS
<1>6. PICK flags : flags = cand.flags \cup bad
  OBVIOUS
<1>7. PICK rev : rev = read.rev + 1
  OBVIOUS
<1>8. /\ bad \subseteq Blocks /\ \A b \in bad : ~cand.blocks[b].exempt
      /\ \A b \in Blocks \ bad : cand.blocks[b].exempt \/ Exact(cand.blocks[b], l)
  BY <1>4 DEF Unsupported
<1>9. ASSUME NEW b \in Blocks
      PROVE  /\ blocks[b] \in Block \cup {NoBlock}
             /\ ~blocks[b].exempt /\ ~blocks[b].review =>
                    /\ blocks[b] = cand.blocks[b]
                    /\ Exact(cand.blocks[b], l)
  <2>1. cand.blocks[b] \in Block \cup {NoBlock}
    BY DEF Content
  <2>2. CASE b \in bad
    <3>1. cand.blocks[b] # NoBlock
      BY <1>8, <2>2 DEF NoBlock
    <3>2. PICK block \in Block : block = cand.blocks[b]
      BY <2>1, <3>1
    <3>3. PICK marked : marked = [block EXCEPT !.review = TRUE]
      OBVIOUS
    <3>4. /\ block \in [claim : Claims \cup {NoClaim}, text : Wordings, review : BOOLEAN,
                        exempt : BOOLEAN]
          /\ block.exempt => block.claim = NoClaim
      BY DEF Block
    <3>5. /\ marked \in [claim : Claims \cup {NoClaim}, text : Wordings, review : BOOLEAN,
                         exempt : BOOLEAN]
          /\ marked.exempt = block.exempt /\ marked.claim = block.claim
          /\ marked.review = TRUE
      BY <3>3, <3>4
    <3>6. marked \in Block
      BY <3>4, <3>5 DEF Block
    <3>7. blocks[b] = marked
      BY <1>5, <2>2, <3>2, <3>3
    <3>8. QED
      BY <3>5, <3>6, <3>7
  <2>3. CASE b \notin bad
    <3>1. blocks[b] = cand.blocks[b]
      BY <1>5, <2>3
    <3>2. cand.blocks[b].exempt \/ Exact(cand.blocks[b], l)
      BY <1>8, <2>3
    <3>3. QED
      BY <2>1, <3>1, <3>2
  <2>4. QED
    BY <2>2, <2>3
<1>10. blocks \in [Blocks -> Block \cup {NoBlock}]
  BY <1>5, <1>9
<1>11. flags \in SUBSET Blocks
  BY <1>6, <1>8 DEF Content
<1>12. rev \in 1..MaxRevision
  BY <1>7, CvTyped DEF Content, Accepted
<1>13. PICK kept : kept = Enforced(cand, l)
  OBVIOUS
<1>14. kept = [cand EXCEPT !.blocks = blocks, !.flags = flags]
  BY <1>4, <1>5, <1>6, <1>13 DEF Enforced
<1>15. Updated(read, cand) = [kept EXCEPT !.rev = rev]
  BY <1>1, <1>7, <1>13 DEF Updated
<1>16. PICK new : new = [kept EXCEPT !.rev = rev]
  OBVIOUS
<1>17. new \in Content /\ new.doc = cand.doc /\ new.pid = cand.pid /\ new.blocks = blocks
  <2>1. kept \in Content /\ kept.doc = cand.doc /\ kept.pid = cand.pid /\ kept.blocks = blocks
    BY <1>10, <1>11, <1>14 DEF Content
  <2>2. QED
    BY <1>12, <1>16, <2>1 DEF Content
<1>18. ASSUME NEW b \in Blocks, ~blocks[b].exempt, ~blocks[b].review
       PROVE  <<new.pid, blocks[b].claim, blocks[b].text>> \in said
  <2>1. blocks[b] = cand.blocks[b] /\ Exact(cand.blocks[b], l)
    BY <1>9, <1>18
  <2>2. /\ blocks[b].claim \in Tailored(claims)
        /\ blocks[b].text = claims[blocks[b].claim].text
    BY <1>3, <2>1 DEF Exact
  <2>3. \A c \in Tailored(claims) : <<ledger[l].pid, c, claims[c].text>> \in said
    BY <1>2, <1>3 DEF Says
  <2>4. QED
    BY <1>2, <1>17, <2>2, <2>3
<1>19. Worded(new)
  BY <1>17, <1>18 DEF Worded
<1>20. QED
  BY <1>15, <1>16, <1>17, <1>19


LEMMA SessionStored ==
    ASSUME CvInv, NEW s \in 1..Len(sessions), NEW cand \in Content,
           sessions' = [sessions EXCEPT ![s].cand = cand]
    PROVE  /\ sessions' \in Seq(SessionRow) /\ Len(sessions') = Len(sessions)
           /\ \A t \in 1..Len(sessions) :
                 /\ sessions'[t].base = sessions[t].base
                 /\ sessions'[t].status = sessions[t].status
                 /\ sessions'[t].cand = IF t = s THEN cand ELSE sessions[t].cand
<1>1. sessions \in [1..Len(sessions) -> SessionRow] /\ Len(sessions) \in Nat
  BY CvTyped
<1>2. /\ sessions' \in [1..Len(sessions) -> SessionRow]
      /\ \A t \in 1..Len(sessions) :
            /\ sessions'[t].base = sessions[t].base
            /\ sessions'[t].status = sessions[t].status
            /\ sessions'[t].cand = IF t = s THEN cand ELSE sessions[t].cand
  BY <1>1 DEF SessionRow
<1>3. QED
  BY <1>1, <1>2, FunctionIsSeq

LEMMA StoreStands ==
    ASSUME CvInv, NEW s \in 1..Len(sessions), NEW cand \in Content,
           cand.doc \in 1..Len(docs), docs[cand.doc].status = "candidate", Worded(cand),
           Single /\ sessions[s].status = "active" => cand.doc = sessions[s].cand.doc,
           Store(s, cand), UNCHANGED profileVars
    PROVE  Stands
<1>1. PICK d \in 1..Len(docs) : d = cand.doc
  OBVIOUS
<1>2. /\ docs \in [1..Len(docs) -> DocRow] /\ Len(docs) \in Nat
      /\ Len(sessions) \in Nat
  BY CvTyped
<1>3. docs' = [docs EXCEPT ![d].content = cand]
  BY <1>1 DEF Store
<1>4. /\ docs' \in [1..Len(docs) -> DocRow]
      /\ \A e \in 1..Len(docs) :
            /\ docs'[e].status = docs[e].status /\ docs'[e].ver = docs[e].ver
            /\ docs'[e].ledger = docs[e].ledger
            /\ docs'[e].content = IF e = d THEN cand ELSE docs[e].content
  <2>1. docs[d] \in DocRow
    BY <1>2
  <2>2. PICK row : row = [docs[d] EXCEPT !.content = cand]
    OBVIOUS
  <2>3. /\ row \in DocRow /\ row.content = cand /\ row.status = docs[d].status
        /\ row.ver = docs[d].ver /\ row.ledger = docs[d].ledger
    BY <2>1, <2>2 DEF DocRow
  <2>4. docs' = [docs EXCEPT ![d] = row]
    BY <1>2, <1>3, <2>2
  <2>5. docs' \in [1..Len(docs) -> DocRow] /\ docs'[d] = row
        /\ \A e \in 1..Len(docs) : e # d => docs'[e] = docs[e]
    BY <1>2, <2>3, <2>4
  <2>6. QED
    BY <2>3, <2>5
<1>5. docs' \in Seq(DocRow) /\ Len(docs') = Len(docs)
  BY <1>2, <1>4, FunctionIsSeq
<1>6. /\ Onward /\ UNCHANGED ledger /\ UNCHANGED said /\ (Single' => Single)
  BY SameReads, ReadsOnward, LedgersTyped
<1>7. DocsInv'
  <2>1. ASSUME NEW e \in 1..Len(docs)
        PROVE  /\ docs'[e].ver = e /\ docs'[e].ledger \in 1..Len(ledger)
               /\ Worded(docs'[e].content)
               /\ docs'[e].status = "approved" =>
                      \A b \in Blocks : ~docs'[e].content.blocks[b].review
    <3>1. /\ docs[e].ver = e /\ docs[e].ledger \in 1..Len(ledger)
          /\ Worded(docs[e].content)
          /\ docs[e].status = "approved" =>
                 \A b \in Blocks : ~docs[e].content.blocks[b].review
      BY DEF CvInv, DocsInv
    <3>2. CASE e = d
      BY <1>1, <1>4, <3>1, <3>2
    <3>3. CASE e # d
      <4>1. /\ docs'[e].content = docs[e].content /\ docs'[e].status = docs[e].status
            /\ docs'[e].ver = docs[e].ver /\ docs'[e].ledger = docs[e].ledger
        BY <1>4, <3>3
      <4>2. QED
        BY <3>1, <4>1
    <3>4. QED
      BY <3>2, <3>3
  <2>2. Len(docs) <= MaxDocuments
    BY DEF CvInv, DocsInv
  <2>3. QED
    BY <1>5, <1>6, <2>1, <2>2 DEF DocsInv, Worded
<1>8. /\ sessions' \in Seq(SessionRow) /\ Len(sessions') = Len(sessions)
      /\ \A t \in 1..Len(sessions) :
            /\ sessions'[t].base = sessions[t].base
            /\ sessions'[t].status = sessions[t].status
            /\ sessions'[t].cand = IF t = s THEN cand ELSE sessions[t].cand
  <2>1. sessions' = [sessions EXCEPT ![s].cand = cand]
    BY DEF Store
  <2>2. QED
    BY <2>1, SessionStored
<1>9. ASSUME Single, NEW t \in 1..Len(sessions), sessions[t].status = "active"
      PROVE  sessions'[t].cand.doc = sessions[t].cand.doc
  <2>1. CASE t = s
    BY <1>8, <1>9, <2>1
  <2>2. CASE t # s
    BY <1>8, <2>2
  <2>3. QED
    BY <2>1, <2>2
<1>10. Single => OneOpen'
  <2>1. ASSUME Single, NEW t \in 1..Len(sessions), sessions'[t].status = "active"
        PROVE  /\ docs'[sessions'[t].cand.doc].status = "candidate"
               /\ \A e \in 1..Len(docs) :
                     docs'[e].status = "approved" => e < sessions'[t].cand.doc
    <3>1. sessions[t].status = "active" /\ sessions'[t].cand.doc = sessions[t].cand.doc
      BY <1>8, <1>9, <2>1
    <3>2. /\ sessions[t].cand.doc \in 1..Len(docs)
          /\ docs[sessions[t].cand.doc].status = "candidate"
          /\ \A e \in 1..Len(docs) : docs[e].status = "approved" => e < sessions[t].cand.doc
      BY <2>1, <3>1 DEF CvInv, SessionsInv, OneOpen
    <3>3. QED
      BY <1>4, <3>1, <3>2
  <2>2. ASSUME Single, NEW t \in 1..Len(sessions), NEW u \in 1..Len(sessions),
               sessions'[t].status = "active", sessions'[u].status = "active"
        PROVE  t = u
    <3>1. sessions[t].status = "active" /\ sessions[u].status = "active"
      BY <1>8, <2>2
    <3>2. QED
      BY <2>2, <3>1 DEF CvInv, SessionsInv, OneOpen
  <2>3. QED
    BY <1>5, <1>8, <2>1, <2>2 DEF OneOpen
<1>11. SessionsInv'
  <2>1. ASSUME NEW t \in 1..Len(sessions)
        PROVE  /\ sessions'[t].base \in 0..Len(docs)
               /\ sessions'[t].cand.doc \in 1..Len(docs)
               /\ Worded(sessions'[t].cand)
    <3>1. /\ sessions[t].base \in 0..Len(docs) /\ sessions[t].cand.doc \in 1..Len(docs)
          /\ Worded(sessions[t].cand)
      BY DEF CvInv, SessionsInv
    <3>2. CASE t = s
      BY <1>1, <1>8, <3>1, <3>2
    <3>3. CASE t # s
      <4>1. sessions'[t].cand = sessions[t].cand /\ sessions'[t].base = sessions[t].base
        BY <1>8, <3>3
      <4>2. QED
        BY <3>1, <4>1
    <3>4. QED
      BY <3>2, <3>3
  <2>2. Len(sessions) <= MaxSessions
    BY DEF CvInv, SessionsInv
  <2>3. QED
    BY <1>5, <1>6, <1>8, <1>10, <2>1, <2>2 DEF SessionsInv, Worded
<1>12. VersionsKept /\ NewestApproved
  BY <1>1, <1>4, <1>5 DEF VersionsKept, NewestApproved
<1>13. (\A p : Holds(p) => Holds(p)') /\ (\A new : Ready(new) => Ready(new)')
  <2>1. \A t \in 1..Len(sessions) : Single' /\ sessions'[t].status = "active" =>
            sessions[t].status = "active" /\ sessions'[t].cand.doc = sessions[t].cand.doc
    BY <1>6, <1>8, <1>9
  <2>2. QED
    BY <1>2, <1>5, <1>6, <1>8, <2>1, HoldsKept
<1>14. QED
  BY <1>6, <1>7, <1>11, <1>12, <1>13 DEF Stands, Onward

LEMMA StoreAnewStands ==
    ASSUME CvInv, NEW s \in 1..Len(sessions), NEW cand \in Content,
           Single => sessions[s].status # "active", Worded(cand),
           ApprovedLedgers # {}, Len(docs) < MaxDocuments,
           StoreAnew(s, cand), UNCHANGED profileVars
    PROVE  Stands
<1>1. PICK fresh : fresh = [cand EXCEPT !.doc = Len(docs) + 1]
  OBVIOUS
<1>2. Len(docs) \in Nat /\ Len(sessions) \in Nat /\ MaxDocuments \in Nat
  BY CvTyped
<1>3. /\ fresh \in Content /\ fresh.doc = Len(docs) + 1
      /\ fresh.blocks = cand.blocks /\ fresh.pid = cand.pid
  <2>1. PICK d \in 1..MaxDocuments : d = Len(docs) + 1
    BY <1>2
  <2>2. fresh = [cand EXCEPT !.doc = d]
    BY <1>1, <2>1
  <2>3. QED
    BY <2>1, <2>2 DEF Content
<1>4. Worded(fresh)
  BY <1>3 DEF Worded
<1>5. Onward /\ UNCHANGED ledger /\ UNCHANGED said /\ (Single' => Single)
  BY SameReads, ReadsOnward, LedgersTyped
<1>6. CurrentLedger \in 1..Len(ledger)
  BY CurrentApproved, LedgerTyped DEF CvInv, ProfileInv, ApprovedLedgers, ApprovedOf, Ledgers
<1>7. /\ DocsInv' /\ VersionsKept /\ NewestApproved
      /\ Len(docs') = Len(docs) + 1
      /\ \A d \in 1..Len(docs) : docs'[d] = docs[d]
      /\ docs'[fresh.doc].status = "candidate"
  <2>1. PICK l \in 1..Len(ledger) : l = CurrentLedger
    BY <1>6
  <2>2. PICK user \in OnboardingRuns \cup {NoRun} : user = ApprovedUser
    BY ApprovedUserTyped DEF CvInv, ProfileInv
  <2>3. docs' = Append(docs, [status |-> "candidate", ver |-> NextVersion, ledger |-> l,
                              user |-> user, content |-> fresh])
    BY <1>1, <2>1, <2>2 DEF StoreAnew
  <2>4. QED
    BY <1>3, <1>4, <1>5, <2>3, DocAppended
<1>8. sessions' = [sessions EXCEPT ![s].cand = fresh]
  BY <1>1 DEF StoreAnew
<1>9. /\ sessions' \in Seq(SessionRow) /\ Len(sessions') = Len(sessions)
      /\ \A t \in 1..Len(sessions) :
            /\ sessions'[t].base = sessions[t].base
            /\ sessions'[t].status = sessions[t].status
            /\ sessions'[t].cand = IF t = s THEN fresh ELSE sessions[t].cand
  BY <1>3, <1>8, SessionStored
<1>10. ASSUME Single, NEW t \in 1..Len(sessions), sessions[t].status = "active"
       PROVE  sessions'[t].cand = sessions[t].cand
  BY <1>9, <1>10
<1>11. Single => OneOpen'
  <2>1. ASSUME Single, NEW t \in 1..Len(sessions), sessions'[t].status = "active"
        PROVE  /\ docs'[sessions'[t].cand.doc].status = "candidate"
               /\ \A d \in 1..Len(docs') :
                     docs'[d].status = "approved" => d < sessions'[t].cand.doc
    <3>1. sessions[t].status = "active" /\ sessions'[t].cand = sessions[t].cand
      BY <1>9, <1>10, <2>1
    <3>2. /\ sessions[t].cand.doc \in 1..Len(docs)
          /\ docs[sessions[t].cand.doc].status = "candidate"
          /\ \A d \in 1..Len(docs) : docs[d].status = "approved" => d < sessions[t].cand.doc
      BY <2>1, <3>1 DEF CvInv, SessionsInv, OneOpen
    <3>3. docs'[sessions'[t].cand.doc].status = "candidate"
      BY <1>7, <3>1, <3>2
    <3>4. ASSUME NEW d \in 1..Len(docs'), docs'[d].status = "approved"
          PROVE  d < sessions'[t].cand.doc
      <4>1. d # Len(docs) + 1
        BY <1>3, <1>7, <3>4
      <4>2. d \in 1..Len(docs) /\ docs'[d] = docs[d]
        BY <1>2, <1>7, <4>1
      <4>3. QED
        BY <3>1, <3>2, <3>4, <4>2
    <3>5. QED
      BY <3>3, <3>4
  <2>2. ASSUME Single, NEW t \in 1..Len(sessions), NEW u \in 1..Len(sessions),
               sessions'[t].status = "active", sessions'[u].status = "active"
        PROVE  t = u
    <3>1. sessions[t].status = "active" /\ sessions[u].status = "active"
      BY <1>9, <2>2
    <3>2. QED
      BY <2>2, <3>1 DEF CvInv, SessionsInv, OneOpen
  <2>3. QED
    BY <1>9, <2>1, <2>2 DEF OneOpen
<1>12. SessionsInv'
  <2>1. ASSUME NEW t \in 1..Len(sessions)
        PROVE  /\ sessions'[t].base \in 0..(Len(docs) + 1)
               /\ sessions'[t].cand.doc \in 1..(Len(docs) + 1)
               /\ Worded(sessions'[t].cand)
    <3>1. /\ sessions[t].base \in 0..Len(docs) /\ sessions[t].cand.doc \in 1..Len(docs)
          /\ Worded(sessions[t].cand)
      BY DEF CvInv, SessionsInv
    <3>2. QED
      BY <1>2, <1>3, <1>4, <1>9, <3>1
  <2>2. Len(sessions) <= MaxSessions
    BY DEF CvInv, SessionsInv
  <2>3. QED
    BY <1>5, <1>7, <1>9, <1>11, <2>1, <2>2 DEF SessionsInv, Worded
<1>13. (\A p : Holds(p) => Holds(p)') /\ (\A new : Ready(new) => Ready(new)')
  <2>1. \A t \in 1..Len(sessions) : Single' /\ sessions'[t].status = "active" =>
            sessions[t].status = "active" /\ sessions'[t].cand.doc = sessions[t].cand.doc
    BY <1>5, <1>9, <1>10
  <2>2. Len(docs') \in Nat /\ Len(docs) <= Len(docs')
    BY <1>2, <1>7
  <2>3. QED
    BY <1>2, <1>5, <1>9, <2>1, <2>2, HoldsKept
<1>14. QED
  BY <1>5, <1>7, <1>12, <1>13 DEF Stands, Onward

LEMMA UpdateStands ==
    ASSUME CvInv, NEW s \in 1..Len(sessions), NEW read \in Content, NEW cand \in Content,
           cand.doc \in 1..Len(docs),
           Single /\ sessions[s].status = "active" => cand.doc = sessions[s].cand.doc,
           Update(s, read, cand), UNCHANGED profileVars
    PROVE  Stands
<1>1. Accepted(read, cand)
  BY DEF Update
<1>2. PICK new : new = Updated(read, cand)
  OBVIOUS
<1>3. new \in Content /\ new.doc = cand.doc /\ Worded(new)
  BY <1>1, <1>2, UpdatedContent
<1>4. CASE Mutable(cand.doc)
  <2>1. Store(s, new)
    BY <1>2, <1>4 DEF Update
  <2>2. docs[new.doc].status = "candidate"
    BY <1>3, <1>4 DEF Mutable
  <2>3. QED
    BY <1>3, <2>1, <2>2, StoreStands
<1>5. CASE ~Mutable(cand.doc)
  <2>1. StoreAnew(s, new)
    BY <1>2, <1>5 DEF Update
  <2>2. ApprovedLedgers # {} /\ Len(docs) < MaxDocuments
    BY <1>1, <1>5 DEF Accepted, Room
  <2>3. Single => sessions[s].status # "active"
    BY <1>5 DEF CvInv, SessionsInv, OneOpen, Mutable
  <2>4. QED
    BY <1>3, <2>1, <2>2, <2>3, StoreAnewStands
<1>6. QED
  BY <1>4, <1>5

LEMMA EditAtOnceKeeps ==
    ASSUME CvInv, EditAtOnce
    PROVE  CvInv' /\ VersionsKept /\ NewestApproved
<1>1. /\ UNCHANGED profileVars /\ UNCHANGED msg /\ UNCHANGED edit /\ UNCHANGED opening
      /\ \E s \in Active : \E cand \in Edits(sessions[s].cand) :
            Update(s, sessions[s].cand, cand)
  BY DEF EditAtOnce
<1>2. PICK s \in Active : \E cand \in Edits(sessions[s].cand) :
          Update(s, sessions[s].cand, cand)
  BY <1>1
<1>3. PICK read : read = sessions[s].cand
  OBVIOUS
<1>4. PICK cand \in Edits(read) : Update(s, read, cand)
  BY <1>2, <1>3
<1>5. s \in 1..Len(sessions)
  BY ActiveAre
<1>6. read \in Content /\ read.doc \in 1..Len(docs)
  BY <1>3, <1>5, SessionCand
<1>7. cand \in Content /\ cand.doc = read.doc
  BY <1>6, EditsTyped
<1>8. Stands
  BY <1>1, <1>3, <1>4, <1>5, <1>6, <1>7, UpdateStands
<1>9. QED
  BY <1>1, <1>8, PendingKeeps

LEMMA EditCommitsKeeps ==
    ASSUME CvInv, ~Torn, EditCommits
    PROVE  CvInv' /\ VersionsKept /\ NewestApproved
<1>1. /\ edit # Nothing /\ edit' = Nothing
      /\ UNCHANGED profileVars /\ UNCHANGED msg /\ UNCHANGED opening
      /\ \/ Update(edit.sess, edit.read, edit.cand)
         \/ UNCHANGED docs /\ UNCHANGED sessions
  BY DEF EditCommits
<1>2. Holds(edit) /\ edit.cand \in Content /\ edit.cand.doc = edit.read.doc
  BY <1>1 DEF CvInv, PendingInv
<1>3. /\ edit.sess \in 1..Len(sessions) /\ edit.read \in Content
      /\ edit.cand.doc \in 1..Len(docs)
      /\ Single /\ sessions[edit.sess].status = "active" =>
             edit.cand.doc = sessions[edit.sess].cand.doc
  BY <1>2 DEF Holds
<1>4. Stands
  <2>1. CASE Update(edit.sess, edit.read, edit.cand)
    <3>1. PICK s \in 1..Len(sessions) : s = edit.sess
      BY <1>3
    <3>2. PICK read \in Content : read = edit.read
      BY <1>3
    <3>3. PICK cand \in Content : cand = edit.cand
      BY <1>2
    <3>4. Update(s, read, cand)
      BY <2>1, <3>1, <3>2, <3>3
    <3>5. QED
      BY <1>1, <1>3, <3>1, <3>3, <3>4, UpdateStands
  <2>2. CASE UNCHANGED docs /\ UNCHANGED sessions
    <3>1. Onward
      BY <1>1, SameReads, ReadsOnward
    <3>2. QED
      BY <2>2, <3>1, NothingStored
  <2>3. QED
    BY <1>1, <2>1, <2>2
<1>5. QED
  BY <1>1, <1>4, PendingKeeps

(* The file of an agent, and its import.                                   *)
LEMMA PayloadTyped ==
    ASSUME CvInv, Holds(msg), NEW payload \in Payloads
    PROVE  payload \in Content /\ payload.doc = msg.read.doc
<1>1. PICK l \in Ledgers, b \in Blocks, block \in {x \in Block : ~x.review} :
          payload = [doc |-> msg.read.doc, pid |-> ledger[l].pid, rev |-> 1,
                     blocks |-> Composed(b, block), flags |-> {}]
  BY DEF Payloads
<1>2. PICK read \in Content : read = msg.read
  BY DEF Holds
<1>3. PICK d \in 1..MaxDocuments : d = read.doc
  BY DEF Content
<1>4. PICK row \in Row : row = ledger[l]
  BY LedgerTyped DEF CvInv, ProfileInv
<1>5. PICK pid \in ProfileIds : pid = row.pid
  BY RowTyped
<1>6. PICK blocks : blocks = [read.blocks EXCEPT ![b] = block]
  OBVIOUS
<1>7. blocks \in [Blocks -> Block \cup {NoBlock}]
  BY <1>6 DEF Content
<1>8. PICK flags \in SUBSET Blocks : flags = {}
  OBVIOUS
<1>9. PICK one \in 1..MaxRevision : one = 1
  BY CvTyped
<1>10. Composed(b, block) = blocks
  BY <1>2, <1>6 DEF Composed
<1>11. payload = [doc |-> d, pid |-> pid, rev |-> one, blocks |-> blocks, flags |-> flags]
  BY <1>1, <1>2, <1>3, <1>4, <1>5, <1>8, <1>9, <1>10
<1>12. payload \in Content /\ payload.doc = d
  BY <1>7, <1>11, ContentOf
<1>13. QED
  BY <1>2, <1>3, <1>12

LEMMA EndMessageKeeps ==
    ASSUME CvInv, EndMessage
    PROVE  CvInv' /\ VersionsKept /\ NewestApproved
<1>1. /\ msg # Nothing /\ msg' = Nothing
      /\ UNCHANGED profileVars /\ UNCHANGED edit /\ UNCHANGED opening
      /\ \/ \E payload \in Payloads : Update(msg.sess, msg.read, payload)
         \/ UNCHANGED docs /\ UNCHANGED sessions
  BY DEF EndMessage
<1>2. Holds(msg)
  BY <1>1 DEF CvInv, PendingInv
<1>3. /\ msg.sess \in 1..Len(sessions) /\ msg.read \in Content
      /\ msg.read.doc \in 1..Len(docs)
      /\ Single /\ sessions[msg.sess].status = "active" =>
             msg.read.doc = sessions[msg.sess].cand.doc
  BY <1>2 DEF Holds
<1>4. Stands
  <2>1. CASE \E payload \in Payloads : Update(msg.sess, msg.read, payload)
    <3>1. PICK payload \in Payloads : Update(msg.sess, msg.read, payload)
      BY <2>1
    <3>2. payload \in Content /\ payload.doc = msg.read.doc
      BY <1>2, PayloadTyped
    <3>3. PICK s \in 1..Len(sessions) : s = msg.sess
      BY <1>3
    <3>4. PICK read \in Content : read = msg.read
      BY <1>3
    <3>5. Update(s, read, payload)
      BY <3>1, <3>3, <3>4
    <3>6. QED
      BY <1>1, <1>3, <3>2, <3>3, <3>5, UpdateStands
  <2>2. CASE UNCHANGED docs /\ UNCHANGED sessions
    <3>1. Onward
      BY <1>1, SameReads, ReadsOnward
    <3>2. QED
      BY <2>2, <3>1, NothingStored
  <2>3. QED
    BY <1>1, <2>1, <2>2
<1>5. QED
  BY <1>1, <1>4, PendingKeeps

LEMMA ApproveKeeps ==
    ASSUME CvInv, Approve
    PROVE  CvInv' /\ VersionsKept /\ NewestApproved
<1>1. /\ UNCHANGED profileVars /\ UNCHANGED msg /\ UNCHANGED edit /\ UNCHANGED opening
  BY DEF Approve
<1>2. PICK s \in Active :
          /\ Approvable(sessions[s].cand) /\ Mutable(sessions[s].cand.doc)
          /\ docs' = [docs EXCEPT ![sessions[s].cand.doc].status = "approved",
                                  ![sessions[s].cand.doc].content = sessions[s].cand]
          /\ sessions' = [sessions EXCEPT ![s].status = "completed"]
  BY DEF Approve
<1>3. PICK cand : cand = sessions[s].cand
  OBVIOUS
<1>4. PICK d : d = cand.doc
  OBVIOUS
<1>5. /\ Approvable(cand) /\ docs[d].status = "candidate"
      /\ docs' = [docs EXCEPT ![d].status = "approved", ![d].content = cand]
      /\ sessions' = [sessions EXCEPT ![s].status = "completed"]
  <2>1. Mutable(d)
    BY <1>2, <1>3, <1>4
  <2>2. docs[d].status \in {"candidate"}
    BY <2>1 DEF Mutable
  <2>3. QED
    BY <1>2, <1>3, <1>4, <2>2
<1>6. s \in 1..Len(sessions) /\ sessions[s].status = "active"
  BY ActiveAre
<1>7. cand \in Content /\ d \in 1..Len(docs) /\ Worded(cand)
  BY <1>3, <1>4, <1>6, SessionCand DEF CvInv, SessionsInv
<1>8. /\ Single => \A e \in 1..Len(docs) : docs[e].status = "approved" => e < d
      /\ Single => \A t \in 1..Len(sessions) : sessions[t].status = "active" => t = s
  BY <1>3, <1>4, <1>6 DEF CvInv, SessionsInv, OneOpen
<1>9. \A b \in Blocks : ~cand.blocks[b].review
  BY <1>5 DEF Approvable
<1>10. /\ docs \in [1..Len(docs) -> DocRow] /\ Len(docs) \in Nat
       /\ sessions \in [1..Len(sessions) -> SessionRow] /\ Len(sessions) \in Nat
  BY CvTyped
<1>11. /\ docs' \in [1..Len(docs) -> DocRow]
       /\ \A e \in 1..Len(docs) :
             /\ docs'[e].ver = docs[e].ver /\ docs'[e].ledger = docs[e].ledger
             /\ e # d => docs'[e] = docs[e]
       /\ docs'[d].status = "approved" /\ docs'[d].content = cand
  <2>1. docs[d] \in DocRow
    BY <1>7, <1>10
  <2>2. PICK row : row = [docs[d] EXCEPT !.status = "approved", !.content = cand]
    OBVIOUS
  <2>3. /\ row \in DocRow /\ row.status = "approved" /\ row.content = cand
        /\ row.ver = docs[d].ver /\ row.ledger = docs[d].ledger
    BY <1>7, <2>1, <2>2 DEF DocRow
  <2>4. docs' = [docs EXCEPT ![d] = row]
    BY <1>5, <1>7, <1>10, <2>2
  <2>5. QED
    BY <1>7, <1>10, <2>3, <2>4
<1>12. docs' \in Seq(DocRow) /\ Len(docs') = Len(docs)
  BY <1>10, <1>11, FunctionIsSeq
<1>13. /\ sessions' \in [1..Len(sessions) -> SessionRow]
       /\ \A t \in 1..Len(sessions) :
             /\ sessions'[t].base = sessions[t].base /\ sessions'[t].cand = sessions[t].cand
             /\ sessions'[t].status = IF t = s THEN "completed" ELSE sessions[t].status
  BY <1>5, <1>6, <1>10 DEF SessionRow, SessionStatus
<1>14. sessions' \in Seq(SessionRow) /\ Len(sessions') = Len(sessions)
  BY <1>10, <1>13, FunctionIsSeq
<1>15. Onward /\ UNCHANGED ledger /\ UNCHANGED said /\ (Single' => Single)
  BY <1>1, SameReads, ReadsOnward, LedgersTyped
<1>16. DocsInv'
  <2>1. ASSUME NEW e \in 1..Len(docs)
        PROVE  /\ docs'[e].ver = e /\ docs'[e].ledger \in 1..Len(ledger)
               /\ Worded(docs'[e].content)
               /\ docs'[e].status = "approved" =>
                      \A b \in Blocks : ~docs'[e].content.blocks[b].review
    <3>1. /\ docs[e].ver = e /\ docs[e].ledger \in 1..Len(ledger)
          /\ Worded(docs[e].content)
          /\ docs[e].status = "approved" =>
                 \A b \in Blocks : ~docs[e].content.blocks[b].review
      BY DEF CvInv, DocsInv
    <3>2. CASE e = d
      BY <1>7, <1>9, <1>11, <3>1, <3>2
    <3>3. CASE e # d
      <4>1. docs'[e] = docs[e]
        BY <1>11, <3>3
      <4>2. QED
        BY <3>1, <4>1
    <3>4. QED
      BY <3>2, <3>3
  <2>2. Len(docs) <= MaxDocuments
    BY DEF CvInv, DocsInv
  <2>3. QED
    BY <1>12, <1>15, <2>1, <2>2 DEF DocsInv, Worded
<1>17. SessionsInv'
  <2>1. \A t \in 1..Len(sessions) :
            /\ sessions[t].base \in 0..Len(docs) /\ sessions[t].cand.doc \in 1..Len(docs)
            /\ Worded(sessions[t].cand)
    BY DEF CvInv, SessionsInv
  <2>2. Len(sessions) <= MaxSessions
    BY DEF CvInv, SessionsInv
  <2>3. Single => \A t \in 1..Len(sessions) : sessions'[t].status # "active"
    BY <1>8, <1>13
  <2>4. Single' => OneOpen'
    BY <1>14, <1>15, <2>3 DEF OneOpen
  <2>5. QED
    BY <1>12, <1>13, <1>14, <1>15, <2>1, <2>2, <2>4 DEF SessionsInv, Worded
<1>18. (\A p : Holds(p) => Holds(p)') /\ (\A new : Ready(new) => Ready(new)')
  <2>1. \A t \in 1..Len(sessions) : Single' /\ sessions'[t].status = "active" =>
            sessions[t].status = "active" /\ sessions'[t].cand.doc = sessions[t].cand.doc
    BY <1>13
  <2>2. Len(docs') \in Nat /\ Len(docs) <= Len(docs')
        /\ Len(sessions') \in Nat /\ Len(sessions) <= Len(sessions')
    BY <1>10, <1>12, <1>14
  <2>3. QED
    BY <1>15, <2>1, <2>2, HoldsKept
<1>19. VersionsKept
  BY <1>5, <1>7, <1>11, <1>12 DEF VersionsKept
<1>20. NewestApproved
  <2>1. ASSUME NEW e \in 1..Len(docs), docs[e].status = "candidate",
               docs'[e].status = "approved"
        PROVE  e = d
    BY <1>11, <2>1
  <2>2. \A e \in 1..Len(docs) : docs[e].ver = e
    BY DEF CvInv, DocsInv
  <2>3. QED
    BY <1>7, <1>8, <2>1, <2>2 DEF NewestApproved, Single
<1>21. Stands
  BY <1>15, <1>16, <1>17, <1>18, <1>19, <1>20 DEF Stands, Onward
<1>22. QED
  BY <1>1, <1>21, PendingKeeps

-----------------------------------------------------------------------------
(* Every step of the builder and of the profile.                           *)
LEMMA CvNext ==
    ~Torn /\ CvInv /\ [Next]_vars => CvInv' /\ [VersionsKept]_docs /\ [NewestApproved]_docs
<1> SUFFICES ASSUME ~Torn, CvInv, [Next]_vars
             PROVE  CvInv' /\ [VersionsKept]_docs /\ [NewestApproved]_docs
  OBVIOUS
<1>1. CASE UNCHANGED vars
  <2>1. /\ UNCHANGED profileVars /\ UNCHANGED docs /\ UNCHANGED sessions
        /\ UNCHANGED msg /\ UNCHANGED edit /\ UNCHANGED opening
    BY <1>1 DEF vars, builderVars
  <2>2. Onward
    BY <2>1, SameReads, ReadsOnward
  <2>3. Stands
    BY <2>1, <2>2, NothingStored
  <2>4. QED
    BY <2>1, <2>3, PendingKeeps
<1>2. CASE UNCHANGED builderVars /\ ((\E r \in OnboardingRuns : Import(r)) \/ ProfileNext)
  BY <1>2, ProfileStepInBuilder
<1>3. CASE StartSession
  BY <1>3, StartKeeps
<1>4. CASE OpeningReads
  BY <1>4, OpeningReadsKeeps
<1>5. CASE OpeningInserts
  BY <1>5, OpeningInsertsKeeps
<1>6. CASE EditAtOnce
  BY <1>6, EditAtOnceKeeps
<1>7. CASE EditReads
  BY <1>7, EditReadsKeeps
<1>8. CASE EditCommits
  BY <1>8, EditCommitsKeeps
<1>9. CASE EndMessage
  BY <1>9, EndMessageKeeps
<1>10. CASE Approve
  BY <1>10, ApproveKeeps
<1>11. CASE \E d \in Docs : RestoreVersion(d)
  BY <1>11, RestoreKeeps
<1>12. CASE \E s \in DOMAIN sessions : ResetSession(s)
  BY <1>12, ResetKeeps
<1>13. CASE \E s \in DOMAIN sessions : CloseSession(s)
  <2>1. PICK s \in DOMAIN sessions : CloseSession(s)
    BY <1>13
  <2>2. QED
    BY <2>1, CloseOneKeeps DEF CloseSession
<1>14. CASE \E s \in DOMAIN sessions : BeginMessage(s)
  BY <1>14, BeginMessageKeeps
<1>15. CASE ApproveAnyProposal
  BY <1>15, ApproveProposalKeeps
<1>16. CASE Next
  <2>1. (\E r \in OnboardingRuns : Import(r)) => UNCHANGED builderVars
    BY DEF Import
  <2>2. \/ UNCHANGED builderVars /\ ((\E r \in OnboardingRuns : Import(r)) \/ ProfileNext)
        \/ ApproveAnyProposal
        \/ StartSession \/ OpeningReads \/ OpeningInserts
        \/ EditAtOnce \/ EditReads \/ EditCommits \/ EndMessage \/ Approve
        \/ \E d \in Docs : RestoreVersion(d)
        \/ \E s \in DOMAIN sessions : ResetSession(s)
        \/ \E s \in DOMAIN sessions : CloseSession(s)
        \/ \E s \in DOMAIN sessions : BeginMessage(s)
    BY <1>16, <2>1 DEF Next
  <2>3. QED
    BY <2>2, <1>2, <1>3, <1>4, <1>5, <1>6, <1>7, <1>8, <1>9, <1>10, <1>11, <1>12,
       <1>13, <1>14, <1>15
<1>17. QED
  BY <1>1, <1>16

LEMMA CvHolds == ASSUME ~Torn PROVE Spec => []CvInv
<1>1. CvInv /\ [Next]_vars => CvInv'
  BY CvNext
<1>2. QED
  BY <1>1, CvInit, PTL DEF Spec

LEMMA OneAtMost ==
    ASSUME NEW S, \A l, m \in S : l = m
    PROVE  Cardinality(S) <= 1
<1>1. CASE S = {}
  BY <1>1, FS_EmptySet
<1>2. CASE S # {}
  <2>1. PICK x \in S : TRUE
    BY <1>2
  <2>2. S = {x}
    BY <2>1
  <2>3. QED
    BY <2>2, FS_Singleton
<1>3. QED
  BY <1>1, <1>2

LEMMA CvSound == CvInv => ApprovalsSound /\ WordingApproved
<1> SUFFICES ASSUME CvInv PROVE ApprovalsSound /\ WordingApproved
  OBVIOUS
<1>1. /\ Len(docs) \in Nat /\ Docs = 1..Len(docs) /\ docs \in [1..Len(docs) -> DocRow]
      /\ Len(sessions) \in Nat /\ DOMAIN sessions = 1..Len(sessions)
      /\ sessions \in [1..Len(sessions) -> SessionRow]
      /\ {MaxDocuments, MaxSessions, MaxRevision} \subseteq Nat
      /\ Len(docs) <= MaxDocuments /\ Len(sessions) <= MaxSessions
  BY CvTyped DEF CvInv, DocsInv, SessionsInv
<1>2. /\ ProfileTypeOK /\ Ledgers = 1..Len(ledger) /\ Len(ledger) \in 0..MaxLedgers
      /\ MaxLedgers \in Nat
  BY LedgerTyped DEF CvInv, ProfileInv, ProfileTyped
<1>3. TypeOK
  <2>1. ASSUME NEW d \in Docs
        PROVE  docs[d] \in [status : {"candidate", "approved"}, ver : 1..MaxDocuments,
                            ledger : Ledgers, user : OnboardingRuns \cup {NoRun},
                            content : Content]
    <3>1. docs[d] \in DocRow /\ docs[d].ledger \in Ledgers
      BY <1>1, <1>2 DEF CvInv, DocsInv
    <3>2. QED
      BY <3>1 DEF DocRow
  <2>2. ASSUME NEW s \in DOMAIN sessions
        PROVE  sessions[s] \in [status : {"active", "closed", "completed"},
                                base : Docs \cup {0}, cand : Content]
    <3>1. sessions[s] \in SessionRow /\ sessions[s].base \in 0..Len(docs)
      BY <1>1 DEF CvInv, SessionsInv
    <3>2. sessions[s].base \in Docs \cup {0}
      BY <1>1, <3>1
    <3>3. QED
      BY <3>1, <3>2 DEF SessionRow, SessionStatus
  <2>3. Nothing \in Pending
    BY <1>1 DEF Nothing, Pending
  <2>4. NoOpening \in Opening
    BY <1>1, <1>2 DEF NoOpening, Opening
  <2>5. msg \in Pending /\ edit \in Pending /\ opening \in Opening
    BY <2>3, <2>4 DEF CvInv, PendingInv, Holds, Ready
  <2>6. QED
    BY <1>2, <2>1, <2>2, <2>5 DEF TypeOK
<1>4. LedgerReviewed
  <2>1. ASSUME NEW l \in ApprovedLedgers
        PROVE  Tailored(ledger[l].claims) = Supported(ledger[l].claims)
    <3>1. l \in Ledgers /\ Reviewed(ledger[l].claims)
      BY DEF CvInv, ProfileInv, AllReviewed, ApprovedLedgers, ApprovedOf, Ledgers
    <3>2. PICK row \in Row : row = ledger[l]
      BY <3>1, LedgerTyped DEF CvInv, ProfileInv
    <3>3. PICK claims \in [Claims -> Claim] : claims = row.claims
      BY RowTyped
    <3>4. Reviewed(claims)
      BY <3>1, <3>2, <3>3
    <3>5. QED
      BY <3>2, <3>3, <3>4, ClaimSets
  <2>2. QED
    BY <2>1 DEF LedgerReviewed
<1>5. InTime => BundleOfOneRun
  <2>1. SUFFICES ASSUME InTime PROVE BundleOfOneRun
    OBVIOUS
  <2>2. OneLedger /\ FactsOfOneRun /\ LedgerOfTheRun
    BY <2>1 DEF CvInv, ProfileInv, Bundled
  <2>3. Cardinality(ApprovedLedgers) <= 1
    BY <2>2, OneAtMost DEF OneLedger
  <2>4. QED
    BY <2>2, <2>3 DEF FactsOfOneRun, LedgerOfTheRun, BundleOfOneRun
<1>6. Single => OneActiveSession
  <2>1. SUFFICES ASSUME Single PROVE OneActiveSession
    OBVIOUS
  <2>2. OneOpen
    BY <2>1 DEF CvInv, SessionsInv
  <2>3. \A s, t \in Active : s = t
    BY <2>2, ActiveAre DEF OneOpen
  <2>4. \A s \in Active : docs[sessions[s].cand.doc].status = "candidate"
    BY <2>2, ActiveAre DEF OneOpen
  <2>5. QED
    BY <2>3, <2>4, OneAtMost DEF OneActiveSession
<1>7. WordingApproved
  <2>1. ASSUME NEW d \in Approved, NEW b \in Blocks,
               ~docs[d].content.blocks[b].exempt
        PROVE  <<docs[d].content.pid, docs[d].content.blocks[b].claim,
                 docs[d].content.blocks[b].text>> \in said
    <3>1. d \in 1..Len(docs) /\ docs[d].status = "approved"
      BY <1>1 DEF Approved
    <3>2. Worded(docs[d].content) /\ ~docs[d].content.blocks[b].review
      BY <3>1 DEF CvInv, DocsInv
    <3>3. QED
      BY <2>1, <3>2 DEF Worded
  <2>2. QED
    BY <2>1 DEF WordingApproved
<1>8. QED
  BY <1>3, <1>4, <1>5, <1>6, <1>7 DEF ApprovalsSound, InTime, Single

(* ApprovalsSound: whichever imports, promotions, approvals of claims,     *)
(* sessions, messages and edits interleave, and however late each commits  *)
(* what it has read, an approved ledger rests on reviewed provenance       *)
(* (_validate_promotable).  As long as no promotion and no approval of a   *)
(* claim was overtaken between its reading and its commit, the approved    *)
(* user profile, policy and ledger are one bundle of one run               *)
(* (promote_onboarding); as long as no session was inserted beside one     *)
(* that was opened meanwhile, at most one is active, over a document that  *)
(* can still be approved (start_session, reset_session, restore_version,   *)
(* approve_candidate).                                                     *)
THEOREM ApprovalsStaySound == ASSUME ~Torn PROVE Spec => []ApprovalsSound
BY CvHolds, CvSound, PTL

(* WordingApproved: every word of an approved version was, under the       *)
(* profile it names, a claim of an approved ledger, although approval only *)
(* compares claim ids, the agent's reply may be imported late, and         *)
(* promotions and sessions may overtake each other; except in the blocks   *)
(* that _enforce_claim_text_integrity exempts: headings, contact, hidden   *)
(* and empty blocks, and blocks filled from the profile's fields.          *)
THEOREM WordingStaysApproved == ASSUME ~Torn PROVE Spec => []WordingApproved
BY CvHolds, CvSound, PTL

(* ApprovedImmutable: no message, edit, restoration or reset writes to a   *)
(* document once it is approved, with one session active or several        *)
(* (_ensure_mutable_candidate_snapshot).                                   *)
THEOREM ApprovedStaysImmutable == ASSUME ~Torn PROVE Spec => ApprovedImmutable
<1>1. CvInv => Docs = 1..Len(docs)
  BY CvTyped
<1>2. CvInv /\ [Next]_vars =>
          [\A d \in Approved : docs'[d].status = "approved"
                               /\ docs'[d].content = docs[d].content]_docs
  BY <1>1, CvNext DEF VersionsKept, Approved
<1>3. QED
  BY <1>2, CvHolds, PTL DEF Spec, ApprovedImmutable

(* ApprovedLastIsLatest: a version that is approved has a higher number    *)
(* than every approved one, also when it is of an older session or a       *)
(* restored version (_next_version, latest_approved), until a session is   *)
(* inserted beside an active one.                                          *)
THEOREM ApprovedLastStaysLatest == ASSUME ~Torn PROVE Spec => ApprovedLastIsLatest
<1>1. CvInv => Docs = 1..Len(docs)
  BY CvTyped
<1>2. CvInv /\ [Next]_vars =>
          [\A d \in Docs : /\ docs[d].status = "candidate" /\ docs'[d].status = "approved"
                           /\ "open" \notin stale
             => \A e \in Approved : docs[e].ver < docs[d].ver]_docs
  BY <1>1, CvNext DEF NewestApproved, Approved
<1>3. QED
  BY <1>2, CvHolds, PTL DEF Spec, ApprovedLastIsLatest
=============================================================================
