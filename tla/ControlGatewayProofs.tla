------------------------- MODULE ControlGatewayProofs -------------------------
(***************************************************************************)
(* Proofs about ControlGateway, for every set of keys, agents, submissions *)
(* and every limit.  Every step of the gateway does to the inbox what a    *)
(* step of CommandInbox does, or what a load of its journal does: what     *)
(* InboxProofs shows that both preserve is used here through the instance  *)
(* P.  (InboxProofs is also about the journal of FileInbox, which the      *)
(* gateway has none of: P gives it nothing to do.)                         *)
(***************************************************************************)
EXTENDS ControlGateway, FiniteSetTheorems, TLAPS

P == INSTANCE InboxProofs WITH
    AppendFaults <- {}, CompactFaults <- {}, MaxFaults <- 0, MaxRestarts <- 0,
    journal <- <<>>, file_open <- TRUE, mode <- "up", faults <- 0, restarts <- 0,
    handed <- [k \in Keys |-> 0], unsynced <- FALSE

-----------------------------------------------------------------------------
(* The operators of InboxState are the same under each instance's name.    *)

LEMMA SameCheck ==
    ASSUME NEW c PROVE P!CheckRecordable(inbox, c) = CheckRecordable(inbox, c)
BY DEF CheckRecordable, Tracked, Cardinality,
       P!CheckRecordable, P!Tracked, P!Cardinality

LEMMA SameInsert ==
    ASSUME NEW c PROVE P!InsertRecorded(inbox, c) = InsertRecorded(inbox, c)
BY DEF InsertRecorded, FreshEntry, NoTime, Retain,
       P!InsertRecorded, P!FreshEntry, P!NoTime, P!Retain

LEMMA SameDeliverable ==
    ASSUME NEW a, NEW n
    PROVE  P!Deliverable(inbox, a, n, now) = Deliverable(inbox, a, n, now)
BY DEF Deliverable, Eligible, NoTime, Position, SaturatingSub, Cardinality,
       P!Deliverable, P!Eligible, P!NoTime, P!Position,
       P!SaturatingSub, P!Cardinality

LEMMA SameMaintain ==
    /\ P!MaintainChanges(inbox, now) <=> MaintainChanges(inbox, now)
    /\ P!Maintain(inbox, now) = Maintain(inbox, now)
BY DEF Maintain, MaintainChanges, Settled, Expired, RetiredAt, IsSettled, NoTime,
       SaturatingSub, Cardinality, InScope, Retain,
       P!Maintain, P!MaintainChanges, P!Settled, P!Expired,
       P!RetiredAt, P!IsSettled, P!NoTime, P!SaturatingSub,
       P!Cardinality, P!InScope, P!Retain

LEMMA SameReloaded == P!Reloaded(inbox) = Reloaded(inbox)
BY DEF Reloaded, InScope, Cardinality, Retain,
       P!Reloaded, P!InScope, P!Cardinality, P!Retain

-----------------------------------------------------------------------------
(* Every step of the gateway is a step of its inbox, a load of its journal,  *)
(* or leaves it alone.                                                       *)

Quiet == UNCHANGED <<inbox, now, settled_at>>

LEMMA RecordedIsInboxStep ==
    ASSUME NEW c \in Submissions, inbox' = Recorded(c), UNCHANGED <<now, settled_at>>
    PROVE  P!Next \/ Quiet
<1>1. c \in P!Command
  BY GatewayAssumption DEF Command, P!Command
<1>2. CASE CheckRecordable(inbox, c) = "ok"
  BY <1>1, <1>2, SameCheck, SameInsert DEF Recorded, P!Next, P!Record
<1>3. CASE CheckRecordable(inbox, c) # "ok"
  BY <1>3 DEF Recorded, Quiet
<1> QED
  BY <1>2, <1>3

LEMMA NextIsInboxStep == [Next]_vars => [P!Next]_(P!vars) \/ P!Reopen
<1> SUFFICES ASSUME [Next]_vars PROVE P!Next \/ Quiet \/ P!Reopen
  BY DEF Quiet, P!vars
<1>1. ASSUME NEW c \in Submissions, Submit(c) \/ SubmitRecords(c) \/ SubmitFails(c)
      PROVE  P!Next \/ Quiet
  BY <1>1, RecordedIsInboxStep DEF Submit, SubmitRecords, SubmitFails, Quiet, stores, history
<1>2. ASSUME RepairStep PROVE P!Next \/ Quiet
  BY <1>2, RecordedIsInboxStep
     DEF RepairStep, ReconcilePending, ReconcileCompleted, ReconcileDone,
         ReconcileRecord, Quiet, stores, history
<1>3. ASSUME SweepInbox PROVE P!Next \/ Quiet
  <2>1. CASE MaintainChanges(inbox, now)
    BY <1>3, <2>1, SameMaintain DEF SweepInbox, P!Next, P!Sweep, history
  <2>2. CASE ~MaintainChanges(inbox, now)
    BY <1>3, <2>2 DEF SweepInbox, Maintain, Quiet, history
  <2> QED
    BY <2>1, <2>2
<1>4. ASSUME SweepOutbox \/ WorkerStatementFails PROVE P!Next \/ Quiet
  BY <1>4 DEF SweepOutbox, WorkerStatementFails, Quiet, stores, history
<1>5. ASSUME NEW k \in Keys, FanoutComplete(k) \/ FanoutGivesUp(k) \/ OperatorRequeue(k)
      PROVE  P!Next \/ Quiet
  BY <1>5 DEF FanoutComplete, FanoutGivesUp, OperatorRequeue, Quiet, history
<1>6. ASSUME NEW k \in Keys, Cancel(k) PROVE P!Next \/ Quiet
  BY <1>6 DEF Cancel, CancelResult, SetCancelled, UpdateEntry,
              P!Next, P!Cancel, P!CancelResult, P!SetCancelled,
              P!UpdateEntry
<1>7. ASSUME NEW a \in Agents, NEW n \in PollLimits, Claim(a, n) PROVE P!Next \/ Quiet
  <2>1. P!Claim(a, n)
    BY <1>7, SameDeliverable DEF Claim, MarkDelivered, P!Claim, P!MarkDelivered
  <2> QED
    BY <2>1 DEF P!Next
<1>8. ASSUME NEW a \in Agents, NEW k \in Keys, NEW n \in 0..MaxAttempts, Acknowledge(a, k, n)
      PROVE  P!Next \/ Quiet
  BY <1>8 DEF Acknowledge, AckResult, SetAcknowledged, UpdateEntry,
              P!Next, P!Acknowledge, P!AckResult, P!SetAcknowledged,
              P!UpdateEntry
<1>9. ASSUME Tick PROVE P!Next \/ Quiet
  BY <1>9 DEF Tick, P!Next, P!Tick, stores, history
<1>10. ASSUME Crash \/ UNCHANGED vars PROVE Quiet \/ P!Reopen
  BY <1>10, SameReloaded DEF Crash, Quiet, vars, P!Reopen
<1> QED
  BY <1>1, <1>2, <1>3, <1>4, <1>5, <1>6, <1>7, <1>8, <1>9, <1>10 DEF Next

LEMMA InboxAssumptions ==
    /\ P!ScopesAssumption /\ P!AgentScopesAssumption /\ P!BoundsAssumption
    /\ P!PollAssumption /\ P!ClockAssumption /\ P!FileInboxAssumption
BY ScopesAssumption, AgentScopesAssumption, BoundsAssumption, GatewayAssumption

-----------------------------------------------------------------------------
(* What holds of the inbox inside the gateway. *)

InboxParts ==
    /\ P!TypeOK /\ P!OrderInv /\ P!CapacityInv
    /\ P!CancelledMeansUndelivered /\ P!WindowInv

LEMMA PartsInit == Init => InboxParts
<1> SUFFICES ASSUME Init PROVE InboxParts
  OBVIOUS
<1>1. P!Init
  BY DEF Init, NewInbox, EmptyMap, NoTime, P!Init, P!NewInbox, P!EmptyMap, P!NoTime
<1>2. inbox.entries = EmptyMap /\ inbox.retired = EmptyMap /\ DOMAIN EmptyMap = {}
  BY DEF Init, NewInbox, EmptyMap
<1>3. P!TypeOK /\ P!OrderInv
  BY <1>1, InboxAssumptions, P!TypeInit, P!OrderInit
<1>4. P!CancelledMeansUndelivered
  BY <1>2 DEF P!CancelledMeansUndelivered
<1>5. P!CapacityInv
  <2>1. P!Tracked(inbox) = {}
    BY <1>2 DEF P!Tracked
  <2>2. Cardinality({}) = 0
    BY FS_EmptySet
  <2>3. P!Cardinality({}) = Cardinality({})
    BY DEF P!Cardinality, Cardinality
  <2> QED
    BY <1>2, <2>1, <2>2, <2>3, BoundsAssumption DEF P!CapacityInv, P!Disjoint
<1>6. P!WindowInv
  BY <1>2, BoundsAssumption DEF Init, NoTime, P!WindowInv
<1> QED
  BY <1>3, <1>4, <1>5, <1>6 DEF InboxParts

LEMMA PartsNext == InboxParts /\ [Next]_vars => InboxParts'
<1> SUFFICES ASSUME InboxParts, [Next]_vars PROVE InboxParts'
  OBVIOUS
<1>0. /\ P!TypeOK /\ P!OrderInv /\ P!CapacityInv
      /\ P!CancelledMeansUndelivered /\ P!WindowInv
  BY DEF InboxParts
<1>1. CASE P!Reopen
  BY <1>0, <1>1, InboxAssumptions, P!ReopenKeeps DEF InboxParts
<1>2. CASE [P!Next]_(P!vars)
  <2>0. P!Disjoint
    BY <1>0 DEF P!CapacityInv
  <2>1. P!TypeOK'
    BY <1>0, <1>2, InboxAssumptions, P!TypeNext
  <2>2. P!OrderInv'
    BY <1>0, <1>2, InboxAssumptions, P!OrderNext
  <2>3. P!CapacityInv'
    BY <1>0, <1>2, InboxAssumptions, P!CapacityNext
  <2>4. P!CancelledMeansUndelivered'
    BY <1>0, <1>2, InboxAssumptions, P!ExclusiveNext
  <2>5. P!WindowInv'
    BY <1>0, <1>2, <2>0, InboxAssumptions, P!WindowNext
  <2> QED
    BY <2>1, <2>2, <2>3, <2>4, <2>5 DEF InboxParts
<1> QED
  BY <1>1, <1>2, NextIsInboxStep

LEMMA PartsHold == Spec => []InboxParts
BY PartsInit, PartsNext, PTL DEF Spec

\* The part of it that the proofs about the two stores use.
InboxInv ==
    /\ now \in Nat /\ Retention <= now
    /\ DOMAIN inbox.entries \subseteq Keys /\ DOMAIN inbox.retired \subseteq Keys
    /\ inbox.entries \in [DOMAIN inbox.entries -> Entry]
    /\ settled_at \in [Keys -> Time]
    /\ \A k \in Keys \ Tracked(inbox) : settled_at[k] + Retention <= now

LEMMA InboxHolds == Spec => []InboxInv
<1>1. InboxParts => InboxInv
  BY DEF InboxParts, InboxInv, Tracked, Entry, Time, NoTime,
         P!TypeOK, P!WindowInv, P!Tracked, P!Entry, P!Time, P!NoTime
<1> QED
  BY <1>1, PartsHold, PTL

CapacityKept == Cardinality(Tracked(inbox)) <= Capacity

\* What is proved of the inbox and does not rest on the counts of the scopes holds
\* of it inside the gateway, whatever repairs, sweeps and restarts (with the
\* journal loaded or the store kept) do to it: one outcome, order and
\* sequence in agreement, the shared ceiling, the idempotency window.
THEOREM InboxPromises ==
    Spec => /\ [](P!CancelledMeansUndelivered /\ P!OrderMatchesSequence /\ CapacityKept)
            /\ P!IdempotencyWindow
<1>1. InboxParts =>
        P!CancelledMeansUndelivered /\ P!OrderMatchesSequence /\ CapacityKept
  <2> SUFFICES ASSUME InboxParts PROVE P!OrderMatchesSequence /\ CapacityKept
    BY DEF InboxParts
  <2>1. P!OrderMatchesSequence
    BY InboxAssumptions, P!OrderMatches DEF InboxParts
  <2>2. P!Cardinality(P!Tracked(inbox)) = Cardinality(Tracked(inbox))
    BY DEF P!Cardinality, Cardinality, P!Tracked, Tracked
  <2> QED
    BY <2>1, <2>2 DEF InboxParts, P!CapacityInv, CapacityKept
<1>2. InboxParts =>
        [\A k \in Keys : (k \notin P!Tracked(inbox) /\ k \in P!Tracked(inbox)')
              => settled_at[k] + Retention <= now]_(P!vars)
  BY DEF InboxParts, P!WindowInv
<1> QED
  BY <1>1, <1>2, PartsHold, PTL DEF P!IdempotencyWindow

-----------------------------------------------------------------------------
(* The contract of the trait, without the scope's quota. *)

LEMMA SeenIsContract ==
    ASSUME P!SeenStep(P!Known, P!Known')
    PROVE  Contract!Next
<1>1. ASSUME NEW k \in Keys, NEW a \in Agents, P!SeenRecorded(P!Known, P!Known', k, a)
      PROVE  Contract!Recorded(k, a)
  <2> DEFINE D == DOMAIN P!Known
             S == {j \in D : ScopeOf[j] = ScopeOf[k]}
  <2>0. \A X : /\ P!Cardinality(X) = Cardinality(X) /\ Contract!Cardinality(X) = Cardinality(X)
               /\ P!IsFiniteSet(X) <=> IsFiniteSet(X)
    BY DEF P!Cardinality, Cardinality, Contract!Cardinality, P!IsFiniteSet, IsFiniteSet
  <2>1. IsFiniteSet(D) /\ Cardinality(D) < Capacity
    BY <1>1, <2>0 DEF P!SeenRecorded
  <2>2. S \subseteq D
    OBVIOUS
  <2> HIDE DEF S, D
  <2>3. /\ IsFiniteSet(S) /\ Cardinality(S) <= Cardinality(D)
        /\ Cardinality(S) \in Nat /\ Cardinality(D) \in Nat
    BY <2>1, <2>2, FS_Subset, FS_CardinalityType
  <2>4. Cardinality(S) < Capacity /\ Cardinality(D) < Capacity + 0
    BY <2>1, <2>3, BoundsAssumption
  <2>5. Contract!Cardinality(S) < Capacity /\ Contract!Cardinality(D) < Capacity + 0
    BY <2>0, <2>4
  <2> QED
    BY <1>1, <2>5 DEF P!SeenRecorded, P!Known, P!Seen, Contract!Recorded, Contract!Fresh, S, D
<1>2. ASSUME NEW a \in Agents, NEW S \in SUBSET DOMAIN P!Known,
             P!SeenHandedOut(P!Known, P!Known', a, S)
      PROVE  Contract!HandedOut(a, S)
  BY <1>2 DEF P!SeenHandedOut, P!Known, P!Seen, Contract!HandedOut, Contract!Open
<1>3. ASSUME NEW a \in Agents, NEW k \in DOMAIN P!Known,
             P!SeenAcknowledged(P!Known, P!Known', a, k)
      PROVE  Contract!Acknowledged(a, k)
  BY <1>3 DEF P!SeenAcknowledged, P!Known, P!Seen, Contract!Acknowledged
<1>4. ASSUME NEW k \in DOMAIN P!Known, P!SeenCancelled(P!Known, P!Known', k)
      PROVE  Contract!Cancelled(k)
  BY <1>4 DEF P!SeenCancelled, P!Known, P!Seen, Contract!Cancelled
<1>5. ASSUME NEW S \in SUBSET DOMAIN P!Known, P!SeenForgotten(P!Known, P!Known', S)
      PROVE  Contract!Forgotten(S)
  BY <1>5 DEF P!SeenForgotten, P!Known, P!Seen, Contract!Forgotten, Contract!Closed
<1>6. DOMAIN P!Known = DOMAIN inbox.entries
  BY DEF P!Known
<1> QED
  BY <1>1, <1>2, <1>3, <1>4, <1>5, <1>6 DEF P!SeenStep, Contract!Next

\* The gateway keeps the contract of its inbox, whatever its two recorders, its
\* sweeps, its callers and its restarts do: a command is recorded once while it
\* is known, its deliveries are counted and bounded, it has one outcome, and it
\* is forgotten only when it is over.
THEOREM ContractCorrect == Spec => ContractKept
<1>1. Init => Contract!Init
  BY DEF Init, NewInbox, EmptyMap, Contract!Init
<1>2. InboxParts /\ [Next]_vars => [Contract!Next]_(P!Known)
  <2> SUFFICES ASSUME InboxParts, [Next]_vars PROVE Contract!Next \/ P!Known' = P!Known
    OBVIOUS
  <2>0. P!TypeOK /\ P!OrderInv
    BY DEF InboxParts
  <2>1. CASE P!Reopen
    BY <2>0, <2>1, InboxAssumptions, P!ReopenKeeps
  <2>2. CASE [P!Next]_(P!vars)
    <3>1. P!SeenStep(P!Known, P!Known') \/ P!Known' = P!Known
      BY <2>0, <2>2, InboxAssumptions, P!NextSeen
    <3> QED
      BY <3>1, SeenIsContract
  <2> QED
    BY <2>1, <2>2, NextIsInboxStep
<1> QED
  BY <1>1, <1>2, PartsHold, PTL
     DEF Spec, ContractKept, Contract!Spec, P!Known, P!Seen

-----------------------------------------------------------------------------
(* The invariants of the gateway. *)

Row == [state : {"pending", "complete", "quarantined"}, event : Submissions,
        attempts : Nat, at : Nat]

\* Types; a sweep takes place within the tick that started it.
GatewayType ==
    /\ DOMAIN outbox \subseteq Keys /\ IsFiniteSet(DOMAIN outbox)
    /\ outbox \in [DOMAIN outbox -> Row]
    /\ \A k \in DOMAIN outbox : outbox[k].event.key = k
    /\ minted \in [Keys -> Time]
    /\ submitting \subseteq Submissions
    /\ repair \in [phase : {"idle", "completed", "record"}, events : SUBSET Submissions]
    /\ sweep \in {NoTime, now}
    /\ answered \subseteq Keys /\ owed \subseteq Keys

\* Nobody is owed the command any more.
Over(e) == e.cancelled \/ e.acknowledged \/ e.attempts >= MaxAttempts

\* What leaves the inbox was reported settled before.
KeptInv ==
    /\ \A k \in DOMAIN inbox.retired : settled_at[k] # NoTime
    /\ \A k \in DOMAIN inbox.entries : Over(inbox.entries[k]) => settled_at[k] # NoTime
    /\ \A k \in answered : k \in Tracked(inbox) \/ settled_at[k] # NoTime

\* The identity is too old to be submitted again.
Spent(k) == minted[k] # NoTime /\ now - minted[k] > AcceptWindow

\* Somewhere in the gateway a command of this identity names this agent.
Version(k, a) ==
    \/ \E c \in submitting \cup repair.events : c.key = k /\ c.agent = a
    \/ k \in DOMAIN outbox /\ outbox[k].event.agent = a
    \/ k \in DOMAIN inbox.entries /\ inbox.entries[k].agent = a

\* An identity has one version; once its audit row has expired, whatever is left
\* of it elsewhere, it cannot be given another.
ContentInv ==
    /\ \A k \in Keys : minted[k] <= now
    /\ \A k \in DOMAIN outbox :
         /\ minted[k] # NoTime
         /\ outbox[k].state = "complete" => minted[k] <= outbox[k].at
    /\ \A k \in Keys, a \in Agents, b \in Agents : Version(k, a) /\ Version(k, b) => a = b
    /\ \A k \in Keys, a \in Agents : Version(k, a) /\ k \notin DOMAIN outbox => Spent(k)

\* The row needs no repair any more: its record is there, or was and is over, or
\* the row expired for good.
Dealt(k) ==
    \/ k \in Tracked(inbox)
    \/ settled_at[k] # NoTime
    \/ k \notin DOMAIN outbox /\ Spent(k)

\* The pass still has the row before it: its event is to be recorded, or to be
\* read among the completed ones.
Ahead(k) ==
    \/ \E c \in repair.events : c.key = k
    \/ /\ repair.phase = "completed"
       /\ k \in RecentCompleted(outbox, SaturatingSub(now, Retention))

OwedInv == \A k \in owed : repair.phase # "idle" /\ (Dealt(k) \/ Ahead(k))

-----------------------------------------------------------------------------
(* The rows of the outbox. *)

LEMMA PendingRowType ==
    ASSUME NEW c \in Submissions PROVE PendingRow(c) \in Row /\ PendingRow(c).event = c
BY DEF PendingRow, Row

LEMMA SubmissionType ==
    ASSUME NEW c \in Submissions PROVE c.key \in Keys /\ c.agent \in Agents
BY GatewayAssumption DEF Command

\* What a step does to a row that it neither adds nor removes: the event stays,
\* completion is dated, and a completed row is left as it is.
RowKept(k) ==
    /\ outbox'[k] \in Row
    /\ outbox'[k].event = outbox[k].event
    /\ \/ outbox'[k] = outbox[k]
       \/ /\ outbox[k].state # "complete"
          /\ outbox'[k].state = "complete" => outbox'[k].at = now

LEMMA FanoutRows ==
    ASSUME InboxInv, GatewayType, NEW key \in Keys,
           FanoutComplete(key) \/ FanoutGivesUp(key) \/ OperatorRequeue(key)
    PROVE  DOMAIN outbox' = DOMAIN outbox /\ \A k \in DOMAIN outbox : RowKept(k)
<1>0. now \in Nat /\ \A k \in DOMAIN outbox : outbox[k] \in Row
  BY DEF InboxInv, GatewayType
<1>1. CASE FanoutComplete(key)
  <2>1. outbox' = [k \in DOMAIN outbox |->
                     IF k \in {key} /\ outbox[k].state = "pending"
                     THEN [outbox[k] EXCEPT !.state = "complete", !.attempts = 0, !.at = now]
                     ELSE outbox[k]]
    BY <1>1 DEF FanoutComplete, MarkComplete, MarkCompleteFails, InState
  <2>2. ASSUME NEW k \in DOMAIN outbox PROVE RowKept(k)
    <3> DEFINE q == [outbox[k] EXCEPT !.state = "complete", !.attempts = 0, !.at = now]
    <3>0. outbox[k] \in Row
      BY <1>0
    <3>1. q \in Row /\ q.event = outbox[k].event /\ q.state = "complete" /\ q.at = now
      BY <1>0, <3>0 DEF Row
    <3>2. outbox'[k] = outbox[k] \/ (outbox[k].state = "pending" /\ outbox'[k] = q)
      BY <2>1
    <3> HIDE DEF q
    <3> QED
      BY <3>0, <3>1, <3>2 DEF RowKept
  <2> QED
    BY <2>1, <2>2
<1>2. CASE FanoutGivesUp(key)
  <2>1. outbox' = [k \in DOMAIN outbox |->
                     IF k \in {key} /\ outbox[k].state = "pending"
                     THEN [outbox[k] EXCEPT !.state = "quarantined", !.attempts = 0, !.at = 0]
                     ELSE outbox[k]]
    BY <1>2 DEF FanoutGivesUp, Quarantine
  <2>2. ASSUME NEW k \in DOMAIN outbox PROVE RowKept(k)
    <3> DEFINE q == [outbox[k] EXCEPT !.state = "quarantined", !.attempts = 0, !.at = 0]
    <3>0. outbox[k] \in Row
      BY <1>0
    <3>1. q \in Row /\ q.event = outbox[k].event /\ q.state = "quarantined" /\ q.at = 0
      BY <1>0, <3>0 DEF Row
    <3>2. outbox'[k] = outbox[k] \/ (outbox[k].state = "pending" /\ outbox'[k] = q)
      BY <2>1
    <3> HIDE DEF q
    <3> QED
      BY <3>0, <3>1, <3>2 DEF RowKept
  <2> QED
    BY <2>1, <2>2
<1>3. CASE OperatorRequeue(key)
  <2>1. outbox' = [k \in DOMAIN outbox |->
                     IF k \in {key} /\ outbox[k].state = "quarantined"
                     THEN PendingRow(outbox[k].event) ELSE outbox[k]]
    BY <1>3 DEF OperatorRequeue, Requeue
  <2>2. ASSUME NEW r \in Row
        PROVE  /\ PendingRow(r.event) \in Row /\ PendingRow(r.event).event = r.event
               /\ PendingRow(r.event).state = "pending"
    BY PendingRowType DEF Row, PendingRow
  <2>3. \A k \in DOMAIN outbox : RowKept(k)
    BY <1>0, <2>1, <2>2 DEF RowKept
  <2> QED
    BY <2>1, <2>3
<1> QED
  BY <1>1, <1>2, <1>3

\* A submission finds its own row or adds it.
LEMMA SubmitRows ==
    ASSUME GatewayType, NEW c \in Submissions, Submit(c)
    PROVE  \/ c.key \in DOMAIN outbox /\ outbox[c.key].event = c /\ outbox' = outbox
           \/ /\ c.key \notin DOMAIN outbox
              /\ DOMAIN outbox' = DOMAIN outbox \cup {c.key}
              /\ outbox'[c.key] = PendingRow(c)
              /\ \A k \in DOMAIN outbox : outbox'[k] = outbox[k]
<1>1. EnqueueResult(outbox, c.key, c) \in {"Enqueued", "AlreadyPending", "AlreadyComplete"}
      /\ outbox' = Enqueue(outbox, c.key, c)
  BY DEF Submit
<1>2. CASE c.key \in DOMAIN outbox
  BY <1>1, <1>2 DEF EnqueueResult, Enqueue
<1>3. CASE c.key \notin DOMAIN outbox
  <2>1. EnqueueResult(outbox, c.key, c) = "Enqueued"
    BY <1>1, <1>3 DEF EnqueueResult
  <2> QED
    BY <1>1, <1>3, <2>1 DEF Enqueue
<1> QED
  BY <1>2, <1>3

\* A sweep removes completed rows a retention window old.
LEMMA SweepRows ==
    ASSUME InboxInv, GatewayType, SweepOutbox
    PROVE  /\ DOMAIN outbox' \subseteq DOMAIN outbox
           /\ \A k \in DOMAIN outbox' : outbox'[k] = outbox[k]
           /\ \A k \in DOMAIN outbox \ DOMAIN outbox' :
                outbox[k].state = "complete" /\ outbox[k].at <= now - Retention
<1>1. sweep = now /\ outbox' = OutboxMaintain(outbox, now, Retention)
  BY DEF SweepOutbox, GatewayType
<1>2. now >= Retention
  BY BoundsAssumption DEF InboxInv
<1> QED
  BY <1>1, <1>2 DEF OutboxMaintain, ExpiredRows, InState

LEMMA BatchTypes ==
    ASSUME GatewayType, NEW batch, batch \subseteq DOMAIN outbox
    PROVE  /\ EventsOf(batch) \subseteq Submissions
           /\ \A k \in batch : outbox[k].event \in EventsOf(batch) /\ outbox[k].event.key = k
           /\ \A c \in EventsOf(batch) : c.key \in DOMAIN outbox /\ outbox[c.key].event = c
BY DEF GatewayType, EventsOf, Row

LEMMA BatchesAreRows ==
    /\ \A batch \in PendingReconciliationBatches(outbox, ReconcileBatch) :
          batch \subseteq DOMAIN outbox
    /\ \A batch \in RecentCompletedBatches(outbox, SaturatingSub(now, Retention),
                                           ReconcileBatch) :
          batch \subseteq DOMAIN outbox
BY DEF PendingReconciliationBatches, RecentCompletedBatches, RecentCompleted, Batches,
       InState

-----------------------------------------------------------------------------
(* Types. *)

LEMMA TypeInit == Init => GatewayType
BY FS_EmptySet
   DEF Init, GatewayType, EmptyOutbox, Idle, Time, NoTime

LEMMA TypeNext == InboxInv /\ GatewayType /\ [Next]_vars => GatewayType'
<1> SUFFICES ASSUME InboxInv, GatewayType, [Next]_vars PROVE GatewayType'
  OBVIOUS
<1>0. now \in Nat
  BY DEF InboxInv
<1>1. ASSUME NEW c \in Submissions, Submit(c) PROVE GatewayType'
  <2>1. /\ DOMAIN outbox' \subseteq Keys /\ IsFiniteSet(DOMAIN outbox')
        /\ outbox' \in [DOMAIN outbox' -> Row]
        /\ \A k \in DOMAIN outbox' : outbox'[k].event.key = k
    <3>1. CASE outbox' = outbox
      BY <3>1 DEF GatewayType
    <3>2. CASE outbox' # outbox
      <4>0. outbox' = [k \in DOMAIN outbox \cup {c.key} |->
                         IF k = c.key THEN PendingRow(c) ELSE outbox[k]]
        BY <1>1, <3>2 DEF Submit, Enqueue
      <4>1. IsFiniteSet(DOMAIN outbox \cup {c.key})
        BY FS_AddElement DEF GatewayType
      <4>2. c.key \in Keys /\ PendingRow(c) \in Row /\ PendingRow(c).event = c
        BY SubmissionType, PendingRowType
      <4> QED
        BY <4>0, <4>1, <4>2 DEF GatewayType
    <3> QED
      BY <3>1, <3>2
  <2>2. minted' \in [Keys -> Time]
    BY <1>0, <1>1 DEF Submit, GatewayType, Time
  <2> QED
    BY <1>1, <2>1, <2>2 DEF Submit, GatewayType, history
<1>2. ASSUME NEW c \in Submissions, SubmitRecords(c) \/ SubmitFails(c) PROVE GatewayType'
  BY <1>2, SubmissionType DEF SubmitRecords, SubmitFails, GatewayType, stores, history
<1>3. ASSUME ReconcilePending PROVE GatewayType'
  <2>1. PICK batch \in PendingReconciliationBatches(outbox, ReconcileBatch) :
           /\ repair' = [phase |-> "completed", events |-> EventsOf(batch)]
           /\ owed' \subseteq Orphans
    BY <1>3 DEF ReconcilePending
  <2>2. EventsOf(batch) \subseteq Submissions
    BY BatchesAreRows, BatchTypes
  <2>3. owed' \subseteq Keys
    BY <2>1 DEF Orphans, Recent, InState, RecentCompleted, GatewayType
  <2>4. repair' \in [phase : {"idle", "completed", "record"}, events : SUBSET Submissions]
    BY <2>1, <2>2
  <2> QED
    BY <1>3, <2>3, <2>4 DEF ReconcilePending, GatewayType, stores
<1>4. ASSUME ReconcileCompleted PROVE GatewayType'
  <2>1. PICK batch \in RecentCompletedBatches(outbox, SaturatingSub(now, Retention),
                                              ReconcileBatch) :
           /\ repair' = [phase |-> "record", events |-> repair.events \cup EventsOf(batch)]
           /\ owed' \subseteq owed
    BY <1>4 DEF ReconcileCompleted
  <2>2. EventsOf(batch) \subseteq Submissions
    BY BatchesAreRows, BatchTypes
  <2>4. repair' \in [phase : {"idle", "completed", "record"}, events : SUBSET Submissions]
    BY <2>1, <2>2 DEF GatewayType
  <2> QED
    BY <1>4, <2>1, <2>4 DEF ReconcileCompleted, GatewayType, stores
<1>5. ASSUME NEW c \in Submissions, ReconcileRecord(c) PROVE GatewayType'
  BY <1>5 DEF ReconcileRecord, GatewayType
<1>6. ASSUME ReconcileDone PROVE GatewayType'
  BY <1>6 DEF ReconcileDone, Idle, GatewayType, stores
<1>7. ASSUME SweepInbox PROVE GatewayType'
  BY <1>7 DEF SweepInbox, GatewayType, history
<1>8. ASSUME SweepOutbox PROVE GatewayType'
  <2>1. IsFiniteSet(DOMAIN outbox')
    BY <1>8, SweepRows, FS_Subset DEF GatewayType
  <2>2. outbox' \in [DOMAIN outbox' -> Row]
    BY <1>8 DEF SweepOutbox, OutboxMaintain, GatewayType
  <2> QED
    BY <1>8, <2>1, <2>2, SweepRows DEF SweepOutbox, GatewayType, history
<1>9. ASSUME WorkerStatementFails PROVE GatewayType'
  BY <1>9 DEF WorkerStatementFails, Idle, GatewayType, stores
<1>10. ASSUME NEW k \in Keys, FanoutComplete(k) \/ FanoutGivesUp(k) \/ OperatorRequeue(k)
       PROVE  GatewayType'
  <2>1. outbox' \in [DOMAIN outbox' -> Row]
    <3>1. outbox' = [j \in DOMAIN outbox' |-> outbox'[j]]
      BY <1>10 DEF FanoutComplete, FanoutGivesUp, OperatorRequeue, MarkComplete,
                   MarkCompleteFails, InState, Quarantine, Requeue
    <3> QED
      BY <1>10, <3>1, FanoutRows DEF RowKept
  <2>2. /\ DOMAIN outbox' = DOMAIN outbox
        /\ \A j \in DOMAIN outbox : outbox'[j].event.key = j
    BY <1>10, FanoutRows DEF RowKept, GatewayType
  <2> QED
    BY <1>10, <2>1, <2>2
       DEF FanoutComplete, FanoutGivesUp, OperatorRequeue, GatewayType, history
<1>11. ASSUME NEW k \in Keys, Cancel(k) PROVE GatewayType'
  BY <1>11 DEF Cancel, GatewayType
<1>12. ASSUME NEW a \in Agents, NEW n \in PollLimits, Claim(a, n) PROVE GatewayType'
  BY <1>12 DEF Claim, GatewayType
<1>13. ASSUME NEW a \in Agents, NEW k \in Keys, NEW n \in 0..MaxAttempts, Acknowledge(a, k, n)
       PROVE  GatewayType'
  BY <1>13 DEF Acknowledge, GatewayType
<1>14. ASSUME Crash \/ Tick \/ UNCHANGED vars PROVE GatewayType'
  BY <1>14 DEF Crash, Tick, Idle, GatewayType, stores, history, vars
<1> QED
  BY <1>1, <1>2, <1>3, <1>4, <1>5, <1>6, <1>7, <1>8, <1>9, <1>10, <1>11, <1>12, <1>13,
     <1>14 DEF Next, RepairStep

-----------------------------------------------------------------------------
(* What a step may do to the inbox: a report stays, what is over was        *)
(* reported, what leaves was reported, and a command's agent never changes, *)
(* a new command being one that a call or the repair worker holds.          *)

InboxEffect ==
    /\ \A k \in Keys : settled_at[k] # NoTime => settled_at'[k] # NoTime
    /\ \A k \in DOMAIN inbox'.retired : settled_at'[k] # NoTime
    /\ \A k \in DOMAIN inbox'.entries : Over(inbox'.entries[k]) => settled_at'[k] # NoTime
    /\ \A k \in Tracked(inbox) : k \in Tracked(inbox') \/ settled_at'[k] # NoTime
    /\ \A k \in DOMAIN inbox'.entries :
         \/ k \in DOMAIN inbox.entries /\ inbox'.entries[k].agent = inbox.entries[k].agent
         \/ \E c \in submitting \cup repair.events :
              c.key = k /\ c.agent = inbox'.entries[k].agent

LEMMA RecordedFacts ==
    ASSUME NEW c, inbox' = Recorded(c)
    PROVE  /\ inbox'.retired = inbox.retired
           /\ DOMAIN inbox.entries \subseteq DOMAIN inbox'.entries
           /\ \A k \in DOMAIN inbox.entries : inbox'.entries[k] = inbox.entries[k]
           /\ \A k \in DOMAIN inbox'.entries \ DOMAIN inbox.entries :
                k = c.key /\ inbox'.entries[k] = FreshEntry(c, inbox.next_sequence)
           /\ CheckRecordable(inbox, c) # "capacity" => c.key \in Tracked(inbox')
<1>1. CASE CheckRecordable(inbox, c) = "ok"
  <2>1. inbox' = InsertRecorded(inbox, c) /\ c.key \notin Tracked(inbox)
    BY <1>1 DEF Recorded, CheckRecordable
  <2> QED
    BY <2>1 DEF InsertRecorded, Tracked
<1>2. CASE CheckRecordable(inbox, c) # "ok"
  BY <1>2 DEF Recorded, CheckRecordable
<1> QED
  BY <1>1, <1>2

LEMMA RecordedEffect ==
    ASSUME InboxInv, KeptInv, NEW c \in submitting \cup repair.events, inbox' = Recorded(c),
           UNCHANGED settled_at
    PROVE  InboxEffect
<1>1. \A n : ~Over(FreshEntry(c, n)) /\ FreshEntry(c, n).agent = c.agent
  BY BoundsAssumption DEF Over, FreshEntry
<1>2. \A k \in DOMAIN inbox'.entries :
        Over(inbox'.entries[k]) => k \in DOMAIN inbox.entries /\ Over(inbox.entries[k])
  BY <1>1, RecordedFacts
<1>3. \A k \in DOMAIN inbox'.entries :
         \/ k \in DOMAIN inbox.entries /\ inbox'.entries[k].agent = inbox.entries[k].agent
         \/ \E d \in submitting \cup repair.events :
              d.key = k /\ d.agent = inbox'.entries[k].agent
  BY <1>1, RecordedFacts
<1>4. Tracked(inbox) \subseteq Tracked(inbox')
  BY RecordedFacts DEF Tracked
<1> QED
  BY <1>2, <1>3, <1>4, RecordedFacts DEF InboxEffect, KeptInv

LEMMA MaintainFacts ==
    ASSUME NEW t
    PROVE  /\ DOMAIN Maintain(inbox, t).entries \subseteq DOMAIN inbox.entries
           /\ \A k \in DOMAIN Maintain(inbox, t).entries :
                Maintain(inbox, t).entries[k] = inbox.entries[k]
           /\ DOMAIN Maintain(inbox, t).retired \subseteq
                DOMAIN inbox.retired \cup Settled(inbox, t)
           /\ Tracked(inbox) \ Tracked(Maintain(inbox, t)) \subseteq
                DOMAIN inbox.retired \cup Settled(inbox, t)
           /\ \A k \in Settled(inbox, t) : k \in DOMAIN inbox.entries /\ Over(inbox.entries[k])
<1>1. DOMAIN RetiredAt(inbox, t) = Settled(inbox, t) \cup DOMAIN inbox.retired
  BY DEF RetiredAt
<1>2. Expired(inbox, t) \subseteq DOMAIN RetiredAt(inbox, t)
  BY DEF Expired
<1>3. \A k \in Settled(inbox, t) : k \in DOMAIN inbox.entries /\ Over(inbox.entries[k])
  BY DEF Settled, IsSettled, Over
<1> QED
  BY <1>1, <1>2, <1>3 DEF Maintain, Tracked

LEMMA EntriesEffect ==
    ASSUME InboxInv, KeptInv,
           DOMAIN inbox'.entries = DOMAIN inbox.entries, inbox'.retired = inbox.retired,
           \A k \in Keys : settled_at'[k] = settled_at[k] \/ settled_at'[k] = now,
           \A k \in DOMAIN inbox.entries :
              \/ inbox'.entries[k] = inbox.entries[k]
              \/ /\ inbox'.entries[k].agent = inbox.entries[k].agent
                 /\ Over(inbox'.entries[k]) =>
                      Over(inbox.entries[k]) \/ settled_at'[k] = now
    PROVE  InboxEffect
<1>1. now # NoTime /\ DOMAIN inbox.entries \subseteq Keys /\ DOMAIN inbox.retired \subseteq Keys
  BY DEF InboxInv, NoTime
<1> QED
  BY <1>1 DEF InboxEffect, KeptInv, Tracked

LEMMA ClaimEffect ==
    ASSUME InboxInv, KeptInv, NEW a \in Agents, NEW n \in PollLimits, Claim(a, n)
    PROVE  InboxEffect
<1> DEFINE taken == Deliverable(inbox, a, n, now)
<1>1. /\ inbox' = MarkDelivered(inbox, taken, now)
      /\ settled_at' = [k \in Keys |->
                          IF k \in taken /\ inbox.entries[k].attempts + 1 = MaxAttempts
                          THEN now ELSE settled_at[k]]
  BY DEF Claim
<1>2. \A k \in taken : /\ k \in DOMAIN inbox.entries
                       /\ inbox.entries[k].attempts < MaxAttempts
  BY DEF Deliverable, Eligible
<1> HIDE DEF taken
<1>3. DOMAIN inbox'.entries = DOMAIN inbox.entries /\ inbox'.retired = inbox.retired
  BY <1>1 DEF MarkDelivered
<1>4. ASSUME NEW k \in DOMAIN inbox.entries
      PROVE  \/ inbox'.entries[k] = inbox.entries[k]
             \/ /\ inbox'.entries[k].agent = inbox.entries[k].agent
                /\ Over(inbox'.entries[k]) =>
                     Over(inbox.entries[k]) \/ settled_at'[k] = now
  <2> DEFINE e == inbox.entries[k]
             f == [e EXCEPT !.attempts = @ + 1, !.last_delivered = now]
  <2>1. e \in Entry /\ k \in Keys
    BY DEF InboxInv
  <2>2. /\ f.agent = e.agent /\ f.cancelled = e.cancelled
        /\ f.acknowledged = e.acknowledged /\ f.attempts = e.attempts + 1
    BY <2>1 DEF Entry
  <2>3. inbox'.entries[k] = IF k \in taken THEN f ELSE e
    BY <1>1 DEF MarkDelivered
  <2>4. e.attempts \in Nat
    BY <2>1, BoundsAssumption DEF Entry
  <2>5. k \in taken /\ e.attempts + 1 = MaxAttempts => settled_at'[k] = now
    BY <1>1, <2>1
  <2>6. k \in taken => e.attempts < MaxAttempts
    BY <1>2
  <2> HIDE DEF e, f
  <2>7. k \in taken /\ Over(f) => Over(e) \/ settled_at'[k] = now
    BY <2>2, <2>4, <2>5, <2>6, BoundsAssumption DEF Over
  <2> QED
    BY <2>2, <2>3, <2>7 DEF e
<1>5. \A k \in Keys : settled_at'[k] = settled_at[k] \/ settled_at'[k] = now
  BY <1>1
<1> QED
  BY <1>3, <1>4, <1>5, EntriesEffect

LEMMA SettleEffect ==
    ASSUME InboxInv, KeptInv, NEW k \in Keys,
           Cancel(k) \/ \E a \in Agents, n \in 0..MaxAttempts : Acknowledge(a, k, n)
    PROVE  InboxEffect
<1>1. k \in DOMAIN inbox.entries
  BY DEF Cancel, CancelResult, Acknowledge, AckResult
<1>2. settled_at' = [settled_at EXCEPT ![k] = now] /\ settled_at \in [Keys -> Time]
  BY DEF Cancel, Acknowledge, InboxInv
<1>3. \E f : inbox' = UpdateEntry(inbox, k, f) /\ f.agent = inbox.entries[k].agent
  <2> DEFINE e == inbox.entries[k]
  <2>1. e \in Entry
    BY <1>1 DEF InboxInv
  <2>2. \/ inbox' = UpdateEntry(inbox, k, [e EXCEPT !.cancelled = TRUE, !.cancelled_at = now])
        \/ inbox' = UpdateEntry(inbox, k, [e EXCEPT !.acknowledged = TRUE])
    BY DEF Cancel, Acknowledge, SetCancelled, SetAcknowledged
  <2>3. /\ [e EXCEPT !.cancelled = TRUE, !.cancelled_at = now].agent = e.agent
        /\ [e EXCEPT !.acknowledged = TRUE].agent = e.agent
    BY <2>1 DEF Entry
  <2> QED
    BY <2>2, <2>3, Zenon
<1>4. PICK f : inbox' = UpdateEntry(inbox, k, f) /\ f.agent = inbox.entries[k].agent
  BY <1>3
<1>5. /\ inbox'.entries = [inbox.entries EXCEPT ![k] = f]
      /\ inbox'.retired = inbox.retired
  BY <1>4 DEF UpdateEntry
<1>6. /\ DOMAIN inbox'.entries = DOMAIN inbox.entries
      /\ \A j \in DOMAIN inbox.entries :
           \/ inbox'.entries[j] = inbox.entries[j]
           \/ /\ inbox'.entries[j].agent = inbox.entries[j].agent
              /\ settled_at'[j] = now
  BY <1>1, <1>2, <1>4, <1>5
<1>7. \A j \in Keys : settled_at'[j] = settled_at[j] \/ settled_at'[j] = now
  BY <1>2
<1> QED
  BY <1>5, <1>6, <1>7, EntriesEffect

LEMMA ReloadedEffect ==
    ASSUME InboxInv, KeptInv, inbox' = Reloaded(inbox), UNCHANGED settled_at
    PROVE  InboxEffect
<1>1. DOMAIN inbox'.entries = DOMAIN inbox.entries /\ inbox'.retired = inbox.retired
  BY DEF Reloaded
<1>2. ASSUME NEW k \in DOMAIN inbox.entries
      PROVE  /\ inbox'.entries[k].agent = inbox.entries[k].agent
             /\ Over(inbox'.entries[k]) => Over(inbox.entries[k])
  <2>1. PICK n : inbox'.entries[k] = [inbox.entries[k] EXCEPT !.sequence = n]
    BY DEF Reloaded
  <2>2. PICK e, f : e = inbox.entries[k] /\ f = inbox'.entries[k]
    OBVIOUS
  <2>3. e \in Entry
    BY <2>2 DEF InboxInv
  <2>4. /\ f.agent = e.agent /\ f.cancelled = e.cancelled
        /\ f.acknowledged = e.acknowledged /\ f.attempts = e.attempts
    BY <2>1, <2>2, <2>3 DEF Entry
  <2> QED
    BY <2>2, <2>4 DEF Over
<1> QED
  BY <1>1, <1>2, EntriesEffect

LEMMA NextEffect == InboxInv /\ GatewayType /\ KeptInv /\ [Next]_vars => InboxEffect
<1> SUFFICES ASSUME InboxInv, GatewayType, KeptInv, [Next]_vars PROVE InboxEffect
  OBVIOUS
<1>0. ASSUME UNCHANGED <<inbox, settled_at>> PROVE InboxEffect
  BY <1>0 DEF InboxEffect, KeptInv
<1>1. ASSUME NEW c \in Submissions, Submit(c) \/ SubmitRecords(c) \/ SubmitFails(c)
      PROVE  InboxEffect
  BY <1>0, <1>1, RecordedEffect DEF Submit, SubmitRecords, SubmitFails, stores, history
<1>2. ASSUME RepairStep PROVE InboxEffect
  BY <1>0, <1>2, RecordedEffect
     DEF RepairStep, ReconcilePending, ReconcileCompleted, ReconcileDone,
         ReconcileRecord, stores, history
<1>3. ASSUME SweepInbox PROVE InboxEffect
  <2>1. inbox' = Maintain(inbox, now) /\ settled_at' = settled_at
    BY <1>3 DEF SweepInbox, history
  <2>2. DOMAIN inbox.entries \subseteq Keys /\ DOMAIN inbox.retired \subseteq Keys
    BY DEF InboxInv
  <2> QED
    BY <2>1, <2>2, MaintainFacts DEF InboxEffect, KeptInv
<1>4. ASSUME NEW k \in Keys, Cancel(k) PROVE InboxEffect
  BY <1>4, SettleEffect
<1>5. ASSUME NEW a \in Agents, NEW n \in PollLimits, Claim(a, n) PROVE InboxEffect
  BY <1>5, ClaimEffect
<1>6. ASSUME NEW a \in Agents, NEW k \in Keys, NEW n \in 0..MaxAttempts, Acknowledge(a, k, n)
      PROVE  InboxEffect
  BY <1>6, SettleEffect
<1>7. ASSUME \/ SweepOutbox \/ WorkerStatementFails \/ Tick \/ UNCHANGED vars
             \/ \E k \in Keys : FanoutComplete(k) \/ FanoutGivesUp(k) \/ OperatorRequeue(k)
      PROVE  InboxEffect
  BY <1>0, <1>7 DEF SweepOutbox, WorkerStatementFails, Tick, FanoutComplete,
                    FanoutGivesUp, OperatorRequeue, stores, history, vars
<1>8. ASSUME Crash PROVE InboxEffect
  <2>1. inbox' = inbox \/ inbox' = Reloaded(inbox)
    BY <1>8 DEF Crash
  <2>2. settled_at' = settled_at
    BY <1>8 DEF Crash
  <2> QED
    BY <1>0, <2>1, <2>2, ReloadedEffect
<1> QED
  BY <1>1, <1>2, <1>3, <1>4, <1>5, <1>6, <1>7, <1>8 DEF Next

-----------------------------------------------------------------------------
(* What is answered is kept. *)

LEMMA KeptInit == Init => KeptInv
BY DEF Init, NewInbox, EmptyMap, KeptInv

LEMMA KeptNext == InboxInv /\ GatewayType /\ KeptInv /\ [Next]_vars => KeptInv'
<1> SUFFICES ASSUME InboxInv, GatewayType, KeptInv, [Next]_vars PROVE KeptInv'
  OBVIOUS
<1>1. InboxEffect
  BY NextEffect
<1>2. \A k \in answered' : k \in answered \/ k \in Tracked(inbox')
  <2>1. ASSUME NEW c \in Submissions, SubmitRecords(c)
        PROVE  \A k \in answered' : k \in answered \/ k \in Tracked(inbox')
    BY <2>1, RecordedFacts DEF SubmitRecords
  <2>2. CASE UNCHANGED answered
    BY <2>2
  <2> QED
    BY <2>1, <2>2
       DEF Next, RepairStep, Submit, SubmitFails, ReconcilePending, ReconcileCompleted,
           ReconcileDone, ReconcileRecord, SweepInbox, SweepOutbox, WorkerStatementFails,
           FanoutComplete, FanoutGivesUp, OperatorRequeue, Cancel, Claim, Acknowledge,
           Crash, Tick, history, vars
<1>3. answered \subseteq Keys
  BY DEF GatewayType
<1>4. \A k \in answered' : k \in Tracked(inbox') \/ settled_at'[k] # NoTime
  BY <1>1, <1>2, <1>3 DEF InboxEffect, KeptInv
<1> QED
  BY <1>1, <1>4 DEF InboxEffect, KeptInv, Tracked, Over

LEMMA KeptHolds == Spec => [](InboxInv /\ GatewayType /\ KeptInv)
BY InboxHolds, TypeInit, TypeNext, KeptInit, KeptNext, PTL DEF Spec

\* A submission answered with success is known to the inbox until a whole
\* retention window after it was handed over for the last time, acknowledged or
\* cancelled, for any interleaving of calls, repairs, sweeps, polls and restarts.
THEOREM AnsweredCorrect == Spec => []AnsweredIsKept
<1>1. InboxInv /\ GatewayType /\ KeptInv => AnsweredIsKept
  BY DEF InboxInv, GatewayType, KeptInv, AnsweredIsKept
<1> QED
  BY <1>1, KeptHolds, PTL

-----------------------------------------------------------------------------
(* One identity, one content. *)

LEMMA ContentInit == Init => ContentInv
BY BoundsAssumption
   DEF Init, EmptyOutbox, NewInbox, EmptyMap, Idle, NoTime, ContentInv, Version

\* No step but a submission brings up a version, changes minted or adds a row.
LEMMA NoNewVersion ==
    ASSUME InboxInv, GatewayType, KeptInv, [Next]_vars,
           \A c \in Submissions : ~Submit(c)
    PROVE  /\ \A k \in Keys, a \in Agents : Version(k, a)' => Version(k, a)
           /\ minted' = minted
           /\ DOMAIN outbox' \subseteq DOMAIN outbox
           /\ \A k \in DOMAIN outbox' : RowKept(k)
           /\ \A k \in DOMAIN outbox \ DOMAIN outbox' :
                /\ outbox[k].state = "complete" /\ outbox[k].at <= now - Retention
                /\ now' = now
<1>0. InboxEffect
  BY NextEffect
<1>1. \A c \in (submitting \cup repair.events)' :
        \/ c \in submitting \cup repair.events
        \/ c.key \in DOMAIN outbox /\ outbox[c.key].event = c
  <2>1. CASE ReconcilePending
    BY <2>1, BatchesAreRows, BatchTypes DEF ReconcilePending
  <2>2. CASE ReconcileCompleted
    BY <2>2, BatchesAreRows, BatchTypes DEF ReconcileCompleted
  <2>3. CASE submitting' \subseteq submitting /\ repair'.events \subseteq repair.events
    BY <2>3
  <2>4. ASSUME NEW c \in Submissions, ReconcileRecord(c) \/ SubmitRecords(c) \/ SubmitFails(c)
        PROVE  submitting' \subseteq submitting /\ repair'.events \subseteq repair.events
    BY <2>4 DEF ReconcileRecord, SubmitRecords, SubmitFails, GatewayType
  <2>5. ASSUME ReconcileDone \/ Crash \/ WorkerStatementFails
        PROVE  submitting' \subseteq submitting /\ repair'.events \subseteq repair.events
    BY <2>5 DEF ReconcileDone, Crash, WorkerStatementFails, Idle, GatewayType
  <2> QED
    BY <2>1, <2>2, <2>3, <2>4, <2>5
       DEF Next, RepairStep, SweepInbox, SweepOutbox, FanoutComplete, FanoutGivesUp,
           OperatorRequeue, Cancel, Claim, Acknowledge, Tick, vars
<1>2. /\ minted' = minted
      /\ DOMAIN outbox' \subseteq DOMAIN outbox
      /\ \A k \in DOMAIN outbox' : RowKept(k)
      /\ \A k \in DOMAIN outbox \ DOMAIN outbox' :
           /\ outbox[k].state = "complete" /\ outbox[k].at <= now - Retention
           /\ now' = now
  <2>0. \A k \in DOMAIN outbox : outbox[k] \in Row
    BY DEF GatewayType
  <2>1. CASE UNCHANGED <<outbox, minted>>
    BY <2>0, <2>1 DEF RowKept
  <2>2. ASSUME NEW k \in Keys, FanoutComplete(k) \/ FanoutGivesUp(k) \/ OperatorRequeue(k)
        PROVE  <1>2!:
    BY <2>2, FanoutRows DEF FanoutComplete, FanoutGivesUp, OperatorRequeue
  <2>3. CASE SweepOutbox
    BY <2>0, <2>3, SweepRows DEF SweepOutbox, RowKept
  <2> QED
    BY <2>1, <2>2, <2>3
       DEF Next, RepairStep, SubmitRecords, SubmitFails, ReconcilePending,
           ReconcileCompleted, ReconcileDone, ReconcileRecord, SweepInbox,
           WorkerStatementFails, Cancel, Claim, Acknowledge, Crash, Tick, stores, vars
<1>3. ASSUME NEW k \in Keys, NEW a \in Agents, Version(k, a)' PROVE Version(k, a)
  <2>1. CASE \E c \in (submitting \cup repair.events)' : c.key = k /\ c.agent = a
    BY <1>1, <2>1 DEF Version
  <2>2. CASE k \in DOMAIN outbox' /\ outbox'[k].event.agent = a
    BY <1>2, <2>2 DEF RowKept, Version
  <2>3. CASE k \in DOMAIN inbox'.entries /\ inbox'.entries[k].agent = a
    BY <1>0, <2>3 DEF InboxEffect, Version
  <2> QED
    BY <1>3, <2>1, <2>2, <2>3 DEF Version
<1> QED
  BY <1>2, <1>3

LEMMA NeverBack == InboxInv /\ [Next]_vars => now' >= now
<1>1. [Next]_vars => Tick \/ now' = now
  BY DEF Next, RepairStep, Submit, SubmitRecords, SubmitFails, ReconcilePending,
         ReconcileCompleted, ReconcileDone, ReconcileRecord, SweepInbox, SweepOutbox,
         WorkerStatementFails, FanoutComplete, FanoutGivesUp, OperatorRequeue,
         Cancel, Claim, Acknowledge, Crash, vars
<1> QED
  BY <1>1 DEF Tick, InboxInv

LEMMA ContentNext ==
    ASSUME AcceptWindow < Retention,
           InboxInv, GatewayType, KeptInv, ContentInv, InboxInv', GatewayType', [Next]_vars
    PROVE  ContentInv'
<1> USE BoundsAssumption, GatewayAssumption
<1>0. /\ now \in Nat /\ minted \in [Keys -> Time] /\ now' \in Nat
      /\ \A k \in Keys : minted[k] \in Int /\ minted[k] <= now
      /\ DOMAIN outbox \subseteq Keys
  BY DEF InboxInv, GatewayType, ContentInv, Time, NoTime
<1>1. now' >= now
  BY NeverBack
<1>2. ASSUME NEW c \in Submissions, Submit(c) PROVE ContentInv'
  <2> DEFINE key == c.key
  <2>0. key \in Keys /\ c.agent \in Agents
    BY SubmissionType
  <2>1. /\ now' = now /\ inbox' = inbox /\ repair' = repair
        /\ submitting' = submitting \cup {c}
        /\ minted' = [minted EXCEPT ![key] = IF @ = NoTime THEN now ELSE @]
        /\ minted[key] = NoTime \/ now - minted[key] <= AcceptWindow
    BY <1>2 DEF Submit, WithinAcceptanceWindow
  <2>2. /\ \A k \in Keys : k # key => minted'[k] = minted[k]
        /\ minted[key] # NoTime => minted'[key] = minted[key]
        /\ minted'[key] # NoTime /\ minted'[key] <= now
    BY <1>0, <2>0, <2>1 DEF NoTime
  <2>3. ~Spent(key)
    BY <1>0, <2>0, <2>1 DEF Spent
  <2>4. \A k \in Keys, a \in Agents : Version(k, a)' => Version(k, a) \/ (k = key /\ a = c.agent)
    <3>1. \A k \in DOMAIN outbox' :
            \/ k \in DOMAIN outbox /\ outbox'[k].event = outbox[k].event
            \/ k = key /\ outbox'[k].event = c
      BY <1>2, SubmitRows, PendingRowType
    <3> QED
      BY <2>1, <3>1 DEF Version
  <2>5. \A a \in Agents : Version(key, a) => a = c.agent
    <3>1. CASE key \in DOMAIN outbox
      <4>1. Version(key, c.agent)
        BY <1>2, <3>1, SubmitRows DEF Version
      <4> QED
        BY <2>0, <4>1 DEF ContentInv
    <3>2. CASE key \notin DOMAIN outbox
      BY <2>0, <2>3, <3>2 DEF ContentInv
    <3> QED
      BY <3>1, <3>2
  <2>6. \A k \in Keys, a \in Agents, b \in Agents : Version(k, a)' /\ Version(k, b)' => a = b
    BY <2>4, <2>5 DEF ContentInv
  <2>7. DOMAIN outbox' = DOMAIN outbox \cup {key}
    BY <1>2, SubmitRows
  <2>8. \A k \in Keys, a \in Agents : Version(k, a)' /\ k \notin DOMAIN outbox' => Spent(k)'
    BY <2>1, <2>2, <2>4, <2>7 DEF ContentInv, Spent
  <2>9. \A k \in DOMAIN outbox' :
          /\ minted'[k] # NoTime
          /\ outbox'[k].state = "complete" => minted'[k] <= outbox'[k].at
    <3>1. \A k \in DOMAIN outbox' :
            \/ k \in DOMAIN outbox /\ outbox'[k] = outbox[k]
            \/ k = key /\ outbox'[k].state = "pending"
      <4>1. PendingRow(c).state = "pending"
        BY DEF PendingRow
      <4> QED
        BY <1>2, <4>1, SubmitRows
    <3>2. \A k \in DOMAIN outbox : k \in Keys /\ minted'[k] = minted[k]
      BY <1>0, <2>2 DEF ContentInv
    <3> QED
      BY <2>2, <3>1, <3>2 DEF ContentInv
  <2>10. \A k \in Keys : minted'[k] <= now'
    BY <1>0, <2>1, <2>2
  <2> QED
    BY <2>6, <2>8, <2>9, <2>10 DEF ContentInv
<1>3. ASSUME \A c \in Submissions : ~Submit(c) PROVE ContentInv'
  <2>0. /\ \A k \in Keys, a \in Agents : Version(k, a)' => Version(k, a)
        /\ minted' = minted
        /\ DOMAIN outbox' \subseteq DOMAIN outbox
        /\ \A k \in DOMAIN outbox' : RowKept(k)
        /\ \A k \in DOMAIN outbox \ DOMAIN outbox' :
             /\ outbox[k].state = "complete" /\ outbox[k].at <= now - Retention
             /\ now' = now
    BY <1>3, NoNewVersion
  <2>1. ASSUME NEW k \in Keys, Spent(k) PROVE Spent(k)'
    BY <1>0, <1>1, <2>0, <2>1 DEF Spent
  <2>2. ASSUME NEW k \in DOMAIN outbox \ DOMAIN outbox' PROVE Spent(k)'
    <3>1. outbox[k].at \in Int
      BY DEF GatewayType, Row
    <3>2. minted[k] # NoTime /\ minted[k] <= outbox[k].at /\ outbox[k].at <= now - Retention
          /\ now' = now
      BY <2>0 DEF ContentInv
    <3>3. minted[k] \in Int
      BY <1>0
    <3>4. now - minted[k] > AcceptWindow
      BY <1>0, <3>1, <3>2, <3>3
    <3> QED
      BY <2>0, <3>2, <3>4 DEF Spent
  <2>3. \A k \in Keys, a \in Agents : Version(k, a)' /\ k \notin DOMAIN outbox' => Spent(k)'
    BY <2>0, <2>1, <2>2 DEF ContentInv
  <2>4. \A k \in DOMAIN outbox' :
          /\ minted'[k] # NoTime
          /\ outbox'[k].state = "complete" => minted'[k] <= outbox'[k].at
    <3> SUFFICES ASSUME NEW k \in DOMAIN outbox'
                 PROVE  /\ minted'[k] # NoTime
                        /\ outbox'[k].state = "complete" => minted'[k] <= outbox'[k].at
      OBVIOUS
    <3>1. /\ k \in DOMAIN outbox /\ k \in Keys /\ minted[k] # NoTime
          /\ outbox[k].state = "complete" => minted[k] <= outbox[k].at
      BY <1>0, <2>0 DEF ContentInv
    <3>2. outbox'[k] = outbox[k] \/ (outbox'[k].state = "complete" => outbox'[k].at = now)
      BY <2>0 DEF RowKept
    <3> QED
      BY <1>0, <2>0, <3>1, <3>2
  <2>5. \A k \in Keys : minted'[k] <= now'
    BY <1>0, <1>1, <2>0
  <2> QED
    BY <2>0, <2>3, <2>4, <2>5 DEF ContentInv
<1> QED
  BY <1>2, <1>3

LEMMA ContentHolds ==
    ASSUME AcceptWindow < Retention
    PROVE  Spec => [](InboxInv /\ GatewayType /\ KeptInv /\ ContentInv)
<1>1. InboxInv /\ GatewayType /\ KeptInv /\ ContentInv /\ InboxInv' /\ GatewayType'
        /\ [Next]_vars => ContentInv'
  BY ContentNext
<1> QED
  BY <1>1, KeptHolds, ContentInit, PTL DEF Spec

\* If identities are accepted for less time than they are retained, the audit
\* record and the delivery record of a command name the same agent, although
\* they are written, repaired and expired separately and an identity may be
\* submitted again with another content.
THEOREM AuditCorrect ==
    ASSUME AcceptWindow < Retention
    PROVE  Spec => []AuditMatchesDelivery
<1>1. InboxInv /\ GatewayType /\ ContentInv => AuditMatchesDelivery
  <2> SUFFICES ASSUME InboxInv, GatewayType, ContentInv,
                      NEW k \in DOMAIN outbox \cap DOMAIN inbox.entries
               PROVE  outbox[k].event.agent = inbox.entries[k].agent
    BY DEF AuditMatchesDelivery
  <2>1. k \in Keys /\ outbox[k].event.agent \in Agents
    BY SubmissionType DEF GatewayType, Row
  <2>2. inbox.entries[k].agent \in Agents
    BY DEF InboxInv, Entry
  <2>3. Version(k, outbox[k].event.agent) /\ Version(k, inbox.entries[k].agent)
    BY DEF Version
  <2> QED
    BY <2>1, <2>2, <2>3 DEF ContentInv
<1> QED
  BY <1>1, ContentHolds, PTL

-----------------------------------------------------------------------------
(* A repair pass leaves nothing behind that its batches do not hide.          *)

LEMMA OwedInit == Init => OwedInv
BY DEF Init, OwedInv

\* Whatever else a step does, a row that was dealt with stays dealt with.
LEMMA DealtStays ==
    ASSUME InboxInv, GatewayType, KeptInv, ContentInv, InboxInv', [Next]_vars,
           NEW k \in Keys, Dealt(k)
    PROVE  Dealt(k)'
<1>0. InboxEffect
  BY NextEffect
<1>1. CASE k \in Tracked(inbox) \/ settled_at[k] # NoTime
  BY <1>0, <1>1 DEF InboxEffect, Dealt, Tracked
<1>2. CASE k \notin DOMAIN outbox /\ Spent(k)
  <2>1. ASSUME NEW c \in Submissions, Submit(c) PROVE Dealt(k)'
    <3>1. c.key # k /\ c.key \in Keys
      BY <1>2, <2>1, SubmissionType, BoundsAssumption, GatewayAssumption
         DEF Submit, WithinAcceptanceWindow, Spent, InboxInv, GatewayType, Time, NoTime
    <3>2. k \notin DOMAIN outbox'
      BY <1>2, <2>1, <3>1, SubmitRows
    <3>3. minted'[k] = minted[k] /\ now' = now
      BY <2>1, <3>1 DEF Submit, GatewayType
    <3> QED
      BY <1>2, <3>2, <3>3 DEF Dealt, Spent
  <2>2. ASSUME \A c \in Submissions : ~Submit(c) PROVE Dealt(k)'
    <3>1. minted' = minted /\ k \notin DOMAIN outbox'
      BY <1>2, <2>2, NoNewVersion
    <3>2. now' >= now
      BY NeverBack
    <3>3. Spent(k)'
      BY <1>2, <3>1, <3>2, GatewayAssumption
         DEF Spent, InboxInv, GatewayType, Time, NoTime
    <3> QED
      BY <3>1, <3>3 DEF Dealt
  <2> QED
    BY <2>1, <2>2
<1> QED
  BY <1>1, <1>2 DEF Dealt

\* Rows read among the completed ones stay to be read, or expire for good.
LEMMA CompletedStays ==
    ASSUME AcceptWindow < Retention,
           InboxInv, GatewayType, KeptInv, ContentInv, [Next]_vars, ~Tick,
           NEW k \in RecentCompleted(outbox, SaturatingSub(now, Retention))
    PROVE  k \in RecentCompleted(outbox, SaturatingSub(now, Retention))' \/ Dealt(k)'
<1>0. k \in DOMAIN outbox /\ outbox[k].state = "complete"
      /\ outbox[k].at >= SaturatingSub(now, Retention)
  BY DEF RecentCompleted, InState
<1>1. now' = now
  BY DEF Next, RepairStep, Submit, SubmitRecords, SubmitFails, ReconcilePending,
         ReconcileCompleted, ReconcileDone, ReconcileRecord, SweepInbox, SweepOutbox,
         WorkerStatementFails, FanoutComplete, FanoutGivesUp, OperatorRequeue,
         Cancel, Claim, Acknowledge, Crash, vars
<1>2. ASSUME k \in DOMAIN outbox', outbox'[k] = outbox[k]
      PROVE  k \in RecentCompleted(outbox, SaturatingSub(now, Retention))'
  BY <1>0, <1>1, <1>2 DEF RecentCompleted, InState
<1>3. ASSUME NEW c \in Submissions, Submit(c)
      PROVE  k \in DOMAIN outbox' /\ outbox'[k] = outbox[k]
  BY <1>0, <1>3, SubmitRows
<1>4. ASSUME \A c \in Submissions : ~Submit(c), k \in DOMAIN outbox'
      PROVE  outbox'[k] = outbox[k]
  BY <1>0, <1>4, NoNewVersion DEF RowKept
<1>5. ASSUME \A c \in Submissions : ~Submit(c), k \notin DOMAIN outbox'
      PROVE  Dealt(k)'
  <2>1. /\ minted' = minted /\ outbox[k].at <= now - Retention
    BY <1>0, <1>5, NoNewVersion
  <2>2. minted[k] # NoTime /\ minted[k] <= outbox[k].at
    BY <1>0 DEF ContentInv
  <2>3. minted[k] \in Int /\ outbox[k].at \in Int /\ now \in Int
    BY <1>0 DEF GatewayType, InboxInv, Row, Time, NoTime
  <2>4. now - minted[k] > AcceptWindow
    BY <2>1, <2>2, <2>3, BoundsAssumption, GatewayAssumption
  <2> QED
    BY <1>1, <1>5, <2>1, <2>2, <2>4 DEF Dealt, Spent
<1> QED
  BY <1>2, <1>3, <1>4, <1>5

LEMMA OwedNext ==
    ASSUME AcceptWindow < Retention,
           InboxInv, GatewayType, KeptInv, ContentInv, OwedInv, InboxInv', [Next]_vars
    PROVE  OwedInv'
<1>0. owed \subseteq Keys /\ DOMAIN outbox \subseteq Keys
  BY DEF GatewayType
<1>1. ASSUME owed' \subseteq {} PROVE OwedInv'
  BY <1>1 DEF OwedInv
\* Steps that leave the pass alone.
<1>2. ASSUME UNCHANGED <<repair, owed>> PROVE OwedInv'
  <2>1. CASE Tick
    <3>1. repair.phase = "idle"
      BY <2>1 DEF Tick, Idle
    <3> QED
      BY <1>1, <1>2, <3>1 DEF OwedInv
  <2>2. CASE ~Tick
    <3> SUFFICES ASSUME NEW k \in owed PROVE Dealt(k)' \/ Ahead(k)'
      BY <1>2 DEF OwedInv
    <3>1. k \in Keys /\ (Dealt(k) \/ Ahead(k))
      BY <1>0 DEF OwedInv
    <3>2. CASE Dealt(k)
      BY <3>1, <3>2, DealtStays
    <3>3. CASE Ahead(k)
      BY <1>2, <2>2, <3>3, CompletedStays DEF Ahead
    <3> QED
      BY <3>1, <3>2, <3>3
  <2> QED
    BY <2>1, <2>2
\* The pass begins: it owes what its batch has and what is completed.
<1>3. CASE ReconcilePending
  <2>1. PICK batch \in PendingReconciliationBatches(outbox, ReconcileBatch) :
           /\ repair' = [phase |-> "completed", events |-> EventsOf(batch)]
           /\ owed' = Orphans \ (InState(outbox, "pending") \ batch)
    BY <1>3 DEF ReconcilePending
  <2>2. UNCHANGED <<outbox, now>>
    BY <1>3 DEF ReconcilePending, stores
  <2>3. \A k \in batch : \E c \in EventsOf(batch) : c.key = k
    BY <2>1, BatchesAreRows, BatchTypes
  <2>4. ASSUME NEW k \in owed' PROVE Ahead(k)'
    BY <2>1, <2>2, <2>3, <2>4 DEF Orphans, Recent, Ahead
  <2> QED
    BY <2>1, <2>4 DEF OwedInv
\* ... and writes off the completed rows that the second batch hides from it.
<1>4. CASE ReconcileCompleted
  <2>1. PICK batch \in RecentCompletedBatches(outbox, SaturatingSub(now, Retention),
                                              ReconcileBatch) :
           /\ repair' = [phase |-> "record", events |-> repair.events \cup EventsOf(batch)]
           /\ owed' = owed \ {k \in Recent \ batch : outbox[k].event \notin repair.events}
    BY <1>4 DEF ReconcileCompleted
  <2>2. \A k \in batch : \E c \in EventsOf(batch) : c.key = k
    BY <2>1, BatchesAreRows, BatchTypes
  <2>3. \A k \in Recent : outbox[k].event.key = k
    BY DEF Recent, RecentCompleted, InState, GatewayType
  <2>4. ASSUME NEW k \in owed' PROVE Dealt(k)' \/ Ahead(k)'
    <3>1. k \in owed /\ k \in Keys /\ (Dealt(k) \/ Ahead(k))
      BY <1>0, <2>1, <2>4 DEF OwedInv
    <3>2. CASE Dealt(k)
      BY <3>1, <3>2, DealtStays
    <3>3. CASE \E c \in repair.events : c.key = k
      BY <2>1, <3>3 DEF Ahead
    <3>4. CASE k \in Recent
      <4>1. k \in batch \/ outbox[k].event \in repair.events
        BY <2>1, <2>4, <3>4
      <4>2. \E c \in repair.events \cup EventsOf(batch) : c.key = k
        BY <2>2, <2>3, <3>4, <4>1
      <4> QED
        BY <2>1, <4>2 DEF Ahead
    <3> QED
      BY <3>1, <3>2, <3>3, <3>4 DEF Ahead, Recent
  <2> QED
    BY <2>1, <2>4 DEF OwedInv
\* One event leaves the pass: recorded, or refused and written off.
<1>5. ASSUME NEW c, repair.phase = "record", c \in repair.events,
             repair' = [repair EXCEPT !.events = @ \ {c}], owed' \subseteq owed,
             c.key \in owed' => c.key \in Tracked(inbox')
      PROVE  OwedInv'
  <2>0. /\ repair'.phase = "record"
        /\ repair'.events = repair.events \ {c}
    BY <1>5 DEF GatewayType
  <2>1. ASSUME NEW k \in owed' PROVE Dealt(k)' \/ Ahead(k)'
    <3>1. k \in Keys /\ (Dealt(k) \/ Ahead(k))
      BY <1>0, <1>5 DEF OwedInv
    <3>2. CASE Dealt(k)
      BY <3>1, <3>2, DealtStays
    <3>3. CASE k = c.key
      BY <1>5, <3>3 DEF Dealt, Tracked
    <3>4. CASE Ahead(k) /\ k # c.key
      BY <1>5, <2>0, <3>4 DEF Ahead
    <3> QED
      BY <3>1, <3>2, <3>3, <3>4
  <2> QED
    BY <2>0, <2>1 DEF OwedInv
<1>6. ASSUME NEW c \in Submissions, ReconcileRecord(c) PROVE OwedInv'
  <2>1. c.key \in owed' => c.key \in Tracked(inbox')
    BY <1>6, RecordedFacts DEF ReconcileRecord
  <2> QED
    BY <1>5, <1>6, <2>1 DEF ReconcileRecord
<1>7. CASE WorkerStatementFails
  <2>1. CASE UNCHANGED <<repair, owed>>
    BY <1>2, <2>1
  <2>2. CASE owed' = {}
    BY <1>1, <2>2
  <2>3. ASSUME repair.phase = "record",
               \E c \in repair.events : /\ repair' = [repair EXCEPT !.events = @ \ {c}]
                                        /\ owed' = owed \ {c.key}
        PROVE  OwedInv'
    BY <1>5, <2>3
  <2> QED
    BY <1>7, <2>1, <2>2, <2>3 DEF WorkerStatementFails
<1>8. CASE ReconcileDone \/ Crash
  BY <1>1, <1>8 DEF ReconcileDone, Crash
<1> QED
  BY <1>2, <1>3, <1>4, <1>6, <1>7, <1>8
     DEF Next, RepairStep, Submit, SubmitRecords, SubmitFails, SweepInbox, SweepOutbox,
         FanoutComplete, FanoutGivesUp, OperatorRequeue, Cancel, Claim, Acknowledge,
         Tick, history, vars

\* Whatever the backlog, a row without a delivery record that a repair pass can
\* see has one when the pass ends, or the record was refused or failed (and was
\* counted), or it is over, or the row has expired. What a pass cannot see are
\* the rows beyond a full batch of their kind.
THEOREM RepairCorrect ==
    ASSUME AcceptWindow < Retention
    PROVE  Spec => []PassRepairs
<1>1. InboxInv /\ GatewayType /\ KeptInv /\ ContentInv /\ OwedInv
        /\ InboxInv' /\ [Next]_vars => OwedInv'
  BY OwedNext
<1>2. OwedInv => PassRepairs
  BY DEF OwedInv, Dealt, Ahead, PassRepairs
<1> QED
  BY <1>1, <1>2, ContentHolds, OwedInit, PTL DEF Spec
=============================================================================
