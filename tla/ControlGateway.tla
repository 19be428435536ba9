---------------------------- MODULE ControlGateway ----------------------------
(***************************************************************************)
(* The control gateway's write path and its background workers             *)
(* (apps/control-plane-api): one outbox, one inbox, and everything that    *)
(* touches both without a common transaction.                              *)
(*                                                                         *)
(*   Submit, SubmitRecords, SubmitFails    accept_and_record: the outbox   *)
(*       commit, then the inbox record, as two steps of one blocking task  *)
(*   ReconcilePending, ReconcileCompleted, ReconcileRecord, ReconcileDone  *)
(*       the five-second repair worker: two reads, then one record at a    *)
(*       time                                                              *)
(*   SweepInbox, SweepOutbox   the retention worker, with one captured now *)
(*   FanoutComplete, FanoutGivesUp, OperatorRequeue   the rows' life       *)
(*   Claim, Acknowledge, Cancel   the agents' and the operators' calls     *)
(*   WorkerStatementFails      a worker's read or write fails: logged      *)
(*   Crash                     the process restarts: the stores are opened *)
(*       again, and a journal that the inbox cannot load keeps it down     *)
(*                                                                         *)
(* A command identity is a UUIDv7 whose embedded time must be recent when  *)
(* it is submitted (AcceptWindow); minted holds that time.                 *)
(* settled_at, answered and owed are history variables: when an identity   *)
(* was last reported settled, which submissions were answered with         *)
(* success, and which rows a running repair pass found without a delivery  *)
(* record and still owes one.                                              *)
(***************************************************************************)
EXTENDS InboxState, EventOutbox

CONSTANTS
    Submissions,     \* the commands operators submit
    PollLimits,      \* the max_commands values a poll may resolve to
    ReconcileBatch,  \* INBOX_RECONCILIATION_BATCH
    AcceptWindow,    \* MAX_COMMAND_ID_AGE_MS, in ticks
    MaxFaults,       \* bound: restarts and worker statements that fail
    MaxNow           \* bound: the clock stops here

ASSUME GatewayAssumption ==
    /\ Submissions \subseteq Command
    /\ PollLimits \subseteq Nat \ {0}
    /\ ReconcileBatch \in Nat \ {0}
    /\ AcceptWindow \in Nat /\ MaxFaults \in Nat /\ MaxNow \in Nat

VARIABLES
    outbox, inbox, now, minted, faults,
    up,          \* FALSE once a restart was refused by the inbox's journal
    submitting,  \* commands committed to the outbox by a call still running
    repair,      \* the repair worker: its phase and the events left to record
    sweep,       \* NoTime, or the now of a sweep that has yet to do the outbox
    settled_at, answered, owed

stores  == <<outbox, inbox>>
history == <<settled_at, answered, owed>>
vars == <<outbox, inbox, now, minted, faults, up, submitting, repair, sweep,
          settled_at, answered, owed>>

Idle == [phase |-> "idle", events |-> {}]

Init ==
    /\ outbox = EmptyOutbox /\ inbox = NewInbox
    /\ now = Retention
    /\ minted = [k \in Keys |-> NoTime]
    /\ faults = 0 /\ up = TRUE
    /\ submitting = {} /\ repair = Idle /\ sweep = NoTime
    /\ settled_at = [k \in Keys |-> NoTime]
    /\ answered = {} /\ owed = {}

-----------------------------------------------------------------------------
(* SubmitCommand. *)

\* resolve_command_id_and_timestamp: the identity's own clock bounds its use.
\* An identity is minted by its first submission.
WithinAcceptanceWindow(key) ==
    minted[key] = NoTime \/ now - minted[key] <= AcceptWindow

\* The outbox commit. A conflict or a full outbox ends the call; a duplicate
\* goes on like a first acceptance.
Submit(c) ==
    /\ up
    /\ WithinAcceptanceWindow(c.key)
    /\ c \notin submitting
    /\ EnqueueResult(outbox, c.key, c) \in {"Enqueued", "AlreadyPending", "AlreadyComplete"}
    /\ outbox' = Enqueue(outbox, c.key, c)
    /\ minted' = [minted EXCEPT ![c.key] = IF @ = NoTime THEN now ELSE @]
    /\ submitting' = submitting \cup {c}
    /\ UNCHANGED <<inbox, now, faults, up, repair, sweep, history>>

\* Mutant of Recorded: record does not look whether the identity is known.
RecordedBlindly(c) ==
    IF CheckRecordable(inbox, c) # "capacity" THEN InsertRecorded(inbox, c) ELSE inbox

\* InboxState::record
Recorded(c) ==
    IF CheckRecordable(inbox, c) = "ok" THEN InsertRecorded(inbox, c) ELSE inbox

\* Mutant of SubmitRecords: success although the inbox refused the record.
SubmitAnswersAnyway(c) ==
    /\ up
    /\ c \in submitting
    /\ inbox' = Recorded(c)
    /\ submitting' = submitting \ {c}
    /\ answered' = answered \cup {c.key}
    /\ UNCHANGED <<outbox, now, minted, faults, up, repair, sweep, settled_at, owed>>

\* The inbox record, and success to the operator.
SubmitRecords(c) ==
    /\ up
    /\ c \in submitting
    /\ CheckRecordable(inbox, c) # "capacity"
    /\ inbox' = Recorded(c)
    /\ submitting' = submitting \ {c}
    /\ answered' = answered \cup {c.key}
    /\ UNCHANGED <<outbox, now, minted, faults, up, repair, sweep, settled_at, owed>>

\* The inbox is full, or its write failed: an error to the operator, and the
\* outbox row stays.
SubmitFails(c) ==
    /\ up
    /\ c \in submitting
    /\ submitting' = submitting \ {c}
    /\ UNCHANGED <<stores, now, minted, faults, up, repair, sweep, history>>

-----------------------------------------------------------------------------
(* The repair worker. *)

\* The completed rows a pass looks at: those of one retention window.
Recent == RecentCompleted(outbox, SaturatingSub(now, Retention))

\* The rows a pass ought to repair: known to the outbox, unknown to the inbox,
\* and no call is on its way to record them.
Orphans ==
    {k \in InState(outbox, "pending") \cup Recent :
        /\ k \notin Tracked(inbox)
        /\ \A c \in submitting : c.key # k}

EventsOf(keys) == {outbox[k].event : k \in keys}

\* A pass over an empty outbox does nothing and is left out. Rows that a full
\* batch hides from the pass are not owed by it.
ReconcilePending ==
    /\ up
    /\ repair.phase = "idle"
    /\ DOMAIN outbox # {}
    /\ \E batch \in PendingReconciliationBatches(outbox, ReconcileBatch) :
         /\ repair' = [phase |-> "completed", events |-> EventsOf(batch)]
         /\ owed' = Orphans \ (InState(outbox, "pending") \ batch)
    /\ UNCHANGED <<stores, now, minted, faults, up, submitting, sweep,
                   settled_at, answered>>

\* Mutant of ReconcileCompleted: completed rows are not looked at.
ReconcileNotCompleted ==
    /\ up
    /\ repair.phase = "completed"
    /\ repair' = [repair EXCEPT !.phase = "record"]
    /\ UNCHANGED <<stores, now, minted, faults, up, submitting, sweep, history>>

ReconcileCompleted ==
    /\ up
    /\ repair.phase = "completed"
    /\ \E batch \in RecentCompletedBatches(outbox, SaturatingSub(now, Retention),
                                           ReconcileBatch) :
         /\ repair' = [phase |-> "record", events |-> repair.events \cup EventsOf(batch)]
         /\ owed' = owed \ {k \in Recent \ batch : outbox[k].event \notin repair.events}
    /\ UNCHANGED <<stores, now, minted, faults, up, submitting, sweep,
                   settled_at, answered>>

\* pending_command_from_ingest_request, then record; a refusal is counted and
\* the pass goes on.
ReconcileRecord(c) ==
    /\ up
    /\ repair.phase = "record"
    /\ c \in repair.events
    /\ inbox' = Recorded(c)
    /\ repair' = [repair EXCEPT !.events = @ \ {c}]
    /\ owed' = IF CheckRecordable(inbox, c) = "capacity" THEN owed \ {c.key} ELSE owed
    /\ UNCHANGED <<outbox, now, minted, faults, up, submitting, sweep,
                   settled_at, answered>>

ReconcileDone ==
    /\ up
    /\ repair.phase = "record"
    /\ repair.events = {}
    /\ repair' = Idle
    /\ owed' = {}
    /\ UNCHANGED <<stores, now, minted, faults, up, submitting, sweep,
                   settled_at, answered>>

-----------------------------------------------------------------------------
(* The retention worker: the inbox first, then the outbox.  A sweep that   *)
(* would remove nothing from either is left out.                           *)

SweepInbox ==
    /\ up
    /\ sweep = NoTime
    /\ MaintainChanges(inbox, now) \/ ExpiredRows(outbox, now, Retention) # {}
    /\ inbox' = Maintain(inbox, now)
    /\ sweep' = now
    /\ UNCHANGED <<outbox, now, minted, faults, up, submitting, repair, history>>

SweepOutbox ==
    /\ up
    /\ sweep # NoTime
    /\ outbox' = OutboxMaintain(outbox, sweep, Retention)
    /\ sweep' = NoTime
    /\ UNCHANGED <<inbox, now, minted, faults, up, submitting, repair, history>>

\* A failed sweep of the inbox does not keep the outbox from being swept; a pass
\* that cannot read the outbox ends; one that cannot write a record goes on.
WorkerStatementFails ==
    /\ up
    /\ faults < MaxFaults
    /\ faults' = faults + 1
    /\ \/ /\ sweep = NoTime
          /\ MaintainChanges(inbox, now) \/ ExpiredRows(outbox, now, Retention) # {}
          /\ sweep' = now
          /\ UNCHANGED <<repair, owed>>
       \/ /\ sweep # NoTime
          /\ sweep' = NoTime
          /\ UNCHANGED <<repair, owed>>
       \/ /\ repair.phase = "completed"
          /\ repair' = Idle /\ owed' = {}
          /\ UNCHANGED sweep
       \/ /\ repair.phase = "record"
          /\ \E c \in repair.events :
               /\ repair' = [repair EXCEPT !.events = @ \ {c}]
               /\ owed' = owed \ {c.key}
          /\ UNCHANGED sweep
    /\ UNCHANGED <<stores, now, minted, up, submitting, settled_at, answered>>

-----------------------------------------------------------------------------
(* Fan-out, seen from the rows: published and settled, or given up.  *)

FanoutComplete(key) ==
    /\ up
    /\ key \in InState(outbox, "pending")
    /\ outbox' = MarkComplete(outbox, {key}, now)
    /\ UNCHANGED <<inbox, now, minted, faults, up, submitting, repair, sweep, history>>

FanoutGivesUp(key) ==
    /\ up
    /\ key \in InState(outbox, "pending")
    /\ outbox' = Quarantine(outbox, {key})
    /\ UNCHANGED <<inbox, now, minted, faults, up, submitting, repair, sweep, history>>

OperatorRequeue(key) ==
    /\ up
    /\ key \in InState(outbox, "quarantined")
    /\ outbox' = Requeue(outbox, {key})
    /\ UNCHANGED <<inbox, now, minted, faults, up, submitting, repair, sweep, history>>

-----------------------------------------------------------------------------
(* PollCommands, AckCommand, CancelCommand. *)

Claim(agent, limit) ==
    LET taken == Deliverable(inbox, agent, limit, now)
    IN  /\ up
        /\ taken # {}
        /\ inbox' = MarkDelivered(inbox, taken, now)
        /\ settled_at' = [k \in Keys |->
                            IF k \in taken
                               /\ inbox.entries[k].attempts + 1 = MaxAttempts
                            THEN now ELSE settled_at[k]]
        /\ UNCHANGED <<outbox, now, minted, faults, up, submitting, repair, sweep,
                       answered, owed>>

Acknowledge(agent, key, attempt) ==
    /\ up
    /\ attempt # 0
    /\ ScopeOf[key] \in AgentScopes[agent]
    /\ AckResult(inbox, agent, key, attempt) = "acknowledged"
    /\ inbox' = SetAcknowledged(inbox, key, TRUE)
    /\ settled_at' = [settled_at EXCEPT ![key] = now]
    /\ UNCHANGED <<outbox, now, minted, faults, up, submitting, repair, sweep,
                   answered, owed>>

Cancel(key) ==
    /\ up
    /\ CancelResult(inbox, key) = "cancelled"
    /\ inbox' = SetCancelled(inbox, key, TRUE, now)
    /\ settled_at' = [settled_at EXCEPT ![key] = now]
    /\ UNCHANGED <<outbox, now, minted, faults, up, submitting, repair, sweep,
                   answered, owed>>

-----------------------------------------------------------------------------

\* A restart forgets every call and every pass in progress. The outbox and an
\* inbox in PostgreSQL are as they were; an inbox in a file is loaded from its
\* journal, and when the journal is refused the gateway does not start.
Crash ==
    /\ up
    /\ faults < MaxFaults
    /\ faults' = faults + 1
    /\ submitting' = {} /\ repair' = Idle /\ sweep' = NoTime /\ owed' = {}
    /\ \E in_file \in BOOLEAN :
         /\ inbox' = IF in_file /\ ~ReloadRefused(inbox) THEN Reloaded(inbox) ELSE inbox
         /\ up' = ~(in_file /\ ReloadRefused(inbox))
    /\ UNCHANGED <<outbox, now, minted, settled_at, answered>>

\* A tick is long (the windows are hours): a call, a repair pass or a sweep that
\* has started ends within it, so the `since` of a pass and its reads agree.
Tick ==
    /\ now < MaxNow
    /\ submitting = {} /\ repair = Idle /\ sweep = NoTime
    /\ now' = now + 1
    /\ UNCHANGED <<stores, minted, faults, up, submitting, repair, sweep, history>>

\* One step of the repair worker, wherever its pass stands.
RepairStep ==
    \/ ReconcilePending \/ ReconcileCompleted \/ ReconcileDone
    \/ \E c \in Submissions : ReconcileRecord(c)

Next ==
    \/ \E c \in Submissions : Submit(c) \/ SubmitRecords(c) \/ SubmitFails(c)
    \/ RepairStep
    \/ SweepInbox \/ SweepOutbox \/ WorkerStatementFails
    \/ \E k \in Keys : \/ FanoutComplete(k) \/ FanoutGivesUp(k) \/ OperatorRequeue(k)
                       \/ Cancel(k)
    \/ \E a \in Agents, n \in PollLimits : Claim(a, n)
    \/ \E a \in Agents, k \in Keys, n \in 0..MaxAttempts : Acknowledge(a, k, n)
    \/ Crash
    \/ Tick

Spec == Init /\ [][Next]_vars

\* The repair worker runs on its timer as long as the gateway does. Nothing is
\* promised of the sweep, operators, agents, the broker or the clock.
Fairness == WF_vars(RepairStep)

FairSpec == Spec /\ Fairness

-----------------------------------------------------------------------------
(* Properties. *)

\* The two records of a command describe the same command ("an operator reading
\* the trace and an agent receiving the instruction cannot be looking at
\* different things", envelope.rs), although they are written, repaired and
\* expired one after the other by different workers.
AuditMatchesDelivery ==
    \A k \in DOMAIN outbox \cap DOMAIN inbox.entries :
        outbox[k].event.agent = inbox.entries[k].agent

\* A submission answered with success is not forgotten: the inbox knows it until
\* a whole retention window after it was handed over for the last time,
\* acknowledged or cancelled. accept_and_record calls the opposite "the one
\* thing that would be wrong".
AnsweredIsKept ==
    \A k \in answered \ Tracked(inbox) :
        settled_at[k] # NoTime /\ settled_at[k] + Retention <= now

\* A repair pass leaves nothing behind that it could see: a row without a
\* delivery record when the pass began has one when the pass ends, unless more
\* rows of its kind than a batch hid it, or the inbox refused it for want of
\* room or failed (a counted failure, which ends the debt), or the row is gone
\* (docs/phase-0.5-progress.md: the worker "repairs both a crash between the
\* outbox commit and inbox write and the less obvious case where fanout
\* completed before the inbox write failed").
PassRepairs ==
    (repair.phase = "record" /\ repair.events = {}) =>
        \A k \in owed :
            \/ k \in Tracked(inbox)
            \/ settled_at[k] # NoTime
            \/ k \notin DOMAIN outbox

\* An accepted command that was never settled and whose delivery record is
\* missing. (A settled identity is not owed another one, control.proto: the
\* cancelled state is "Durable and terminal".)
Unrecorded ==
    {k \in InState(outbox, "pending") \cup Recent :
        k \notin Tracked(inbox) /\ settled_at[k] = NoTime}

\* More rows of the row's kind than a pass reads: it may be hidden by them.
Backlogged(k) ==
    IF k \in InState(outbox, "pending")
    THEN Cardinality(InState(outbox, "pending")) > ReconcileBatch
    ELSE Cardinality(Recent) > ReconcileBatch

\* The same as a promise: a command of which the delivery record was lost gets
\* one, or is quarantined, or its row leaves the window, or a backlog hides it, or
\* the inbox is full, or the gateway does not come back. The repair worker needs
\* nobody's help for it, and no interleaving with fan-out, sweeps,
\* resubmissions and restarts starves it of anything else.
LostRecordRepaired ==
    \A k \in Keys :
        k \in Unrecorded
        ~> (\/ k \notin Unrecorded
            \/ Backlogged(k)
            \/ CheckRecordable(inbox, outbox[k].event) = "capacity"
            \/ ~up)

\* What the gateway's inbox promises its callers, with restarts in which tombstones
\* are no longer counted: the shared ceiling is kept, the scope's quota (which
\* load breaks, see FileInbox) is not promised.
Contract == INSTANCE InboxContract WITH
    commands <- [k \in DOMAIN inbox.entries |->
                   [agent |-> inbox.entries[k].agent,
                    attempts |-> inbox.entries[k].attempts,
                    acknowledged |-> inbox.entries[k].acknowledged,
                    cancelled |-> inbox.entries[k].cancelled]],
    ScopeQuota <- Capacity,
    Slack <- 0

\* Two recorders (the submitting call and the repair worker), sweeps, polls and
\* restarts together keep the life of a command: recorded once while it is
\* known, each delivery counted, one outcome, forgotten only when it is over.
ContractKept == Contract!Spec
=============================================================================
