------------------------------ MODULE EventOutbox ------------------------------
(***************************************************************************)
(* The durable outbox (crates/apex-durability/src/outbox): the accepted    *)
(* events, keyed by identity, each waiting for fan-out ("pending"), fanned *)
(* out ("complete"), or taken out of the replay set after too many         *)
(* failures ("quarantined").  Operators on a value `ob`, a function from   *)
(* the known identities to rows, as InboxState is for the inbox; they      *)
(* follow FileOutbox (file_ops.rs), whose calls are serialised by one      *)
(* mutex.  The journal behind it is not modelled here.                     *)
(*                                                                         *)
(* An event is the command it records: two envelopes are equal when the    *)
(* events are.  pending_since_millis only feeds a metric and is left out.  *)
(***************************************************************************)
EXTENDS Integers, FiniteSets

CONSTANT
    OutboxCapacity  \* FileOutbox.capacity

ASSUME OutboxAssumption == OutboxCapacity \in Nat \ {0}

EmptyOutbox == [k \in {} |-> 0]

PendingRow(event) ==
    [state |-> "pending", event |-> event, attempts |-> 0, at |-> 0]

InState(ob, s) == {k \in DOMAIN ob : ob[k].state = s}

\* Mutant of EnqueueResult: a quarantined row answers for any content.
EnqueueResultQuarantineBlind(ob, key, event) ==
    IF key \in DOMAIN ob
    THEN IF ob[key].state = "quarantined" THEN "AlreadyPending"
         ELSE IF ob[key].event # event THEN "idempotency_conflict"
         ELSE IF ob[key].state = "complete" THEN "AlreadyComplete"
         ELSE "AlreadyPending"
    ELSE IF Cardinality(DOMAIN ob) >= OutboxCapacity THEN "capacity"
    ELSE "Enqueued"

\* The answer of enqueue, its two errors included.
EnqueueResult(ob, key, event) ==
    IF key \in DOMAIN ob
    THEN IF ob[key].event # event THEN "idempotency_conflict"
         ELSE IF ob[key].state = "complete" THEN "AlreadyComplete"
         ELSE "AlreadyPending"
    ELSE IF Cardinality(DOMAIN ob) >= OutboxCapacity THEN "capacity"
    ELSE "Enqueued"

\* ... and what it leaves: only a fresh identity adds a row.
Enqueue(ob, key, event) ==
    IF EnqueueResult(ob, key, event) # "Enqueued" THEN ob
    ELSE [k \in DOMAIN ob \cup {key} |->
            IF k = key THEN PendingRow(event) ELSE ob[k]]

\* mark_complete_many: every key must be pending or already complete.
MarkCompleteFails(ob, keys) ==
    ~(keys \subseteq InState(ob, "pending") \cup InState(ob, "complete"))

MarkComplete(ob, keys, now) ==
    IF MarkCompleteFails(ob, keys) THEN ob
    ELSE [k \in DOMAIN ob |->
            IF k \in keys /\ ob[k].state = "pending"
            THEN [ob[k] EXCEPT !.state = "complete", !.attempts = 0, !.at = now]
            ELSE ob[k]]

\* quarantine: pending rows only, anything else is skipped.
Quarantine(ob, keys) ==
    [k \in DOMAIN ob |->
        IF k \in keys /\ ob[k].state = "pending"
        THEN [ob[k] EXCEPT !.state = "quarantined", !.attempts = 0, !.at = 0]
        ELSE ob[k]]

\* requeue_quarantined: back to pending with a fresh replay window.
Requeue(ob, keys) ==
    [k \in DOMAIN ob |->
        IF k \in keys /\ ob[k].state = "quarantined"
        THEN PendingRow(ob[k].event)
        ELSE ob[k]]

\* maintain: completed rows leave the idempotency window.
ExpiredRows(ob, now, retention) ==
    {k \in InState(ob, "complete") :
        ob[k].at <= (IF now >= retention THEN now - retention ELSE 0)}

OutboxMaintain(ob, now, retention) ==
    [k \in DOMAIN ob \ ExpiredRows(ob, now, retention) |-> ob[k]]

-----------------------------------------------------------------------------
(* Reads.  The maps are hash maps: which rows a limited batch returns is   *)
(* not determined.  (The Postgres backend takes the oldest first, one of   *)
(* these choices.)                                                         *)

Batches(S, limit) ==
    {T \in SUBSET S :
        Cardinality(T) = (IF Cardinality(S) < limit THEN Cardinality(S) ELSE limit)}

\* pending_reconciliation_batch: every pending row, due or not.
PendingReconciliationBatches(ob, limit) == Batches(InState(ob, "pending"), limit)

\* recent_completed_batch
RecentCompleted(ob, since) == {k \in InState(ob, "complete") : ob[k].at >= since}

RecentCompletedBatches(ob, since, limit) == Batches(RecentCompleted(ob, since), limit)
=============================================================================
