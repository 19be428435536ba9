---------------------------- MODULE PostgresInbox ----------------------------
(***************************************************************************)
(* The Postgres command inbox                                              *)
(* (apps/control-plane-api/src/inbox_postgres.rs): one table, and the      *)
(* connections (slots) of every replica running transactions against it    *)
(* at READ COMMITTED, each statement a step.                               *)
(*                                                                         *)
(*   record   lookup; scope lock, scope count and global count; insert     *)
(*   claim    batches of SELECT ... FOR UPDATE SKIP LOCKED; update; commit *)
(*   acknowledge, cancel, maintain   one conditional statement each, which *)
(*            waits for the row locks of the claims under way              *)
(*                                                                         *)
(* Nothing plays the part of the other backends' mutex, and there are no   *)
(* tombstones: maintain deletes a settled row directly.  A lost connection *)
(* rolls its transaction back; RecoveringPostgresCommandInbox then runs    *)
(* the call again with the timestamp it already had, which is a new call   *)
(* with an older reading of the clock.  A commit whose answer is lost is a *)
(* commit followed by such a call.                                         *)
(***************************************************************************)
EXTENDS InboxState

CONSTANTS
    Slots,       \* the connections of all replicas
    PollLimits,  \* the max_commands values a poll may resolve to
    ClaimBatch,  \* CLAIM_BATCH, rows per scan statement
    Skew,        \* how long before its statement a call may have read the clock
    MaxNow,      \* bound: the clock stops here
    MaxSequence  \* bound: how many sequence numbers are drawn

ASSUME SlotsAssumption == IsFiniteSet(Slots) /\ Slots # {}
ASSUME PollAssumption == PollLimits \subseteq Nat \ {0}
ASSUME BatchAssumption == ClaimBatch \in Nat \ {0}
ASSUME ClockAssumption == Skew \in Nat /\ MaxNow \in Nat /\ MaxSequence \in Nat

VARIABLES
    rows,           \* apex_control_inbox, by (workspace, namespace, command_id)
    next_sequence,  \* its BIGSERIAL
    session,        \* what each slot's transaction has done so far
    now

vars == <<rows, next_sequence, session, now>>

Idle == [step |-> "idle"]

Init ==
    /\ rows = <<>>
    /\ next_sequence = 1
    /\ session = [s \in Slots |-> Idle]
    /\ now = Retention

\* The now_millis a call may carry: read before the storage permit, the mutex
\* and any retry (service/poll.rs).
Readings == {t \in (now - Skew)..now : t >= 0}

Locked(s) == IF session[s].step \in {"scanning", "updating"}
             THEN session[s].locked ELSE {}

LockedBut(s) == UNION {Locked(t) : t \in Slots \ {s}}

LockedRows == UNION {Locked(t) : t \in Slots}

-----------------------------------------------------------------------------
(* record *)

\* The row is absent. (A row found answers the call and changes nothing.)
RecordLookup(s, c) ==
    /\ session[s] = Idle
    /\ next_sequence <= MaxSequence
    /\ c.key \notin DOMAIN rows
    /\ session' = [session EXCEPT ![s] = [step |-> "counting", command |-> c]]
    /\ UNCHANGED <<rows, next_sequence, now>>

\* Slots holding pg_advisory_xact_lock of the scope of command c.
HoldersOf(c) ==
    {t \in Slots : /\ session[t].step = "inserting"
                   /\ ScopeOf[session[t].command.key] = ScopeOf[c.key]}

UnderCeilings(c) ==
    /\ Cardinality(InScope(DOMAIN rows, ScopeOf[c.key])) < ScopeQuota
    /\ Cardinality(DOMAIN rows) < Capacity

\* Mutant of RecordCount: the scope's advisory lock is not taken.
RecordCountUnlocked(s) ==
    /\ session[s].step = "counting"
    /\ session' = [session EXCEPT ![s] =
                     IF UnderCeilings(session[s].command)
                     THEN [@ EXCEPT !.step = "inserting"] ELSE Idle]
    /\ UNCHANGED <<rows, next_sequence, now>>

\* Waits for the scope's lock, then counts; over a ceiling the transaction is
\* dropped, and the lock with it.
RecordCount(s) ==
    /\ session[s].step = "counting"
    /\ HoldersOf(session[s].command) = {}
    /\ session' = [session EXCEPT ![s] =
                     IF UnderCeilings(session[s].command)
                     THEN [@ EXCEPT !.step = "inserting"] ELSE Idle]
    /\ UNCHANGED <<rows, next_sequence, now>>

\* INSERT ... ON CONFLICT DO NOTHING draws a sequence number either way.
RecordInsert(s) ==
    LET c == session[s].command
    IN  /\ session[s].step = "inserting"
        /\ next_sequence <= MaxSequence
        /\ rows' = IF c.key \in DOMAIN rows THEN rows
                   ELSE [k \in DOMAIN rows \cup {c.key} |->
                           IF k # c.key THEN rows[k]
                           ELSE [agent |-> c.agent, attempts |-> 0,
                                 last_delivered_millis |-> NoTime,
                                 acknowledged |-> FALSE,
                                 cancelled_at_millis |-> NoTime,
                                 sequence |-> next_sequence]]
        /\ next_sequence' = next_sequence + 1
        /\ session' = [session EXCEPT ![s] = Idle]
        /\ UNCHANGED now

-----------------------------------------------------------------------------
(* claim *)

ClaimBegin(s, a, n) ==
    /\ session[s] = Idle
    /\ \E at \in Readings :
         session' = [session EXCEPT ![s] =
                       [step |-> "scanning", agent |-> a, limit |-> n, at |-> at,
                        cursor |-> 0, locked |-> {}, selected |-> {}]]
    /\ UNCHANGED <<rows, next_sequence, now>>

\* The WHERE of the scan.
Matches(r, c) ==
    /\ r.agent = c.agent
    /\ ~r.acknowledged
    /\ r.cancelled_at_millis = NoTime
    /\ r.attempts < MaxAttempts
    /\ \/ r.last_delivered_millis = NoTime
       \/ c.at - r.last_delivered_millis >= RedeliveryAfter
    /\ r.sequence > c.cursor

\* The first n of a set of rows, by sequence.
FirstOf(S, n) ==
    {k \in S : Cardinality({j \in S : rows[j].sequence < rows[k].sequence}) < n}

\* SKIP LOCKED passes over the rows other claims hold.
Batch(s) ==
    FirstOf({k \in DOMAIN rows \ LockedBut(s) : Matches(rows[k], session[s])},
            ClaimBatch)

Highest(S) == CHOOSE n \in {rows[k].sequence : k \in S} :
                 \A k \in S : rows[k].sequence <= n

\* A claim after one more batch: every row of it stays locked, those outside
\* the agent's scopes or past the limit too.
Scanned(c, batch) ==
    LET allowed == {k \in batch : ScopeOf[k] \in AgentScopes[c.agent]}
        taken   == FirstOf(allowed, c.limit - Cardinality(c.selected))
        over    == \/ Cardinality(batch) < ClaimBatch
                   \/ Cardinality(c.selected \cup taken) >= c.limit
    IN  [c EXCEPT !.locked = @ \cup batch,
                  !.selected = @ \cup taken,
                  !.cursor = IF batch = {} THEN @ ELSE Highest(batch),
                  !.step = IF over THEN "updating" ELSE @]

ClaimScan(s) ==
    /\ session[s].step = "scanning"
    /\ session' = [session EXCEPT ![s] = Scanned(@, Batch(s))]
    /\ UNCHANGED <<rows, next_sequence, now>>

\* The UPDATE of the selected rows, and the commit that releases the locks.
ClaimUpdate(s) ==
    /\ session[s].step = "updating"
    /\ rows' = [k \in DOMAIN rows |->
                  IF k \in session[s].selected
                  THEN [rows[k] EXCEPT !.attempts = @ + 1,
                                       !.last_delivered_millis = session[s].at]
                  ELSE rows[k]]
    /\ session' = [session EXCEPT ![s] = Idle]
    /\ UNCHANGED <<next_sequence, now>>

-----------------------------------------------------------------------------
(* Single statements, and the environment. *)

\* AckCommand is refused for attempt 0 and outside the agent's scopes before
\* the inbox is reached (service/poll.rs).
Acknowledge(a, k, attempt) ==
    /\ attempt > 0
    /\ ScopeOf[k] \in AgentScopes[a]
    /\ k \in DOMAIN rows \ LockedRows
    /\ rows[k].agent = a
    /\ ~rows[k].acknowledged
    /\ rows[k].attempts >= attempt
    /\ rows' = [rows EXCEPT ![k].acknowledged = TRUE]
    /\ UNCHANGED <<next_sequence, session, now>>

Cancel(k) ==
    /\ k \in DOMAIN rows \ LockedRows
    /\ rows[k].cancelled_at_millis = NoTime
    /\ rows[k].attempts = 0
    /\ \E at \in Readings : rows' = [rows EXCEPT ![k].cancelled_at_millis = at]
    /\ UNCHANGED <<next_sequence, session, now>>

\* The WHERE of the DELETE.
PastRetention(r, at) ==
    \/ /\ r.cancelled_at_millis # NoTime
       /\ at - r.cancelled_at_millis >= Retention
    \/ /\ r.cancelled_at_millis = NoTime
       /\ r.acknowledged \/ r.attempts >= MaxAttempts
       /\ r.last_delivered_millis # NoTime
       /\ at - r.last_delivered_millis >= Retention

Sweep ==
    \E at \in Readings :
        LET gone == {k \in DOMAIN rows : PastRetention(rows[k], at)}
        IN  /\ gone # {} /\ gone \cap LockedRows = {}
            /\ rows' = [k \in DOMAIN rows \ gone |-> rows[k]]
            /\ UNCHANGED <<next_sequence, session, now>>

\* The connection or the replica is lost; the server rolls back.
Lost(s) ==
    /\ session[s] # Idle
    /\ session' = [session EXCEPT ![s] = Idle]
    /\ UNCHANGED <<rows, next_sequence, now>>

Tick ==
    /\ now < MaxNow
    /\ now' = now + 1
    /\ UNCHANGED <<rows, next_sequence, session>>

Next ==
    \/ \E s \in Slots :
         \/ \E c \in Command : RecordLookup(s, c)
         \/ RecordCount(s)
         \/ RecordInsert(s)
         \/ \E a \in Agents, n \in PollLimits : ClaimBegin(s, a, n)
         \/ ClaimScan(s)
         \/ ClaimUpdate(s)
         \/ Lost(s)
    \/ \E a \in Agents, k \in Keys, n \in 0..MaxAttempts : Acknowledge(a, k, n)
    \/ \E k \in Keys : Cancel(k)
    \/ Sweep
    \/ Tick

Spec == Init /\ [][Next]_vars

-----------------------------------------------------------------------------
(* Properties. *)

\* The table implements the contract of the trait, with a row per command:
\* the statements of record, claim, acknowledge, cancel and maintain leave the
\* quota of a scope exact, deliver no cancelled or acknowledged command, cancel
\* no delivered one and delete no command an agent is still owed, in every
\* interleaving of the replicas' transactions. The shared capacity is overshot
\* by at most one command per further connection.
Contract == INSTANCE InboxContract WITH
    commands <- [k \in DOMAIN rows |->
                   [agent |-> rows[k].agent, attempts |-> rows[k].attempts,
                    acknowledged |-> rows[k].acknowledged,
                    cancelled |-> rows[k].cancelled_at_millis # NoTime]],
    Slack <- Cardinality(Slots) - 1

\* See Contract: no interleaving of the replicas' statements leaves what
\* inbox.rs promises every caller.
ImplementsContract == Contract!Spec

=============================================================================
