------------------------------ MODULE InboxState ------------------------------
(***************************************************************************)
(* The decision logic of the durable command inbox                         *)
(* (apps/control-plane-api/src/inbox/state.rs): which submitted commands   *)
(* exist, how often each was handed to its agent, which ones settled, and  *)
(* which identities are kept as tombstones for the idempotency window.     *)
(*                                                                         *)
(* As in the code, one value of type InboxState is shared by every         *)
(* backend: the operators below are the methods of that struct, from a     *)
(* state (and inputs) to a state.  State machines are built from them in   *)
(* CommandInbox, FileInbox and ControlGateway.                             *)
(*                                                                         *)
(* A key stands for the triple (workspace, namespace, command_id); its     *)
(* scope is the (workspace, namespace) part.  Of a PendingCommand only the *)
(* key and the target agent are kept: no operation reads anything else.    *)
(***************************************************************************)
EXTENDS Integers, FiniteSets, Sequences

CONSTANTS
    Keys,             \* command identities
    Scopes,           \* (workspace, namespace) pairs
    ScopeOf,          \* [Keys -> Scopes]
    Agents,           \* agent identities a command can target
    AgentScopes,      \* [Agents -> SUBSET Scopes], from the agent's credential
    Capacity,         \* DEFAULT_INBOX_CAPACITY
    ScopeQuota,       \* DEFAULT_INBOX_SCOPE_QUOTA
    MaxAttempts,      \* DEFAULT_MAX_DELIVERY_ATTEMPTS
    RedeliveryAfter,  \* DEFAULT_REDELIVERY_AFTER, in ticks
    Retention         \* the command retention window, in ticks

ASSUME ScopesAssumption == ScopeOf \in [Keys -> Scopes]
ASSUME AgentScopesAssumption == AgentScopes \in [Agents -> SUBSET Scopes]
ASSUME BoundsAssumption ==
    /\ Capacity \in Nat \ {0}
    /\ ScopeQuota \in Nat \ {0}
    /\ MaxAttempts \in Nat \ {0}
    /\ RedeliveryAfter \in Nat
    /\ Retention \in Nat \ {0}

-----------------------------------------------------------------------------
(* Types. *)

\* The None of an Option<u64> timestamp.
NoTime == -1
Time == Nat \cup {NoTime}

Command == [key : Keys, agent : Agents]

Entry == [agent : Agents, attempts : 0..MaxAttempts, last_delivered : Time,
          acknowledged : BOOLEAN, sequence : Nat \ {0},
          cancelled : BOOLEAN, cancelled_at : Time]

\* u64::saturating_sub
SaturatingSub(a, b) == IF a >= b THEN a - b ELSE 0

\* Every identity the inbox still knows, live or retired.
Tracked(st) == DOMAIN st.entries \cup DOMAIN st.retired

InScope(S, s) == {k \in S : ScopeOf[k] = s}

EmptyMap == [k \in {} |-> NoTime]

\* InboxState::new
NewInbox == [order |-> <<>>, entries |-> EmptyMap, retired |-> EmptyMap,
             scope_counts |-> [s \in Scopes |-> 0], next_sequence |-> 1]

\* VecDeque::retain: the elements that stay, in their order.
Retain(order, keep) ==
    LET kept[i \in 0..Len(order)] ==
            IF i = 0 THEN <<>>
            ELSE IF order[i] \in keep THEN Append(kept[i - 1], order[i])
            ELSE kept[i - 1]
    IN  kept[Len(order)]

-----------------------------------------------------------------------------
(* Recording. *)

\* Nothing is mutated: "already" (a no-op), "capacity" (refused) or "ok".
CheckRecordable(st, c) ==
    IF c.key \in Tracked(st) THEN "already"
    ELSE IF \/ Cardinality(DOMAIN st.entries) + Cardinality(DOMAIN st.retired)
                 >= Capacity
            \/ st.scope_counts[ScopeOf[c.key]] >= ScopeQuota
         THEN "capacity"
         ELSE "ok"

FreshEntry(c, seq) ==
    [agent |-> c.agent, attempts |-> 0, last_delivered |-> NoTime,
     acknowledged |-> FALSE, sequence |-> seq,
     cancelled |-> FALSE, cancelled_at |-> NoTime]

\* Mutant of InsertRecorded: next_sequence is not advanced.
InsertRecordedSameSequence(st, c) ==
    [order |-> Append(Retain(st.order, Keys \ {c.key}), c.key),
     entries |-> [k \in DOMAIN st.entries \cup {c.key} |->
                    IF k = c.key THEN FreshEntry(c, st.next_sequence)
                                 ELSE st.entries[k]],
     retired |-> st.retired,
     scope_counts |-> [st.scope_counts EXCEPT ![ScopeOf[c.key]] = @ + 1],
     next_sequence |-> st.next_sequence]

\* Only ever called on a command CheckRecordable has just admitted.
InsertRecorded(st, c) ==
    [order |-> Append(Retain(st.order, Keys \ {c.key}), c.key),
     entries |-> [k \in DOMAIN st.entries \cup {c.key} |->
                    IF k = c.key THEN FreshEntry(c, st.next_sequence)
                                 ELSE st.entries[k]],
     retired |-> st.retired,
     scope_counts |-> [st.scope_counts EXCEPT ![ScopeOf[c.key]] = @ + 1],
     next_sequence |-> st.next_sequence + 1]

-----------------------------------------------------------------------------
(* Delivery. *)

UpdateEntry(st, key, e) ==
    [order |-> st.order,
     entries |-> [st.entries EXCEPT ![key] = e],
     retired |-> st.retired,
     scope_counts |-> st.scope_counts,
     next_sequence |-> st.next_sequence]

\* Replay of a Delivered record: never widens, never goes back.
ApplyDelivery(st, key, attempt, at) ==
    IF key \notin DOMAIN st.entries THEN st
    ELSE UpdateEntry(st, key,
           [st.entries[key] EXCEPT
              !.attempts = IF @ >= attempt THEN @ ELSE attempt,
              !.last_delivered = IF @ >= at THEN @ ELSE at])

\* Mutant of Eligible: the attempt ceiling is off by one.
EligiblePastCeiling(st, agent, now) ==
    {k \in DOMAIN st.entries :
       LET e == st.entries[k]
       IN  /\ e.agent = agent
           /\ ScopeOf[k] \in AgentScopes[agent]
           /\ e.attempts <= MaxAttempts
           /\ ~e.acknowledged
           /\ ~e.cancelled
           /\ \/ e.last_delivered = NoTime
              \/ SaturatingSub(now, e.last_delivered) >= RedeliveryAfter}

\* Mutant of Eligible: a command never delivered is not visible yet.
EligibleOnlyAgain(st, agent, now) ==
    {k \in DOMAIN st.entries :
       LET e == st.entries[k]
       IN  /\ e.agent = agent
           /\ ScopeOf[k] \in AgentScopes[agent]
           /\ e.attempts < MaxAttempts
           /\ ~e.acknowledged
           /\ ~e.cancelled
           /\ e.last_delivered # NoTime
           /\ SaturatingSub(now, e.last_delivered) >= RedeliveryAfter}

\* The commands this agent is entitled to right now.
Eligible(st, agent, now) ==
    {k \in DOMAIN st.entries :
       LET e == st.entries[k]
       IN  /\ e.agent = agent
           /\ ScopeOf[k] \in AgentScopes[agent]
           /\ e.attempts < MaxAttempts
           /\ ~e.acknowledged
           /\ ~e.cancelled
           /\ \/ e.last_delivered = NoTime
              \/ SaturatingSub(now, e.last_delivered) >= RedeliveryAfter}

Position(st, key) == CHOOSE i \in DOMAIN st.order : st.order[i] = key

\* ... of which a poll takes the first `limit` in insertion order.
Deliverable(st, agent, limit, now) ==
    LET elig == Eligible(st, agent, now)
    IN  {k \in elig :
           Cardinality({j \in elig : Position(st, j) < Position(st, k)}) < limit}

\* mark_delivered, for every key of a claim.
MarkDelivered(st, keys, now) ==
    [order |-> st.order,
     entries |-> [k \in DOMAIN st.entries |->
                    IF k \in keys
                    THEN [st.entries[k] EXCEPT !.attempts = @ + 1,
                                               !.last_delivered = now]
                    ELSE st.entries[k]],
     retired |-> st.retired,
     scope_counts |-> st.scope_counts,
     next_sequence |-> st.next_sequence]

-----------------------------------------------------------------------------
(* Settling: acknowledgement by the agent, cancellation by an operator.  *)

\* The AckResult of acknowledge: "not_found", "already" or "acknowledged".
AckResult(st, agent, key, attempt) ==
    IF key \notin DOMAIN st.entries THEN "not_found"
    ELSE IF \/ st.entries[key].agent # agent
            \/ attempt = 0
            \/ attempt > st.entries[key].attempts
         THEN "not_found"
         ELSE IF st.entries[key].acknowledged THEN "already"
              ELSE "acknowledged"

SetAcknowledged(st, key, flag) ==
    UpdateEntry(st, key, [st.entries[key] EXCEPT !.acknowledged = flag])

\* Mutant of CancelResult: a delivered command can still be cancelled.
CancelResultAnytime(st, key) ==
    IF key \in DOMAIN st.entries
    THEN IF st.entries[key].cancelled THEN "already" ELSE "cancelled"
    ELSE IF key \in DOMAIN st.retired THEN "already_delivered" ELSE "not_found"

\* The CancelResult of cancel, or its error "already_delivered".
CancelResult(st, key) ==
    IF key \in DOMAIN st.entries
    THEN IF st.entries[key].cancelled THEN "already"
         ELSE IF st.entries[key].attempts > 0 THEN "already_delivered"
              ELSE "cancelled"
    ELSE IF key \in DOMAIN st.retired THEN "already_delivered" ELSE "not_found"

SetCancelled(st, key, flag, at) ==
    UpdateEntry(st, key, [st.entries[key] EXCEPT !.cancelled = flag,
                                                 !.cancelled_at = at])

-----------------------------------------------------------------------------
(* Retention. *)

\* retire: the entry becomes a tombstone; its share of the scope is kept.
Retire(st, key, at) ==
    [order |-> st.order,
     entries |-> [k \in DOMAIN st.entries \ {key} |-> st.entries[k]],
     retired |-> [k \in DOMAIN st.retired \cup {key} |->
                    IF k = key THEN at ELSE st.retired[k]],
     scope_counts |-> st.scope_counts,
     next_sequence |-> st.next_sequence]

\* When the sweep of `maintain` may settle an entry.
IsSettled(e, cutoff) ==
    IF e.cancelled THEN e.cancelled_at # NoTime /\ e.cancelled_at <= cutoff
    ELSE /\ e.acknowledged \/ e.attempts >= MaxAttempts
         /\ e.last_delivered # NoTime /\ e.last_delivered <= cutoff

Settled(st, now) ==
    {k \in DOMAIN st.entries :
        IsSettled(st.entries[k], SaturatingSub(now, Retention))}

\* Mutant of RetiredAt: the window starts at the last delivery.
RetiredAtDelivery(st, now) ==
    [k \in Settled(st, now) \cup DOMAIN st.retired |->
        IF k \notin Settled(st, now) THEN st.retired[k]
        ELSE IF st.entries[k].cancelled THEN st.entries[k].cancelled_at
        ELSE st.entries[k].last_delivered]

\* The tombstone time of every retired or newly settled identity.
RetiredAt(st, now) ==
    [k \in Settled(st, now) \cup DOMAIN st.retired |->
        IF k \notin Settled(st, now) THEN st.retired[k]
        ELSE IF st.entries[k].cancelled THEN st.entries[k].cancelled_at
        ELSE now]

\* remove_expired_retired: the identities that leave the inbox altogether.
Expired(st, now) ==
    {k \in DOMAIN RetiredAt(st, now) :
        RetiredAt(st, now)[k] <= SaturatingSub(now, Retention)}

MaintainChanges(st, now) == Settled(st, now) # {} \/ Expired(st, now) # {}

\* Mutant of Maintain: a retired identity gives back its share of the scope.
MaintainFreesRetired(st, now) ==
    IF ~MaintainChanges(st, now) THEN st
    ELSE LET live == DOMAIN st.entries \ Settled(st, now)
             gone == Expired(st, now)
         IN  [order |-> Retain(st.order, live),
              entries |-> [k \in live |-> st.entries[k]],
              retired |-> [k \in DOMAIN RetiredAt(st, now) \ gone |->
                             RetiredAt(st, now)[k]],
              scope_counts |-> [s \in Scopes |->
                                  SaturatingSub(st.scope_counts[s],
                                    Cardinality(InScope(Settled(st, now) \cup gone, s)))],
              next_sequence |-> st.next_sequence]

\* One sweep: retire, expire, and the order clean-up of the compaction that
\* ends every sweep that changed something.
Maintain(st, now) ==
    IF ~MaintainChanges(st, now) THEN st
    ELSE LET live == DOMAIN st.entries \ Settled(st, now)
             gone == Expired(st, now)
         IN  [order |-> Retain(st.order, live),
              entries |-> [k \in live |-> st.entries[k]],
              retired |-> [k \in DOMAIN RetiredAt(st, now) \ gone |->
                             RetiredAt(st, now)[k]],
              scope_counts |-> [s \in Scopes |->
                                  SaturatingSub(st.scope_counts[s],
                                                Cardinality(InScope(gone, s)))],
              next_sequence |-> st.next_sequence]

-----------------------------------------------------------------------------
(* A restart of the file backend, when nothing is wrong with its journal:  *)
(* load replays it into a new state.  (FileInbox has the journal itself.)  *)

\* load records the live commands again, under the same quota ...
ReloadRefused(st) ==
    \E s \in Scopes : Cardinality(InScope(DOMAIN st.entries, s)) > ScopeQuota

\* ... in their order, with new sequences, and does not count the tombstones.
Reloaded(st) ==
    LET order == Retain(st.order, DOMAIN st.entries)
    IN  [order |-> order,
         entries |-> [k \in DOMAIN st.entries |->
                        [st.entries[k] EXCEPT !.sequence =
                            CHOOSE i \in DOMAIN order : order[i] = k]],
         retired |-> st.retired,
         scope_counts |-> [s \in Scopes |-> Cardinality(InScope(DOMAIN st.entries, s))],
         next_sequence |-> Len(order) + 1]

=============================================================================
