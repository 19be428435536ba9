----------------------------- MODULE CommandInbox -----------------------------
(***************************************************************************)
(* The command inbox as a state machine: what the trait CommandInbox       *)
(* (apps/control-plane-api/src/inbox.rs) promises its callers, with every  *)
(* call atomic as it is under the backend's mutex (inbox/backend.rs).      *)
(*                                                                         *)
(*   Record       an operator's submission, or a reconciliation repair     *)
(*   Claim        a poll by an agent                                       *)
(*   Acknowledge  an agent's AckCommand, for any attempt it cares to name  *)
(*   Cancel       an operator's CancelCommand                              *)
(*   Sweep        the 60-second retention worker                           *)
(*   Tick         the wall clock                                           *)
(*                                                                         *)
(* settled_at is a history variable: when an identity was last reported    *)
(* settled to anybody (acknowledged, cancelled, or handed out for the last *)
(* time).  No action reads it.                                             *)
(***************************************************************************)
EXTENDS InboxState

CONSTANTS
    PollLimits,  \* the max_commands values a poll may resolve to
    MaxNow       \* bound: the clock stops here

ASSUME PollAssumption == PollLimits \subseteq Nat \ {0}
ASSUME ClockAssumption == MaxNow \in Nat

VARIABLES inbox, now, settled_at

vars == <<inbox, now, settled_at>>

\* The clock starts past one retention window: Unix time, never near zero.
Init ==
    /\ inbox = NewInbox
    /\ now = Retention
    /\ settled_at = [k \in Keys |-> NoTime]

-----------------------------------------------------------------------------

Record(c) ==
    /\ CheckRecordable(inbox, c) = "ok"
    /\ inbox' = InsertRecorded(inbox, c)
    /\ UNCHANGED <<now, settled_at>>

\* A duplicate or a refused command changes nothing.
RecordRefused(c) ==
    /\ CheckRecordable(inbox, c) # "ok"
    /\ UNCHANGED vars

Claim(agent, limit) ==
    LET taken == Deliverable(inbox, agent, limit, now)
    IN  /\ taken # {}
        /\ inbox' = MarkDelivered(inbox, taken, now)
        /\ settled_at' = [k \in Keys |->
                            IF k \in taken
                               /\ inbox.entries[k].attempts + 1 = MaxAttempts
                            THEN now ELSE settled_at[k]]
        /\ UNCHANGED now

Acknowledge(agent, key, attempt) ==
    /\ AckResult(inbox, agent, key, attempt) = "acknowledged"
    /\ inbox' = SetAcknowledged(inbox, key, TRUE)
    /\ settled_at' = [settled_at EXCEPT ![key] = now]
    /\ UNCHANGED now

Cancel(key) ==
    /\ CancelResult(inbox, key) = "cancelled"
    /\ inbox' = SetCancelled(inbox, key, TRUE, now)
    /\ settled_at' = [settled_at EXCEPT ![key] = now]
    /\ UNCHANGED now

Sweep ==
    /\ MaintainChanges(inbox, now)
    /\ inbox' = Maintain(inbox, now)
    /\ UNCHANGED <<now, settled_at>>

Tick ==
    /\ now < MaxNow
    /\ now' = now + 1
    /\ UNCHANGED <<inbox, settled_at>>

Next ==
    \/ \E c \in Command : Record(c) \/ RecordRefused(c)
    \/ \E a \in Agents, n \in PollLimits : Claim(a, n)
    \/ \E a \in Agents, k \in Keys, n \in 0..MaxAttempts : Acknowledge(a, k, n)
    \/ \E k \in Keys : Cancel(k)
    \/ Sweep
    \/ Tick

Spec == Init /\ [][Next]_vars

\* Every agent keeps polling (the SDK's poll loop); nothing else is promised.
Fairness == \A a \in Agents : WF_vars(\E n \in PollLimits : Claim(a, n))

FairSpec == Spec /\ Fairness

-----------------------------------------------------------------------------
(* Properties. *)

\* Type correctness of the inbox, its clock and the history variable. (That
\* `order` lists exactly the live commands is OrderMatchesSequence.)
TypeOK ==
    /\ DOMAIN inbox.entries \subseteq Keys /\ IsFiniteSet(DOMAIN inbox.entries)
    /\ inbox.entries \in [DOMAIN inbox.entries -> Entry]
    /\ DOMAIN inbox.retired \subseteq Keys /\ IsFiniteSet(DOMAIN inbox.retired)
    /\ inbox.retired \in [DOMAIN inbox.retired -> Nat]
    /\ inbox.scope_counts \in [Scopes -> Nat]
    /\ inbox.next_sequence \in Nat \ {0}
    /\ now \in Nat
    /\ settled_at \in [Keys -> Time]

\* The incrementally kept scope_counts is the number of identities, live and
\* retired, that the scope occupies; so no scope holds more than its quota and
\* the inbox no more than its capacity (state.rs, check_recordable, retire and
\* remove_expired_retired each keep their part of the books).
ScopeAccounting ==
    /\ DOMAIN inbox.entries \cap DOMAIN inbox.retired = {}
    /\ \A s \in Scopes :
         /\ inbox.scope_counts[s] = Cardinality(InScope(Tracked(inbox), s))
         /\ inbox.scope_counts[s] <= ScopeQuota
    /\ Cardinality(Tracked(inbox)) <= Capacity

\* Listing filters on `sequence` while it walks `order`, and a poll takes
\* commands oldest first by `order` alone: both are right only because the two
\* agree. Every live command stands in `order` exactly once, in ascending
\* sequence, below next_sequence.
OrderMatchesSequence ==
    LET live == DOMAIN inbox.entries
        pos  == {i \in DOMAIN inbox.order : inbox.order[i] \in live}
        seq(i) == inbox.entries[inbox.order[i]].sequence
    IN  /\ {inbox.order[i] : i \in pos} = live
        /\ \A i, j \in pos : i < j => seq(i) < seq(j)
        /\ \A i \in pos : seq(i) < inbox.next_sequence

\* Cancelled and acknowledged exclude each other, and a cancelled command was
\* never handed to its agent (the comment on Entry.cancelled in state.rs says
\* so "by construction": it takes cancel, claim and acknowledge together).
CancelledMeansUndelivered ==
    \A k \in DOMAIN inbox.entries :
        LET e == inbox.entries[k]
        IN  /\ e.cancelled => e.attempts = 0 /\ ~e.acknowledged
            /\ e.acknowledged => e.attempts > 0
            /\ e.attempts > 0 <=> e.last_delivered # NoTime

\* The inbox implements the contract of the trait, tombstones mapped to nothing:
\* what is counted against a ceiling is never less than what is live, and every
\* method of InboxState, the sweep included, is a step the contract allows.
Contract == INSTANCE InboxContract WITH
    commands <- [k \in DOMAIN inbox.entries |->
                   [agent |-> inbox.entries[k].agent,
                    attempts |-> inbox.entries[k].attempts,
                    acknowledged |-> inbox.entries[k].acknowledged,
                    cancelled |-> inbox.entries[k].cancelled]],
    Slack <- 0

\* See Contract: recording, delivery, acknowledgement, cancellation and
\* retention together keep what inbox.rs promises every caller.
ImplementsContract == Contract!Spec

\* An identity that was reported settled is not recorded afresh, and so cannot
\* be delivered again, before the retention window has passed since that report:
\* the idempotency window of docs/phase-0.5-progress.md, kept by retire and
\* remove_expired_retired together whatever the sweep's timing.
IdempotencyWindow ==
    [][\A k \in Keys :
         (k \notin Tracked(inbox) /\ k \in Tracked(inbox)')
            => settled_at[k] + Retention <= now]_vars

\* What makes IdempotencyWindow inductive: an identity no longer tracked
\* settled at least a retention window ago, a tombstone carries a time no
\* earlier than the report, and a cancellation's own time is that report.
WindowInv ==
    /\ Retention <= now
    /\ \A k \in Keys : settled_at[k] <= now
    /\ \A k \in Keys \ Tracked(inbox) : settled_at[k] + Retention <= now
    /\ \A k \in DOMAIN inbox.retired : settled_at[k] <= inbox.retired[k]
    /\ \A k \in DOMAIN inbox.entries :
          inbox.entries[k].cancelled => settled_at[k] <= inbox.entries[k].cancelled_at

\* A recorded command that its agent may see is eventually handed over,
\* cancelled or gone, even if polls take one command at a time: older commands
\* come first, but the attempt ceiling keeps them from coming first forever.
HandedOver ==
    \A k \in Keys :
        (/\ k \in DOMAIN inbox.entries
         /\ inbox.entries[k].attempts = 0
         /\ ScopeOf[k] \in AgentScopes[inbox.entries[k].agent])
        ~> (\/ k \notin DOMAIN inbox.entries
            \/ inbox.entries[k].attempts > 0
            \/ inbox.entries[k].cancelled)
=============================================================================
