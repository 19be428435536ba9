----------------------------- MODULE FanoutWorker -----------------------------
(***************************************************************************)
(* The fan-out worker (apps/control-plane-api/src/replay.rs) of several    *)
(* replicas that share one Postgres outbox                                 *)
(* (crates/apex-durability/src/outbox/postgres.rs, postgres_replay.rs):    *)
(* rows are claimed under a lease, published one after the other, and      *)
(* settled, rescheduled or quarantined by separate statements.             *)
(*                                                                         *)
(*   Claim       pending_batch, which sets malformed rows aside at once,   *)
(*               and the filter on the replica's own backoff               *)
(*   Publish     one event to the broker; it can be stored although the    *)
(*               call reports an error                                     *)
(*   Settle      mark_complete_many                                        *)
(*   Exhaust, Defer   one failed event: counted, and set aside for GiveUp  *)
(*               or rescheduled                                            *)
(*   GiveUp      quarantine, for events whose count reached the ceiling    *)
(*   Crash       a replica restarts (a graceful drain ends the same way):  *)
(*               its counts and its batch are gone, the rows stay          *)
(*                                                                         *)
(* Deadlines are kept as the ticks left until they pass, so that time has  *)
(* no bound.  A tick is long next to a database statement and short next   *)
(* to a lease: it passes only while replicas sleep or publish.             *)
(*                                                                         *)
(* published, claims and carried are history variables: the events the     *)
(* broker stored, how often a row was claimed since it was last requeued,  *)
(* and what each replica's count of it already stood at by then.           *)
(***************************************************************************)
EXTENDS Integers, FiniteSets, FiniteSetsExt

CONSTANTS
    Keys,         \* event identities
    Malformed,    \* the ones whose stored envelope no longer decodes or validates
    Replicas,     \* gateway processes
    BatchSize,    \* FANOUT_BATCH_SIZE
    Lease,        \* OUTBOX_CLAIM_LEASE_SECONDS, in ticks
    RetryDelay,   \* retry_delay, in ticks
    MaxPublish,   \* the longest one publish can take, in ticks
    MaxReplays,   \* MAX_REPLAY_ATTEMPTS, and the ceiling in reschedule
    MaxFaults,    \* bound: statements that fail and restarts of replicas
    MaxRequeues   \* bound: operator requeues

ASSUME FanoutAssumption ==
    /\ Malformed \subseteq Keys
    /\ BatchSize \in Nat \ {0} /\ MaxPublish \in Nat \ {0} /\ MaxReplays \in Nat \ {0}
    /\ RetryDelay \in Nat \ {0} /\ Lease \in Nat /\ Lease >= RetryDelay
    /\ MaxFaults \in Nat /\ MaxRequeues \in Nat

VARIABLES
    rows,        \* apex_event_outbox
    todo, done, failed, spent,  \* each replica's batch: to publish, `completed`,
                                \* `failed`, `quarantine`
    running,     \* for how long a replica's current publish has run
    failures,    \* each replica's own counts and backoff, by event
    not_before,
    faults, requeues,
    published, claims, carried

batch  == <<todo, done, failed, spent, running>>
memory == <<failures, not_before>>
bounds == <<faults, requeues>>
seen   == <<published, claims, carried>>
vars   == <<rows, todo, done, failed, spent, running, failures, not_before,
            faults, requeues, published, claims, carried>>

\* The least of a and b: counters stop at the ceiling they are compared with.
Capped(a, b) == IF a <= b THEN a ELSE b

Row == [state : {"pending", "complete", "quarantined"},
        attempts : 0..MaxReplays, wait : 0..Lease]

Init ==
    /\ rows = [k \in Keys |-> [state |-> "pending", attempts |-> 0, wait |-> 0]]
    /\ todo = [r \in Replicas |-> {}] /\ done = [r \in Replicas |-> {}]
    /\ failed = [r \in Replicas |-> {}] /\ spent = [r \in Replicas |-> {}]
    /\ running = [r \in Replicas |-> 0]
    /\ failures = [r \in Replicas |-> [k \in Keys |-> 0]]
    /\ not_before = [r \in Replicas |-> [k \in Keys |-> 0]]
    /\ faults = 0 /\ requeues = 0
    /\ published = {}
    /\ claims = [k \in Keys |-> 0]
    /\ carried = [r \in Replicas |-> [k \in Keys |-> 0]]

-----------------------------------------------------------------------------
(* The statements.  Each is guarded by the row's state, whoever issues it  *)
(* and however late.                                                       *)

Due == {k \in Keys : rows[k].state = "pending" /\ rows[k].wait = 0}

\* pending_batch: attempts count claims, and the lease hides the row; the rows in
\* poison are set aside by a second statement.
Claimed(keys, poison) ==
    [k \in Keys |->
        IF k \in keys
        THEN [state |-> IF k \in poison THEN "quarantined" ELSE rows[k].state,
              attempts |-> Capped(rows[k].attempts + 1, MaxReplays), wait |-> Lease]
        ELSE rows[k]]

\* mark_complete_many
Completed(keys) ==
    [k \in Keys |-> IF k \in keys /\ rows[k].state = "pending"
                    THEN [rows[k] EXCEPT !.state = "complete"] ELSE rows[k]]

\* reschedule: a later deadline, or the durable ceiling.
Rescheduled(keys) ==
    [k \in Keys |->
        IF k \in keys /\ rows[k].state = "pending"
        THEN IF rows[k].attempts >= MaxReplays
             THEN [rows[k] EXCEPT !.state = "quarantined"]
             ELSE [rows[k] EXCEPT !.wait = RetryDelay]
        ELSE rows[k]]

\* Mutant of Quarantined: the statement does not look at the row's state.
QuarantinedAnyway(keys) ==
    [k \in Keys |-> IF k \in keys THEN [rows[k] EXCEPT !.state = "quarantined"]
                                  ELSE rows[k]]

\* quarantine
Quarantined(keys) ==
    [k \in Keys |-> IF k \in keys /\ rows[k].state = "pending"
                    THEN [rows[k] EXCEPT !.state = "quarantined"] ELSE rows[k]]

\* A statement succeeds, or fails and changes nothing.
Execute(after, ok) ==
    IF ok THEN rows' = after /\ UNCHANGED faults
    ELSE faults < MaxFaults /\ faults' = faults + 1 /\ UNCHANGED rows

-----------------------------------------------------------------------------
(* One pass of a replica's worker. *)

\* Where a pass stands: it works off the events it claimed, then the ones the
\* broker acknowledged, the ones that failed, and the ones to give up.
Phase(r) == IF todo[r] # {} THEN "publish"
            ELSE IF done[r] # {} THEN "settle"
            ELSE IF failed[r] # {} THEN "defer"
            ELSE IF spent[r] # {} THEN "give_up"
            ELSE "idle"

\* A malformed row is never published: it is quarantined when it is first claimed.
\* If that statement fails, pending_batch fails as a whole and the rest of what it
\* claimed waits for the lease to lapse. A claimed row that the replica itself still
\* backs off from is not published either, although its attempt is counted.
Claim(r, ok) ==
    /\ Phase(r) = "idle"
    /\ Due # {}
    /\ \E keys \in kSubset(Capped(Cardinality(Due), BatchSize), Due) :
         /\ ok \/ (keys \cap Malformed # {} /\ faults < MaxFaults)
         /\ rows' = Claimed(keys, IF ok THEN Malformed ELSE {})
         /\ todo' = [todo EXCEPT ![r] = IF ok THEN {k \in keys \ Malformed : not_before[r][k] = 0}
                                              ELSE {}]
         /\ claims' = [k \in Keys |-> IF k \in keys THEN Capped(claims[k] + 1, MaxReplays)
                                                   ELSE claims[k]]
    /\ faults' = IF ok THEN faults ELSE faults + 1
    /\ UNCHANGED <<done, failed, spent, running, memory, requeues, published, carried>>

\* Mutant of Acknowledged: whatever publish returns, the event is settled.
AcknowledgedAnyway(outcome) == outcome \in {"stored", "unsure", "refused"}

\* publish returned Ok.
Acknowledged(outcome) == outcome = "stored"

\* outcome: "stored" (and acknowledged), "unsure" (stored, but the acknowledgement
\* was lost), "refused" (nothing stored; a panic counts as one).
Publish(r, k, outcome) ==
    /\ Phase(r) = "publish"
    /\ k \in todo[r]
    /\ todo' = [todo EXCEPT ![r] = @ \ {k}]
    /\ done' = [done EXCEPT ![r] = IF Acknowledged(outcome) THEN @ \cup {k} ELSE @]
    /\ failed' = [failed EXCEPT ![r] = IF Acknowledged(outcome) THEN @ ELSE @ \cup {k}]
    /\ running' = [running EXCEPT ![r] = 0]
    /\ published' = IF outcome = "refused" THEN published ELSE published \cup {k}
    /\ UNCHANGED <<rows, spent, memory, bounds, claims, carried>>

\* The keys' entries in one of the worker's maps are removed.
Cleared(map, r, keys) ==
    [map EXCEPT ![r] = [k \in Keys |-> IF k \in keys THEN 0 ELSE map[r][k]]]

\* Mutant of SettledRows: nothing is written.
SettledRowsForgotten(r) == rows

SettledRows(r) == Completed(done[r])

\* Only a poisoned lock counts as a failure here (`settle_result` is the outer
\* Result): a failed statement is taken for a success.
Settle(r, ok) ==
    /\ Phase(r) = "settle"
    /\ Execute(SettledRows(r), ok)
    /\ done' = [done EXCEPT ![r] = {}]
    /\ failures' = Cleared(failures, r, done[r])
    /\ not_before' = Cleared(not_before, r, done[r])
    /\ UNCHANGED <<todo, failed, spent, running, requeues, seen>>

\* Mutant of Exhausted: a count that is past the ceiling is taken for one below it.
ExhaustedOnce(count) == count = MaxReplays

Exhausted(count) == count >= MaxReplays

\* A key whose count reaches the ceiling is left for GiveUp ...
Exhaust(r, k) ==
    /\ Phase(r) = "defer"
    /\ k \in failed[r]
    /\ Exhausted(failures[r][k] + 1)
    /\ failures' = [failures EXCEPT ![r][k] = MaxReplays]
    /\ failed' = [failed EXCEPT ![r] = @ \ {k}]
    /\ spent' = [spent EXCEPT ![r] = @ \cup {k}]
    /\ UNCHANGED <<rows, todo, done, running, not_before, bounds, seen>>

\* ... any other backs off here and is rescheduled; the error is only counted.
Defer(r, k, ok) ==
    /\ Phase(r) = "defer"
    /\ k \in failed[r]
    /\ ~Exhausted(failures[r][k] + 1)
    /\ failures' = [failures EXCEPT ![r][k] = @ + 1]
    /\ not_before' = [not_before EXCEPT ![r][k] = RetryDelay]
    /\ failed' = [failed EXCEPT ![r] = @ \ {k}]
    /\ Execute(Rescheduled({k}), ok)
    /\ UNCHANGED <<todo, done, spent, running, requeues, seen>>

\* A failed quarantine keeps the counts, so the next failure comes back here.
GiveUp(r, ok) ==
    /\ Phase(r) = "give_up"
    /\ Execute(Quarantined(spent[r]), ok)
    /\ spent' = [spent EXCEPT ![r] = {}]
    /\ failures' = IF ok THEN Cleared(failures, r, spent[r]) ELSE failures
    /\ not_before' = IF ok THEN Cleared(not_before, r, spent[r]) ELSE not_before
    /\ UNCHANGED <<todo, done, failed, running, requeues, seen>>

-----------------------------------------------------------------------------

Crash(r) ==
    /\ faults < MaxFaults
    /\ faults' = faults + 1
    /\ todo' = [todo EXCEPT ![r] = {}] /\ done' = [done EXCEPT ![r] = {}]
    /\ failed' = [failed EXCEPT ![r] = {}] /\ spent' = [spent EXCEPT ![r] = {}]
    /\ running' = [running EXCEPT ![r] = 0]
    /\ failures' = Cleared(failures, r, Keys) /\ not_before' = Cleared(not_before, r, Keys)
    /\ UNCHANGED <<rows, requeues, seen>>

\* What a replica has counted against an event, the attempt it is busy with included.
Counted(r, k) ==
    IF k \in todo[r] \cup done[r] \cup failed[r]
    THEN Capped(failures[r][k] + 1, MaxReplays) ELSE failures[r][k]

\* Mutant of Reopened: the attempts of the row's earlier life still count.
ReopenedWithAttempts(k) == [state |-> "pending", attempts |-> rows[k].attempts, wait |-> 0]

Reopened(k) == [state |-> "pending", attempts |-> 0, wait |-> 0]

\* requeue_quarantined, from an operator's tool: the row starts anew, but the counts
\* that replicas keep in memory are out of its reach.
OperatorRequeue(k) ==
    /\ requeues < MaxRequeues
    /\ rows[k].state = "quarantined"
    /\ rows' = [rows EXCEPT ![k] = Reopened(k)]
    /\ requeues' = requeues + 1
    /\ claims' = [claims EXCEPT ![k] = 0]
    /\ carried' = [r \in Replicas |-> [carried[r] EXCEPT ![k] = Counted(r, k)]]
    /\ UNCHANGED <<batch, memory, faults, published>>

\* One tick less to wait.
Less(n) == IF n = 0 THEN 0 ELSE n - 1

Tick ==
    /\ \A r \in Replicas :
          Phase(r) = "idle" \/ (Phase(r) = "publish" /\ running[r] < MaxPublish)
    /\ rows' = [k \in Keys |-> [rows[k] EXCEPT !.wait = Less(@)]]
    /\ running' = [r \in Replicas |-> IF Phase(r) = "publish" THEN running[r] + 1
                                                           ELSE running[r]]
    /\ not_before' = [r \in Replicas |-> [k \in Keys |-> Less(not_before[r][k])]]
    /\ UNCHANGED <<todo, done, failed, spent, failures, bounds, seen>>

Outcomes == {"stored", "unsure", "refused"}

Pass(r) ==
    \/ \E k \in Keys, outcome \in Outcomes : Publish(r, k, outcome)
    \/ \E k \in Keys : Exhaust(r, k)
    \/ \E ok \in BOOLEAN : \/ Claim(r, ok)
                           \/ Settle(r, ok)
                           \/ \E k \in Keys : Defer(r, k, ok)
                           \/ GiveUp(r, ok)

Next ==
    \/ \E r \in Replicas : Pass(r) \/ Crash(r)
    \/ \E k \in Keys : OperatorRequeue(k)
    \/ Tick

Spec == Init /\ [][Next]_vars

\* Every worker loops on its timer and every publish ends (its timeouts are
\* finite); time passes. Nothing is promised of the broker or the operators.
Fairness == WF_vars(Tick) /\ \A r \in Replicas : WF_vars(Pass(r))

FairSpec == Spec /\ Fairness

-----------------------------------------------------------------------------
(* Properties. *)

\* Type correctness of the rows, the workers and the history.
TypeOK ==
    /\ rows \in [Keys -> Row]
    /\ todo \in [Replicas -> SUBSET Keys] /\ done \in [Replicas -> SUBSET Keys]
    /\ failed \in [Replicas -> SUBSET Keys] /\ spent \in [Replicas -> SUBSET Keys]
    /\ running \in [Replicas -> 0..MaxPublish]
    /\ failures \in [Replicas -> [Keys -> 0..MaxReplays]]
    /\ not_before \in [Replicas -> [Keys -> 0..RetryDelay]]
    /\ faults \in 0..MaxFaults /\ requeues \in 0..MaxRequeues
    /\ published \subseteq Keys
    /\ claims \in [Keys -> 0..MaxReplays]
    /\ carried \in [Replicas -> [Keys -> 0..MaxReplays]]

\* A completed row is in the broker, whichever replica completed it, however late,
\* and whatever another replica's attempt at the same row came to ("set complete
\* only after every sink returns success", deploy/postgres/outbox.sql).
CompleteMeansPublished ==
    \A k \in Keys : rows[k].state = "complete" => k \in published

\* What makes it inductive: a worker settles only what the broker acknowledged.
DoneIsPublished == \A r \in Replicas : done[r] \subseteq published

\* A well-formed row is set aside only after a full window of claims since it was last
\* requeued (reschedule, replay.rs), or by a replica whose own count was under way at
\* the requeue and makes up the difference: that memory is the only thing that can
\* cut short the "fresh replay window" of a requeued row (outbox/memory.rs).
QuarantineIsEarned ==
    \A k \in Keys :
       rows[k].state = "quarantined"
          => \/ k \in Malformed
             \/ claims[k] >= MaxReplays
             \/ \E r \in Replicas : carried[r][k] > 0 /\ claims[k] + carried[r][k] >= MaxReplays

\* What makes it inductive: neither count runs ahead of the claims (a replica's, of
\* the claims and what it carried over, the attempt it is busy with included), and
\* an event that is about to be given up has used up its replica's count.
EarnedInv ==
    /\ \A k \in Keys : rows[k].attempts <= claims[k]
    /\ \A r \in Replicas :
          /\ spent[r] # {} => todo[r] = {} /\ done[r] = {}
          /\ \A k \in Keys : /\ Counted(r, k) <= claims[k] + carried[r][k]
                             /\ k \in spent[r] => failures[r][k] = MaxReplays

\* A write that comes late, from a replica whose lease has lapsed, is ignored: a
\* completed row never changes, and a quarantined one only when it is requeued.
LateWritesIgnored ==
    [][\A k \in Keys :
         /\ rows[k].state = "complete" => rows'[k].state = "complete"
         /\ rows[k].state = "quarantined" /\ rows'[k].state # "quarantined"
               => requeues' = requeues + 1]_vars

\* No row stays in limbo: whatever the broker answers, and across overlapping
\* claims, failed statements and restarts, it is completed or set aside for an
\* operator ("instead of hot-looping forever", docs/phase-0.5-progress.md).
EventuallyDecided ==
    \A k \in Keys : (rows[k].state = "pending") ~> (rows[k].state # "pending")
=============================================================================
