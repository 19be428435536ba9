------------------------------- MODULE ForceStop -------------------------------
(***************************************************************************)
(* force_stop and its two-operator approval                                *)
(* (apps/control-plane-api/src/dual_approval.rs, service/submit.rs,        *)
(* envelope.rs): the in-memory gate, the calls that pass through it, the   *)
(* audit event under which a force_stop is kept, and the repair that turns *)
(* that event back into a command.                                         *)
(*                                                                         *)
(* A call is a record that moves through the stages of submit_force_stop   *)
(* (status, gate, then commit and record); other actions and bulk targets  *)
(* start at commit.  The awaits between the stages let every other call,   *)
(* the clock and a restart in.                                             *)
(*                                                                         *)
(* The two stores are kept to what these calls read of them: the outbox    *)
(* holds one audit event for each identity, the inbox one command.  No     *)
(* identity expires here: it can be submitted for a day, and is retained   *)
(* for longer (ControlGateway has the other case).                         *)
(*                                                                         *)
(* A reason is kept as what it says (part of fields) and the number of     *)
(* force_stop markers it begins with: operators may write the marker into  *)
(* a reason of their own.                                                  *)
(*                                                                         *)
(* ordered, approvals and bulk are history variables: the command whose    *)
(* call created the outbox row, who asked the gate for what, and when, and *)
(* the identities for which a bulk call asked for a force_stop.            *)
(***************************************************************************)
EXTENDS Integers, FiniteSets

CONSTANTS
    Keys,         \* command identities, chosen by operators or derived from a bulk_id
    Operators,    \* authenticated subjects
    Fields,       \* everything else a command says (agent, run, reason, ...)
    MaxMarks,     \* bound: markers at the start of a reason an operator supplies
    BulkActions,  \* the actions asked for in SubmitBulkCommand
    ApprovalTtl,  \* APPROVAL_TTL, in ticks
    MaxApprovals, \* MAX_TRACKED_APPROVALS
    MaxCalls,     \* bound: calls in progress at a time
    MaxNow        \* bound: the clock stops here

Actions == {"stop", "force_stop"}

ASSUME ForceStopAssumption ==
    /\ BulkActions \subseteq Actions
    /\ ApprovalTtl \in Nat \ {0} /\ MaxApprovals \in Nat \ {0}
    /\ MaxMarks \in Nat /\ MaxCalls \in Nat /\ MaxNow \in Nat

VARIABLES
    gate,      \* DualApprovalGate.pending
    outbox, inbox, calls, now,
    ordered, approvals, bulk

vars == <<gate, outbox, inbox, calls, now, ordered, approvals, bulk>>

Commands == [action : Actions, marks : 0..MaxMarks, fields : Fields]

\* What a call asks for, and how far it got.
Calls == [op : Operators, key : Keys, cmd : Commands,
          stage : {"status", "gate", "commit", "record"}]

\* A finite map with one more, or one fewer, key.
With(f, k, v) == [x \in DOMAIN f \cup {k} |-> IF x = k THEN v ELSE f[x]]
Without(f, k) == [x \in DOMAIN f \ {k} |-> f[x]]

Init ==
    /\ gate = [k \in {} |-> 0] /\ outbox = [k \in {} |-> 0] /\ inbox = [k \in {} |-> 0]
    /\ calls = {} /\ now = 0
    /\ ordered = [k \in {} |-> 0] /\ approvals = {} /\ bulk = {}

-----------------------------------------------------------------------------
(* The audit event: the ingest schema knows no force_stop, so it is kept   *)
(* as a stop whose reason has one more marker in front.                    *)

\* What the validator of control events accepts (of the actions modelled here).
AuditActions == Actions \ {"force_stop"}

\* Mutant of AuditEvent: the action is written as it is.
AuditEventUnmapped(cmd, op) ==
    [action |-> cmd.action, marks |-> cmd.marks, fields |-> cmd.fields, actor |-> op]

\* build_control_request; the operator is the event's actor.
AuditEvent(cmd, op) ==
    [action |-> IF cmd.action = "force_stop" THEN "stop" ELSE cmd.action,
     marks |-> IF cmd.action = "force_stop" THEN cmd.marks + 1 ELSE cmd.marks,
     fields |-> cmd.fields, actor |-> op]

\* Mutant of CommandOf: the marker is taken off, the action is not restored.
CommandOfStop(event) ==
    [action |-> event.action, marks |-> IF event.marks > 0 THEN event.marks - 1 ELSE 0,
     fields |-> event.fields]

\* pending_command_from_ingest_request: every stop with a marker in its reason is
\* taken for a force_stop, the operator's own marker included.
CommandOf(event) ==
    LET forced == event.action = "stop" /\ event.marks > 0
    IN  [action |-> IF forced THEN "force_stop" ELSE event.action,
         marks |-> IF forced THEN event.marks - 1 ELSE event.marks,
         fields |-> event.fields]

-----------------------------------------------------------------------------
(* The gate. *)

\* Approvals older than the TTL are dropped before anything is looked at.
Live == {k \in DOMAIN gate : now - gate[k].created_at < ApprovalTtl}

\* Mutant of ApprovalOutcome: the same operator twice will do.
ApprovalOutcomeAnyone(key, cmd, op) ==
    IF key \in Live
    THEN IF gate[key].fingerprint # cmd THEN "FieldMismatch" ELSE "Approved"
    ELSE IF Cardinality(Live) >= MaxApprovals THEN "rate_limited"
    ELSE "AwaitingSecond"

ApprovalOutcome(key, cmd, op) ==
    IF key \in Live
    THEN IF gate[key].fingerprint # cmd THEN "FieldMismatch"
         ELSE IF gate[key].first = op THEN "AlreadyApprovedBySameOperator"
         ELSE "Approved"
    ELSE IF Cardinality(Live) >= MaxApprovals THEN "rate_limited"
    ELSE "AwaitingSecond"

\* The table after the call, the purge included.
GateAfter(key, cmd, op) ==
    LET kept == [k \in Live |-> gate[k]]
    IN  CASE ApprovalOutcome(key, cmd, op) = "Approved" -> Without(kept, key)
          [] ApprovalOutcome(key, cmd, op) = "AwaitingSecond" ->
               With(kept, key, [fingerprint |-> cmd, first |-> op, created_at |-> now])
          [] OTHER -> kept

-----------------------------------------------------------------------------
(* Calls. *)

MoveTo(call, stage) == (calls \ {call}) \cup {[call EXCEPT !.stage = stage]}

Begin(op, key, cmd, stage) ==
    /\ Cardinality(calls) < MaxCalls
    /\ calls' = calls \cup {[op |-> op, key |-> key, cmd |-> cmd, stage |-> stage]}
    /\ UNCHANGED <<gate, outbox, inbox, now, ordered, approvals>>

\* do_submit_command: only a force_stop goes by the gate.
SubmitCommand(op, key, cmd) ==
    /\ Begin(op, key, cmd, IF cmd.action = "force_stop" THEN "status" ELSE "commit")
    /\ UNCHANGED bulk

\* do_submit_bulk_command, for one of its targets: nothing goes by the gate.
SubmitBulkTarget(op, key, cmd) ==
    /\ cmd.action \in BulkActions
    /\ Begin(op, key, cmd, "commit")
    /\ bulk' = IF cmd.action = "force_stop" THEN bulk \cup {key} ELSE bulk

\* The identity is looked up; one that is already recorded skips the gate.
ReadStatus(call) ==
    /\ call.stage = "status"
    /\ calls' = MoveTo(call, IF call.key \in DOMAIN inbox THEN "commit" ELSE "gate")
    /\ UNCHANGED <<gate, outbox, inbox, now, ordered, approvals, bulk>>

\* DualApprovalGate::submit: on with the second approval, or an answer.
AskGate(call) ==
    /\ call.stage = "gate"
    /\ gate' = GateAfter(call.key, call.cmd, call.op)
    /\ approvals' = approvals \cup {[key |-> call.key, cmd |-> call.cmd,
                                     op |-> call.op, at |-> now]}
    /\ calls' = IF ApprovalOutcome(call.key, call.cmd, call.op) = "Approved"
                THEN MoveTo(call, "commit") ELSE calls \ {call}
    /\ UNCHANGED <<outbox, inbox, now, ordered, bulk>>

\* accept_and_record, first half: a conflicting identity ends the call.
Commit(call) ==
    LET event == AuditEvent(call.cmd, call.op)
    IN  /\ call.stage = "commit"
        /\ IF call.key \notin DOMAIN outbox
           THEN /\ outbox' = With(outbox, call.key, event)
                /\ ordered' = With(ordered, call.key, call.cmd)
                /\ calls' = MoveTo(call, "record")
           ELSE /\ calls' = IF outbox[call.key] = event THEN MoveTo(call, "record")
                            ELSE calls \ {call}
                /\ UNCHANGED <<outbox, ordered>>
        /\ UNCHANGED <<gate, inbox, now, approvals, bulk>>

\* ... second half: the delivery carries the command as it was asked for.
Record(call) ==
    /\ call.stage = "record"
    /\ inbox' = IF call.key \in DOMAIN inbox THEN inbox
                ELSE With(inbox, call.key, call.cmd)
    /\ calls' = calls \ {call}
    /\ UNCHANGED <<gate, outbox, now, ordered, approvals, bulk>>

\* A storage error ends a call at either half.
StorageFails(call) ==
    /\ call.stage \in {"commit", "record"}
    /\ calls' = calls \ {call}
    /\ UNCHANGED <<gate, outbox, inbox, now, ordered, approvals, bulk>>

\* The repair worker: the delivery is rebuilt from the audit event.
Reconcile(key) ==
    /\ key \in DOMAIN outbox \ DOMAIN inbox
    /\ inbox' = With(inbox, key, CommandOf(outbox[key]))
    /\ UNCHANGED <<gate, outbox, calls, now, ordered, approvals, bulk>>

\* The gate is memory: a restart loses it, and the calls.
Restart ==
    /\ gate' = [k \in {} |-> 0] /\ calls' = {}
    /\ UNCHANGED <<outbox, inbox, now, ordered, approvals, bulk>>

Tick ==
    /\ now < MaxNow
    /\ now' = now + 1
    /\ UNCHANGED <<gate, outbox, inbox, calls, ordered, approvals, bulk>>

Next ==
    \/ \E op \in Operators, key \in Keys, cmd \in Commands :
          SubmitCommand(op, key, cmd) \/ SubmitBulkTarget(op, key, cmd)
    \/ \E call \in calls : \/ ReadStatus(call) \/ AskGate(call) \/ Commit(call)
                           \/ Record(call) \/ StorageFails(call)
    \/ \E key \in Keys : Reconcile(key)
    \/ Restart
    \/ Tick

Spec == Init /\ [][Next]_vars

-----------------------------------------------------------------------------
(* Properties. *)

\* Type correctness of the gate, the stores, the calls and the history; an audit
\* event never carries an action its validator does not know.
TypeOK ==
    /\ DOMAIN gate \subseteq Keys /\ IsFiniteSet(DOMAIN gate)
    /\ gate \in [DOMAIN gate -> [fingerprint : Commands, first : Operators,
                                 created_at : Nat]]
    /\ Cardinality(DOMAIN gate) <= MaxApprovals
    /\ DOMAIN outbox \subseteq Keys
    /\ outbox \in [DOMAIN outbox -> [action : AuditActions, marks : 0..(MaxMarks + 1),
                                     fields : Fields, actor : Operators]]
    /\ DOMAIN inbox \subseteq Keys /\ inbox \in [DOMAIN inbox -> Commands]
    /\ ordered \in [DOMAIN outbox -> Commands]
    /\ calls \subseteq Calls
    /\ now \in Nat
    /\ approvals \subseteq [key : Keys, cmd : Commands, op : Operators, at : Nat]
    /\ bulk \subseteq Keys

\* Two distinct operators asked the gate for this very command, close enough
\* together for the first to be still on the table.
ApprovedByTwo(key, cmd) ==
    \E x, y \in approvals :
        /\ x.key = key /\ y.key = key
        /\ x.cmd = cmd /\ y.cmd = cmd
        /\ x.op # y.op
        /\ x.at <= y.at /\ y.at - x.at < ApprovalTtl

\* No force_stop is recorded, in the inbox or in the outbox, unless two distinct
\* operators approved exactly that command (submit.rs: "the one action that requires
\* two distinct operators before anything is recorded").
TwoApprovers ==
    /\ \A k \in DOMAIN inbox :
          inbox[k].action = "force_stop" => ApprovedByTwo(k, inbox[k])
    /\ \A k \in DOMAIN outbox :
          ordered[k].action = "force_stop" => ApprovedByTwo(k, ordered[k])

\* Two operators approved the command, or a bulk call asked for a force_stop under its
\* identity.
Cleared(k, cmd) == ApprovedByTwo(k, cmd) \/ k \in bulk

\* An ordinary stop, whose own reason is marked, and the force_stop it reads as once
\* it is an audit event.
ReadsAs(stop, forced) ==
    /\ stop.action = "stop" /\ stop.marks > 0
    /\ forced = [action |-> "force_stop", marks |-> stop.marks - 1, fields |-> stop.fields]

\* There are exactly two ways around the second approver: the bulk call, and the
\* repair of a stop whose reason an operator began with the marker. Every other
\* force_stop in either store was approved by two, whatever calls overlap between
\* the status lookup, the gate and the commit, and whatever a restart, an expired
\* approval, a reused identity or the repair worker brings.
ForceStopsAccountedFor ==
    /\ \A k \in DOMAIN outbox :
          ordered[k].action = "force_stop" => Cleared(k, ordered[k])
    /\ \A k \in DOMAIN inbox :
          inbox[k].action = "force_stop"
             => Cleared(k, inbox[k]) \/ ReadsAs(ordered[k], inbox[k])

\* What the agent is given is the command whose call created the audit record,
\* be it recorded by that call, by a later duplicate or by the repair worker from
\* the audit event alone ("recovered as an ordinary cooperative stop" is what
\* the marker prevents, envelope.rs); the one thing the audit event cannot tell
\* apart is a force_stop and the stop whose own reason has the marker.
DeliveredAsOrdered ==
    \A k \in DOMAIN inbox :
       /\ k \in DOMAIN outbox
       /\ \/ inbox[k] = ordered[k]
          \/ ReadsAs(ordered[k], inbox[k])
          \/ ReadsAs(inbox[k], ordered[k])

\* What makes ForceStopsAccountedFor inductive: an approval on the table was asked
\* for, at the time it carries, and a call past the gate is approved or a bulk call,
\* or (having skipped the gate) names an identity the inbox already holds.
GateInv ==
    /\ \A k \in DOMAIN gate :
          [key |-> k, cmd |-> gate[k].fingerprint, op |-> gate[k].first,
           at |-> gate[k].created_at] \in approvals
    /\ \A x \in approvals : x.at <= now
    /\ \A call \in calls :
          call.stage \in {"commit", "record"} /\ call.cmd.action = "force_stop"
             => Cleared(call.key, call.cmd) \/ call.key \in DOMAIN inbox

\* What makes DeliveredAsOrdered inductive: an audit event is the one of the command
\* that was ordered, and a call about to record agrees with the event.
AuditInv ==
    /\ DOMAIN inbox \subseteq DOMAIN outbox
    /\ DOMAIN ordered = DOMAIN outbox
    /\ \A k \in DOMAIN outbox : outbox[k] = AuditEvent(ordered[k], outbox[k].actor)
    /\ \A call \in calls :
          call.stage = "record" =>
             /\ call.key \in DOMAIN outbox
             /\ outbox[call.key] = AuditEvent(call.cmd, call.op)
=============================================================================
