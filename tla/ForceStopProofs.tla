---------------------------- MODULE ForceStopProofs ----------------------------
(***************************************************************************)
(* Proofs about ForceStop, for every set of identities, operators and      *)
(* contents, every TTL and every bound.                                    *)
(***************************************************************************)
EXTENDS ForceStop, FiniteSetTheorems, TLAPS

-----------------------------------------------------------------------------
(* Typing. *)

AuditEvents == [action : AuditActions, marks : 0..(MaxMarks + 1),
                fields : Fields, actor : Operators]

LEMMA AuditEventType ==
    ASSUME NEW cmd \in Commands, NEW op \in Operators
    PROVE  AuditEvent(cmd, op) \in AuditEvents
<1>1. (IF cmd.action = "force_stop" THEN cmd.marks + 1 ELSE cmd.marks) \in 0..(MaxMarks + 1)
  <2>1. cmd.marks \in 0..MaxMarks
    BY DEF Commands
  <2> QED
    BY <2>1, ForceStopAssumption
<1>2. (IF cmd.action = "force_stop" THEN "stop" ELSE cmd.action) \in AuditActions
  BY DEF Commands, AuditActions, Actions
<1>3. cmd.fields \in Fields
  BY DEF Commands
<1> QED
  BY <1>1, <1>2, <1>3 DEF AuditEvent, AuditEvents

\* The fields of an audit event.
LEMMA AuditFields ==
    ASSUME NEW cmd, NEW op
    PROVE  /\ AuditEvent(cmd, op).action = IF cmd.action = "force_stop" THEN "stop" ELSE cmd.action
           /\ AuditEvent(cmd, op).marks = IF cmd.action = "force_stop" THEN cmd.marks + 1 ELSE cmd.marks
           /\ AuditEvent(cmd, op).fields = cmd.fields
           /\ AuditEvent(cmd, op).actor = op
BY DEF AuditEvent

LEMMA CommandShape ==
    ASSUME NEW cmd \in Commands
    PROVE  /\ cmd = [action |-> cmd.action, marks |-> cmd.marks, fields |-> cmd.fields]
           /\ cmd.marks \in Nat /\ cmd.action \in {"stop", "force_stop"}
<1>1. cmd = [action |-> cmd.action, marks |-> cmd.marks, fields |-> cmd.fields]
  BY DEF Commands
<1>2. cmd.marks \in Nat /\ cmd.action \in {"stop", "force_stop"}
  BY ForceStopAssumption DEF Commands, Actions
<1> QED
  BY <1>1, <1>2

\* Two commands with one audit event are the same, or a force_stop and the stop that
\* reads as it.
LEMMA SameEvent ==
    ASSUME NEW c \in Commands, NEW d \in Commands, NEW o, NEW p,
           AuditEvent(c, o) = AuditEvent(d, p)
    PROVE  c = d \/ ReadsAs(c, d) \/ ReadsAs(d, c)
<1>1. /\ c = [action |-> c.action, marks |-> c.marks, fields |-> c.fields]
      /\ d = [action |-> d.action, marks |-> d.marks, fields |-> d.fields]
      /\ c.marks \in Nat /\ c.action \in {"stop", "force_stop"}
      /\ d.marks \in Nat /\ d.action \in {"stop", "force_stop"}
  BY CommandShape
<1>2. /\ c.fields = d.fields
      /\ (IF c.action = "force_stop" THEN c.marks + 1 ELSE c.marks)
            = (IF d.action = "force_stop" THEN d.marks + 1 ELSE d.marks)
  BY AuditFields
<1>3. CASE c.action = d.action
  <2>1. c.marks = d.marks
    BY <1>1, <1>2, <1>3
  <2> QED
    BY <1>1, <1>2, <1>3, <2>1
<1>4. CASE c.action = "stop" /\ d.action = "force_stop"
  <2>1. c.marks = d.marks + 1 /\ c.marks > 0 /\ d.marks = c.marks - 1
    BY <1>1, <1>2, <1>4
  <2> QED
    BY <1>1, <1>2, <1>4, <2>1 DEF ReadsAs
<1>5. CASE d.action = "stop" /\ c.action = "force_stop"
  <2>1. d.marks = c.marks + 1 /\ d.marks > 0 /\ c.marks = d.marks - 1
    BY <1>1, <1>2, <1>5
  <2> QED
    BY <1>1, <1>2, <1>5, <2>1 DEF ReadsAs
<1> QED
  BY <1>1, <1>3, <1>4, <1>5

\* An audit event decodes to the command it was built from, unless that is a stop
\* whose own reason has the marker.
LEMMA AuditRoundTrip ==
    ASSUME NEW cmd \in Commands, NEW op
    PROVE  \/ CommandOf(AuditEvent(cmd, op)) = cmd
           \/ ReadsAs(cmd, CommandOf(AuditEvent(cmd, op)))
<1> DEFINE e == AuditEvent(cmd, op)
<1>1. /\ cmd = [action |-> cmd.action, marks |-> cmd.marks, fields |-> cmd.fields]
      /\ cmd.marks \in Nat /\ cmd.action \in {"stop", "force_stop"}
  BY CommandShape
<1>2. /\ e.action = IF cmd.action = "force_stop" THEN "stop" ELSE cmd.action
      /\ e.marks = IF cmd.action = "force_stop" THEN cmd.marks + 1 ELSE cmd.marks
      /\ e.fields = cmd.fields
  BY AuditFields
<1> HIDE DEF e
<1>3. CASE cmd.action = "force_stop"
  <2>1. e.action = "stop" /\ e.marks > 0 /\ e.marks - 1 = cmd.marks
    BY <1>1, <1>2, <1>3
  <2>2. CommandOf(e) = [action |-> "force_stop", marks |-> cmd.marks, fields |-> cmd.fields]
    BY <1>2, <2>1 DEF CommandOf
  <2> QED
    BY <1>1, <1>3, <2>2 DEF e
<1>4. CASE cmd.action = "stop" /\ cmd.marks > 0
  <2>1. CommandOf(e) = [action |-> "force_stop", marks |-> cmd.marks - 1, fields |-> cmd.fields]
    BY <1>2, <1>4 DEF CommandOf
  <2> QED
    BY <1>4, <2>1 DEF ReadsAs, e
<1>5. CASE cmd.action = "stop" /\ ~(cmd.marks > 0)
  <2>1. CommandOf(e) = [action |-> "stop", marks |-> cmd.marks, fields |-> cmd.fields]
    BY <1>2, <1>5 DEF CommandOf
  <2> QED
    BY <1>1, <1>5, <2>1 DEF e
<1> QED
  BY <1>1, <1>3, <1>4, <1>5

LEMMA CommandOfType ==
    ASSUME NEW cmd \in Commands, NEW op
    PROVE  CommandOf(AuditEvent(cmd, op)) \in Commands
<1>1. CASE CommandOf(AuditEvent(cmd, op)) = cmd
  BY <1>1
<1>2. ASSUME NEW c, c = CommandOf(AuditEvent(cmd, op)), ReadsAs(cmd, c)
      PROVE  c \in Commands
  <2>1. cmd.marks - 1 \in 0..MaxMarks /\ cmd.fields \in Fields
    <3>1. cmd.marks \in 0..MaxMarks /\ cmd.marks > 0 /\ cmd.fields \in Fields
      BY <1>2 DEF ReadsAs, Commands
    <3> QED
      BY <3>1, ForceStopAssumption
  <2> QED
    BY <1>2, <2>1 DEF ReadsAs, Commands, Actions
<1> QED
  BY <1>1, <1>2, AuditRoundTrip

LEMMA WithType ==
    ASSUME NEW S, NEW T, NEW f, DOMAIN f \subseteq S, f \in [DOMAIN f -> T],
           NEW k \in S, NEW v \in T
    PROVE  /\ DOMAIN With(f, k, v) = DOMAIN f \cup {k}
           /\ DOMAIN With(f, k, v) \subseteq S
           /\ With(f, k, v) \in [DOMAIN With(f, k, v) -> T]
           /\ With(f, k, v)[k] = v
           /\ \A x \in DOMAIN f \ {k} : With(f, k, v)[x] = f[x]
BY DEF With

LEMMA MoveToType ==
    ASSUME calls \subseteq Calls, NEW call \in calls,
           NEW stage \in {"status", "gate", "commit", "record"}
    PROVE  MoveTo(call, stage) \subseteq Calls
BY DEF MoveTo, Calls

\* The gate's table after a call: typed, no longer than its bound.
LEMMA GateAfterType ==
    ASSUME TypeOK, NEW key \in Keys, NEW cmd \in Commands, NEW op \in Operators
    PROVE  LET g == GateAfter(key, cmd, op)
           IN  /\ DOMAIN g \subseteq Keys /\ IsFiniteSet(DOMAIN g)
               /\ g \in [DOMAIN g -> [fingerprint : Commands, first : Operators,
                                      created_at : Nat]]
               /\ Cardinality(DOMAIN g) <= MaxApprovals
<1> DEFINE R == [fingerprint : Commands, first : Operators, created_at : Nat]
           kept == [k \in Live |-> gate[k]]
           g == GateAfter(key, cmd, op)
           new == [fingerprint |-> cmd, first |-> op, created_at |-> now]
<1>1. Live \subseteq DOMAIN gate
  BY DEF Live
<1>2. /\ IsFiniteSet(Live) /\ Cardinality(Live) <= Cardinality(DOMAIN gate)
      /\ Cardinality(Live) \in Nat /\ Cardinality(DOMAIN gate) \in Nat
  BY <1>1, FS_Subset, FS_CardinalityType DEF TypeOK
<1>3. Cardinality(Live) <= MaxApprovals
  BY <1>2, ForceStopAssumption DEF TypeOK
<1>4. DOMAIN kept = Live /\ Live \subseteq Keys /\ kept \in [Live -> R]
  BY <1>1 DEF TypeOK
<1>5. CASE ApprovalOutcome(key, cmd, op) = "Approved"
  <2>1. g = Without(kept, key)
    BY <1>5 DEF GateAfter
  <2>2. DOMAIN g = Live \ {key} /\ g \in [Live \ {key} -> R]
    BY <2>1, <1>4 DEF Without
  <2>3. IsFiniteSet(Live \ {key}) /\ Cardinality(Live \ {key}) <= Cardinality(Live)
    BY <1>2, FS_Subset
  <2>4. Cardinality(Live \ {key}) \in Nat
    BY <2>3, FS_CardinalityType
  <2>5. Cardinality(DOMAIN g) <= MaxApprovals
    BY <2>2, <2>3, <2>4, <1>2, <1>3, ForceStopAssumption
  <2> QED
    BY <2>2, <2>3, <2>5, <1>4
<1>6. CASE ApprovalOutcome(key, cmd, op) = "AwaitingSecond"
  <2>1. g = With(kept, key, new)
    BY <1>6 DEF GateAfter
  <2>2. new \in R
    BY DEF TypeOK
  <2>3. /\ DOMAIN g = Live \cup {key} /\ DOMAIN g \subseteq Keys
        /\ g \in [DOMAIN g -> R]
    <3>1. DOMAIN kept \subseteq Keys /\ kept \in [DOMAIN kept -> R]
      BY <1>4
    <3>2. /\ DOMAIN With(kept, key, new) = DOMAIN kept \cup {key}
          /\ DOMAIN With(kept, key, new) \subseteq Keys
          /\ With(kept, key, new) \in [DOMAIN With(kept, key, new) -> R]
      <4> HIDE DEF kept, R, new
      <4> QED
        BY <3>1, <2>2, WithType
    <3> QED
      BY <3>2, <2>1, <1>4
  <2>4. key \notin Live /\ ~(Cardinality(Live) >= MaxApprovals)
    BY <1>6 DEF ApprovalOutcome
  <2>5. IsFiniteSet(Live \cup {key}) /\ Cardinality(Live \cup {key}) = Cardinality(Live) + 1
    BY <2>4, <1>2, FS_AddElement
  <2>6. Cardinality(DOMAIN g) <= MaxApprovals
    BY <2>3, <2>4, <2>5, <1>2, ForceStopAssumption
  <2> QED
    BY <2>3, <2>5, <2>6
<1>7. CASE /\ ApprovalOutcome(key, cmd, op) # "Approved"
           /\ ApprovalOutcome(key, cmd, op) # "AwaitingSecond"
  <2>1. g = kept
    BY <1>7 DEF GateAfter
  <2> QED
    BY <2>1, <1>2, <1>3, <1>4
<1> QED
  BY <1>5, <1>6, <1>7

LEMMA TypeInit == Init => TypeOK
<1> SUFFICES ASSUME Init PROVE TypeOK
  OBVIOUS
<1>1. IsFiniteSet({}) /\ Cardinality({}) = 0
  BY FS_EmptySet
<1>2. /\ DOMAIN gate = {} /\ DOMAIN outbox = {} /\ DOMAIN inbox = {}
      /\ DOMAIN ordered = {} /\ calls = {} /\ approvals = {} /\ bulk = {} /\ now = 0
  BY DEF Init
<1>3. Cardinality(DOMAIN gate) <= MaxApprovals
  BY <1>1, <1>2, ForceStopAssumption
<1> QED
  BY <1>1, <1>2, <1>3 DEF Init, TypeOK

LEMMA TypeStep ==
    ASSUME TypeOK, AuditInv, [Next]_vars
    PROVE  TypeOK'
<1>1. ASSUME NEW op \in Operators, NEW key \in Keys, NEW cmd \in Commands,
             NEW stage \in {"status", "commit"}, Begin(op, key, cmd, stage),
             bulk' \subseteq Keys
      PROVE  TypeOK'
  <2>1. [op |-> op, key |-> key, cmd |-> cmd, stage |-> stage] \in Calls
    BY DEF Calls
  <2> QED
    BY <1>1, <2>1 DEF Begin, TypeOK
<1>2. ASSUME NEW op \in Operators, NEW key \in Keys, NEW cmd \in Commands,
             SubmitCommand(op, key, cmd) \/ SubmitBulkTarget(op, key, cmd)
      PROVE  TypeOK'
  <2>1. bulk' \subseteq Keys
    BY <1>2 DEF SubmitCommand, SubmitBulkTarget, TypeOK
  <2> QED
    BY <1>2, <1>1, <2>1 DEF SubmitCommand, SubmitBulkTarget
<1>3. ASSUME NEW call \in calls, ReadStatus(call)
      PROVE  TypeOK'
  BY <1>3, MoveToType DEF ReadStatus, TypeOK
<1>4. ASSUME NEW call \in calls, AskGate(call)
      PROVE  TypeOK'
  <2>1. call.key \in Keys /\ call.cmd \in Commands /\ call.op \in Operators
    BY DEF TypeOK, Calls
  <2>2. /\ DOMAIN gate' \subseteq Keys /\ IsFiniteSet(DOMAIN gate')
        /\ gate' \in [DOMAIN gate' -> [fingerprint : Commands, first : Operators,
                                       created_at : Nat]]
        /\ Cardinality(DOMAIN gate') <= MaxApprovals
    BY <2>1, <1>4, GateAfterType DEF AskGate
  <2>3. calls' \subseteq Calls
    BY <1>4, MoveToType DEF AskGate, TypeOK
  <2>4. approvals' \subseteq [key : Keys, cmd : Commands, op : Operators, at : Nat]
    BY <2>1, <1>4 DEF AskGate, TypeOK
  <2> QED
    BY <1>4, <2>2, <2>3, <2>4 DEF AskGate, TypeOK
<1>5. ASSUME NEW call \in calls, Commit(call)
      PROVE  TypeOK'
  <2>1. call.key \in Keys /\ call.cmd \in Commands /\ call.op \in Operators
    BY DEF TypeOK, Calls
  <2>2. calls' \subseteq Calls
    BY <1>5, MoveToType DEF Commit, TypeOK
  <2>3. CASE call.key \notin DOMAIN outbox
    <3> DEFINE T == AuditEvents
               event == AuditEvent(call.cmd, call.op)
    <3>1. outbox' = With(outbox, call.key, event)
          /\ ordered' = With(ordered, call.key, call.cmd)
      BY <1>5, <2>3 DEF Commit
    <3>2. event \in T
      BY <2>1, AuditEventType
    <3>3. /\ DOMAIN outbox' = DOMAIN outbox \cup {call.key}
          /\ DOMAIN outbox' \subseteq Keys /\ outbox' \in [DOMAIN outbox' -> T]
      <4>1. DOMAIN outbox \subseteq Keys /\ outbox \in [DOMAIN outbox -> T]
        BY DEF TypeOK, AuditEvents
      <4>2. /\ DOMAIN With(outbox, call.key, event) = DOMAIN outbox \cup {call.key}
            /\ DOMAIN With(outbox, call.key, event) \subseteq Keys
            /\ With(outbox, call.key, event) \in [DOMAIN With(outbox, call.key, event) -> T]
        <5> HIDE DEF T, event
        <5> QED
          BY <4>1, <3>2, <2>1 DEF With
      <4> HIDE DEF T, event
      <4> QED
        BY <4>2, <3>1
    <3>4. DOMAIN ordered' = DOMAIN outbox' /\ ordered' \in [DOMAIN ordered' -> Commands]
      <4>1. DOMAIN ordered \subseteq Keys /\ ordered \in [DOMAIN ordered -> Commands]
            /\ DOMAIN ordered = DOMAIN outbox
        BY DEF TypeOK
      <4>2. /\ DOMAIN With(ordered, call.key, call.cmd) = DOMAIN ordered \cup {call.key}
            /\ With(ordered, call.key, call.cmd)
                  \in [DOMAIN With(ordered, call.key, call.cmd) -> Commands]
        BY <4>1, <2>1 DEF With
      <4> QED
        BY <4>1, <4>2, <3>1, <3>3
    <3> QED
      BY <1>5, <2>2, <3>3, <3>4 DEF Commit, TypeOK, AuditEvents
  <2>4. CASE call.key \in DOMAIN outbox
    BY <1>5, <2>2, <2>4 DEF Commit, TypeOK
  <2> QED
    BY <2>3, <2>4
<1>6. ASSUME NEW call \in calls, Record(call)
      PROVE  TypeOK'
  <2>1. call.key \in Keys /\ call.cmd \in Commands
    BY DEF TypeOK, Calls
  <2>2. DOMAIN inbox' \subseteq Keys /\ inbox' \in [DOMAIN inbox' -> Commands]
    <3>1. DOMAIN inbox \subseteq Keys /\ inbox \in [DOMAIN inbox -> Commands]
      BY DEF TypeOK
    <3>2. /\ DOMAIN With(inbox, call.key, call.cmd) \subseteq Keys
          /\ With(inbox, call.key, call.cmd)
                \in [DOMAIN With(inbox, call.key, call.cmd) -> Commands]
      BY <3>1, <2>1, WithType
    <3>3. inbox' = inbox \/ inbox' = With(inbox, call.key, call.cmd)
      BY <1>6 DEF Record
    <3> QED
      BY <3>1, <3>2, <3>3
  <2> QED
    BY <1>6, <2>2 DEF Record, TypeOK
<1>7. ASSUME NEW call \in calls, StorageFails(call)
      PROVE  TypeOK'
  BY <1>7 DEF StorageFails, TypeOK
<1>8. ASSUME NEW key \in Keys, Reconcile(key)
      PROVE  TypeOK'
  <2>1. CommandOf(outbox[key]) \in Commands
    <3>1. key \in DOMAIN outbox /\ ordered[key] \in Commands
      BY <1>8 DEF Reconcile, TypeOK
    <3>2. outbox[key] = AuditEvent(ordered[key], outbox[key].actor)
      BY <3>1 DEF AuditInv
    <3> QED
      BY <3>1, <3>2, CommandOfType
  <2>2. DOMAIN inbox' \subseteq Keys /\ inbox' \in [DOMAIN inbox' -> Commands]
    <3>1. DOMAIN inbox \subseteq Keys /\ inbox \in [DOMAIN inbox -> Commands]
      BY DEF TypeOK
    <3> DEFINE cmd == CommandOf(outbox[key])
    <3> HIDE DEF cmd
    <3>2. /\ DOMAIN With(inbox, key, cmd) \subseteq Keys
          /\ With(inbox, key, cmd) \in [DOMAIN With(inbox, key, cmd) -> Commands]
      BY <3>1, <2>1, WithType DEF cmd
    <3>3. inbox' = With(inbox, key, cmd)
      BY <1>8 DEF Reconcile, cmd
    <3> QED
      BY <3>2, <3>3
  <2> QED
    BY <1>8, <2>2 DEF Reconcile, TypeOK
<1>9. ASSUME Restart
      PROVE  TypeOK'
  <2>1. DOMAIN gate' = {} /\ calls' = {}
    BY <1>9 DEF Restart
  <2>2. IsFiniteSet({}) /\ Cardinality({}) = 0
    BY FS_EmptySet
  <2>3. Cardinality(DOMAIN gate') <= MaxApprovals
    BY <2>1, <2>2, ForceStopAssumption
  <2> QED
    BY <1>9, <2>1, <2>2, <2>3 DEF Restart, TypeOK
<1>10. ASSUME Tick
       PROVE  TypeOK'
  BY <1>10 DEF Tick, TypeOK
<1>11. CASE UNCHANGED vars
  BY <1>11 DEF vars, TypeOK
<1> QED
  BY <1>2, <1>3, <1>4, <1>5, <1>6, <1>7, <1>8, <1>9, <1>10, <1>11 DEF Next

-----------------------------------------------------------------------------
(* The audit event and the delivery. *)

\* The audit part of the state after an action that touches neither store and
\* lets no new call reach its record stage.
LEMMA AuditKept ==
    ASSUME AuditInv, DeliveredAsOrdered, UNCHANGED <<outbox, inbox, ordered>>,
           \A call \in calls' : call.stage = "record" => call \in calls
    PROVE  AuditInv' /\ DeliveredAsOrdered'
BY DEF AuditInv, DeliveredAsOrdered

\* MoveTo adds only the call it moves.
LEMMA MoveToAdds ==
    ASSUME calls \subseteq Calls, NEW call \in calls,
           NEW stage \in {"status", "gate", "commit", "record"},
           NEW c \in MoveTo(call, stage), c \notin calls
    PROVE  /\ c.stage = stage /\ c.key = call.key
           /\ c.cmd = call.cmd /\ c.op = call.op
BY DEF MoveTo, Calls

LEMMA AuditStep ==
    ASSUME TypeOK, AuditInv, DeliveredAsOrdered, [Next]_vars
    PROVE  AuditInv' /\ DeliveredAsOrdered'
<1> USE DEF TypeOK
<1>1. ASSUME NEW op \in Operators, NEW key \in Keys, NEW cmd \in Commands,
             SubmitCommand(op, key, cmd) \/ SubmitBulkTarget(op, key, cmd)
      PROVE  AuditInv' /\ DeliveredAsOrdered'
  <2>1. \A call \in calls' : call.stage = "record" => call \in calls
    BY <1>1 DEF SubmitCommand, SubmitBulkTarget, Begin
  <2> QED
    BY <1>1, <2>1, AuditKept DEF SubmitCommand, SubmitBulkTarget, Begin
<1>2. ASSUME NEW call \in calls, ReadStatus(call)
      PROVE  AuditInv' /\ DeliveredAsOrdered'
  <2>1. \A c \in calls' : c.stage = "record" => c \in calls
    BY <1>2, MoveToAdds DEF ReadStatus
  <2> QED
    BY <1>2, <2>1, AuditKept DEF ReadStatus
<1>3. ASSUME NEW call \in calls, AskGate(call)
      PROVE  AuditInv' /\ DeliveredAsOrdered'
  <2>1. \A c \in calls' : c.stage = "record" => c \in calls
    BY <1>3, MoveToAdds DEF AskGate
  <2> QED
    BY <1>3, <2>1, AuditKept DEF AskGate
<1>4. ASSUME NEW call \in calls, Commit(call)
      PROVE  AuditInv' /\ DeliveredAsOrdered'
  <2> DEFINE event == AuditEvent(call.cmd, call.op)
  <2>1. call.key \in Keys /\ call.cmd \in Commands /\ call.op \in Operators
    BY DEF Calls
  <2>2. event.actor = call.op
    BY AuditFields
  <2>3. CASE call.key \notin DOMAIN outbox
    <3>1. /\ outbox' = With(outbox, call.key, event)
          /\ ordered' = With(ordered, call.key, call.cmd)
          /\ calls' = MoveTo(call, "record")
          /\ inbox' = inbox
      BY <1>4, <2>3 DEF Commit
    <3>2. /\ DOMAIN outbox' = DOMAIN outbox \cup {call.key}
          /\ DOMAIN ordered' = DOMAIN outbox'
          /\ outbox'[call.key] = event
          /\ ordered'[call.key] = call.cmd
      <4> HIDE DEF event
      <4> QED
        BY <3>1 DEF With, AuditInv
    <3>3. \A k \in DOMAIN outbox : outbox'[k] = outbox[k] /\ ordered'[k] = ordered[k]
      <4> HIDE DEF event
      <4> QED
        BY <3>1, <2>3 DEF With, AuditInv
    <3>4. \A c \in calls' : c.stage = "record" =>
             c.key \in DOMAIN outbox' /\ outbox'[c.key] = AuditEvent(c.cmd, c.op)
      <4> SUFFICES ASSUME NEW c \in calls', c.stage = "record"
                   PROVE  c.key \in DOMAIN outbox' /\ outbox'[c.key] = AuditEvent(c.cmd, c.op)
        OBVIOUS
      <4>1. CASE c \in calls
        BY <4>1, <3>2, <3>3 DEF AuditInv
      <4>2. CASE c \notin calls
        <5>1. c.key = call.key /\ c.cmd = call.cmd /\ c.op = call.op
          BY <4>2, <3>1, MoveToAdds
        <5> QED
          BY <5>1, <3>2
      <4> QED
        BY <4>1, <4>2
    <3>5. \A k \in DOMAIN outbox' : outbox'[k] = AuditEvent(ordered'[k], outbox'[k].actor)
      <4>1. event = AuditEvent(call.cmd, event.actor)
        BY <2>2
      <4> HIDE DEF event
      <4> QED
        BY <3>2, <3>3, <4>1 DEF AuditInv
    <3>6. DeliveredAsOrdered'
      BY <3>1, <3>2, <3>3 DEF DeliveredAsOrdered
    <3>7. DOMAIN inbox' \subseteq DOMAIN outbox'
      BY <3>1, <3>2 DEF AuditInv
    <3> QED
      BY <3>2, <3>4, <3>5, <3>6, <3>7 DEF AuditInv
  <2>4. CASE call.key \in DOMAIN outbox
    <3>1. UNCHANGED <<outbox, inbox, ordered>>
      BY <1>4, <2>4 DEF Commit
    <3>2. CASE outbox[call.key] = event
      <4>1. calls' = MoveTo(call, "record")
        BY <1>4, <2>4, <3>2 DEF Commit
      <4>2. ASSUME NEW c \in calls', c.stage = "record"
            PROVE  c.key \in DOMAIN outbox /\ outbox[c.key] = AuditEvent(c.cmd, c.op)
        <5>1. CASE c \in calls
          BY <4>2, <5>1 DEF AuditInv
        <5>2. CASE c \notin calls
          <6>1. c.key = call.key /\ c.cmd = call.cmd /\ c.op = call.op
            BY <4>1, <5>2, MoveToAdds
          <6> QED
            BY <6>1, <2>4, <3>2
        <5> QED
          BY <5>1, <5>2
      <4> QED
        BY <3>1, <4>2 DEF AuditInv, DeliveredAsOrdered
    <3>3. CASE outbox[call.key] # event
      <4>1. calls' = calls \ {call}
        BY <1>4, <2>4, <3>3 DEF Commit
      <4> QED
        BY <3>1, <4>1, AuditKept
    <3> QED
      BY <3>2, <3>3
  <2> QED
    BY <2>3, <2>4
<1>5. ASSUME NEW call \in calls, Record(call)
      PROVE  AuditInv' /\ DeliveredAsOrdered'
  <2>1. call.key \in Keys /\ call.cmd \in Commands /\ call.op \in Operators
    BY DEF Calls
  <2>2. call.key \in DOMAIN outbox /\ outbox[call.key] = AuditEvent(call.cmd, call.op)
    BY <1>5 DEF Record, AuditInv
  <2>3. \/ call.cmd = ordered[call.key]
        \/ ReadsAs(ordered[call.key], call.cmd) \/ ReadsAs(call.cmd, ordered[call.key])
    <3>1. ordered[call.key] \in Commands
      BY <2>2
    <3>2. AuditEvent(ordered[call.key], outbox[call.key].actor) = AuditEvent(call.cmd, call.op)
      BY <2>2 DEF AuditInv
    <3> QED
      BY <2>1, <3>1, <3>2, SameEvent
  <2>4. /\ calls' = calls \ {call} /\ outbox' = outbox /\ ordered' = ordered
        /\ inbox' = inbox \/ inbox' = With(inbox, call.key, call.cmd)
    BY <1>5 DEF Record
  <2>5. CASE inbox' = inbox
    BY <2>4, <2>5, AuditKept
  <2>6. CASE inbox' = With(inbox, call.key, call.cmd)
    <3>1. /\ DOMAIN inbox' = DOMAIN inbox \cup {call.key}
          /\ \A k \in DOMAIN inbox' : inbox'[k] = IF k = call.key THEN call.cmd ELSE inbox[k]
      BY <2>6 DEF With
    <3>2. DOMAIN inbox' \subseteq DOMAIN outbox'
      BY <3>1, <2>2, <2>4 DEF AuditInv
    <3>3. DeliveredAsOrdered'
      BY <3>1, <2>2, <2>3, <2>4 DEF DeliveredAsOrdered
    <3> QED
      BY <3>2, <3>3, <2>4 DEF AuditInv
  <2> QED
    BY <2>4, <2>5, <2>6
<1>6. ASSUME NEW call \in calls, StorageFails(call)
      PROVE  AuditInv' /\ DeliveredAsOrdered'
  BY <1>6, AuditKept DEF StorageFails
<1>7. ASSUME NEW key \in Keys, Reconcile(key)
      PROVE  AuditInv' /\ DeliveredAsOrdered'
  <2> DEFINE cmd == CommandOf(outbox[key])
  <2>1. /\ key \in DOMAIN outbox /\ inbox' = With(inbox, key, cmd)
        /\ outbox' = outbox /\ ordered' = ordered /\ calls' = calls
    BY <1>7 DEF Reconcile
  <2>2. cmd = ordered[key] \/ ReadsAs(ordered[key], cmd)
    <3>1. ordered[key] \in Commands
      BY <2>1
    <3>2. outbox[key] = AuditEvent(ordered[key], outbox[key].actor)
      BY <2>1 DEF AuditInv
    <3> QED
      BY <3>1, <3>2, AuditRoundTrip
  <2> HIDE DEF cmd
  <2>3. /\ DOMAIN inbox' = DOMAIN inbox \cup {key}
        /\ \A k \in DOMAIN inbox' : inbox'[k] = IF k = key THEN cmd ELSE inbox[k]
    BY <2>1 DEF With
  <2>4. DOMAIN inbox' \subseteq DOMAIN outbox'
    BY <2>1, <2>3 DEF AuditInv
  <2>5. DeliveredAsOrdered'
    BY <2>1, <2>2, <2>3 DEF DeliveredAsOrdered
  <2> QED
    BY <2>1, <2>4, <2>5 DEF AuditInv
<1>8. ASSUME Restart
      PROVE  AuditInv' /\ DeliveredAsOrdered'
  BY <1>8, AuditKept DEF Restart
<1>9. ASSUME Tick
      PROVE  AuditInv' /\ DeliveredAsOrdered'
  BY <1>9, AuditKept DEF Tick
<1>10. CASE UNCHANGED vars
  BY <1>10, AuditKept DEF vars
<1> QED
  BY <1>1, <1>2, <1>3, <1>4, <1>5, <1>6, <1>7, <1>8, <1>9, <1>10 DEF Next

LEMMA AuditInit == Init => AuditInv /\ DeliveredAsOrdered
  BY DEF Init, AuditInv, DeliveredAsOrdered

\* The gate, the stores and the calls keep their types, the gate its bound, and the
\* audit events the vocabulary their validator knows.
THEOREM TypeCorrect == Spec => []TypeOK
<1>1. Init => TypeOK /\ AuditInv /\ DeliveredAsOrdered
  BY TypeInit, AuditInit
<1>2. TypeOK /\ AuditInv /\ DeliveredAsOrdered /\ [Next]_vars
         => (TypeOK /\ AuditInv /\ DeliveredAsOrdered)'
  BY TypeStep, AuditStep
<1> QED
  BY <1>1, <1>2, PTL DEF Spec

\* What an agent is given is the command whose call created the audit record, also
\* when the delivery was rebuilt from the audit event, for any overlap of calls,
\* failures of storage, restarts and repairs; only a force_stop and the stop whose
\* own reason has the marker can be taken for one another.
THEOREM DeliveredCorrect == Spec => []DeliveredAsOrdered
<1>1. TypeOK /\ AuditInv /\ DeliveredAsOrdered /\ [Next]_vars
         => AuditInv' /\ DeliveredAsOrdered'
  BY AuditStep
<1> QED
  BY <1>1, AuditInit, TypeCorrect, PTL DEF Spec

-----------------------------------------------------------------------------
(* The two approvals. *)

\* An approved command stays approved: the history only grows.
LEMMA ApprovedKept ==
    ASSUME approvals \subseteq approvals', NEW key, NEW cmd, ApprovedByTwo(key, cmd)
    PROVE  ApprovedByTwo(key, cmd)'
BY DEF ApprovedByTwo

LEMMA ClearedKept ==
    ASSUME approvals \subseteq approvals', bulk \subseteq bulk',
           NEW key, NEW cmd, Cleared(key, cmd)
    PROVE  Cleared(key, cmd)'
BY ApprovedKept DEF Cleared

\* The gate says Approved only to the second of two operators.
LEMMA ApprovedMeansTwo ==
    ASSUME TypeOK, GateInv, NEW call \in calls, AskGate(call),
           ApprovalOutcome(call.key, call.cmd, call.op) = "Approved"
    PROVE  ApprovedByTwo(call.key, call.cmd)'
<1> DEFINE x == [key |-> call.key, cmd |-> gate[call.key].fingerprint,
                 op |-> gate[call.key].first, at |-> gate[call.key].created_at]
           y == [key |-> call.key, cmd |-> call.cmd, op |-> call.op, at |-> now]
<1>1. /\ call.key \in Live /\ gate[call.key].fingerprint = call.cmd
      /\ gate[call.key].first # call.op
  BY DEF ApprovalOutcome
<1>2. call.key \in DOMAIN gate /\ now - gate[call.key].created_at < ApprovalTtl
  BY <1>1 DEF Live
<1>3. x \in approvals /\ gate[call.key].created_at <= now
  <2>1. x \in approvals
    BY <1>2 DEF GateInv
  <2>2. x.at <= now
    BY <2>1 DEF GateInv
  <2> QED
    BY <2>1, <2>2
<1>4. x \in approvals' /\ y \in approvals'
  BY <1>3 DEF AskGate
<1>5. /\ x.key = call.key /\ y.key = call.key /\ x.cmd = call.cmd /\ y.cmd = call.cmd
      /\ x.op # y.op /\ x.at <= y.at /\ y.at - x.at < ApprovalTtl
  BY <1>1, <1>2, <1>3
<1> HIDE DEF x, y
<1> QED
  BY <1>4, <1>5 DEF ApprovedByTwo

\* An entry of the table after a call was there, or is the call's own.
LEMMA GateAfterEntries ==
    ASSUME NEW key, NEW cmd, NEW op, NEW k \in DOMAIN GateAfter(key, cmd, op)
    PROVE  \/ k \in DOMAIN gate /\ GateAfter(key, cmd, op)[k] = gate[k]
           \/ /\ k = key
              /\ GateAfter(key, cmd, op)[k]
                    = [fingerprint |-> cmd, first |-> op, created_at |-> now]
<1> DEFINE kept == [x \in Live |-> gate[x]]
           new == [fingerprint |-> cmd, first |-> op, created_at |-> now]
           g == GateAfter(key, cmd, op)
<1>1. Live \subseteq DOMAIN gate
  BY DEF Live
<1>2. CASE ApprovalOutcome(key, cmd, op) = "Approved"
  <2>1. g = Without(kept, key)
    BY <1>2 DEF GateAfter
  <2> QED
    BY <2>1, <1>1 DEF Without
<1>3. CASE ApprovalOutcome(key, cmd, op) = "AwaitingSecond"
  <2>1. g = With(kept, key, new)
    BY <1>3 DEF GateAfter
  <2>2. DOMAIN g = Live \cup {key} /\ g[k] = IF k = key THEN new ELSE kept[k]
    <3> HIDE DEF new
    <3> QED
      BY <2>1 DEF With
  <2> QED
    BY <2>2, <1>1
<1>4. CASE /\ ApprovalOutcome(key, cmd, op) # "Approved"
           /\ ApprovalOutcome(key, cmd, op) # "AwaitingSecond"
  <2>1. g = kept
    BY <1>4 DEF GateAfter
  <2> QED
    BY <2>1, <1>1
<1> QED
  BY <1>2, <1>3, <1>4

LEMMA GateStep ==
    ASSUME TypeOK, GateInv, [Next]_vars
    PROVE  GateInv'
<1> DEFINE Held(k) == [key |-> k, cmd |-> gate[k].fingerprint, op |-> gate[k].first,
                       at |-> gate[k].created_at]
           Table == \A k \in DOMAIN gate : Held(k) \in approvals
           Times == \A x \in approvals : x.at <= now
           Through(call) == call.stage \in {"commit", "record"} /\ call.cmd.action = "force_stop"
                               => Cleared(call.key, call.cmd) \/ call.key \in DOMAIN inbox
           Passed == \A call \in calls : Through(call)
<1>0. GateInv = (Table /\ Times /\ Passed) /\ GateInv' = (Table /\ Times /\ Passed)'
  BY DEF GateInv
<1>N. /\ now \in Nat /\ \A x \in approvals : x.at \in Nat
      /\ \A x \in approvals : x.at <= now
  BY DEF TypeOK, GateInv
<1>A. ASSUME UNCHANGED <<gate, approvals, now>>
      PROVE  Table' /\ Times'
  BY <1>0, <1>A
<1>B. ASSUME approvals \subseteq approvals', bulk \subseteq bulk', DOMAIN inbox \subseteq DOMAIN inbox'
      PROVE  \A call \in calls : Through(call)'
  BY <1>0, <1>B, ClearedKept
<1>1. ASSUME NEW op \in Operators, NEW key \in Keys, NEW cmd \in Commands,
             SubmitCommand(op, key, cmd) \/ SubmitBulkTarget(op, key, cmd)
      PROVE  GateInv'
  <2>1. UNCHANGED <<gate, approvals, now, inbox>> /\ bulk \subseteq bulk'
    BY <1>1 DEF SubmitCommand, SubmitBulkTarget, Begin
  <2>2. ASSUME NEW call \in calls' \ calls
        PROVE  Through(call)'
    <3>1. CASE SubmitCommand(op, key, cmd)
      BY <2>2, <3>1 DEF SubmitCommand, Begin
    <3>2. CASE SubmitBulkTarget(op, key, cmd)
      <4>1. call.key = key /\ call.cmd = cmd
        BY <2>2, <3>2 DEF SubmitBulkTarget, Begin
      <4>2. cmd.action = "force_stop" => key \in bulk'
        BY <3>2 DEF SubmitBulkTarget
      <4> QED
        BY <4>1, <4>2 DEF Cleared
    <3> QED
      BY <1>1, <3>1, <3>2
  <2>3. Passed'
    BY <2>1, <2>2, <1>B
  <2> QED
    BY <2>1, <2>3, <1>A, <1>0
<1>2. ASSUME NEW call \in calls, ReadStatus(call)
      PROVE  GateInv'
  <2>1. UNCHANGED <<gate, approvals, now, inbox, bulk>>
    BY <1>2 DEF ReadStatus
  <2>2. ASSUME NEW c \in calls' \ calls
        PROVE  Through(c)'
    <3>1. CASE call.key \in DOMAIN inbox
      <4>1. calls' = MoveTo(call, "commit")
        BY <1>2, <3>1 DEF ReadStatus
      <4>2. c.key = call.key
        BY <4>1, <2>2, MoveToAdds DEF TypeOK
      <4> QED
        BY <4>2, <3>1, <2>1
    <3>2. CASE call.key \notin DOMAIN inbox
      <4>1. calls' = MoveTo(call, "gate")
        BY <1>2, <3>2 DEF ReadStatus
      <4>2. c.stage = "gate"
        BY <4>1, <2>2, MoveToAdds DEF TypeOK
      <4> QED
        BY <4>2
    <3> QED
      BY <3>1, <3>2
  <2>3. Passed'
    BY <2>1, <2>2, <1>B
  <2> QED
    BY <2>1, <2>3, <1>A, <1>0
<1>3. ASSUME NEW call \in calls, AskGate(call)
      PROVE  GateInv'
  <2> DEFINE mine == [key |-> call.key, cmd |-> call.cmd, op |-> call.op, at |-> now]
  <2>1. /\ gate' = GateAfter(call.key, call.cmd, call.op)
        /\ approvals' = approvals \cup {mine}
        /\ inbox' = inbox /\ now' = now /\ bulk' = bulk
    BY <1>3 DEF AskGate
  <2>2. Table'
    <3> SUFFICES ASSUME NEW k \in DOMAIN gate' PROVE Held(k)' \in approvals'
      OBVIOUS
    <3>1. CASE k \in DOMAIN gate /\ gate'[k] = gate[k]
      <4>1. Held(k)' = Held(k)
        BY <3>1
      <4> QED
        BY <3>1, <4>1, <2>1, <1>0
    <3>2. CASE /\ k = call.key
               /\ gate'[k] = [fingerprint |-> call.cmd, first |-> call.op, created_at |-> now]
      <4>1. Held(k)' = mine
        BY <3>2
      <4> QED
        BY <4>1, <2>1
    <3> QED
      BY <3>1, <3>2, <2>1, GateAfterEntries
  <2>3. Times'
    BY <2>1, <1>N
  <2>4. ASSUME NEW c \in calls' \ calls
        PROVE  Through(c)'
    <3>1. ApprovalOutcome(call.key, call.cmd, call.op) = "Approved"
      BY <1>3, <2>4 DEF AskGate
    <3>2. calls' = MoveTo(call, "commit")
      BY <1>3, <3>1 DEF AskGate
    <3>3. c.key = call.key /\ c.cmd = call.cmd
      BY <3>2, <2>4, MoveToAdds DEF TypeOK
    <3>4. ApprovedByTwo(call.key, call.cmd)'
      BY <1>3, <3>1, ApprovedMeansTwo
    <3> QED
      BY <3>3, <3>4 DEF Cleared
  <2>5. Passed'
    BY <2>1, <2>4, <1>B
  <2> QED
    BY <2>2, <2>3, <2>5, <1>0
<1>4. ASSUME NEW call \in calls, Commit(call)
      PROVE  GateInv'
  <2>1. UNCHANGED <<gate, approvals, now, inbox, bulk>>
    BY <1>4 DEF Commit
  <2>2. ASSUME NEW c \in calls' \ calls
        PROVE  Through(c)'
    <3>1. calls' = MoveTo(call, "record") /\ call.stage = "commit"
      BY <1>4, <2>2 DEF Commit
    <3>2. c.key = call.key /\ c.cmd = call.cmd
      BY <3>1, <2>2, MoveToAdds DEF TypeOK
    <3>3. Through(call)'
      BY <2>1, <1>B
    <3> QED
      BY <3>1, <3>2, <3>3
  <2>3. Passed'
    BY <2>1, <2>2, <1>B
  <2> QED
    BY <2>1, <2>3, <1>A, <1>0
<1>5. ASSUME NEW call \in calls, Record(call) \/ StorageFails(call)
      PROVE  GateInv'
  <2>1. /\ UNCHANGED <<gate, approvals, now, bulk>> /\ calls' \subseteq calls
        /\ DOMAIN inbox \subseteq DOMAIN inbox'
    BY <1>5 DEF Record, StorageFails, With
  <2> QED
    BY <2>1, <1>A, <1>B, <1>0
<1>6. ASSUME NEW key \in Keys, Reconcile(key)
      PROVE  GateInv'
  <2>1. /\ UNCHANGED <<gate, approvals, now, bulk>> /\ calls' \subseteq calls
        /\ DOMAIN inbox \subseteq DOMAIN inbox'
    BY <1>6 DEF Reconcile, With
  <2> QED
    BY <2>1, <1>A, <1>B, <1>0
<1>7. ASSUME Restart
      PROVE  GateInv'
  BY <1>7, <1>0 DEF Restart
<1>8. ASSUME Tick
      PROVE  GateInv'
  <2>1. /\ UNCHANGED <<gate, approvals, calls, inbox, bulk>> /\ now' = now + 1
    BY <1>8 DEF Tick
  <2>2. Table' /\ Passed'
    BY <2>1, <1>B, <1>0
  <2>3. Times'
    BY <2>1, <1>N
  <2> QED
    BY <2>2, <2>3, <1>0
<1>9. CASE UNCHANGED vars
  <2>1. UNCHANGED <<gate, approvals, now, calls, inbox, bulk>>
    BY <1>9 DEF vars
  <2> QED
    BY <2>1, <1>A, <1>B, <1>0
<1> QED
  BY <1>1, <1>2, <1>3, <1>4, <1>5, <1>6, <1>7, <1>8, <1>9 DEF Next

\* Where a delivery comes from: it was there, a call records what it asked for, or
\* the repair worker decodes an audit event.
LEMMA InboxChanges ==
    ASSUME [Next]_vars, NEW k \in DOMAIN inbox'
    PROVE  \/ k \in DOMAIN inbox /\ inbox'[k] = inbox[k]
           \/ \E call \in calls : /\ call.stage = "record" /\ call.key = k
                                  /\ k \notin DOMAIN inbox /\ inbox'[k] = call.cmd
           \/ k \in DOMAIN outbox /\ inbox'[k] = CommandOf(outbox[k])
<1>1. CASE inbox' = inbox
  BY <1>1
<1>2. ASSUME NEW call \in calls, Record(call), inbox' # inbox
      PROVE  \/ k \in DOMAIN inbox /\ inbox'[k] = inbox[k]
             \/ /\ call.stage = "record" /\ call.key = k
                /\ k \notin DOMAIN inbox /\ inbox'[k] = call.cmd
  <2>1. call.key \notin DOMAIN inbox /\ inbox' = With(inbox, call.key, call.cmd)
    BY <1>2 DEF Record
  <2> QED
    BY <1>2, <2>1 DEF With, Record
<1>3. ASSUME NEW key \in Keys, Reconcile(key)
      PROVE  \/ k \in DOMAIN inbox /\ inbox'[k] = inbox[k]
             \/ k \in DOMAIN outbox /\ inbox'[k] = CommandOf(outbox[k])
  <2> DEFINE cmd == CommandOf(outbox[key])
  <2>1. key \in DOMAIN outbox /\ inbox' = With(inbox, key, cmd)
    BY <1>3 DEF Reconcile
  <2>2. k \in DOMAIN inbox \cup {key} /\ inbox'[k] = IF k = key THEN cmd ELSE inbox[k]
    <3> HIDE DEF cmd
    <3> QED
      BY <2>1 DEF With
  <2> QED
    BY <2>1, <2>2
<1> QED
  BY <1>1, <1>2, <1>3
  DEF Next, vars, SubmitCommand, SubmitBulkTarget, Begin, ReadStatus, AskGate, Commit,
      StorageFails, Restart, Tick

\* Where an order comes from: it was there, or a call commits it.
LEMMA OrderedChanges ==
    ASSUME AuditInv, [Next]_vars, NEW k \in DOMAIN outbox'
    PROVE  \/ k \in DOMAIN outbox /\ ordered'[k] = ordered[k]
           \/ \E call \in calls : /\ call.stage = "commit" /\ call.key = k
                                  /\ k \notin DOMAIN outbox /\ ordered'[k] = call.cmd
<1>1. CASE outbox' = outbox /\ ordered' = ordered
  BY <1>1
<1>2. ASSUME NEW call \in calls, Commit(call), ~(outbox' = outbox /\ ordered' = ordered)
      PROVE  \/ k \in DOMAIN outbox /\ ordered'[k] = ordered[k]
             \/ /\ call.stage = "commit" /\ call.key = k /\ k \notin DOMAIN outbox
                /\ ordered'[k] = call.cmd
  <2> DEFINE event == AuditEvent(call.cmd, call.op)
  <2>1. /\ call.stage = "commit" /\ call.key \notin DOMAIN outbox
        /\ outbox' = With(outbox, call.key, event)
        /\ ordered' = With(ordered, call.key, call.cmd)
    BY <1>2 DEF Commit
  <2>2. k \in DOMAIN outbox \cup {call.key}
    <3> HIDE DEF event
    <3> QED
      BY <2>1 DEF With
  <2>3. k \in DOMAIN ordered \cup {call.key}
        /\ ordered'[k] = IF k = call.key THEN call.cmd ELSE ordered[k]
    BY <2>1, <2>2 DEF With, AuditInv
  <2> QED
    BY <2>1, <2>2, <2>3
<1> QED
  BY <1>1, <1>2
  DEF Next, vars, SubmitCommand, SubmitBulkTarget, Begin, ReadStatus, AskGate,
      Record, StorageFails, Reconcile, Restart, Tick

LEMMA OutboxGrows ==
    ASSUME [Next]_vars
    PROVE  DOMAIN outbox \subseteq DOMAIN outbox'
<1>1. ASSUME NEW call \in calls, Commit(call)
      PROVE  DOMAIN outbox \subseteq DOMAIN outbox'
  <2> DEFINE event == AuditEvent(call.cmd, call.op)
  <2>1. outbox' = outbox \/ outbox' = With(outbox, call.key, event)
    BY <1>1 DEF Commit
  <2> HIDE DEF event
  <2> QED
    BY <2>1 DEF With
<1> QED
  BY <1>1 DEF Next, vars, SubmitCommand, SubmitBulkTarget, Begin, ReadStatus, AskGate,
              Record, StorageFails, Reconcile, Restart, Tick

LEMMA HistoryGrows ==
    ASSUME [Next]_vars
    PROVE  approvals \subseteq approvals' /\ bulk \subseteq bulk'
<1>1. ASSUME NEW call \in calls, AskGate(call)
      PROVE  approvals \subseteq approvals' /\ bulk \subseteq bulk'
  BY <1>1 DEF AskGate
<1>2. ASSUME NEW op, NEW key, NEW cmd, SubmitCommand(op, key, cmd) \/ SubmitBulkTarget(op, key, cmd)
      PROVE  approvals \subseteq approvals' /\ bulk \subseteq bulk'
  BY <1>2 DEF SubmitCommand, SubmitBulkTarget, Begin
<1> QED
  BY <1>1, <1>2 DEF Next, vars, ReadStatus, Commit, Record, StorageFails, Reconcile,
                    Restart, Tick

LEMMA AccountedStep ==
    ASSUME TypeOK, AuditInv, GateInv, ForceStopsAccountedFor, [Next]_vars
    PROVE  ForceStopsAccountedFor'
<1>1. approvals \subseteq approvals' /\ bulk \subseteq bulk'
  BY HistoryGrows
<1>2. ASSUME NEW k \in DOMAIN outbox', NEW c, c = ordered'[k], c.action = "force_stop"
      PROVE  Cleared(k, c)'
  <2>1. CASE k \in DOMAIN outbox /\ ordered'[k] = ordered[k]
    <3>1. Cleared(k, c)
      BY <1>2, <2>1 DEF ForceStopsAccountedFor
    <3> QED
      BY <3>1, <1>1, ClearedKept
  <2>2. ASSUME NEW call \in calls, call.stage = "commit", call.key = k,
               k \notin DOMAIN outbox, ordered'[k] = call.cmd
        PROVE  Cleared(k, c)'
    <3>1. k \notin DOMAIN inbox
      BY <2>2 DEF AuditInv
    <3>2. Cleared(k, c)
      BY <1>2, <3>1, <2>2 DEF GateInv
    <3> QED
      BY <3>2, <1>1, ClearedKept
  <2> QED
    BY <2>1, <2>2, OrderedChanges
<1>3. ASSUME NEW k \in DOMAIN inbox', NEW c, c = inbox'[k], c.action = "force_stop"
      PROVE  Cleared(k, c)' \/ ReadsAs(ordered'[k], c)
  <2>1. ASSUME k \in DOMAIN outbox
        PROVE  ordered'[k] = ordered[k]
    <3>1. k \in DOMAIN outbox'
      BY <2>1, OutboxGrows
    <3> QED
      BY <2>1, <3>1, OrderedChanges
  <2>2. CASE k \in DOMAIN inbox /\ inbox'[k] = inbox[k]
    <3>1. Cleared(k, c) \/ ReadsAs(ordered[k], c)
      BY <1>3, <2>2 DEF ForceStopsAccountedFor
    <3>2. ordered'[k] = ordered[k]
      BY <2>1, <2>2 DEF AuditInv
    <3> QED
      BY <3>1, <3>2, <1>1, ClearedKept
  <2>3. ASSUME NEW call \in calls, call.stage = "record", call.key = k,
               k \notin DOMAIN inbox, inbox'[k] = call.cmd
        PROVE  Cleared(k, c)'
    <3>1. Cleared(k, c)
      BY <1>3, <2>3 DEF GateInv
    <3> QED
      BY <3>1, <1>1, ClearedKept
  <2>4. CASE k \in DOMAIN outbox /\ inbox'[k] = CommandOf(outbox[k])
    <3>1. ordered[k] \in Commands /\ outbox[k] = AuditEvent(ordered[k], outbox[k].actor)
      BY <2>4 DEF TypeOK, AuditInv
    <3>2. c = ordered[k] \/ ReadsAs(ordered[k], c)
      BY <1>3, <2>4, <3>1, AuditRoundTrip
    <3>3. ordered'[k] = ordered[k]
      BY <2>1, <2>4
    <3>4. CASE c = ordered[k]
      <4>1. Cleared(k, c)
        BY <1>3, <2>4, <3>4 DEF ForceStopsAccountedFor
      <4> QED
        BY <4>1, <1>1, ClearedKept
    <3> QED
      BY <3>2, <3>3, <3>4
  <2> QED
    BY <2>2, <2>3, <2>4, InboxChanges
<1> QED
  BY <1>2, <1>3 DEF ForceStopsAccountedFor, Cleared, ApprovedByTwo

\* No force_stop is recorded, in the outbox or in the inbox, unless two distinct
\* operators asked the gate for exactly that command within the TTL, a bulk call asked
\* for one under that identity, or it was rebuilt from a stop whose own reason has the
\* marker: whatever calls overlap between the status lookup, the gate and the commit,
\* and through restarts, storage errors and repairs.
THEOREM AccountedCorrect == Spec => []ForceStopsAccountedFor
<1>1. Init => GateInv /\ ForceStopsAccountedFor
  BY DEF Init, GateInv, ForceStopsAccountedFor
<1>2. TypeOK /\ AuditInv /\ DeliveredAsOrdered /\ [Next]_vars
         => AuditInv' /\ DeliveredAsOrdered'
  BY AuditStep
<1>3. TypeOK /\ GateInv /\ [Next]_vars => GateInv'
  BY GateStep
<1>4. TypeOK /\ AuditInv /\ GateInv /\ ForceStopsAccountedFor /\ [Next]_vars
         => ForceStopsAccountedFor'
  BY AccountedStep
<1> QED
  BY <1>1, <1>2, <1>3, <1>4, AuditInit, TypeCorrect, PTL DEF Spec
=============================================================================
