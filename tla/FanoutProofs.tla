----------------------------- MODULE FanoutProofs -----------------------------
(***************************************************************************)
(* Proofs about FanoutWorker, for every set of events and replicas, every  *)
(* batch size, lease, delay and ceiling, and any number of faults.         *)
(***************************************************************************)
EXTENDS FanoutWorker, TLAPS

-----------------------------------------------------------------------------
(* Typing. *)

LEMMA Bounds ==
    /\ MaxReplays \in Nat /\ MaxReplays > 0 /\ Lease \in Nat /\ MaxPublish \in Nat
    /\ RetryDelay \in Nat /\ RetryDelay > 0 /\ RetryDelay <= Lease
    /\ MaxFaults \in Nat /\ MaxRequeues \in Nat
  BY FanoutAssumption

LEMMA CappedType ==
    ASSUME NEW n \in Nat
    PROVE  Capped(n, MaxReplays) \in 0..MaxReplays
  BY Bounds DEF Capped

LEMMA LessType ==
    ASSUME NEW m \in Nat, NEW n \in 0..m
    PROVE  Less(n) \in 0..m
  BY DEF Less

LEMMA ClearedType ==
    ASSUME NEW m \in Nat, NEW map \in [Replicas -> [Keys -> 0..m]], NEW r \in Replicas, NEW S
    PROVE  Cleared(map, r, S) \in [Replicas -> [Keys -> 0..m]]
  BY DEF Cleared

LEMMA CountedType ==
    ASSUME TypeOK, NEW r \in Replicas, NEW k \in Keys
    PROVE  Counted(r, k) \in 0..MaxReplays
<1>1. failures[r][k] \in 0..MaxReplays
  BY DEF TypeOK
<1> QED
  BY <1>1, CappedType, Bounds DEF Counted

\* The statements keep the table well formed.
LEMMA StatementType ==
    ASSUME rows \in [Keys -> Row], NEW S, NEW Q
    PROVE  /\ Claimed(S, Q) \in [Keys -> Row]
           /\ Completed(S) \in [Keys -> Row]
           /\ Rescheduled(S) \in [Keys -> Row]
           /\ Quarantined(S) \in [Keys -> Row]
<1>1. ASSUME NEW k \in Keys
      PROVE  /\ rows[k] \in Row
             /\ [state |-> IF k \in Q THEN "quarantined" ELSE rows[k].state,
                 attempts |-> Capped(rows[k].attempts + 1, MaxReplays), wait |-> Lease] \in Row
             /\ [rows[k] EXCEPT !.state = "complete"] \in Row
             /\ [rows[k] EXCEPT !.state = "quarantined"] \in Row
             /\ [rows[k] EXCEPT !.wait = RetryDelay] \in Row
  <2>1. rows[k] \in Row
    OBVIOUS
  <2>2. Capped(rows[k].attempts + 1, MaxReplays) \in 0..MaxReplays
    BY <2>1, Bounds, CappedType DEF Row
  <2>3. Lease \in 0..Lease /\ RetryDelay \in 0..Lease
    BY Bounds
  <2> QED
    BY <2>1, <2>2, <2>3 DEF Row
<1>2. Claimed(S, Q) \in [Keys -> Row]
  BY <1>1 DEF Claimed
<1>3. Completed(S) \in [Keys -> Row]
  BY <1>1 DEF Completed
<1>4. Rescheduled(S) \in [Keys -> Row]
  BY <1>1 DEF Rescheduled
<1>5. Quarantined(S) \in [Keys -> Row]
  BY <1>1 DEF Quarantined
<1> QED
  BY <1>2, <1>3, <1>4, <1>5

LEMMA ExecuteType ==
    ASSUME TypeOK, NEW after \in [Keys -> Row], NEW ok \in BOOLEAN, Execute(after, ok)
    PROVE  rows' \in [Keys -> Row] /\ faults' \in 0..MaxFaults
<1>1. CASE ok
  BY <1>1 DEF Execute, TypeOK
<1>2. CASE ~ok
  BY <1>2, Bounds DEF Execute, TypeOK
<1> QED
  BY <1>1, <1>2

LEMMA InitType == Init => TypeOK
<1> SUFFICES ASSUME Init PROVE TypeOK
  OBVIOUS
<1>1. [state |-> "pending", attempts |-> 0, wait |-> 0] \in Row
  BY Bounds DEF Row
<1> QED
  BY <1>1, Bounds DEF Init, TypeOK

LEMMA NextType == TypeOK /\ [Next]_vars => TypeOK'
<1> SUFFICES ASSUME TypeOK, [Next]_vars PROVE TypeOK'
  OBVIOUS
<1>1. ASSUME NEW r \in Replicas, NEW ok \in BOOLEAN, Claim(r, ok) PROVE TypeOK'
  <2>1. PICK keys \in kSubset(Capped(Cardinality(Due), BatchSize), Due) :
          /\ ok \/ (keys \cap Malformed # {} /\ faults < MaxFaults)
          /\ rows' = Claimed(keys, IF ok THEN Malformed ELSE {})
          /\ todo' = [todo EXCEPT ![r] = IF ok THEN {k \in keys \ Malformed : not_before[r][k] = 0}
                                               ELSE {}]
          /\ claims' = [k \in Keys |-> IF k \in keys THEN Capped(claims[k] + 1, MaxReplays)
                                                    ELSE claims[k]]
    BY <1>1 DEF Claim
  <2>2. keys \subseteq Keys
    BY DEF kSubset, Due
  <2>3. todo' \in [Replicas -> SUBSET Keys]
    BY <2>1, <2>2, Bounds DEF TypeOK
  <2>4. claims' \in [Keys -> 0..MaxReplays]
    BY <2>1, CappedType DEF TypeOK
  <2>5. rows' \in [Keys -> Row]
    BY <2>1, StatementType DEF TypeOK
  <2>6. faults' \in 0..MaxFaults
    BY <1>1, <2>1, Bounds DEF Claim, TypeOK
  <2> QED
    BY <1>1, <2>3, <2>4, <2>5, <2>6 DEF Claim, TypeOK, memory
<1>2. ASSUME NEW r \in Replicas, NEW k \in Keys, NEW outcome \in Outcomes,
             Publish(r, k, outcome)
      PROVE  TypeOK'
  BY <1>2, Bounds DEF Publish, TypeOK, memory, bounds
<1>3. ASSUME NEW r \in Replicas, NEW ok \in BOOLEAN, Settle(r, ok) PROVE TypeOK'
  <2>1. rows' \in [Keys -> Row] /\ faults' \in 0..MaxFaults
    BY <1>3, StatementType, ExecuteType DEF Settle, SettledRows, TypeOK
  <2>2. /\ failures' \in [Replicas -> [Keys -> 0..MaxReplays]]
        /\ not_before' \in [Replicas -> [Keys -> 0..RetryDelay]]
    BY <1>3, ClearedType, Bounds DEF Settle, TypeOK
  <2> QED
    BY <1>3, <2>1, <2>2 DEF Settle, TypeOK, seen
<1>4. ASSUME NEW r \in Replicas, NEW k \in Keys, Exhaust(r, k) PROVE TypeOK'
  <2>1. failures' \in [Replicas -> [Keys -> 0..MaxReplays]]
    BY <1>4, Bounds DEF Exhaust, TypeOK
  <2> QED
    BY <1>4, <2>1 DEF Exhaust, TypeOK, bounds, seen
<1>5. ASSUME NEW r \in Replicas, NEW k \in Keys, NEW ok \in BOOLEAN, Defer(r, k, ok)
      PROVE  TypeOK'
  <2>1. rows' \in [Keys -> Row] /\ faults' \in 0..MaxFaults
    BY <1>5, StatementType, ExecuteType DEF Defer, TypeOK
  <2>2. /\ failures' \in [Replicas -> [Keys -> 0..MaxReplays]]
        /\ not_before' \in [Replicas -> [Keys -> 0..RetryDelay]]
    BY <1>5, Bounds DEF Defer, Exhausted, TypeOK
  <2> QED
    BY <1>5, <2>1, <2>2 DEF Defer, TypeOK, seen
<1>6. ASSUME NEW r \in Replicas, NEW ok \in BOOLEAN, GiveUp(r, ok) PROVE TypeOK'
  <2>1. rows' \in [Keys -> Row] /\ faults' \in 0..MaxFaults
    BY <1>6, StatementType, ExecuteType DEF GiveUp, TypeOK
  <2>2. /\ failures' \in [Replicas -> [Keys -> 0..MaxReplays]]
        /\ not_before' \in [Replicas -> [Keys -> 0..RetryDelay]]
    BY <1>6, ClearedType, Bounds DEF GiveUp, TypeOK
  <2> QED
    BY <1>6, <2>1, <2>2 DEF GiveUp, TypeOK, seen
<1>7. ASSUME NEW r \in Replicas, Crash(r) PROVE TypeOK'
  <2>1. /\ failures' \in [Replicas -> [Keys -> 0..MaxReplays]]
        /\ not_before' \in [Replicas -> [Keys -> 0..RetryDelay]]
    BY <1>7, ClearedType, Bounds DEF Crash, TypeOK
  <2>2. /\ todo' \in [Replicas -> SUBSET Keys] /\ done' \in [Replicas -> SUBSET Keys]
        /\ failed' \in [Replicas -> SUBSET Keys] /\ spent' \in [Replicas -> SUBSET Keys]
    BY <1>7 DEF Crash, TypeOK
  <2>3. running' \in [Replicas -> 0..MaxPublish] /\ faults' \in 0..MaxFaults
    BY <1>7, Bounds DEF Crash, TypeOK
  <2> QED
    BY <1>7, <2>1, <2>2, <2>3 DEF Crash, TypeOK, seen
<1>8. ASSUME NEW k \in Keys, OperatorRequeue(k) PROVE TypeOK'
  <2>1. [state |-> "pending", attempts |-> 0, wait |-> 0] \in Row
    BY Bounds DEF Row
  <2>2. rows' \in [Keys -> Row]
    BY <1>8, <2>1 DEF OperatorRequeue, Reopened, TypeOK
  <2>3. requeues' \in 0..MaxRequeues
    BY <1>8, Bounds DEF OperatorRequeue, TypeOK
  <2>4. claims' \in [Keys -> 0..MaxReplays]
    BY <1>8, Bounds DEF OperatorRequeue, TypeOK
  <2>5. carried' \in [Replicas -> [Keys -> 0..MaxReplays]]
    <3>1. ASSUME NEW r \in Replicas PROVE Counted(r, k) \in 0..MaxReplays
      BY CountedType
    <3> QED
      BY <1>8, <3>1 DEF OperatorRequeue, TypeOK
  <2> QED
    BY <1>8, <2>2, <2>3, <2>4, <2>5 DEF OperatorRequeue, TypeOK, batch, memory
<1>9. CASE Tick
  <2>1. ASSUME NEW k \in Keys PROVE [rows[k] EXCEPT !.wait = Less(@)] \in Row
    <3>1. rows[k] \in Row
      BY DEF TypeOK
    <3>2. Less(rows[k].wait) \in 0..Lease
      BY <3>1, LessType, Bounds DEF Row
    <3> QED
      BY <3>1, <3>2 DEF Row
  <2>2. rows' \in [Keys -> Row]
    BY <1>9, <2>1 DEF Tick
  <2>3. running' \in [Replicas -> 0..MaxPublish]
    <3>1. ASSUME NEW r \in Replicas
          PROVE  (IF Phase(r) = "publish" THEN running[r] + 1 ELSE running[r])
                   \in 0..MaxPublish
      <4>1. running[r] \in 0..MaxPublish
        BY DEF TypeOK
      <4>2. Phase(r) = "publish" => running[r] < MaxPublish
        BY <1>9 DEF Tick
      <4> QED
        BY <4>1, <4>2, Bounds
    <3> QED
      BY <1>9, <3>1 DEF Tick
  <2>4. not_before' \in [Replicas -> [Keys -> 0..RetryDelay]]
    BY <1>9, LessType, Bounds DEF Tick, TypeOK
  <2> QED
    BY <1>9, <2>2, <2>3, <2>4 DEF Tick, TypeOK, bounds, seen
<1>10. CASE UNCHANGED vars
  BY <1>10 DEF vars, TypeOK
<1> QED
  BY <1>1, <1>2, <1>3, <1>4, <1>5, <1>6, <1>7, <1>8, <1>9, <1>10 DEF Next, Pass

\* Type correctness of the fan-out, whatever the replicas and the database do.
THEOREM TypeCorrect == Spec => []TypeOK
  BY InitType, NextType, PTL DEF Spec

-----------------------------------------------------------------------------
(* Completed rows are published. *)

\* What a successful statement does to one row's state.
LEMMA StatementState ==
    ASSUME rows \in [Keys -> Row], NEW S, NEW k \in Keys
    PROVE  /\ Completed(S)[k].state =
                IF k \in S /\ rows[k].state = "pending" THEN "complete" ELSE rows[k].state
           /\ Quarantined(S)[k].state =
                IF k \in S /\ rows[k].state = "pending" THEN "quarantined" ELSE rows[k].state
           /\ Rescheduled(S)[k].state =
                IF k \in S /\ rows[k].state = "pending" /\ rows[k].attempts >= MaxReplays
                THEN "quarantined" ELSE rows[k].state
  BY DEF Completed, Quarantined, Rescheduled, Row

\* What a claim does to one row.
LEMMA ClaimedRow ==
    ASSUME rows \in [Keys -> Row], NEW S, NEW Q, NEW k \in Keys
    PROVE  /\ Claimed(S, Q)[k].state =
                IF k \in S /\ k \in Q THEN "quarantined" ELSE rows[k].state
           /\ Claimed(S, Q)[k].attempts =
                IF k \in S THEN Capped(rows[k].attempts + 1, MaxReplays) ELSE rows[k].attempts
  BY DEF Claimed, Row

\* How a step can change the state of a row.
LEMMA StateSteps ==
    ASSUME TypeOK, [Next]_vars, NEW k \in Keys
    PROVE  \/ rows'[k].state = rows[k].state
           \/ /\ rows[k].state = "pending" /\ rows'[k].state = "complete"
              /\ \E r \in Replicas : k \in done[r]
              /\ published' = published
           \/ /\ rows[k].state = "pending" /\ rows'[k].state = "quarantined"
              /\ \/ k \in Malformed
                 \/ /\ rows[k].attempts >= MaxReplays \/ \E r \in Replicas : k \in spent[r]
                    /\ claims' = claims /\ carried' = carried
           \/ /\ rows[k].state = "quarantined" /\ rows'[k].state = "pending"
              /\ requeues' = requeues + 1
<1>0. rows \in [Keys -> Row]
  BY DEF TypeOK
<1>1. ASSUME NEW r \in Replicas, NEW ok \in BOOLEAN, Claim(r, ok)
      PROVE  \/ rows'[k].state = rows[k].state
             \/ /\ rows[k].state = "pending" /\ rows'[k].state = "quarantined"
                /\ k \in Malformed
  <2>1. PICK keys \in kSubset(Capped(Cardinality(Due), BatchSize), Due) :
          rows' = Claimed(keys, IF ok THEN Malformed ELSE {})
    BY <1>1 DEF Claim
  <2>2. keys \subseteq Due
    BY DEF kSubset
  <2> QED
    BY <1>0, <2>1, <2>2, ClaimedRow DEF Due
<1>2. ASSUME NEW r \in Replicas, NEW j \in Keys, NEW outcome \in Outcomes,
             Publish(r, j, outcome)
      PROVE  rows'[k].state = rows[k].state
  BY <1>2 DEF Publish
<1>3. ASSUME NEW r \in Replicas, NEW ok \in BOOLEAN, Settle(r, ok)
      PROVE  \/ rows'[k].state = rows[k].state
             \/ /\ rows[k].state = "pending" /\ rows'[k].state = "complete"
                /\ k \in done[r] /\ published' = published
  BY <1>0, <1>3, StatementState DEF Settle, SettledRows, Execute, seen
<1>4. ASSUME NEW r \in Replicas, NEW j \in Keys, Exhaust(r, j)
      PROVE  rows'[k].state = rows[k].state
  BY <1>4 DEF Exhaust
<1>5. ASSUME NEW r \in Replicas, NEW j \in Keys, NEW ok \in BOOLEAN, Defer(r, j, ok)
      PROVE  \/ rows'[k].state = rows[k].state
             \/ /\ rows[k].state = "pending" /\ rows'[k].state = "quarantined"
                /\ rows[k].attempts >= MaxReplays /\ claims' = claims /\ carried' = carried
  BY <1>0, <1>5, StatementState DEF Defer, Execute, seen
<1>6. ASSUME NEW r \in Replicas, NEW ok \in BOOLEAN, GiveUp(r, ok)
      PROVE  \/ rows'[k].state = rows[k].state
             \/ /\ rows[k].state = "pending" /\ rows'[k].state = "quarantined"
                /\ k \in spent[r] /\ claims' = claims /\ carried' = carried
  BY <1>0, <1>6, StatementState DEF GiveUp, Execute, seen
<1>7. ASSUME NEW r \in Replicas, Crash(r) PROVE rows'[k].state = rows[k].state
  BY <1>7 DEF Crash
<1>8. ASSUME NEW j \in Keys, OperatorRequeue(j)
      PROVE  \/ rows'[k].state = rows[k].state
             \/ /\ rows[k].state = "quarantined" /\ rows'[k].state = "pending"
                /\ requeues' = requeues + 1
  BY <1>0, <1>8 DEF OperatorRequeue, Reopened
<1>9. CASE Tick
  BY <1>0, <1>9 DEF Tick, Row
<1>10. CASE UNCHANGED vars
  BY <1>10 DEF vars
<1> QED
  BY <1>1, <1>2, <1>3, <1>4, <1>5, <1>6, <1>7, <1>8, <1>9, <1>10 DEF Next, Pass

\* A worker settles only what the broker acknowledged, and the broker forgets nothing.
LEMMA DoneStep ==
    ASSUME TypeOK, DoneIsPublished, [Next]_vars
    PROVE  DoneIsPublished' /\ published \subseteq published'
<1>1. ASSUME NEW r \in Replicas, NEW k \in Keys, NEW outcome \in Outcomes,
             Publish(r, k, outcome)
      PROVE  DoneIsPublished' /\ published \subseteq published'
  <2>1. published \subseteq published'
    BY <1>1 DEF Publish
  <2>2. Acknowledged(outcome) => k \in published'
    BY <1>1 DEF Publish, Acknowledged
  <2>3. ASSUME NEW s \in Replicas PROVE done'[s] \subseteq published'
    BY <1>1, <2>1, <2>2 DEF Publish, DoneIsPublished, TypeOK
  <2> QED
    BY <2>1, <2>3 DEF DoneIsPublished
<1>2. ASSUME NEW r \in Replicas, NEW ok \in BOOLEAN, Claim(r, ok)
      PROVE  DoneIsPublished' /\ published \subseteq published'
  BY <1>2 DEF Claim, DoneIsPublished
<1>3. ASSUME NEW r \in Replicas, NEW ok \in BOOLEAN, Settle(r, ok)
      PROVE  DoneIsPublished' /\ published \subseteq published'
  BY <1>3 DEF Settle, DoneIsPublished, TypeOK, seen
<1>4. ASSUME NEW r \in Replicas, NEW k \in Keys, Exhaust(r, k)
      PROVE  DoneIsPublished' /\ published \subseteq published'
  BY <1>4 DEF Exhaust, DoneIsPublished, seen
<1>5. ASSUME NEW r \in Replicas, NEW k \in Keys, NEW ok \in BOOLEAN, Defer(r, k, ok)
      PROVE  DoneIsPublished' /\ published \subseteq published'
  BY <1>5 DEF Defer, DoneIsPublished, seen
<1>6. ASSUME NEW r \in Replicas, NEW ok \in BOOLEAN, GiveUp(r, ok)
      PROVE  DoneIsPublished' /\ published \subseteq published'
  BY <1>6 DEF GiveUp, DoneIsPublished, seen
<1>7. ASSUME NEW r \in Replicas, Crash(r)
      PROVE  DoneIsPublished' /\ published \subseteq published'
  BY <1>7 DEF Crash, DoneIsPublished, TypeOK, seen
<1>8. ASSUME NEW k \in Keys, OperatorRequeue(k)
      PROVE  DoneIsPublished' /\ published \subseteq published'
  BY <1>8 DEF OperatorRequeue, DoneIsPublished, batch
<1>9. CASE Tick
  BY <1>9 DEF Tick, DoneIsPublished, seen
<1>10. CASE UNCHANGED vars
  BY <1>10 DEF vars, DoneIsPublished
<1> QED
  BY <1>1, <1>2, <1>3, <1>4, <1>5, <1>6, <1>7, <1>8, <1>9, <1>10 DEF Next, Pass

\* No row is completed before the broker holds its event, for any number of
\* replicas that claim, publish and settle the same rows over one another.
THEOREM PublishedCorrect == Spec => []CompleteMeansPublished
<1> DEFINE Inv == TypeOK /\ DoneIsPublished /\ CompleteMeansPublished
<1>1. Init => Inv
  <2>1. Init => DoneIsPublished
    BY DEF Init, DoneIsPublished
  <2>2. Init => CompleteMeansPublished
    BY DEF Init, CompleteMeansPublished
  <2> QED
    BY <2>1, <2>2, InitType
<1>2. Inv /\ [Next]_vars => Inv'
  <2> SUFFICES ASSUME Inv, [Next]_vars PROVE Inv'
    OBVIOUS
  <2>1. TypeOK'
    BY NextType
  <2>2. DoneIsPublished' /\ published \subseteq published'
    BY DoneStep
  <2>3. CompleteMeansPublished'
    <3> SUFFICES ASSUME NEW k \in Keys, rows'[k].state = "complete"
                 PROVE  k \in published'
      BY DEF CompleteMeansPublished
    <3>1. CASE rows[k].state = "complete"
      BY <2>2, <3>1 DEF CompleteMeansPublished
    <3>2. CASE \E r \in Replicas : k \in done[r]
      BY <2>2, <3>2 DEF DoneIsPublished
    <3> QED
      BY <3>1, <3>2, StateSteps
  <2> QED
    BY <2>1, <2>2, <2>3
<1>3. Inv => CompleteMeansPublished
  OBVIOUS
<1> QED
  BY <1>1, <1>2, <1>3, PTL DEF Spec

\* Decided rows stay decided: only a requeue reopens a quarantined row, and nothing
\* a completed one.
THEOREM LateWritesCorrect == Spec => LateWritesIgnored
<1> DEFINE P == \A k \in Keys :
                  /\ rows[k].state = "complete" => rows'[k].state = "complete"
                  /\ rows[k].state = "quarantined" /\ rows'[k].state # "quarantined"
                        => requeues' = requeues + 1
<1>1. TypeOK /\ [Next]_vars => [P]_vars
  <2> SUFFICES ASSUME TypeOK, [Next]_vars, NEW k \in Keys
               PROVE  /\ rows[k].state = "complete" => rows'[k].state = "complete"
                      /\ rows[k].state = "quarantined" /\ rows'[k].state # "quarantined"
                            => requeues' = requeues + 1
    OBVIOUS
  <2> QED
    BY StateSteps
<1> QED
  BY <1>1, TypeCorrect, PTL DEF Spec, LateWritesIgnored

-----------------------------------------------------------------------------
(* A quarantine is earned. *)

\* What EarnedInv says of one replica and one event.
HoldsEarned(r, k) ==
    /\ Counted(r, k) <= claims[k] + carried[r][k]
    /\ k \in spent[r] => failures[r][k] = MaxReplays

\* No other statement counts an attempt.
LEMMA StatementAttempts ==
    ASSUME rows \in [Keys -> Row], NEW S, NEW k \in Keys
    PROVE  /\ Completed(S)[k].attempts = rows[k].attempts
           /\ Quarantined(S)[k].attempts = rows[k].attempts
           /\ Rescheduled(S)[k].attempts = rows[k].attempts
  BY DEF Completed, Quarantined, Rescheduled, Row

\* A replica that holds no more and has counted no more owes no more claims.
LEMMA CountedShrinks ==
    ASSUME TypeOK, TypeOK', NEW r \in Replicas, NEW k \in Keys,
           failures'[r][k] <= failures[r][k],
           k \in todo'[r] \cup done'[r] \cup failed'[r] => k \in todo[r] \cup done[r] \cup failed[r]
    PROVE  Counted(r, k)' <= Counted(r, k)
<1>1. failures[r][k] \in 0..MaxReplays /\ failures'[r][k] \in 0..MaxReplays
  BY DEF TypeOK
<1> QED
  BY <1>1, Bounds DEF Counted, Capped

\* A step that changes neither the claims nor what was carried over, and lets no
\* replica count or hold more, keeps what EarnedInv says.
LEMMA EarnedQuiet ==
    ASSUME TypeOK, TypeOK', NEW r \in Replicas, NEW k \in Keys, HoldsEarned(r, k),
           claims' = claims, carried' = carried,
           failures'[r][k] <= failures[r][k],
           k \in todo'[r] \cup done'[r] \cup failed'[r] => k \in todo[r] \cup done[r] \cup failed[r],
           k \in spent'[r] => k \in spent[r] /\ failures'[r][k] = failures[r][k]
    PROVE  HoldsEarned(r, k)'
<1>1. Counted(r, k)' <= Counted(r, k)
  BY CountedShrinks
<1>2. Counted(r, k) \in 0..MaxReplays
  BY CountedType
<1>3. Counted(r, k)' \in 0..MaxReplays
  <2>1. failures'[r][k] \in 0..MaxReplays
    BY DEF TypeOK
  <2> QED
    BY <2>1, CappedType, Bounds DEF Counted
<1>4. claims[k] \in 0..MaxReplays /\ carried[r][k] \in 0..MaxReplays
  BY DEF TypeOK
<1> QED
  BY <1>1, <1>2, <1>3, <1>4, Bounds DEF HoldsEarned

LEMMA EarnedStep ==
    ASSUME TypeOK, TypeOK', EarnedInv, [Next]_vars
    PROVE  EarnedInv'
<1>0. rows \in [Keys -> Row]
  BY DEF TypeOK
<1> DEFINE Goal == /\ \A k \in Keys : rows'[k].attempts <= claims'[k]
                   /\ \A s \in Replicas : spent'[s] # {} => todo'[s] = {} /\ done'[s] = {}
                   /\ \A s \in Replicas, k \in Keys : HoldsEarned(s, k)'
<1> SUFFICES Goal
  BY DEF EarnedInv, HoldsEarned
<1>a. /\ \A k \in Keys : rows[k].attempts <= claims[k]
      /\ \A s \in Replicas : spent[s] # {} => todo[s] = {} /\ done[s] = {}
      /\ \A s \in Replicas, k \in Keys : HoldsEarned(s, k)
  BY DEF EarnedInv, HoldsEarned
<1>b. /\ \A k \in Keys : rows[k].attempts \in 0..MaxReplays /\ claims[k] \in 0..MaxReplays
      /\ \A s \in Replicas, k \in Keys :
            failures[s][k] \in 0..MaxReplays /\ carried[s][k] \in 0..MaxReplays
  BY DEF TypeOK, Row
<1>1. ASSUME NEW r \in Replicas, NEW ok \in BOOLEAN, Claim(r, ok) PROVE Goal
  <2>1. PICK keys \in kSubset(Capped(Cardinality(Due), BatchSize), Due) :
          /\ rows' = Claimed(keys, IF ok THEN Malformed ELSE {})
          /\ todo' = [todo EXCEPT ![r] = IF ok THEN {k \in keys \ Malformed : not_before[r][k] = 0}
                                               ELSE {}]
          /\ claims' = [k \in Keys |-> IF k \in keys THEN Capped(claims[k] + 1, MaxReplays)
                                                    ELSE claims[k]]
    BY <1>1 DEF Claim
  <2>2. /\ done' = done /\ failed' = failed /\ spent' = spent /\ failures' = failures
        /\ carried' = carried /\ Phase(r) = "idle"
    BY <1>1 DEF Claim, memory
  <2>3. todo[r] = {} /\ done[r] = {} /\ failed[r] = {} /\ spent[r] = {}
    BY <2>2 DEF Phase
  <2>4. ASSUME NEW k \in Keys
        PROVE  claims'[k] = IF k \in keys THEN Capped(claims[k] + 1, MaxReplays) ELSE claims[k]
    BY <2>1
  <2>5. ASSUME NEW k \in Keys PROVE rows'[k].attempts <= claims'[k]
    <3>1. rows'[k].attempts = IF k \in keys THEN Capped(rows[k].attempts + 1, MaxReplays)
                              ELSE rows[k].attempts
      BY <1>0, <2>1, ClaimedRow
    <3> QED
      BY <1>a, <1>b, <2>4, <3>1, Bounds DEF Capped
  <2>6. ASSUME NEW s \in Replicas, NEW k \in Keys PROVE HoldsEarned(s, k)'
    <3>1. HoldsEarned(s, k)
      BY <1>a
    <3>2. CASE s = r
      <4>1. k \in todo'[r] => k \in keys
        BY <2>1 DEF TypeOK
      <4>2. failures[r][k] <= claims[k] + carried[r][k]
        BY <2>3, <3>1, <3>2 DEF HoldsEarned, Counted
      <4>3. Counted(r, k)' = IF k \in todo'[r] THEN Capped(failures[r][k] + 1, MaxReplays)
                             ELSE failures[r][k]
        BY <2>2, <2>3 DEF Counted
      <4>4. Counted(r, k)' <= claims'[k] + carried'[r][k]
        BY <1>b, <2>2, <2>4, <4>1, <4>2, <4>3, Bounds DEF Capped
      <4> QED
        BY <2>2, <2>3, <3>2, <4>4 DEF HoldsEarned
    <3>3. CASE s # r
      <4>1. todo'[s] = todo[s]
        BY <2>1, <3>3 DEF TypeOK
      <4>2. Counted(s, k)' = Counted(s, k)
        BY <2>2, <4>1 DEF Counted
      <4>3. Counted(s, k) \in 0..MaxReplays
        BY CountedType
      <4>4. claims[k] <= claims'[k] /\ claims'[k] \in 0..MaxReplays
        BY <1>b, <2>4, Bounds DEF Capped
      <4> QED
        BY <1>b, <2>2, <3>1, <4>2, <4>3, <4>4 DEF HoldsEarned
    <3> QED
      BY <3>2, <3>3
  <2>7. ASSUME NEW s \in Replicas, spent'[s] # {} PROVE todo'[s] = {} /\ done'[s] = {}
    <3>1. s # r
      BY <2>2, <2>3, <2>7
    <3> QED
      BY <1>a, <2>1, <2>2, <2>7, <3>1 DEF TypeOK
  <2> QED
    BY <2>5, <2>6, <2>7
<1>2. ASSUME NEW r \in Replicas, NEW k \in Keys, NEW outcome \in Outcomes,
             Publish(r, k, outcome)
      PROVE  Goal
  <2>1. rows' = rows /\ claims' = claims /\ carried' = carried /\ spent' = spent
        /\ failures' = failures /\ Phase(r) = "publish"
    BY <1>2 DEF Publish, memory
  <2>2. ASSUME NEW s \in Replicas
        PROVE  /\ todo'[s] \cup done'[s] \cup failed'[s]
                     \subseteq todo[s] \cup done[s] \cup failed[s]
               /\ s # r => todo'[s] = todo[s] /\ done'[s] = done[s]
    BY <1>2 DEF Publish, TypeOK
  <2>3. spent[r] = {}
    BY <1>a, <2>1 DEF Phase
  <2>4. ASSUME NEW s \in Replicas, NEW j \in Keys PROVE HoldsEarned(s, j)'
    BY <1>a, <1>b, <2>1, <2>2, EarnedQuiet
  <2> QED
    BY <1>a, <2>1, <2>2, <2>3, <2>4
<1>3. ASSUME NEW r \in Replicas, NEW ok \in BOOLEAN, Settle(r, ok) PROVE Goal
  <2>1. /\ claims' = claims /\ carried' = carried /\ todo' = todo /\ failed' = failed
        /\ spent' = spent /\ Phase(r) = "settle"
    BY <1>3 DEF Settle, seen
  <2>2. ASSUME NEW k \in Keys PROVE rows'[k].attempts = rows[k].attempts
    BY <1>0, <1>3, StatementAttempts DEF Settle, SettledRows, Execute
  <2>3. spent[r] = {}
    BY <1>a, <2>1 DEF Phase
  <2>4. ASSUME NEW s \in Replicas, NEW k \in Keys
        PROVE  /\ done'[s] \subseteq done[s]
               /\ failures'[s][k] = failures[s][k] \/ (s = r /\ failures'[s][k] = 0)
    BY <1>3 DEF Settle, Cleared, TypeOK
  <2>5. ASSUME NEW s \in Replicas, NEW k \in Keys PROVE HoldsEarned(s, k)'
    <3>1. failures'[s][k] <= failures[s][k]
      BY <1>b, <2>4
    <3>2. k \in spent'[s] => k \in spent[s] /\ failures'[s][k] = failures[s][k]
      BY <2>1, <2>3, <2>4
    <3>3. k \in todo'[s] \cup done'[s] \cup failed'[s] => k \in todo[s] \cup done[s] \cup failed[s]
      BY <2>1, <2>4
    <3> QED
      BY <1>a, <2>1, <3>1, <3>2, <3>3, EarnedQuiet
  <2>6. ASSUME NEW s \in Replicas PROVE spent'[s] # {} => todo'[s] = {} /\ done'[s] = {}
    <3>1. done'[s] = done[s] \/ s = r
      BY <1>3 DEF Settle, TypeOK
    <3> QED
      BY <1>a, <2>1, <2>3, <3>1
  <2> QED
    BY <1>a, <2>1, <2>2, <2>5, <2>6
<1>4. ASSUME NEW r \in Replicas, NEW k \in Keys, Exhaust(r, k) PROVE Goal
  <2>1. /\ claims' = claims /\ carried' = carried /\ rows' = rows /\ todo' = todo /\ done' = done
        /\ Phase(r) = "defer" /\ k \in failed[r] /\ failures[r][k] + 1 >= MaxReplays
    BY <1>4 DEF Exhaust, Exhausted, seen
  <2>2. todo[r] = {} /\ done[r] = {}
    BY <2>1 DEF Phase
  <2>3. MaxReplays <= claims[k] + carried[r][k]
    <3>1. Counted(r, k) = MaxReplays
      BY <1>b, <2>1, Bounds DEF Counted, Capped
    <3> QED
      BY <1>a, <3>1 DEF HoldsEarned
  <2>4. ASSUME NEW s \in Replicas, NEW j \in Keys PROVE HoldsEarned(s, j)'
    <3>1. CASE s = r /\ j = k
      <4>1. failures'[r][k] = MaxReplays /\ k \notin failed'[r]
        BY <1>4 DEF Exhaust, TypeOK
      <4>2. Counted(r, k)' = MaxReplays
        BY <2>1, <2>2, <4>1 DEF Counted
      <4> QED
        BY <2>1, <2>3, <3>1, <4>1, <4>2 DEF HoldsEarned
    <3>2. CASE ~(s = r /\ j = k)
      <4>1. /\ failures'[s][j] = failures[s][j]
            /\ j \in failed'[s] => j \in failed[s]
            /\ j \in spent'[s] => j \in spent[s]
        BY <1>4, <3>2 DEF Exhaust, TypeOK
      <4> QED
        BY <1>a, <1>b, <2>1, <4>1, EarnedQuiet
    <3> QED
      BY <3>1, <3>2
  <2>5. ASSUME NEW s \in Replicas, spent'[s] # {} PROVE todo'[s] = {} /\ done'[s] = {}
    <3>1. s = r \/ spent'[s] = spent[s]
      BY <1>4 DEF Exhaust, TypeOK
    <3> QED
      BY <1>a, <2>1, <2>2, <2>5, <3>1
  <2> QED
    BY <1>a, <2>1, <2>4, <2>5
<1>5. ASSUME NEW r \in Replicas, NEW k \in Keys, NEW ok \in BOOLEAN, Defer(r, k, ok)
      PROVE  Goal
  <2>1. /\ claims' = claims /\ carried' = carried /\ todo' = todo /\ done' = done /\ spent' = spent
        /\ Phase(r) = "defer" /\ k \in failed[r] /\ ~(failures[r][k] + 1 >= MaxReplays)
    BY <1>5 DEF Defer, Exhausted, seen
  <2>2. todo[r] = {} /\ done[r] = {}
    BY <2>1 DEF Phase
  <2>3. failures[r][k] + 1 <= claims[k] + carried[r][k]
    <3>1. Counted(r, k) = failures[r][k] + 1
      BY <1>b, <2>1, Bounds DEF Counted, Capped
    <3> QED
      BY <1>a, <3>1 DEF HoldsEarned
  <2>4. ASSUME NEW j \in Keys PROVE rows'[j].attempts = rows[j].attempts
    BY <1>0, <1>5, StatementAttempts DEF Defer, Execute
  <2>5. ASSUME NEW s \in Replicas, NEW j \in Keys PROVE HoldsEarned(s, j)'
    <3>1. CASE s = r /\ j = k
      <4>1. failures'[r][k] = failures[r][k] + 1 /\ k \notin failed'[r]
        BY <1>5 DEF Defer, TypeOK
      <4>2. k \notin spent[r]
        <5>1. k \in spent[r] => failures[r][k] = MaxReplays
          BY <1>a DEF HoldsEarned
        <5> QED
          BY <1>b, <2>1, <5>1, Bounds
      <4>3. Counted(r, k)' = failures[r][k] + 1
        BY <2>1, <2>2, <4>1 DEF Counted
      <4> QED
        BY <2>1, <2>3, <3>1, <4>2, <4>3 DEF HoldsEarned
    <3>2. CASE ~(s = r /\ j = k)
      <4>1. failures'[s][j] = failures[s][j] /\ (j \in failed'[s] => j \in failed[s])
        BY <1>5, <3>2 DEF Defer, TypeOK
      <4> QED
        BY <1>a, <1>b, <2>1, <4>1, EarnedQuiet
    <3> QED
      BY <3>1, <3>2
  <2> QED
    BY <1>a, <2>1, <2>4, <2>5
<1>6. ASSUME NEW r \in Replicas, NEW ok \in BOOLEAN, GiveUp(r, ok) PROVE Goal
  <2>1. /\ claims' = claims /\ carried' = carried /\ todo' = todo /\ done' = done
        /\ failed' = failed
    BY <1>6 DEF GiveUp, seen
  <2>2. ASSUME NEW k \in Keys PROVE rows'[k].attempts = rows[k].attempts
    BY <1>0, <1>6, StatementAttempts DEF GiveUp, Execute
  <2>3. ASSUME NEW s \in Replicas, NEW k \in Keys
        PROVE  /\ failures'[s][k] = failures[s][k] \/ (s = r /\ failures'[s][k] = 0)
               /\ spent'[s] = IF s = r THEN {} ELSE spent[s]
    BY <1>6 DEF GiveUp, Cleared, TypeOK
  <2>4. ASSUME NEW s \in Replicas, NEW k \in Keys PROVE HoldsEarned(s, k)'
    <3>1. failures'[s][k] <= failures[s][k]
      BY <1>b, <2>3
    <3>2. k \in spent'[s] => k \in spent[s] /\ failures'[s][k] = failures[s][k]
      BY <2>3
    <3> QED
      BY <1>a, <2>1, <3>1, <3>2, EarnedQuiet
  <2>5. ASSUME NEW s \in Replicas, spent'[s] # {} PROVE todo'[s] = {} /\ done'[s] = {}
    <3>1. spent'[s] = IF s = r THEN {} ELSE spent[s]
      BY <1>6 DEF GiveUp, TypeOK
    <3> QED
      BY <1>a, <2>1, <2>5, <3>1
  <2> QED
    BY <1>a, <2>1, <2>2, <2>4, <2>5
<1>7. ASSUME NEW r \in Replicas, Crash(r) PROVE Goal
  <2>1. claims' = claims /\ carried' = carried /\ rows' = rows
    BY <1>7 DEF Crash, seen
  <2>2. ASSUME NEW s \in Replicas
        PROVE  /\ todo'[s] = IF s = r THEN {} ELSE todo[s]
               /\ done'[s] = IF s = r THEN {} ELSE done[s]
               /\ failed'[s] = IF s = r THEN {} ELSE failed[s]
               /\ spent'[s] = IF s = r THEN {} ELSE spent[s]
    BY <1>7 DEF Crash, TypeOK
  <2>3. ASSUME NEW s \in Replicas, NEW k \in Keys
        PROVE  failures'[s][k] = IF s = r THEN 0 ELSE failures[s][k]
    BY <1>7 DEF Crash, Cleared, TypeOK
  <2>4. ASSUME NEW s \in Replicas, NEW k \in Keys PROVE HoldsEarned(s, k)'
    <3>1. failures'[s][k] <= failures[s][k]
      BY <1>b, <2>3
    <3>2. k \in spent'[s] => k \in spent[s] /\ failures'[s][k] = failures[s][k]
      BY <2>2, <2>3
    <3>3. k \in todo'[s] \cup done'[s] \cup failed'[s] => k \in todo[s] \cup done[s] \cup failed[s]
      BY <2>2
    <3> QED
      BY <1>a, <2>1, <3>1, <3>2, <3>3, EarnedQuiet
  <2> QED
    BY <1>a, <2>1, <2>2, <2>4
<1>8. ASSUME NEW k \in Keys, OperatorRequeue(k) PROVE Goal
  <2>1. /\ todo' = todo /\ done' = done /\ failed' = failed
        /\ spent' = spent /\ failures' = failures
    BY <1>8 DEF OperatorRequeue, batch, memory
  <2>2. ASSUME NEW j \in Keys
        PROVE  /\ claims'[j] = IF j = k THEN 0 ELSE claims[j]
               /\ rows'[j].attempts = IF j = k THEN 0 ELSE rows[j].attempts
    BY <1>0, <1>8 DEF OperatorRequeue, Reopened, TypeOK
  <2>3. ASSUME NEW j \in Keys PROVE rows'[j].attempts <= claims'[j]
    BY <1>a, <2>2
  <2>4. ASSUME NEW s \in Replicas, NEW j \in Keys PROVE HoldsEarned(s, j)'
    <3>1. Counted(s, j)' = Counted(s, j) /\ Counted(s, j) \in 0..MaxReplays
      <4>1. Counted(s, j)' = Counted(s, j)
        BY <2>1 DEF Counted
      <4> QED
        BY <4>1, CountedType
    <3>2. carried'[s][j] = IF j = k THEN Counted(s, k) ELSE carried[s][j]
      BY <1>8 DEF OperatorRequeue, TypeOK
    <3> QED
      BY <1>a, <1>b, <2>1, <2>2, <3>1, <3>2 DEF HoldsEarned
  <2> QED
    BY <1>a, <2>1, <2>3, <2>4
<1>9. CASE Tick
  <2>1. /\ claims' = claims /\ carried' = carried /\ todo' = todo /\ done' = done
        /\ failed' = failed /\ spent' = spent /\ failures' = failures
    BY <1>9 DEF Tick, seen
  <2>2. ASSUME NEW j \in Keys PROVE rows'[j].attempts = rows[j].attempts
    BY <1>0, <1>9 DEF Tick, Row
  <2>3. ASSUME NEW s \in Replicas, NEW j \in Keys PROVE HoldsEarned(s, j)'
    BY <1>a, <1>b, <2>1, EarnedQuiet
  <2> QED
    BY <1>a, <2>1, <2>2, <2>3
<1>10. CASE UNCHANGED vars
  <2>1. /\ claims' = claims /\ carried' = carried /\ rows' = rows /\ todo' = todo /\ done' = done
        /\ failed' = failed /\ spent' = spent /\ failures' = failures
    BY <1>10 DEF vars
  <2>2. ASSUME NEW s \in Replicas, NEW j \in Keys PROVE HoldsEarned(s, j)'
    BY <1>a, <1>b, <2>1, EarnedQuiet
  <2> QED
    BY <1>a, <2>1, <2>2
<1> QED
  BY <1>1, <1>2, <1>3, <1>4, <1>5, <1>6, <1>7, <1>8, <1>9, <1>10 DEF Next, Pass

\* A claim count goes down only when its row is reopened, and only then can what was
\* carried over change.
LEMMA HistorySteps ==
    ASSUME TypeOK, TypeOK', [Next]_vars, NEW k \in Keys
    PROVE  \/ carried' = carried /\ claims'[k] >= claims[k]
           \/ rows'[k].state = "pending"
           \/ /\ claims'[k] = claims[k]
              /\ \A r \in Replicas : carried'[r][k] = carried[r][k]
<1>0. claims[k] \in 0..MaxReplays /\ rows \in [Keys -> Row]
  BY DEF TypeOK
<1>1. ASSUME NEW r \in Replicas, NEW ok \in BOOLEAN, Claim(r, ok)
      PROVE  carried' = carried /\ claims'[k] >= claims[k]
  <2>1. claims'[k] = claims[k] \/ claims'[k] = Capped(claims[k] + 1, MaxReplays)
    BY <1>1 DEF Claim
  <2> QED
    BY <1>0, <1>1, <2>1, Bounds DEF Claim, Capped
<1>2. ASSUME NEW j \in Keys, OperatorRequeue(j)
      PROVE  \/ rows'[k].state = "pending"
             \/ /\ claims'[k] = claims[k]
                /\ \A r \in Replicas : carried'[r][k] = carried[r][k]
  BY <1>0, <1>2 DEF OperatorRequeue, Reopened, TypeOK
<1>3. ASSUME carried' = carried, claims' = claims
      PROVE  carried' = carried /\ claims'[k] >= claims[k]
  BY <1>0, <1>3
<1> QED
  BY <1>1, <1>2, <1>3 DEF Next, Pass, Publish, Settle, Exhaust, Defer, GiveUp, Crash,
                          Tick, seen, vars

\* What QuarantineIsEarned asks for one event.
Earned(k) ==
    \/ k \in Malformed
    \/ claims[k] >= MaxReplays
    \/ \E r \in Replicas : carried[r][k] > 0 /\ claims[k] + carried[r][k] >= MaxReplays

\* No well-formed row is set aside before it was claimed as often as the ceiling says
\* since its last requeue, save for the failures a replica had already counted by
\* then, however its claims are spread over replicas, restarts and failed statements.
THEOREM QuarantineCorrect == Spec => []QuarantineIsEarned
<1> DEFINE Inv == TypeOK /\ EarnedInv /\ QuarantineIsEarned
<1>1. Init => Inv
  <2>1. Init => EarnedInv
    <3> SUFFICES ASSUME Init PROVE EarnedInv
      OBVIOUS
    <3>1. \A k \in Keys : rows[k].attempts = 0 /\ claims[k] = 0
      BY DEF Init
    <3>2. \A r \in Replicas : spent[r] = {}
      BY DEF Init
    <3>3. \A r \in Replicas, k \in Keys :
             carried[r][k] = 0 /\ failures[r][k] = 0
             /\ k \notin todo[r] \cup done[r] \cup failed[r]
      BY DEF Init
    <3> QED
      BY <3>1, <3>2, <3>3 DEF EarnedInv, Counted
  <2>2. Init => QuarantineIsEarned
    BY DEF Init, QuarantineIsEarned
  <2> QED
    BY <2>1, <2>2, InitType
<1>2. Inv /\ [Next]_vars => Inv'
  <2> SUFFICES ASSUME Inv, [Next]_vars PROVE Inv'
    OBVIOUS
  <2>1. TypeOK'
    BY NextType
  <2>2. EarnedInv'
    BY <2>1, EarnedStep
  <2>3. QuarantineIsEarned'
    <3> SUFFICES ASSUME NEW k \in Keys, rows'[k].state = "quarantined"
                 PROVE  Earned(k)'
      BY DEF QuarantineIsEarned, Earned
    <3>1. /\ claims[k] \in 0..MaxReplays /\ claims'[k] \in 0..MaxReplays
          /\ rows[k].attempts \in 0..MaxReplays
          /\ \A r \in Replicas : carried[r][k] \in 0..MaxReplays
      BY <2>1 DEF TypeOK, Row
    <3>2. CASE rows[k].state = "quarantined"
      <4>1. Earned(k)
        BY <3>2 DEF QuarantineIsEarned, Earned
      <4>2. \/ carried' = carried /\ claims'[k] >= claims[k]
            \/ /\ claims'[k] = claims[k]
               /\ \A r \in Replicas : carried'[r][k] = carried[r][k]
        BY <2>1, HistorySteps
      <4> QED
        BY <3>1, <4>1, <4>2, Bounds DEF Earned
    <3>3. CASE k \in Malformed
      BY <3>3 DEF Earned
    <3>4. CASE rows[k].attempts >= MaxReplays /\ claims' = claims
      BY <3>1, <3>4, Bounds DEF EarnedInv, Earned
    <3>5. ASSUME NEW r \in Replicas, k \in spent[r], claims' = claims, carried' = carried
          PROVE  Earned(k)'
      <4>1. Counted(r, k) >= MaxReplays
        <5>1. failures[r][k] = MaxReplays
          BY <3>5 DEF EarnedInv
        <5> QED
          BY <5>1, Bounds DEF Counted, Capped
      <4>2. Counted(r, k) \in 0..MaxReplays
        BY CountedType
      <4>3. claims[k] + carried[r][k] >= MaxReplays
        <5>1. Counted(r, k) <= claims[k] + carried[r][k]
          BY DEF EarnedInv
        <5> QED
          BY <3>1, <4>1, <4>2, <5>1, Bounds
      <4> QED
        BY <3>1, <3>5, <4>3, Bounds DEF Earned
    <3> QED
      BY <3>2, <3>3, <3>4, <3>5, StateSteps
  <2> QED
    BY <2>1, <2>2, <2>3
<1>3. Inv => QuarantineIsEarned
  OBVIOUS
<1> QED
  BY <1>1, <1>2, <1>3, PTL DEF Spec
=============================================================================
