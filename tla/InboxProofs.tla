------------------------------ MODULE InboxProofs ------------------------------
(***************************************************************************)
(* Proofs about CommandInbox, and about FileInbox which extends it, for    *)
(* every set of keys, scopes and agents and every capacity, quota, attempt *)
(* ceiling and window, whatever the bounds on failures and crashes.        *)
(***************************************************************************)
EXTENDS FileInbox, FiniteSetTheorems, SequenceTheorems, WellFoundedInduction, TLAPS

-----------------------------------------------------------------------------
(* Typing of the operators. *)

LEMMA FreshEntryType ==
    ASSUME NEW c \in Command, NEW n \in Nat \ {0}
    PROVE  FreshEntry(c, n) \in Entry
BY BoundsAssumption DEF FreshEntry, Entry, Command, Time

LEMMA DeliveredEntryType ==
    ASSUME NEW e \in Entry, NEW t \in Nat, e.attempts < MaxAttempts
    PROVE  [e EXCEPT !.attempts = @ + 1, !.last_delivered = t] \in Entry
<1>1. e.attempts + 1 \in 0..MaxAttempts
  BY BoundsAssumption DEF Entry
<1>2. t \in Time
  BY DEF Time
<1> QED
  BY <1>1, <1>2 DEF Entry

LEMMA AcknowledgedEntryType ==
    ASSUME NEW e \in Entry
    PROVE  [e EXCEPT !.acknowledged = TRUE] \in Entry
BY DEF Entry

LEMMA CancelledEntryType ==
    ASSUME NEW e \in Entry, NEW t \in Time
    PROVE  [e EXCEPT !.cancelled = TRUE, !.cancelled_at = t] \in Entry
BY DEF Entry

LEMMA EligibleFacts ==
    ASSUME NEW st, NEW a, NEW limit, NEW t
    PROVE  \A k \in Deliverable(st, a, limit, t) :
              /\ k \in DOMAIN st.entries
              /\ st.entries[k].attempts < MaxAttempts
              /\ ~st.entries[k].acknowledged
              /\ ~st.entries[k].cancelled
BY DEF Deliverable, Eligible

LEMMA MaintainParts ==
    ASSUME NEW st, NEW t
    PROVE  /\ Settled(st, t) \subseteq DOMAIN st.entries
           /\ DOMAIN RetiredAt(st, t) = Settled(st, t) \cup DOMAIN st.retired
           /\ Expired(st, t) \subseteq DOMAIN RetiredAt(st, t)
BY DEF Settled, RetiredAt, Expired

LEMMA TypeInit == Init => TypeOK
BY FS_EmptySet, BoundsAssumption DEF Init, TypeOK, NewInbox, EmptyMap, Time, NoTime

LEMMA TypeNext == TypeOK /\ [Next]_vars => TypeOK'
<1> SUFFICES ASSUME TypeOK, [Next]_vars PROVE TypeOK'
  OBVIOUS
<1> USE BoundsAssumption, ScopesAssumption
<1>1. ASSUME NEW c \in Command, Record(c) PROVE TypeOK'
  <2>1. FreshEntry(c, inbox.next_sequence) \in Entry
    BY FreshEntryType DEF TypeOK
  <2>2. c.key \in Keys /\ ScopeOf[c.key] \in Scopes
    BY DEF Command
  <2>3. IsFiniteSet(DOMAIN inbox.entries \cup {c.key})
    BY FS_AddElement DEF TypeOK
  <2> QED
    BY <1>1, <2>1, <2>2, <2>3 DEF TypeOK, Record, InsertRecorded
<1>2. ASSUME NEW c \in Command, RecordRefused(c) PROVE TypeOK'
  BY <1>2 DEF RecordRefused, TypeOK, vars
<1>3. ASSUME NEW a \in Agents, NEW n \in PollLimits, Claim(a, n) PROVE TypeOK'
  <2> DEFINE taken == Deliverable(inbox, a, n, now)
  <2>1. \A k \in DOMAIN inbox.entries :
           (k \in taken) =>
             [inbox.entries[k] EXCEPT !.attempts = @ + 1, !.last_delivered = now]
               \in Entry
    BY EligibleFacts, DeliveredEntryType DEF TypeOK
  <2> HIDE DEF taken
  <2>2. inbox' = MarkDelivered(inbox, taken, now) /\ now' = now
    BY <1>3 DEF Claim, taken
  <2>3. settled_at' \in [Keys -> Time]
    BY <1>3 DEF Claim, TypeOK, Time
  <2> QED
    BY <2>1, <2>2, <2>3 DEF TypeOK, MarkDelivered
<1>4. ASSUME NEW a \in Agents, NEW k \in Keys, NEW n \in 0..MaxAttempts,
             Acknowledge(a, k, n)
      PROVE TypeOK'
  <2>1. k \in DOMAIN inbox.entries
    BY <1>4 DEF Acknowledge, AckResult
  <2>2. [inbox.entries[k] EXCEPT !.acknowledged = TRUE] \in Entry
    BY <2>1, AcknowledgedEntryType DEF TypeOK
  <2> QED
    BY <1>4, <2>1, <2>2 DEF TypeOK, Acknowledge, SetAcknowledged, UpdateEntry, Time
<1>5. ASSUME NEW k \in Keys, Cancel(k) PROVE TypeOK'
  <2>1. k \in DOMAIN inbox.entries
    BY <1>5 DEF Cancel, CancelResult
  <2>2. [inbox.entries[k] EXCEPT !.cancelled = TRUE, !.cancelled_at = now] \in Entry
    BY <2>1, CancelledEntryType DEF TypeOK, Time
  <2> QED
    BY <1>5, <2>1, <2>2 DEF TypeOK, Cancel, SetCancelled, UpdateEntry, Time
<1>6. ASSUME Sweep PROVE TypeOK'
  <2>1. RetiredAt(inbox, now) \in [DOMAIN RetiredAt(inbox, now) -> Nat]
    <3>1. ASSUME NEW k \in Settled(inbox, now), inbox.entries[k].cancelled
          PROVE  inbox.entries[k].cancelled_at \in Nat
      BY <3>1 DEF Settled, IsSettled, TypeOK, Entry, Time, NoTime
    <3> QED
      BY <3>1, MaintainParts DEF RetiredAt, TypeOK
  <2>2. IsFiniteSet(DOMAIN RetiredAt(inbox, now))
    BY MaintainParts, FS_Subset, FS_Union DEF TypeOK
  <2>3. ASSUME NEW s \in Scopes
        PROVE  Cardinality(InScope(Expired(inbox, now), s)) \in Nat
    BY <2>2, MaintainParts, FS_Subset, FS_CardinalityType DEF InScope
  <2>4. /\ IsFiniteSet(DOMAIN inbox.entries \ Settled(inbox, now))
        /\ IsFiniteSet(DOMAIN RetiredAt(inbox, now) \ Expired(inbox, now))
    BY <2>2, FS_Subset DEF TypeOK
  <2>5. Maintain(inbox, now).scope_counts \in [Scopes -> Nat]
    BY <2>3 DEF TypeOK, Maintain, SaturatingSub
  <2> QED
    BY <1>6, <2>1, <2>4, <2>5, MaintainParts DEF TypeOK, Sweep, Maintain
<1>7. ASSUME Tick PROVE TypeOK'
  BY <1>7 DEF Tick, TypeOK
<1>8. ASSUME UNCHANGED vars PROVE TypeOK'
  BY <1>8 DEF vars, TypeOK
<1> QED
  BY <1>1, <1>2, <1>3, <1>4, <1>5, <1>6, <1>7, <1>8 DEF Next

\* Every reachable inbox is well typed.
THEOREM TypeCorrect == Spec => []TypeOK
BY TypeInit, TypeNext, PTL DEF Spec

-----------------------------------------------------------------------------
(* Settling is exclusive. *)

LEMMA ExclusiveNext ==
    TypeOK /\ CancelledMeansUndelivered /\ [Next]_vars => CancelledMeansUndelivered'
<1> SUFFICES ASSUME TypeOK, CancelledMeansUndelivered, [Next]_vars
             PROVE  CancelledMeansUndelivered'
  OBVIOUS
<1> DEFINE Excl(e) == /\ e.cancelled => e.attempts = 0 /\ ~e.acknowledged
                      /\ e.acknowledged => e.attempts > 0
                      /\ e.attempts > 0 <=> e.last_delivered # NoTime
<1>0. \A k \in DOMAIN inbox.entries : inbox.entries[k] \in Entry /\ Excl(inbox.entries[k])
  BY DEF TypeOK, CancelledMeansUndelivered
<1>s. SUFFICES \A k \in DOMAIN inbox'.entries : Excl(inbox'.entries[k])
  BY DEF CancelledMeansUndelivered
<1>1. ASSUME NEW c \in Command, Record(c)
      PROVE  \A k \in DOMAIN inbox'.entries : Excl(inbox'.entries[k])
  <2>1. Excl(FreshEntry(c, inbox.next_sequence))
    BY DEF FreshEntry
  <2> QED
    BY <1>0, <1>1, <2>1 DEF Record, InsertRecorded
<1>3. ASSUME NEW a \in Agents, NEW n \in PollLimits, Claim(a, n)
      PROVE  \A k \in DOMAIN inbox'.entries : Excl(inbox'.entries[k])
  <2> DEFINE taken == Deliverable(inbox, a, n, now)
             Handed(e) == [e EXCEPT !.attempts = @ + 1, !.last_delivered = now]
  <2>1. ASSUME NEW e \in Entry, ~e.cancelled, ~e.acknowledged
        PROVE  Excl(Handed(e))
    <3>1. /\ Handed(e).cancelled = e.cancelled
          /\ Handed(e).acknowledged = e.acknowledged
          /\ Handed(e).attempts = e.attempts + 1
          /\ Handed(e).last_delivered = now
      BY DEF Entry
    <3>2. e.attempts + 1 > 0 /\ now # NoTime
      BY BoundsAssumption DEF Entry, TypeOK, NoTime
    <3> HIDE DEF Handed
    <3> QED
      BY <2>1, <3>1, <3>2
  <2>2. \A k \in taken : ~inbox.entries[k].cancelled /\ ~inbox.entries[k].acknowledged
    BY EligibleFacts
  <2>3. inbox' = MarkDelivered(inbox, taken, now)
    BY <1>3 DEF Claim
  <2> HIDE DEF taken
  <2>4. /\ DOMAIN inbox'.entries = DOMAIN inbox.entries
        /\ \A k \in DOMAIN inbox.entries :
              inbox'.entries[k] = IF k \in taken THEN Handed(inbox.entries[k])
                                  ELSE inbox.entries[k]
    BY <2>3 DEF MarkDelivered
  <2> HIDE DEF Handed, Excl
  <2>5. \A k \in DOMAIN inbox.entries :
           IF k \in taken THEN Excl(Handed(inbox.entries[k]))
                          ELSE Excl(inbox.entries[k])
    BY <1>0, <2>1, <2>2
  <2> QED
    BY <2>4, <2>5
<1>4. ASSUME NEW a \in Agents, NEW k \in Keys, NEW n \in 0..MaxAttempts,
             Acknowledge(a, k, n)
      PROVE  \A j \in DOMAIN inbox'.entries : Excl(inbox'.entries[j])
  <2> DEFINE e == inbox.entries[k]
             f == [e EXCEPT !.acknowledged = TRUE]
  <2>1. k \in DOMAIN inbox.entries /\ n # 0 /\ ~(n > e.attempts)
    BY <1>4 DEF Acknowledge, AckResult
  <2>2. e \in Entry /\ Excl(e)
    BY <1>0, <2>1
  <2>3. e.attempts > 0
    BY <2>1, <2>2, BoundsAssumption DEF Entry
  <2>4. /\ f.cancelled = e.cancelled
        /\ f.acknowledged = TRUE
        /\ f.attempts = e.attempts
        /\ f.last_delivered = e.last_delivered
    BY <2>2 DEF Entry
  <2>5. e.cancelled => ~(e.attempts > 0)
    BY <2>2
  <2>6. Excl(f)
    BY <2>2, <2>3, <2>4, <2>5
  <2> HIDE DEF f
  <2>7. inbox'.entries = [inbox.entries EXCEPT ![k] = f]
    BY <1>4 DEF Acknowledge, SetAcknowledged, UpdateEntry, f
  <2> QED
    BY <1>0, <2>1, <2>6, <2>7
<1>5. ASSUME NEW k \in Keys, Cancel(k)
      PROVE  \A j \in DOMAIN inbox'.entries : Excl(inbox'.entries[j])
  <2> DEFINE e == inbox.entries[k]
             f == [e EXCEPT !.cancelled = TRUE, !.cancelled_at = now]
  <2>1. k \in DOMAIN inbox.entries /\ ~(e.attempts > 0)
    BY <1>5 DEF Cancel, CancelResult
  <2>2. e \in Entry /\ Excl(e)
    BY <1>0, <2>1
  <2>3. e.attempts = 0
    BY <2>1, <2>2, BoundsAssumption DEF Entry
  <2>4. /\ f.cancelled = TRUE
        /\ f.acknowledged = e.acknowledged
        /\ f.attempts = e.attempts
        /\ f.last_delivered = e.last_delivered
    BY <2>2 DEF Entry
  <2>6. Excl(f)
    BY <2>1, <2>2, <2>3, <2>4
  <2> HIDE DEF f
  <2>7. inbox'.entries = [inbox.entries EXCEPT ![k] = f]
    BY <1>5 DEF Cancel, SetCancelled, UpdateEntry, f
  <2> QED
    BY <1>0, <2>1, <2>6, <2>7
<1>6. ASSUME Sweep
      PROVE  \A k \in DOMAIN inbox'.entries : Excl(inbox'.entries[k])
  BY <1>0, <1>6 DEF Sweep, Maintain
<1>7. ASSUME UNCHANGED inbox
      PROVE  \A k \in DOMAIN inbox'.entries : Excl(inbox'.entries[k])
  BY <1>0, <1>7
<1> QED
  BY <1>1, <1>3, <1>4, <1>5, <1>6, <1>7 DEF Next, RecordRefused, Tick, vars

\* No command is both cancelled and delivered, or both cancelled and
\* acknowledged, however operators, agents and sweeps interleave.
THEOREM ExclusiveCorrect == Spec => []CancelledMeansUndelivered
<1>1. Init => CancelledMeansUndelivered
  BY DEF Init, NewInbox, EmptyMap, CancelledMeansUndelivered
<1> QED
  BY <1>1, TypeCorrect, ExclusiveNext, PTL DEF Spec

-----------------------------------------------------------------------------
(* The quota books. *)

LEMMA InScopeFinite ==
    ASSUME NEW S, IsFiniteSet(S), NEW s
    PROVE  IsFiniteSet(InScope(S, s)) /\ Cardinality(InScope(S, s)) \in Nat
BY FS_Subset, FS_CardinalityType DEF InScope

\* Live and retired exclude each other, and together they fit the inbox: what
\* holds whether or not the scopes are counted right.
Disjoint == DOMAIN inbox.entries \cap DOMAIN inbox.retired = {}

CapacityInv == Disjoint /\ Cardinality(Tracked(inbox)) <= Capacity

\* Neither claiming nor settling an entry moves an identity in or out.
LEMMA SameTracked ==
    ASSUME DOMAIN inbox'.entries = DOMAIN inbox.entries,
           DOMAIN inbox'.retired = DOMAIN inbox.retired
    PROVE  /\ Tracked(inbox') = Tracked(inbox)
           /\ CapacityInv => CapacityInv'
BY DEF CapacityInv, Disjoint, Tracked

LEMMA RecordTracks ==
    ASSUME TypeOK, NEW c \in Command, Record(c)
    PROVE  /\ c.key \in Keys /\ c.key \notin Tracked(inbox)
           /\ Cardinality(DOMAIN inbox.entries) + Cardinality(DOMAIN inbox.retired)
                < Capacity
           /\ DOMAIN inbox'.entries = DOMAIN inbox.entries \cup {c.key}
           /\ inbox'.retired = inbox.retired
           /\ Tracked(inbox') = Tracked(inbox) \cup {c.key}
<1>1. /\ c.key \in Keys /\ c.key \notin Tracked(inbox)
      /\ Cardinality(DOMAIN inbox.entries) + Cardinality(DOMAIN inbox.retired) < Capacity
  <2>1. Cardinality(DOMAIN inbox.entries) \in Nat /\ Cardinality(DOMAIN inbox.retired) \in Nat
    BY FS_CardinalityType DEF TypeOK
  <2> QED
    BY <2>1, BoundsAssumption DEF Record, CheckRecordable, Command
<1>2. /\ DOMAIN inbox'.entries = DOMAIN inbox.entries \cup {c.key}
      /\ inbox'.retired = inbox.retired
  BY DEF Record, InsertRecorded
<1> QED
  BY <1>1, <1>2 DEF Tracked

LEMMA SweepTracks ==
    ASSUME Sweep
    PROVE  /\ DOMAIN inbox'.entries = DOMAIN inbox.entries \ Settled(inbox, now)
           /\ DOMAIN inbox'.retired =
                (Settled(inbox, now) \cup DOMAIN inbox.retired) \ Expired(inbox, now)
           /\ Expired(inbox, now) \subseteq Tracked(inbox)
           /\ Disjoint => Tracked(inbox') = Tracked(inbox) \ Expired(inbox, now)
<1>1. /\ DOMAIN inbox'.entries = DOMAIN inbox.entries \ Settled(inbox, now)
      /\ DOMAIN inbox'.retired =
           (Settled(inbox, now) \cup DOMAIN inbox.retired) \ Expired(inbox, now)
  BY MaintainParts DEF Sweep, Maintain
<1> QED
  BY <1>1, MaintainParts DEF Tracked, Disjoint

LEMMA CapacityNext == TypeOK /\ CapacityInv /\ [Next]_vars => CapacityInv'
<1> SUFFICES ASSUME TypeOK, CapacityInv, [Next]_vars PROVE CapacityInv'
  OBVIOUS
<1> USE BoundsAssumption
<1>0. IsFiniteSet(Tracked(inbox)) /\ Cardinality(Tracked(inbox)) \in Nat
  BY FS_Union, FS_CardinalityType DEF TypeOK, Tracked
<1>1. ASSUME NEW c \in Command, Record(c) PROVE CapacityInv'
  <2> DEFINE T == Tracked(inbox)
  <2>1. /\ c.key \notin T /\ Tracked(inbox') = T \cup {c.key}
        /\ Cardinality(DOMAIN inbox.entries) + Cardinality(DOMAIN inbox.retired) < Capacity
        /\ Disjoint'
    BY <1>1, RecordTracks DEF CapacityInv, Disjoint, Tracked
  <2>2. Cardinality(T) = Cardinality(DOMAIN inbox.entries) + Cardinality(DOMAIN inbox.retired)
    <3>1. DOMAIN inbox.entries \cap DOMAIN inbox.retired = {}
      BY DEF CapacityInv, Disjoint
    <3>2. Cardinality(DOMAIN inbox.entries) \in Nat /\ Cardinality(DOMAIN inbox.retired) \in Nat
      BY FS_CardinalityType DEF TypeOK
    <3>3. Cardinality(T) = Cardinality(DOMAIN inbox.entries)
             + Cardinality(DOMAIN inbox.retired)
             - Cardinality(DOMAIN inbox.entries \cap DOMAIN inbox.retired)
      BY FS_Union DEF TypeOK, Tracked
    <3>4. Cardinality(DOMAIN inbox.entries \cap DOMAIN inbox.retired) = 0
      BY <3>1, FS_EmptySet
    <3> QED
      BY <3>2, <3>3, <3>4
  <2>3. Cardinality(T \cup {c.key}) = Cardinality(T) + 1
    BY <1>0, <2>1, FS_AddElement
  <2>4. Cardinality(Tracked(inbox')) <= Capacity
    BY <1>0, <2>1, <2>2, <2>3
  <2> QED
    BY <2>1, <2>4 DEF CapacityInv
<1>2. ASSUME Sweep PROVE CapacityInv'
  <2>1. /\ Tracked(inbox') = Tracked(inbox) \ Expired(inbox, now) /\ Disjoint'
        /\ Cardinality(Tracked(inbox)) <= Capacity
    BY <1>2, SweepTracks DEF CapacityInv, Disjoint
  <2>2. Cardinality(Tracked(inbox')) <= Cardinality(Tracked(inbox))
        /\ IsFiniteSet(Tracked(inbox'))
    BY <1>0, <2>1, FS_Subset
  <2>3. Cardinality(Tracked(inbox')) <= Capacity
    BY <1>0, <2>1, <2>2, FS_CardinalityType
  <2> QED
    BY <2>1, <2>3 DEF CapacityInv
<1>3. ASSUME NEW a \in Agents, NEW n \in PollLimits, Claim(a, n) PROVE CapacityInv'
  BY <1>3, SameTracked DEF Claim, MarkDelivered
<1>4. ASSUME NEW a \in Agents, NEW k \in Keys, NEW n \in 0..MaxAttempts,
             Acknowledge(a, k, n)
      PROVE CapacityInv'
  BY <1>4, SameTracked DEF Acknowledge, SetAcknowledged, UpdateEntry
<1>5. ASSUME NEW k \in Keys, Cancel(k) PROVE CapacityInv'
  BY <1>5, SameTracked DEF Cancel, SetCancelled, UpdateEntry
<1>6. ASSUME UNCHANGED inbox PROVE CapacityInv'
  BY <1>6, SameTracked
<1> QED
  BY <1>1, <1>2, <1>3, <1>4, <1>5, <1>6 DEF Next, RecordRefused, Tick, vars

\* The books: each scope's counter is exact, and within its quota.
CountsInv ==
    \A s \in Scopes :
        /\ inbox.scope_counts[s] = Cardinality(InScope(Tracked(inbox), s))
        /\ inbox.scope_counts[s] <= ScopeQuota

LEMMA AccountingParts == ScopeAccounting <=> CapacityInv /\ CountsInv
BY DEF ScopeAccounting, CapacityInv, CountsInv, Disjoint

LEMMA SameCounts ==
    ASSUME CountsInv, DOMAIN inbox'.entries = DOMAIN inbox.entries,
           DOMAIN inbox'.retired = DOMAIN inbox.retired,
           inbox'.scope_counts = inbox.scope_counts
    PROVE  CountsInv'
BY SameTracked DEF CountsInv, InScope

LEMMA CountsNext == TypeOK /\ Disjoint /\ CountsInv /\ [Next]_vars => CountsInv'
<1> SUFFICES ASSUME TypeOK, Disjoint, CountsInv, [Next]_vars PROVE CountsInv'
  OBVIOUS
<1> USE BoundsAssumption, ScopesAssumption
<1>0. IsFiniteSet(Tracked(inbox))
  BY FS_Union DEF TypeOK, Tracked
<1>1. ASSUME NEW c \in Command, Record(c) PROVE CountsInv'
  <2> DEFINE T == Tracked(inbox)
             s0 == ScopeOf[c.key]
  <2>1. /\ c.key \notin T /\ Tracked(inbox') = T \cup {c.key}
        /\ inbox.scope_counts[s0] < ScopeQuota
    <3>1. inbox.scope_counts[s0] \in Nat
      BY DEF TypeOK, Command
    <3> QED
      BY <1>1, <3>1, RecordTracks DEF Record, CheckRecordable
  <2>2. inbox'.scope_counts = [inbox.scope_counts EXCEPT ![s0] = @ + 1]
    BY <1>1 DEF Record, InsertRecorded
  <2>3. ASSUME NEW s \in Scopes
        PROVE  /\ inbox'.scope_counts[s] = Cardinality(InScope(Tracked(inbox'), s))
               /\ inbox'.scope_counts[s] <= ScopeQuota
    <3>1. /\ inbox.scope_counts[s] = Cardinality(InScope(T, s))
          /\ inbox.scope_counts[s] <= ScopeQuota
          /\ inbox.scope_counts \in [Scopes -> Nat]
      BY DEF CountsInv, TypeOK
    <3>2. CASE s = s0
      <4>1. InScope(Tracked(inbox'), s) = InScope(T, s) \cup {c.key}
        BY <2>1, <3>2 DEF InScope
      <4>2. c.key \notin InScope(T, s)
        BY <2>1 DEF InScope
      <4>3. Cardinality(InScope(T, s) \cup {c.key}) = Cardinality(InScope(T, s)) + 1
        BY <1>0, <4>2, InScopeFinite, FS_AddElement
      <4>4. inbox'.scope_counts[s] = inbox.scope_counts[s] + 1
        BY <2>2, <3>1, <3>2
      <4>5. inbox.scope_counts[s] < ScopeQuota /\ inbox.scope_counts[s] \in Nat
        BY <2>1, <3>1, <3>2
      <4> QED
        BY <3>1, <4>1, <4>3, <4>4, <4>5
    <3>3. CASE s # s0
      <4>1. InScope(Tracked(inbox'), s) = InScope(T, s)
        BY <2>1, <3>3 DEF InScope
      <4> QED
        BY <2>2, <3>1, <3>3, <4>1
    <3> QED
      BY <3>2, <3>3
  <2> QED
    BY <2>3 DEF CountsInv, Tracked
<1>3. ASSUME NEW a \in Agents, NEW n \in PollLimits, Claim(a, n) PROVE CountsInv'
  BY <1>3, SameCounts DEF Claim, MarkDelivered
<1>4. ASSUME NEW a \in Agents, NEW k \in Keys, NEW n \in 0..MaxAttempts,
             Acknowledge(a, k, n)
      PROVE CountsInv'
  BY <1>4, SameCounts DEF Acknowledge, SetAcknowledged, UpdateEntry
<1>5. ASSUME NEW k \in Keys, Cancel(k) PROVE CountsInv'
  BY <1>5, SameCounts DEF Cancel, SetCancelled, UpdateEntry
<1>6. ASSUME Sweep PROVE CountsInv'
  <2> DEFINE T == Tracked(inbox)
             gone == Expired(inbox, now)
  <2>1. inbox'.scope_counts =
             [s \in Scopes |-> SaturatingSub(inbox.scope_counts[s],
                                             Cardinality(InScope(gone, s)))]
    BY <1>6 DEF Sweep, Maintain
  <2>2. gone \subseteq T /\ Tracked(inbox') = T \ gone
    BY <1>6, SweepTracks
  <2>5. ASSUME NEW s \in Scopes
        PROVE  /\ inbox'.scope_counts[s] = Cardinality(InScope(Tracked(inbox'), s))
               /\ inbox'.scope_counts[s] <= ScopeQuota
    <3>1. /\ inbox.scope_counts[s] = Cardinality(InScope(T, s))
          /\ inbox.scope_counts[s] <= ScopeQuota
          /\ inbox.scope_counts[s] \in Nat
      BY DEF CountsInv, TypeOK
    <3>2. InScope(Tracked(inbox'), s) = InScope(T, s) \ InScope(gone, s)
      BY <2>2 DEF InScope
    <3>3. InScope(T, s) \cap InScope(gone, s) = InScope(gone, s)
      BY <2>2 DEF InScope
    <3>4. /\ Cardinality(InScope(T, s) \ InScope(gone, s))
                = Cardinality(InScope(T, s)) - Cardinality(InScope(gone, s))
          /\ Cardinality(InScope(T, s) \ InScope(gone, s)) \in Nat
      BY <1>0, <3>3, InScopeFinite, FS_Difference, FS_CardinalityType
    <3>5. Cardinality(InScope(gone, s)) \in Nat
      BY <1>0, <2>2, FS_Subset, InScopeFinite
    <3> QED
      BY <2>1, <3>1, <3>2, <3>4, <3>5 DEF SaturatingSub
  <2> QED
    BY <2>5 DEF CountsInv
<1>7. ASSUME UNCHANGED inbox PROVE CountsInv'
  BY <1>7 DEF CountsInv
<1> QED
  BY <1>1, <1>3, <1>4, <1>5, <1>6, <1>7 DEF Next, RecordRefused, Tick, vars

LEMMA AccountingNext ==
    TypeOK /\ ScopeAccounting /\ [Next]_vars => ScopeAccounting'
BY AccountingParts, CapacityNext, CountsNext DEF CapacityInv, ScopeAccounting, CountsInv, Disjoint

\* No scope ever occupies more than its quota and the inbox never more than
\* its capacity, because the incremental counter is exact in every state.
THEOREM AccountingCorrect == Spec => []ScopeAccounting
<1>1. Init => ScopeAccounting
  BY FS_EmptySet, BoundsAssumption
     DEF Init, NewInbox, EmptyMap, ScopeAccounting, Tracked, InScope
<1> QED
  BY <1>1, TypeCorrect, AccountingNext, PTL DEF Spec

-----------------------------------------------------------------------------
(* The idempotency window. *)

LEMMA WindowNext ==
    TypeOK /\ Disjoint /\ CancelledMeansUndelivered /\ WindowInv /\ [Next]_vars
        => WindowInv'
<1> SUFFICES ASSUME TypeOK, Disjoint, CancelledMeansUndelivered, WindowInv,
                    [Next]_vars
             PROVE  WindowInv'
  OBVIOUS
<1> USE BoundsAssumption
<1>0. /\ now \in Nat /\ Retention <= now
      /\ \A k \in Keys : settled_at[k] \in Int /\ settled_at[k] <= now
      /\ \A k \in DOMAIN inbox.retired : inbox.retired[k] \in Nat
      /\ DOMAIN inbox.entries \subseteq Keys /\ DOMAIN inbox.retired \subseteq Keys
      /\ settled_at \in [Keys -> Time]
  BY DEF TypeOK, WindowInv, Time, NoTime
<1>1. ASSUME NEW c \in Command, Record(c) PROVE WindowInv'
  <2>1. /\ DOMAIN inbox'.entries = DOMAIN inbox.entries \cup {c.key}
        /\ inbox'.retired = inbox.retired
        /\ inbox'.entries[c.key].cancelled = FALSE
        /\ \A k \in DOMAIN inbox.entries : k # c.key => inbox'.entries[k] = inbox.entries[k]
    BY <1>1 DEF Record, InsertRecorded, FreshEntry
  <2> QED
    BY <1>0, <1>1, <2>1 DEF WindowInv, Record, Tracked
<1>3. ASSUME NEW a \in Agents, NEW n \in PollLimits, Claim(a, n) PROVE WindowInv'
  <2> DEFINE taken == Deliverable(inbox, a, n, now)
  <2>1. \A k \in taken : k \in DOMAIN inbox.entries /\ ~inbox.entries[k].cancelled
    BY EligibleFacts
  <2>2. inbox' = MarkDelivered(inbox, taken, now) /\ now' = now
    BY <1>3 DEF Claim
  <2>3. \A k \in Keys : settled_at'[k] = settled_at[k] \/ (k \in taken /\ settled_at'[k] = now)
    BY <1>3 DEF Claim
  <2> HIDE DEF taken
  <2>4. /\ DOMAIN inbox'.entries = DOMAIN inbox.entries
        /\ inbox'.retired = inbox.retired
        /\ \A k \in DOMAIN inbox.entries : k \notin taken => inbox'.entries[k] = inbox.entries[k]
    BY <2>2 DEF MarkDelivered
  <2>5. \A k \in taken : inbox'.entries[k].cancelled = inbox.entries[k].cancelled
    BY <2>1, <2>2 DEF MarkDelivered, TypeOK, Entry
  <2>6. \A k \in taken : k \notin DOMAIN inbox.retired
    BY <2>1 DEF Disjoint
  <2> QED
    BY <1>0, <2>1, <2>2, <2>3, <2>4, <2>5, <2>6 DEF WindowInv, Tracked
<1>4. ASSUME NEW a \in Agents, NEW k \in Keys, NEW n \in 0..MaxAttempts,
             Acknowledge(a, k, n)
      PROVE WindowInv'
  <2>1. k \in DOMAIN inbox.entries /\ n # 0 /\ ~(n > inbox.entries[k].attempts)
    BY <1>4 DEF Acknowledge, AckResult
  <2>2. ~inbox.entries[k].cancelled
    BY <2>1 DEF CancelledMeansUndelivered
  <2>3. k \notin DOMAIN inbox.retired
    BY <2>1 DEF Disjoint
  <2>4. /\ DOMAIN inbox'.entries = DOMAIN inbox.entries
        /\ inbox'.retired = inbox.retired
        /\ \A j \in DOMAIN inbox.entries : j # k => inbox'.entries[j] = inbox.entries[j]
        /\ now' = now
        /\ settled_at' = [settled_at EXCEPT ![k] = now]
    BY <1>4 DEF Acknowledge, SetAcknowledged, UpdateEntry
  <2>5. inbox'.entries[k].cancelled = inbox.entries[k].cancelled
    BY <1>4, <2>1 DEF Acknowledge, SetAcknowledged, UpdateEntry, TypeOK, Entry
  <2> QED
    BY <1>0, <2>1, <2>2, <2>3, <2>4, <2>5 DEF WindowInv, Tracked
<1>5. ASSUME NEW k \in Keys, Cancel(k) PROVE WindowInv'
  <2>1. k \in DOMAIN inbox.entries
    BY <1>5 DEF Cancel, CancelResult
  <2>3. k \notin DOMAIN inbox.retired
    BY <2>1 DEF Disjoint
  <2>4. /\ DOMAIN inbox'.entries = DOMAIN inbox.entries
        /\ inbox'.retired = inbox.retired
        /\ \A j \in DOMAIN inbox.entries : j # k => inbox'.entries[j] = inbox.entries[j]
        /\ now' = now
        /\ settled_at' = [settled_at EXCEPT ![k] = now]
    BY <1>5 DEF Cancel, SetCancelled, UpdateEntry
  <2>5. inbox'.entries[k].cancelled_at = now
    BY <1>5, <2>1 DEF Cancel, SetCancelled, UpdateEntry, TypeOK, Entry
  <2> QED
    BY <1>0, <2>1, <2>3, <2>4, <2>5 DEF WindowInv, Tracked
<1>6. ASSUME Sweep PROVE WindowInv'
  <2> DEFINE R == RetiredAt(inbox, now)
             gone == Expired(inbox, now)
  <2>1. /\ DOMAIN inbox'.entries = DOMAIN inbox.entries \ Settled(inbox, now)
        /\ \A k \in DOMAIN inbox'.entries : inbox'.entries[k] = inbox.entries[k]
        /\ inbox'.retired = [k \in DOMAIN R \ gone |-> R[k]]
        /\ now' = now /\ settled_at' = settled_at
    BY <1>6 DEF Sweep, Maintain
  <2>2. \A k \in DOMAIN R : k \in Keys /\ settled_at[k] <= R[k]
    <3>1. ASSUME NEW k \in Settled(inbox, now) PROVE settled_at[k] <= R[k]
      <4>1. k \in DOMAIN inbox.entries
        BY MaintainParts
      <4>2. R[k] = IF inbox.entries[k].cancelled THEN inbox.entries[k].cancelled_at ELSE now
        BY DEF RetiredAt
      <4> QED
        BY <1>0, <4>1, <4>2 DEF WindowInv
    <3>2. ASSUME NEW k \in DOMAIN inbox.retired, k \notin Settled(inbox, now)
          PROVE  settled_at[k] <= R[k]
      BY <3>2 DEF RetiredAt, WindowInv
    <3> QED
      BY <1>0, <3>1, <3>2, MaintainParts
  <2>3. \A k \in gone : R[k] <= now - Retention
    BY <1>0 DEF Expired, SaturatingSub
  <2>4. \A k \in DOMAIN R : R[k] \in Int
    <3>1. ASSUME NEW k \in Settled(inbox, now)
          PROVE  inbox.entries[k].cancelled_at \in Int
      <4>1. inbox.entries[k] \in Entry
        BY MaintainParts DEF TypeOK
      <4> QED
        BY <4>1 DEF Entry, Time, NoTime
    <3> QED
      BY <1>0, <3>1, MaintainParts DEF RetiredAt
  <2>5. \A k \in gone : settled_at[k] + Retention <= now
    <3> SUFFICES ASSUME NEW k \in gone PROVE settled_at[k] + Retention <= now
      OBVIOUS
    <3>1. k \in DOMAIN R
      BY MaintainParts
    <3>2. /\ settled_at[k] \in Int /\ R[k] \in Int
          /\ settled_at[k] <= R[k] /\ R[k] <= now - Retention
      BY <1>0, <2>2, <2>3, <2>4, <3>1
    <3> HIDE DEF R
    <3> QED
      BY <1>0, <3>2
  <2> HIDE DEF R, gone
  <2>6. Tracked(inbox) \ gone \subseteq Tracked(inbox')
    BY <2>1, MaintainParts DEF Tracked, R, gone
  <2> QED
    BY <1>0, <2>1, <2>2, <2>5, <2>6 DEF WindowInv
<1>7. ASSUME Tick PROVE WindowInv'
  BY <1>0, <1>7 DEF Tick, WindowInv
<1>8. ASSUME UNCHANGED vars PROVE WindowInv'
  BY <1>8 DEF vars, WindowInv
<1> QED
  BY <1>1, <1>3, <1>4, <1>5, <1>6, <1>7, <1>8 DEF Next, RecordRefused

LEMMA WindowHolds == Spec => []WindowInv
<1>1. Init => WindowInv
  BY BoundsAssumption DEF Init, NewInbox, EmptyMap, WindowInv, NoTime
<1>2. ScopeAccounting => Disjoint
  BY DEF ScopeAccounting, Disjoint
<1> QED
  BY <1>1, <1>2, TypeCorrect, AccountingCorrect, ExclusiveCorrect, WindowNext, PTL DEF Spec

\* Once an identity was reported acknowledged, cancelled or exhausted, it is not
\* recorded again until a full retention window has passed.
THEOREM WindowCorrect == Spec => IdempotencyWindow
<1>1. WindowInv /\ [Next]_vars =>
        [\A k \in Keys : (k \notin Tracked(inbox) /\ k \in Tracked(inbox)')
              => settled_at[k] + Retention <= now]_vars
  BY DEF WindowInv
<1> QED
  BY <1>1, WindowHolds, PTL DEF Spec, IdempotencyWindow
-----------------------------------------------------------------------------
(* The contract of the trait.  Known is the function Contract maps commands   *)
(* to: what the contract sees of each live entry.                             *)

Seen(e) == [agent |-> e.agent, attempts |-> e.attempts,
            acknowledged |-> e.acknowledged, cancelled |-> e.cancelled]

Known == [k \in DOMAIN inbox.entries |-> Seen(inbox.entries[k])]

LEMMA SeenChange ==
    ASSUME NEW e, NEW flag
    PROVE  /\ [Seen(e) EXCEPT !.acknowledged = flag] =
                 [agent |-> e.agent, attempts |-> e.attempts,
                  acknowledged |-> flag, cancelled |-> e.cancelled]
           /\ [Seen(e) EXCEPT !.cancelled = flag] =
                 [agent |-> e.agent, attempts |-> e.attempts,
                  acknowledged |-> e.acknowledged, cancelled |-> flag]
BY DEF Seen

LEMMA KnownFacts ==
    /\ DOMAIN Known = DOMAIN inbox.entries
    /\ \A k \in DOMAIN inbox.entries :
         /\ Known[k] = Seen(inbox.entries[k])
         /\ Known[k].agent = inbox.entries[k].agent
         /\ Known[k].attempts = inbox.entries[k].attempts
         /\ Known[k].acknowledged = inbox.entries[k].acknowledged
         /\ Known[k].cancelled = inbox.entries[k].cancelled
BY DEF Known, Seen

\* The contract counts with the same Cardinality, under its instance's name.
LEMMA SameCount == ASSUME NEW S PROVE Contract!Cardinality(S) = Cardinality(S)
BY DEF Contract!Cardinality, Cardinality

\* What is live is tracked, so the ceilings the inbox keeps on what it tracks
\* bound what the contract counts.
LEMMA LiveIsCounted ==
    ASSUME TypeOK, ScopeAccounting, NEW s \in Scopes
    PROVE  /\ Cardinality(InScope(DOMAIN inbox.entries, s)) \in Nat
           /\ Cardinality(InScope(DOMAIN inbox.entries, s)) <= inbox.scope_counts[s]
<1>1. IsFiniteSet(Tracked(inbox))
  BY FS_Union DEF TypeOK, Tracked
<1>2. InScope(DOMAIN inbox.entries, s) \subseteq InScope(Tracked(inbox), s)
  BY DEF InScope, Tracked
<1>3. inbox.scope_counts[s] = Cardinality(InScope(Tracked(inbox), s))
  BY DEF ScopeAccounting
<1> QED
  BY <1>1, <1>2, <1>3, InScopeFinite, FS_Subset, FS_CardinalityType

LEMMA RecordSeen ==
    ASSUME TypeOK, NEW c \in Command, Record(c)
    PROVE  /\ c.key \notin DOMAIN Known
           /\ IsFiniteSet(DOMAIN Known) /\ Cardinality(DOMAIN Known) < Capacity
           /\ Known' = [j \in DOMAIN Known \cup {c.key} |->
                          IF j = c.key THEN Contract!Fresh(c.agent) ELSE Known[j]]
<1> DEFINE k == c.key
<1>1. k \notin DOMAIN inbox.entries
  BY RecordTracks DEF Tracked
<1>2. IsFiniteSet(DOMAIN Known) /\ Cardinality(DOMAIN Known) < Capacity
  <2>1. Cardinality(DOMAIN inbox.entries) \in Nat /\ Cardinality(DOMAIN inbox.retired) \in Nat
    BY FS_CardinalityType DEF TypeOK
  <2> QED
    BY <2>1, RecordTracks, KnownFacts, BoundsAssumption DEF TypeOK
<1>3. inbox'.entries = [j \in DOMAIN inbox.entries \cup {k} |->
                          IF j = k THEN FreshEntry(c, inbox.next_sequence)
                                   ELSE inbox.entries[j]]
  BY DEF Record, InsertRecorded
<1>4. Seen(FreshEntry(c, inbox.next_sequence)) = Contract!Fresh(c.agent)
  BY DEF Seen, FreshEntry, Contract!Fresh
<1>5. DOMAIN inbox'.entries = DOMAIN Known \cup {k}
  BY <1>3, KnownFacts
<1>6. \A j \in DOMAIN Known \cup {k} :
        Seen(inbox'.entries[j]) = IF j = k THEN Contract!Fresh(c.agent) ELSE Known[j]
  BY <1>1, <1>3, <1>4, KnownFacts
<1>7. Known' = [j \in DOMAIN Known \cup {k} |-> Seen(inbox'.entries[j])]
  BY <1>5 DEF Known, Seen
<1> QED
  BY <1>1, <1>2, <1>6, <1>7, KnownFacts

LEMMA RecordRefines ==
    ASSUME TypeOK, ScopeAccounting, NEW c \in Command, Record(c)
    PROVE  Contract!Recorded(c.key, c.agent)
<1> USE BoundsAssumption, ScopesAssumption
<1> DEFINE k == c.key
<1>0. k \in Keys /\ ScopeOf[k] \in Scopes
  BY DEF Command
<1>1. Cardinality({j \in DOMAIN Known : ScopeOf[j] = ScopeOf[k]}) < ScopeQuota
  <2>1. inbox.scope_counts[ScopeOf[k]] \in Nat
    BY <1>0 DEF TypeOK
  <2>2. inbox.scope_counts[ScopeOf[k]] < ScopeQuota
    BY <2>1 DEF Record, CheckRecordable
  <2>3. Cardinality(InScope(DOMAIN inbox.entries, ScopeOf[k])) < ScopeQuota
    BY <1>0, <2>1, <2>2, LiveIsCounted
  <2> QED
    BY <2>3, KnownFacts DEF InScope
<1>2. Cardinality(DOMAIN Known) < Capacity + 0
  <2>1. Cardinality(DOMAIN Known) < Capacity /\ Cardinality(DOMAIN Known) \in Nat
    BY RecordSeen, FS_CardinalityType
  <2> QED
    BY <2>1
<1> QED
  BY <1>1, <1>2, RecordSeen, SameCount DEF Contract!Recorded, Known, Seen

LEMMA ClaimRefines ==
    ASSUME TypeOK, NEW a \in Agents, NEW n \in PollLimits, Claim(a, n)
    PROVE  \E S \in SUBSET DOMAIN Known : Contract!HandedOut(a, S)
<1>0. PICK S : S = Deliverable(inbox, a, n, now)
  OBVIOUS
<1>1. S # {} /\ inbox' = MarkDelivered(inbox, S, now)
  BY <1>0 DEF Claim
<1>2. \A k \in S : /\ k \in DOMAIN inbox.entries /\ inbox.entries[k].agent = a
                   /\ ScopeOf[k] \in AgentScopes[a]
                   /\ inbox.entries[k].attempts < MaxAttempts
                   /\ ~inbox.entries[k].acknowledged /\ ~inbox.entries[k].cancelled
  BY <1>0 DEF Deliverable, Eligible
<1>3. \A k \in S : /\ Known[k].agent = a /\ ScopeOf[k] \in AgentScopes[a]
                   /\ Contract!Open(Known[k])
  BY <1>2, KnownFacts DEF Contract!Open
<1>4. Known' = [k \in DOMAIN Known |->
                  IF k \in S THEN [Known[k] EXCEPT !.attempts = @ + 1] ELSE Known[k]]
  <2>1. DOMAIN inbox'.entries = DOMAIN Known
    BY <1>1, KnownFacts DEF MarkDelivered
  <2>2. ASSUME NEW e \in Entry
        PROVE  Seen([e EXCEPT !.attempts = @ + 1, !.last_delivered = now])
                 = [Seen(e) EXCEPT !.attempts = @ + 1]
    BY DEF Seen, Entry
  <2>3. ASSUME NEW k \in DOMAIN Known
        PROVE  Seen(inbox'.entries[k]) =
                 IF k \in S THEN [Known[k] EXCEPT !.attempts = @ + 1] ELSE Known[k]
    <3>1. inbox.entries[k] \in Entry /\ Known[k] = Seen(inbox.entries[k])
      BY KnownFacts DEF TypeOK
    <3>2. inbox'.entries[k] =
            IF k \in S THEN [inbox.entries[k] EXCEPT !.attempts = @ + 1, !.last_delivered = now]
                       ELSE inbox.entries[k]
      BY <1>1, KnownFacts DEF MarkDelivered
    <3> QED
      BY <2>2, <3>1, <3>2
  <2>4. Known' = [k \in DOMAIN Known |-> Seen(inbox'.entries[k])]
    BY <2>1 DEF Known, Seen
  <2> QED
    BY <2>3, <2>4
<1>5. S \in SUBSET DOMAIN Known
  BY <1>2, KnownFacts
<1>6. Contract!HandedOut(a, S)
  BY <1>1, <1>3, <1>4 DEF Contract!HandedOut, Known, Seen
<1> QED
  BY <1>5, <1>6

LEMMA AcknowledgeRefines ==
    ASSUME TypeOK, NEW a \in Agents, NEW k \in Keys, NEW n \in 0..MaxAttempts,
           Acknowledge(a, k, n)
    PROVE  k \in DOMAIN Known /\ Contract!Acknowledged(a, k)
<1> DEFINE e == inbox.entries[k]
           f == [e EXCEPT !.acknowledged = TRUE]
<1>1. /\ k \in DOMAIN inbox.entries /\ e.agent = a /\ n # 0 /\ ~(n > e.attempts)
      /\ ~e.acknowledged
  BY DEF Acknowledge, AckResult
<1>2. e \in Entry
  BY <1>1 DEF TypeOK
<1>3. e.attempts > 0
  BY <1>1, <1>2, BoundsAssumption DEF Entry
<1>4. Seen(f) = [Seen(e) EXCEPT !.acknowledged = TRUE]
  <2> DEFINE g == [agent |-> e.agent, attempts |-> e.attempts,
                   acknowledged |-> TRUE, cancelled |-> e.cancelled]
  <2>1. /\ f.agent = e.agent /\ f.attempts = e.attempts
        /\ f.acknowledged = TRUE /\ f.cancelled = e.cancelled
    BY <1>2 DEF Entry
  <2> HIDE DEF e, f
  <2>2. [Seen(e) EXCEPT !.acknowledged = TRUE] = g
    BY SeenChange, Zenon
  <2>3. Seen(f) = g
    BY <2>1, Zenon DEF Seen
  <2> QED
    BY <2>2, <2>3, Zenon
<1>5. inbox'.entries = [inbox.entries EXCEPT ![k] = f]
  BY DEF Acknowledge, SetAcknowledged, UpdateEntry
<1> HIDE DEF f
<1>6. Known' = [Known EXCEPT ![k] = Seen(f)]
  <2>1. Known' = [j \in DOMAIN inbox.entries |-> Seen(inbox'.entries[j])]
    BY <1>5 DEF Known, Seen
  <2> QED
    BY <1>1, <1>5, <2>1, KnownFacts
<1>7. Known' = [Known EXCEPT ![k].acknowledged = TRUE]
  BY <1>1, <1>4, <1>6, KnownFacts
<1> QED
  BY <1>1, <1>3, <1>7, KnownFacts DEF Contract!Acknowledged, Known, Seen

LEMMA CancelRefines ==
    ASSUME TypeOK, NEW k \in Keys, Cancel(k)
    PROVE  k \in DOMAIN Known /\ Contract!Cancelled(k)
<1> DEFINE e == inbox.entries[k]
           f == [e EXCEPT !.cancelled = TRUE, !.cancelled_at = now]
<1>1. k \in DOMAIN inbox.entries /\ ~(e.attempts > 0) /\ ~e.cancelled
  BY DEF Cancel, CancelResult
<1>2. e \in Entry
  BY <1>1 DEF TypeOK
<1>3. e.attempts = 0
  BY <1>1, <1>2, BoundsAssumption DEF Entry
<1>4. Seen(f) = [Seen(e) EXCEPT !.cancelled = TRUE]
  <2> DEFINE g == [agent |-> e.agent, attempts |-> e.attempts,
                   acknowledged |-> e.acknowledged, cancelled |-> TRUE]
  <2>1. /\ f.agent = e.agent /\ f.attempts = e.attempts
        /\ f.acknowledged = e.acknowledged /\ f.cancelled = TRUE
    BY <1>2 DEF Entry
  <2> HIDE DEF e, f
  <2>2. [Seen(e) EXCEPT !.cancelled = TRUE] = g
    BY SeenChange, Zenon
  <2>3. Seen(f) = g
    BY <2>1, Zenon DEF Seen
  <2> QED
    BY <2>2, <2>3, Zenon
<1>5. inbox'.entries = [inbox.entries EXCEPT ![k] = f]
  BY DEF Cancel, SetCancelled, UpdateEntry
<1> HIDE DEF f
<1>6. Known' = [Known EXCEPT ![k] = Seen(f)]
  <2>1. Known' = [j \in DOMAIN inbox.entries |-> Seen(inbox'.entries[j])]
    BY <1>5 DEF Known, Seen
  <2> QED
    BY <1>1, <1>5, <2>1, KnownFacts
<1>7. Known' = [Known EXCEPT ![k].cancelled = TRUE]
  BY <1>1, <1>4, <1>6, KnownFacts
<1> QED
  BY <1>1, <1>3, <1>7, KnownFacts DEF Contract!Cancelled, Known, Seen

\* A sweep drops only what is settled: acknowledged, cancelled, or handed out as
\* often as it may be.
LEMMA SweepRefines ==
    ASSUME TypeOK, Sweep
    PROVE  \E S \in SUBSET DOMAIN Known : Contract!Forgotten(S)
<1>0. PICK S : S = Settled(inbox, now)
  OBVIOUS
<1>1. S \in SUBSET DOMAIN Known
  BY <1>0, MaintainParts, KnownFacts
<1>2. ASSUME NEW k \in S PROVE Contract!Closed(Known[k])
  <2>1. k \in DOMAIN inbox.entries /\ inbox.entries[k] \in Entry
    BY <1>1, KnownFacts DEF TypeOK
  <2>2. \/ inbox.entries[k].cancelled \/ inbox.entries[k].acknowledged
        \/ inbox.entries[k].attempts >= MaxAttempts
    BY <1>0 DEF Settled, IsSettled
  <2>3. inbox.entries[k].attempts \in 0..MaxAttempts
    BY <2>1 DEF Entry
  <2> QED
    BY <2>1, <2>2, <2>3, KnownFacts, BoundsAssumption DEF Contract!Closed
<1>3. inbox'.entries = [k \in DOMAIN inbox.entries \ S |-> inbox.entries[k]]
  BY <1>0 DEF Sweep, Maintain
<1>4. Known' = [k \in DOMAIN Known \ S |-> Known[k]]
  <2>1. Known' = [k \in DOMAIN Known \ S |-> Seen(inbox'.entries[k])]
    BY <1>3, KnownFacts DEF Known, Seen
  <2> QED
    BY <1>3, <2>1, KnownFacts
<1>5. Contract!Forgotten(S)
  BY <1>2, <1>4 DEF Contract!Forgotten, Known, Seen
<1> QED
  BY <1>1, <1>5

\* What a step may do to what is known, without the scope's quota: the common
\* part of the contracts of an inbox whose books are right and of one whose
\* books a restart has spoilt.
SeenRecorded(K, L, k, a) ==
    /\ k \notin DOMAIN K /\ IsFiniteSet(DOMAIN K) /\ Cardinality(DOMAIN K) < Capacity
    /\ L = [j \in DOMAIN K \cup {k} |->
              IF j = k THEN [agent |-> a, attempts |-> 0,
                             acknowledged |-> FALSE, cancelled |-> FALSE]
              ELSE K[j]]

SeenHandedOut(K, L, a, S) ==
    /\ S # {}
    /\ \A k \in S : /\ K[k].agent = a /\ ScopeOf[k] \in AgentScopes[a]
                    /\ ~K[k].acknowledged /\ ~K[k].cancelled /\ K[k].attempts < MaxAttempts
    /\ L = [k \in DOMAIN K |->
              IF k \in S THEN [K[k] EXCEPT !.attempts = @ + 1] ELSE K[k]]

SeenAcknowledged(K, L, a, k) ==
    /\ K[k].agent = a /\ K[k].attempts > 0 /\ ~K[k].acknowledged
    /\ L = [K EXCEPT ![k].acknowledged = TRUE]

SeenCancelled(K, L, k) ==
    /\ K[k].attempts = 0 /\ ~K[k].cancelled
    /\ L = [K EXCEPT ![k].cancelled = TRUE]

SeenForgotten(K, L, S) ==
    /\ \A k \in S : K[k].acknowledged \/ K[k].cancelled \/ K[k].attempts = MaxAttempts
    /\ L = [k \in DOMAIN K \ S |-> K[k]]

SeenStep(K, L) ==
    \/ \E k \in Keys, a \in Agents : SeenRecorded(K, L, k, a)
    \/ \E a \in Agents, S \in SUBSET DOMAIN K : SeenHandedOut(K, L, a, S)
    \/ \E a \in Agents, k \in DOMAIN K : SeenAcknowledged(K, L, a, k)
    \/ \E k \in DOMAIN K : SeenCancelled(K, L, k)
    \/ \E S \in SUBSET DOMAIN K : SeenForgotten(K, L, S)

LEMMA NextSeen ==
    ASSUME TypeOK, [Next]_vars
    PROVE  SeenStep(Known, Known') \/ Known' = Known
<1>1. ASSUME NEW c \in Command, Record(c) PROVE SeenStep(Known, Known')
  <2>1. c.key \in Keys /\ c.agent \in Agents
    BY DEF Command
  <2>2. SeenRecorded(Known, Known', c.key, c.agent)
    BY <1>1, RecordSeen DEF SeenRecorded, Contract!Fresh
  <2> QED
    BY <2>1, <2>2 DEF SeenStep
<1>2. ASSUME NEW a \in Agents, NEW n \in PollLimits, Claim(a, n)
      PROVE  SeenStep(Known, Known')
  <2>1. PICK S \in SUBSET DOMAIN Known : Contract!HandedOut(a, S)
    BY <1>2, ClaimRefines
  <2>2. SeenHandedOut(Known, Known', a, S)
    BY <2>1 DEF Contract!HandedOut, Contract!Open, SeenHandedOut, Known, Seen
  <2> QED
    BY <2>2 DEF SeenStep
<1>3. ASSUME NEW a \in Agents, NEW k \in Keys, NEW n \in 0..MaxAttempts, Acknowledge(a, k, n)
      PROVE  SeenStep(Known, Known')
  <2>1. k \in DOMAIN Known /\ Contract!Acknowledged(a, k)
    BY <1>3, AcknowledgeRefines
  <2>2. SeenAcknowledged(Known, Known', a, k)
    BY <2>1 DEF Contract!Acknowledged, SeenAcknowledged, Known, Seen
  <2> QED
    BY <2>1, <2>2 DEF SeenStep
<1>4. ASSUME NEW k \in Keys, Cancel(k) PROVE SeenStep(Known, Known')
  <2>1. k \in DOMAIN Known /\ Contract!Cancelled(k)
    BY <1>4, CancelRefines
  <2>2. SeenCancelled(Known, Known', k)
    BY <2>1 DEF Contract!Cancelled, SeenCancelled, Known, Seen
  <2> QED
    BY <2>1, <2>2 DEF SeenStep
<1>5. ASSUME Sweep PROVE SeenStep(Known, Known')
  <2>1. PICK S \in SUBSET DOMAIN Known : Contract!Forgotten(S)
    BY <1>5, SweepRefines
  <2>2. SeenForgotten(Known, Known', S)
    BY <2>1 DEF Contract!Forgotten, Contract!Closed, SeenForgotten, Known, Seen
  <2> QED
    BY <2>2 DEF SeenStep
<1>6. ASSUME UNCHANGED inbox PROVE Known' = Known
  BY <1>6 DEF Known, Seen
<1> QED
  BY <1>1, <1>2, <1>3, <1>4, <1>5, <1>6 DEF Next, RecordRefused, Tick, vars

\* Every method of InboxState is a step the contract of inbox.rs allows, and
\* waiting, refusing a submission and repeating an answer are none at all.
THEOREM ContractCorrect == Spec => ImplementsContract
<1>1. Init => Contract!Init
  BY DEF Init, NewInbox, EmptyMap, Contract!Init
<1>2. ASSUME TypeOK, ScopeAccounting, [Next]_vars
      PROVE  [Contract!Next]_Known
  <2>1. ASSUME NEW c \in Command, Record(c) PROVE Contract!Next
    <3>1. c.key \in Keys /\ c.agent \in Agents
      BY DEF Command
    <3> QED
      BY <1>2, <2>1, <3>1, RecordRefines DEF Contract!Next
  <2>2. ASSUME NEW a \in Agents, NEW n \in PollLimits, Claim(a, n) PROVE Contract!Next
    <3>1. \E S \in SUBSET DOMAIN Known : Contract!HandedOut(a, S)
      BY <1>2, <2>2, ClaimRefines
    <3> QED
      BY <3>1 DEF Contract!Next, Known, Seen
  <2>3. ASSUME NEW a \in Agents, NEW k \in Keys, NEW n \in 0..MaxAttempts,
               Acknowledge(a, k, n)
        PROVE  Contract!Next
    BY <1>2, <2>3, AcknowledgeRefines DEF Contract!Next, Known, Seen
  <2>4. ASSUME NEW k \in Keys, Cancel(k) PROVE Contract!Next
    BY <1>2, <2>4, CancelRefines DEF Contract!Next, Known, Seen
  <2>5. ASSUME Sweep PROVE Contract!Next
    <3>1. \E S \in SUBSET DOMAIN Known : Contract!Forgotten(S)
      BY <1>2, <2>5, SweepRefines
    <3> QED
      BY <3>1 DEF Contract!Next, Known, Seen
  <2>6. ASSUME UNCHANGED inbox PROVE Known' = Known
    BY <2>6 DEF Known, Seen
  <2> QED
    BY <1>2, <2>1, <2>2, <2>3, <2>4, <2>5, <2>6 DEF Next, RecordRefused, Tick, vars
<1>3. TypeOK /\ ScopeAccounting /\ [Next]_vars => [Contract!Next]_Known
  BY <1>2
<1> QED
  BY <1>1, <1>3, TypeCorrect, AccountingCorrect, PTL
     DEF Spec, ImplementsContract, Contract!Spec, Known, Seen

-----------------------------------------------------------------------------
(* Induction over the natural numbers, and what Retain computes. *)

\* A set of natural numbers has a least element; from it, induction for a set.
LEMMA Least ==
    ASSUME NEW T \in SUBSET Nat, T # {}
    PROVE  \E x \in T : \A y \in T : x <= y
<1> DEFINE R == OpToRel(<, Nat)
<1>1. IsWellFoundedOn(R, Nat)
  BY NatLessThanWellFounded
<1>2. \A a \in Nat, b \in Nat : a < b => <<a, b>> \in R
  BY DEF OpToRel
<1> HIDE DEF R
<1>3. PICK x \in T : \A y \in T : ~(<<y, x>> \in R)
  BY <1>1, WFMin
<1>4. \A y \in T : x <= y
  <2> SUFFICES ASSUME NEW y \in T PROVE x <= y
    OBVIOUS
  <2>1. x \in Nat /\ y \in Nat /\ ~(y < x)
    BY <1>2, <1>3
  <2> QED
    BY <2>1
<1> QED
  BY <1>4

LEMMA SetInduction ==
    ASSUME NEW T, 0 \in T, \A n \in Nat : n \in T => n + 1 \in T
    PROVE  Nat \subseteq T
<1> SUFFICES ASSUME Nat \ T # {} PROVE FALSE
  OBVIOUS
<1>1. PICK m \in Nat \ T : \A y \in Nat \ T : m <= y
  BY Least
<1>2. m # 0 /\ m - 1 \in Nat
  BY <1>1
<1>3. m - 1 \in T
  BY <1>1, <1>2
<1> QED
  BY <1>1, <1>2, <1>3

\* The equations of Retain: f[i] is what stays of the first i elements.
Kept(order, keep, f, n) ==
    \A i \in 0..n :
        f[i] = IF i = 0 THEN <<>>
               ELSE IF order[i] \in keep THEN Append(f[i - 1], order[i]) ELSE f[i - 1]

LEMMA KeptExists ==
    ASSUME NEW K, NEW order \in Seq(K), NEW keep
    PROVE  \E f \in [0..Len(order) -> Seq(K)] : Kept(order, keep, f, Len(order))
<1> DEFINE T == {n \in Nat : n <= Len(order) => \E f \in [0..n -> Seq(K)] : Kept(order, keep, f, n)}
<1>1. 0 \in T
  <2> DEFINE f == [i \in 0..0 |-> <<>>]
  <2>1. f \in [0..0 -> Seq(K)]
    OBVIOUS
  <2>2. Kept(order, keep, f, 0)
    BY DEF Kept
  <2> QED
    BY <2>1, <2>2
<1>2. ASSUME NEW n \in Nat, n \in T PROVE n + 1 \in T
  <2> SUFFICES ASSUME n + 1 <= Len(order)
               PROVE  \E g \in [0..(n + 1) -> Seq(K)] : Kept(order, keep, g, n + 1)
    OBVIOUS
  <2>1. PICK f \in [0..n -> Seq(K)] : Kept(order, keep, f, n)
    BY <1>2
  <2> DEFINE last == IF order[n + 1] \in keep THEN Append(f[n], order[n + 1]) ELSE f[n]
             g == [i \in 0..(n + 1) |-> IF i = n + 1 THEN last ELSE f[i]]
  <2>2. order[n + 1] \in K /\ f[n] \in Seq(K)
    OBVIOUS
  <2>3. last \in Seq(K)
    BY <2>2
  <2> HIDE DEF last
  <2>4. g \in [0..(n + 1) -> Seq(K)]
    BY <2>3
  <2>5. Kept(order, keep, g, n + 1)
    <3> SUFFICES ASSUME NEW i \in 0..(n + 1)
                 PROVE  g[i] = IF i = 0 THEN <<>>
                               ELSE IF order[i] \in keep THEN Append(g[i - 1], order[i])
                               ELSE g[i - 1]
      BY DEF Kept
    <3>1. CASE i = n + 1
      BY <3>1 DEF last
    <3>2. CASE i # n + 1
      <4>1. i \in 0..n /\ (i # 0 => i - 1 \in 0..n) /\ n + 1 # i - 1
        BY <3>2
      <4>2. g[i] = f[i] /\ (i # 0 => g[i - 1] = f[i - 1])
        BY <4>1
      <4> HIDE DEF g
      <4> QED
        BY <2>1, <4>1, <4>2 DEF Kept
    <3> QED
      BY <3>1, <3>2
  <2> HIDE DEF g
  <2> QED
    BY <2>4, <2>5
<1> HIDE DEF T
<1>3. Nat \subseteq T
  BY <1>1, <1>2, SetInduction
<1>4. Len(order) \in T
  BY <1>3
<1> QED
  BY <1>4 DEF T

LEMMA RetainIs ==
    ASSUME NEW K, NEW order \in Seq(K), NEW keep
    PROVE  \E f : Kept(order, keep, f, Len(order)) /\ Retain(order, keep) = f[Len(order)]
<1> DEFINE Rec(f) == f = [i \in 0..Len(order) |->
                            IF i = 0 THEN <<>>
                            ELSE IF order[i] \in keep THEN Append(f[i - 1], order[i])
                            ELSE f[i - 1]]
           F == CHOOSE f : Rec(f)
<1>1. PICK f \in [0..Len(order) -> Seq(K)] : Kept(order, keep, f, Len(order))
  BY KeptExists
<1>2. Rec(f)
  BY <1>1 DEF Kept
<1>3. Rec(F)
  BY <1>2
<1>4. Retain(order, keep) = F[Len(order)]
  BY DEF Retain
<1> HIDE DEF F
<1>5. Kept(order, keep, F, Len(order))
  BY <1>3 DEF Kept
<1> QED
  BY <1>4, <1>5

\* r is the subsequence of the first n elements of s that are in keep: e says
\* where each came from.
IsRetained(s, keep, r, e, n) ==
    /\ e \in [1..Len(r) -> 1..n]
    /\ \A i \in 1..Len(r) : r[i] = s[e[i]] /\ s[e[i]] \in keep
    /\ \A i \in 1..Len(r), j \in 1..Len(r) : i < j => e[i] < e[j]
    /\ \A p \in 1..n : s[p] \in keep => \E i \in 1..Len(r) : e[i] = p

LEMMA RetainExtends ==
    ASSUME NEW K, NEW s \in Seq(K), NEW keep, NEW r \in Seq(K), NEW e, NEW n \in Nat,
           n + 1 <= Len(s), IsRetained(s, keep, r, e, n)
    PROVE  /\ s[n + 1] \notin keep => IsRetained(s, keep, r, e, n + 1)
           /\ s[n + 1] \in keep =>
                \E g : IsRetained(s, keep, Append(r, s[n + 1]), g, n + 1)
<1>1. ASSUME s[n + 1] \notin keep PROVE IsRetained(s, keep, r, e, n + 1)
  <2>1. e \in [1..Len(r) -> 1..(n + 1)]
    BY DEF IsRetained
  <2>2. ASSUME NEW p \in 1..(n + 1), s[p] \in keep PROVE \E i \in 1..Len(r) : e[i] = p
    <3>1. p \in 1..n
      BY <1>1, <2>2
    <3> QED
      BY <2>2, <3>1 DEF IsRetained
  <2> QED
    BY <2>1, <2>2 DEF IsRetained
<1>2. ASSUME s[n + 1] \in keep
      PROVE  \E g : IsRetained(s, keep, Append(r, s[n + 1]), g, n + 1)
  <2> DEFINE q == Append(r, s[n + 1])
             m == Len(r)
             g == [i \in 1..(m + 1) |-> IF i = m + 1 THEN n + 1 ELSE e[i]]
  <2>1. /\ m \in Nat /\ Len(q) = m + 1 /\ q[m + 1] = s[n + 1]
        /\ \A i \in 1..m : q[i] = r[i]
    BY AppendProperties
  <2>2. /\ g[m + 1] = n + 1 /\ \A i \in 1..m : g[i] = e[i] /\ e[i] \in 1..n
    BY <2>1 DEF IsRetained
  <2>3. g \in [1..Len(q) -> 1..(n + 1)]
    <3>1. ASSUME NEW i \in 1..(m + 1) PROVE g[i] \in 1..(n + 1)
      <4>1. i = m + 1 \/ i \in 1..m
        BY <2>1
      <4> HIDE DEF g
      <4> QED
        BY <2>2, <4>1
    <3>2. g \in [1..(m + 1) -> 1..(n + 1)]
      BY <3>1
    <3> HIDE DEF g, q, m
    <3> QED
      BY <2>1, <3>2
  <2> HIDE DEF q, g, m
  <2>4. ASSUME NEW i \in 1..Len(q) PROVE q[i] = s[g[i]] /\ s[g[i]] \in keep
    <3>1. CASE i = m + 1
      BY <1>2, <2>1, <2>2, <3>1
    <3>2. CASE i # m + 1
      <4>1. i \in 1..m
        BY <2>1, <3>2
      <4> QED
        BY <2>1, <2>2, <4>1 DEF IsRetained, m
    <3> QED
      BY <3>1, <3>2
  <2>5. ASSUME NEW i \in 1..Len(q), NEW j \in 1..Len(q), i < j PROVE g[i] < g[j]
    <3>1. i \in 1..m
      BY <2>1, <2>5
    <3>2. CASE j = m + 1
      BY <2>2, <3>1, <3>2
    <3>3. CASE j # m + 1
      <4>1. j \in 1..m
        BY <2>1, <3>3
      <4> QED
        BY <2>2, <2>5, <3>1, <4>1 DEF IsRetained, m
    <3> QED
      BY <3>2, <3>3
  <2>6. ASSUME NEW p \in 1..(n + 1), s[p] \in keep PROVE \E i \in 1..Len(q) : g[i] = p
    <3>1. CASE p = n + 1
      BY <2>1, <2>2, <3>1
    <3>2. CASE p # n + 1
      <4>1. p \in 1..n
        BY <3>2
      <4>2. PICK i \in 1..m : e[i] = p
        BY <2>6, <4>1 DEF IsRetained, m
      <4>3. i \in 1..Len(q) /\ g[i] = p
        BY <2>1, <2>2, <4>2
      <4> QED
        BY <4>3
    <3> QED
      BY <3>1, <3>2
  <2>7. IsRetained(s, keep, q, g, n + 1)
    BY <2>3, <2>4, <2>5, <2>6 DEF IsRetained
  <2> QED
    BY <2>7 DEF q
<1> QED
  BY <1>1, <1>2

LEMMA RetainEmbeds ==
    ASSUME NEW K, NEW s \in Seq(K), NEW keep
    PROVE  /\ Retain(s, keep) \in Seq(K)
           /\ \E e : IsRetained(s, keep, Retain(s, keep), e, Len(s))
<1>1. PICK f : Kept(s, keep, f, Len(s)) /\ Retain(s, keep) = f[Len(s)]
  BY RetainIs
<1> DEFINE T == {n \in Nat : n <= Len(s) =>
                   f[n] \in Seq(K) /\ \E e : IsRetained(s, keep, f[n], e, n)}
<1>2. 0 \in T
  <2>1. f[0] = <<>> /\ <<>> \in Seq(K) /\ Len(<<>>) = 0
    BY <1>1 DEF Kept
  <2>2. \A i \in 1..0 : FALSE
    OBVIOUS
  <2>3. [i \in 1..0 |-> 0] \in [1..0 -> 1..0]
    BY <2>2
  <2>4. IsRetained(s, keep, f[0], [i \in 1..0 |-> 0], 0)
    BY <2>1, <2>2, <2>3 DEF IsRetained
  <2> QED
    BY <2>1, <2>4
<1>3. ASSUME NEW n \in Nat, n \in T PROVE n + 1 \in T
  <2> SUFFICES ASSUME n + 1 <= Len(s)
               PROVE  f[n + 1] \in Seq(K) /\ \E e : IsRetained(s, keep, f[n + 1], e, n + 1)
    OBVIOUS
  <2>1. f[n] \in Seq(K) /\ s[n + 1] \in K
    BY <1>3
  <2>2. PICK e : IsRetained(s, keep, f[n], e, n)
    BY <1>3
  <2>3. f[n + 1] = IF s[n + 1] \in keep THEN Append(f[n], s[n + 1]) ELSE f[n]
    <3>1. n + 1 \in 0..Len(s) /\ n + 1 # 0 /\ (n + 1) - 1 = n
      OBVIOUS
    <3> QED
      BY <1>1, <3>1 DEF Kept
  <2>4. f[n + 1] \in Seq(K)
    BY <2>1, <2>3
  <2>5. /\ s[n + 1] \notin keep => IsRetained(s, keep, f[n], e, n + 1)
        /\ s[n + 1] \in keep =>
             \E g : IsRetained(s, keep, Append(f[n], s[n + 1]), g, n + 1)
    BY <2>1, <2>2, RetainExtends
  <2>6. CASE s[n + 1] \in keep
    BY <2>3, <2>4, <2>5, <2>6
  <2>7. CASE s[n + 1] \notin keep
    BY <2>3, <2>4, <2>5, <2>7
  <2> QED
    BY <2>6, <2>7
<1> HIDE DEF T
<1>4. Nat \subseteq T
  BY <1>2, <1>3, SetInduction
<1>5. Len(s) \in T
  BY <1>4
<1> QED
  BY <1>1, <1>5 DEF T

-----------------------------------------------------------------------------
(* The order of the commands. *)

\* Every key of L stands in s, and s lists those keys by growing q.
Ordered(s, L, q) ==
    /\ \A k \in L : \E i \in 1..Len(s) : s[i] = k
    /\ \A i \in 1..Len(s), j \in 1..Len(s) :
         s[i] \in L /\ s[j] \in L /\ i < j => q[s[i]] < q[s[j]]

LEMMA RetainOrdered ==
    ASSUME NEW s \in Seq(Keys), NEW L, NEW q, NEW keep, NEW M,
           M \subseteq L, M \subseteq keep, Ordered(s, L, q)
    PROVE  Retain(s, keep) \in Seq(Keys) /\ Ordered(Retain(s, keep), M, q)
<1>1. PICK r, e : /\ r = Retain(s, keep) /\ r \in Seq(Keys)
                  /\ IsRetained(s, keep, r, e, Len(s))
  BY RetainEmbeds
<1>2. ASSUME NEW k \in M PROVE \E i \in 1..Len(r) : r[i] = k
  <2>1. PICK p \in 1..Len(s) : s[p] = k
    BY DEF Ordered
  <2>2. PICK i \in 1..Len(r) : e[i] = p
    BY <1>1, <2>1 DEF IsRetained
  <2>3. r[i] = k
    BY <1>1, <2>1, <2>2 DEF IsRetained
  <2> QED
    BY <2>3
<1>3. ASSUME NEW i \in 1..Len(r), NEW j \in 1..Len(r), r[i] \in M, r[j] \in M, i < j
      PROVE  q[r[i]] < q[r[j]]
  <2>1. /\ e[i] \in 1..Len(s) /\ e[j] \in 1..Len(s) /\ e[i] < e[j]
        /\ r[i] = s[e[i]] /\ r[j] = s[e[j]]
    BY <1>1, <1>3 DEF IsRetained
  <2>2. s[e[i]] \in L /\ s[e[j]] \in L
    BY <1>3, <2>1
  <2> QED
    BY <2>1, <2>2 DEF Ordered
<1> QED
  BY <1>1, <1>2, <1>3 DEF Ordered

LEMMA AppendOrdered ==
    ASSUME NEW s \in Seq(Keys), NEW L, NEW q, NEW k \in Keys, NEW p, NEW n \in Nat,
           Ordered(s, L, q), \A i \in 1..Len(s) : s[i] # k,
           \A j \in L : p[j] = q[j] /\ q[j] < n, p[k] = n
    PROVE  Append(s, k) \in Seq(Keys) /\ Ordered(Append(s, k), L \cup {k}, p)
<1>1. PICK t, m : t = Append(s, k) /\ m = Len(s)
  OBVIOUS
<1>2. /\ t \in Seq(Keys) /\ m \in Nat /\ Len(t) = m + 1 /\ t[m + 1] = k
      /\ \A i \in 1..m : t[i] = s[i] /\ t[i] # k
  BY <1>1, AppendProperties
<1>3. ASSUME NEW j \in L \cup {k} PROVE \E i \in 1..Len(t) : t[i] = j
  <2>1. CASE j = k
    BY <1>2, <2>1
  <2>2. CASE j # k
    <3>1. PICK i \in 1..m : s[i] = j
      BY <1>1, <1>3, <2>2 DEF Ordered
    <3>2. i \in 1..Len(t) /\ t[i] = j
      BY <1>2, <3>1
    <3> QED
      BY <3>2
  <2> QED
    BY <2>1, <2>2
<1>4. ASSUME NEW i \in 1..Len(t), NEW j \in 1..Len(t),
             t[i] \in L \cup {k}, t[j] \in L \cup {k}, i < j
      PROVE  p[t[i]] < p[t[j]]
  <2>1. i \in 1..m /\ t[i] = s[i] /\ s[i] \in L
    BY <1>2, <1>4
  <2>2. CASE j = m + 1
    BY <1>2, <2>1, <2>2
  <2>3. CASE j # m + 1
    <3>1. j \in 1..m /\ t[j] = s[j] /\ s[j] \in L
      BY <1>2, <1>4, <2>3
    <3>2. q[s[i]] < q[s[j]]
      BY <1>1, <1>4, <2>1, <3>1 DEF Ordered
    <3> QED
      BY <2>1, <3>1, <3>2
  <2> QED
    BY <2>2, <2>3
<1> QED
  BY <1>1, <1>2, <1>3, <1>4 DEF Ordered

Sequences == [k \in DOMAIN inbox.entries |-> inbox.entries[k].sequence]

OrderInv ==
    /\ inbox.order \in Seq(Keys)
    /\ Ordered(inbox.order, DOMAIN inbox.entries, Sequences)
    /\ \A k \in DOMAIN inbox.entries : inbox.entries[k].sequence < inbox.next_sequence

LEMMA OrderInit == Init => OrderInv
BY DEF Init, NewInbox, EmptyMap, OrderInv, Ordered, Sequences

\* A step that changes what is known of the commands and not where they stand.
LEMMA SameOrder ==
    ASSUME TypeOK, OrderInv, inbox'.order = inbox.order,
           inbox'.next_sequence = inbox.next_sequence, Sequences' = Sequences
    PROVE  OrderInv'
<1>1. DOMAIN Sequences = DOMAIN inbox.entries /\ DOMAIN Sequences' = DOMAIN inbox'.entries
  BY DEF Sequences
<1>2. DOMAIN inbox'.entries = DOMAIN inbox.entries
  BY <1>1
<1>3. \A k \in DOMAIN inbox'.entries : inbox'.entries[k].sequence = inbox.entries[k].sequence
  BY <1>2 DEF Sequences
<1> QED
  BY <1>2, <1>3 DEF OrderInv, Ordered

LEMMA OrderRecord ==
    ASSUME TypeOK, OrderInv, NEW c \in Command, Record(c)
    PROVE  OrderInv'
<1> DEFINE k == c.key
           L == DOMAIN inbox.entries
           n == inbox.next_sequence
<1>1. /\ k \in Keys /\ k \notin L /\ n \in Nat
      /\ inbox'.order = Append(Retain(inbox.order, Keys \ {k}), k)
      /\ DOMAIN inbox'.entries = L \cup {k}
      /\ inbox'.next_sequence = n + 1
      /\ inbox'.entries[k].sequence = n
      /\ \A j \in L : inbox'.entries[j] = inbox.entries[j]
  BY DEF Record, CheckRecordable, InsertRecorded, FreshEntry, Tracked, Command, TypeOK
<1> HIDE DEF k, n
<1>2. PICK r : r = Retain(inbox.order, Keys \ {k})
  OBVIOUS
<1>3. L \subseteq Keys \ {k}
  BY <1>1 DEF TypeOK
<1>4. r \in Seq(Keys) /\ Ordered(r, L, Sequences)
  BY <1>2, <1>3, RetainOrdered DEF OrderInv
<1>5. \A i \in 1..Len(r) : r[i] # k
  BY <1>2, RetainEmbeds DEF IsRetained, OrderInv
<1>6. \A j \in L : Sequences'[j] = Sequences[j] /\ Sequences[j] < n
  BY <1>1 DEF Sequences, OrderInv, n
<1>7. Sequences'[k] = n
  BY <1>1 DEF Sequences
<1>8. Append(r, k) \in Seq(Keys) /\ Ordered(Append(r, k), L \cup {k}, Sequences')
  BY <1>1, <1>4, <1>5, <1>6, <1>7, AppendOrdered
<1>9. \A j \in DOMAIN inbox'.entries : inbox'.entries[j].sequence < inbox'.next_sequence
  <2>1. \A j \in L : inbox.entries[j].sequence \in Nat /\ inbox.entries[j].sequence < n
    BY DEF OrderInv, TypeOK, Entry, n
  <2> QED
    BY <1>1, <2>1
<1> QED
  BY <1>1, <1>2, <1>8, <1>9 DEF OrderInv

LEMMA OrderSweep ==
    ASSUME TypeOK, OrderInv, Sweep
    PROVE  OrderInv'
<1> DEFINE live == DOMAIN inbox.entries \ Settled(inbox, now)
<1>1. /\ inbox'.order = Retain(inbox.order, live)
      /\ DOMAIN inbox'.entries = live
      /\ inbox'.next_sequence = inbox.next_sequence
      /\ \A j \in live : inbox'.entries[j] = inbox.entries[j]
  BY DEF Sweep, Maintain
<1> HIDE DEF live
<1>2. live \subseteq DOMAIN inbox.entries
  BY DEF live
<1>3. /\ Retain(inbox.order, live) \in Seq(Keys)
      /\ Ordered(Retain(inbox.order, live), live, Sequences)
  BY <1>2, RetainOrdered DEF OrderInv
<1>4. \A j \in live : Sequences'[j] = Sequences[j]
  BY <1>1, <1>2 DEF Sequences
<1>5. Ordered(Retain(inbox.order, live), live, Sequences')
  BY <1>3, <1>4 DEF Ordered
<1> QED
  BY <1>1, <1>2, <1>3, <1>5 DEF OrderInv

LEMMA OrderNext == TypeOK /\ OrderInv /\ [Next]_vars => OrderInv'
<1> SUFFICES ASSUME TypeOK, OrderInv, [Next]_vars PROVE OrderInv'
  OBVIOUS
<1>1. ASSUME NEW c \in Command, Record(c) PROVE OrderInv'
  BY <1>1, OrderRecord
<1>2. ASSUME NEW a \in Agents, NEW n \in PollLimits, Claim(a, n) PROVE OrderInv'
  <2>1. PICK S : inbox' = MarkDelivered(inbox, S, now)
    BY <1>2 DEF Claim
  <2>2. DOMAIN inbox'.entries = DOMAIN inbox.entries
    BY <2>1 DEF MarkDelivered
  <2>3. ASSUME NEW k \in DOMAIN inbox.entries
        PROVE  inbox'.entries[k].sequence = inbox.entries[k].sequence
    BY <2>1 DEF MarkDelivered, TypeOK, Entry
  <2> QED
    BY <2>1, <2>2, <2>3, SameOrder DEF MarkDelivered, Sequences
<1>3. ASSUME NEW k, NEW e, k \in DOMAIN inbox.entries, inbox' = UpdateEntry(inbox, k, e),
             e.sequence = inbox.entries[k].sequence
      PROVE  OrderInv'
  <2>1. DOMAIN inbox'.entries = DOMAIN inbox.entries
    BY <1>3 DEF UpdateEntry
  <2>2. \A j \in DOMAIN inbox.entries : inbox'.entries[j].sequence = inbox.entries[j].sequence
    BY <1>3 DEF UpdateEntry
  <2> QED
    BY <1>3, <2>1, <2>2, SameOrder DEF UpdateEntry, Sequences
<1>4. ASSUME NEW a \in Agents, NEW k \in Keys, NEW n \in 0..MaxAttempts, Acknowledge(a, k, n)
      PROVE  OrderInv'
  <2>1. k \in DOMAIN inbox.entries /\ inbox.entries[k] \in Entry
    BY <1>4 DEF Acknowledge, AckResult, TypeOK
  <2>2. PICK e : e = [inbox.entries[k] EXCEPT !.acknowledged = TRUE]
    OBVIOUS
  <2>3. inbox' = UpdateEntry(inbox, k, e) /\ e.sequence = inbox.entries[k].sequence
    BY <1>4, <2>1, <2>2 DEF Acknowledge, SetAcknowledged, Entry
  <2> QED
    BY <1>3, <2>1, <2>3
<1>5. ASSUME NEW k \in Keys, Cancel(k) PROVE OrderInv'
  <2>1. k \in DOMAIN inbox.entries /\ inbox.entries[k] \in Entry
    BY <1>5 DEF Cancel, CancelResult, TypeOK
  <2>2. PICK e : e = [inbox.entries[k] EXCEPT !.cancelled = TRUE, !.cancelled_at = now]
    OBVIOUS
  <2>3. inbox' = UpdateEntry(inbox, k, e) /\ e.sequence = inbox.entries[k].sequence
    BY <1>5, <2>1, <2>2 DEF Cancel, SetCancelled, Entry
  <2> QED
    BY <1>3, <2>1, <2>3
<1>6. ASSUME Sweep PROVE OrderInv'
  BY <1>6, OrderSweep
<1>7. ASSUME UNCHANGED inbox PROVE OrderInv'
  BY <1>7, SameOrder DEF Sequences
<1> QED
  BY <1>1, <1>2, <1>4, <1>5, <1>6, <1>7 DEF Next, RecordRefused, Tick, vars

-----------------------------------------------------------------------------
(* A restart that loads the journal: every promise but the scope's quota      *)
(* survives it.                                                               *)

Reopen == inbox' = Reloaded(inbox) /\ UNCHANGED <<now, settled_at>>

\* The place of each live command in the order load gives them: one, its own.
LEMMA ReloadedPlaces ==
    ASSUME TypeOK, OrderInv,
           NEW r, r = Retain(inbox.order, DOMAIN inbox.entries)
    PROVE  /\ r \in Seq(Keys)
           /\ \A i \in 1..Len(r) : r[i] \in DOMAIN inbox.entries
           /\ \A k \in DOMAIN inbox.entries : \E i \in 1..Len(r) : r[i] = k
           /\ \A i \in 1..Len(r), j \in 1..Len(r) : r[i] = r[j] => i = j
<1> DEFINE L == DOMAIN inbox.entries
<1>1. r \in Seq(Keys) /\ Ordered(r, L, Sequences)
  BY RetainOrdered DEF OrderInv
<1>2. \A i \in 1..Len(r) : r[i] \in L
  BY RetainEmbeds DEF IsRetained, OrderInv
<1>3. \A k \in L : Sequences[k] \in Nat
  BY DEF Sequences, TypeOK, Entry
<1>4. ASSUME NEW i \in 1..Len(r), NEW j \in 1..Len(r), r[i] = r[j] PROVE i = j
  <2>1. ~(i < j) /\ ~(j < i)
    BY <1>1, <1>2, <1>3, <1>4 DEF Ordered
  <2> QED
    BY <1>1, <2>1
<1> QED
  BY <1>1, <1>2, <1>4 DEF Ordered

Resequenced(e, n) == [e EXCEPT !.sequence = n]

LEMMA ResequencedFacts ==
    ASSUME NEW e \in Entry, NEW n \in Nat \ {0}
    PROVE  LET f == Resequenced(e, n)
           IN  /\ f \in Entry /\ f.sequence = n
               /\ f.agent = e.agent /\ f.attempts = e.attempts
               /\ f.last_delivered = e.last_delivered
               /\ f.acknowledged = e.acknowledged
               /\ f.cancelled = e.cancelled /\ f.cancelled_at = e.cancelled_at
BY DEF Resequenced, Entry

LEMMA ReloadedEntries ==
    ASSUME TypeOK, OrderInv, Reopen,
           NEW r, r = Retain(inbox.order, DOMAIN inbox.entries)
    PROVE  /\ inbox'.order = r /\ inbox'.next_sequence = Len(r) + 1
           /\ inbox'.retired = inbox.retired
           /\ inbox'.scope_counts =
                [s \in Scopes |-> Cardinality(InScope(DOMAIN inbox.entries, s))]
           /\ DOMAIN inbox'.entries = DOMAIN inbox.entries
           /\ inbox'.entries = [k \in DOMAIN inbox.entries |-> inbox'.entries[k]]
           /\ \A k \in DOMAIN inbox.entries :
                \E i \in 1..Len(r) :
                   r[i] = k /\ inbox'.entries[k] = Resequenced(inbox.entries[k], i)
<1>1. /\ inbox'.order = r /\ inbox'.next_sequence = Len(r) + 1
      /\ inbox'.retired = inbox.retired
      /\ inbox'.scope_counts = [s \in Scopes |-> Cardinality(InScope(DOMAIN inbox.entries, s))]
      /\ inbox'.entries = [k \in DOMAIN inbox.entries |->
                             Resequenced(inbox.entries[k], CHOOSE i \in DOMAIN r : r[i] = k)]
  BY DEF Reopen, Reloaded, Resequenced
<1>2. ASSUME NEW k \in DOMAIN inbox.entries
      PROVE  \E i \in 1..Len(r) :
               r[i] = k /\ inbox'.entries[k] = Resequenced(inbox.entries[k], i)
  <2>1. PICK i : i = CHOOSE p \in DOMAIN r : r[p] = k
    OBVIOUS
  <2>2. DOMAIN r = 1..Len(r)
    BY ReloadedPlaces
  <2>3. i \in 1..Len(r) /\ r[i] = k
    BY <2>1, <2>2, ReloadedPlaces
  <2>4. inbox'.entries[k] = Resequenced(inbox.entries[k], i)
    BY <1>1, <2>1
  <2> QED
    BY <2>3, <2>4
<1> QED
  BY <1>1, <1>2

LEMMA ReopenKeeps ==
    ASSUME TypeOK, OrderInv, Reopen
    PROVE  /\ TypeOK' /\ OrderInv'
           /\ CancelledMeansUndelivered => CancelledMeansUndelivered'
           /\ CapacityInv => CapacityInv'
           /\ WindowInv => WindowInv'
           /\ Known' = Known
<1> DEFINE L == DOMAIN inbox.entries
<1>0. PICK r : r = Retain(inbox.order, DOMAIN inbox.entries)
  OBVIOUS
<1>1. /\ inbox'.order = r /\ inbox'.next_sequence = Len(r) + 1
      /\ inbox'.retired = inbox.retired
      /\ inbox'.scope_counts = [s \in Scopes |-> Cardinality(InScope(L, s))]
      /\ DOMAIN inbox'.entries = L
      /\ inbox'.entries = [k \in L |-> inbox'.entries[k]]
      /\ \A k \in L : \E i \in 1..Len(r) :
              r[i] = k /\ inbox'.entries[k] = Resequenced(inbox.entries[k], i)
      /\ now' = now /\ settled_at' = settled_at
  BY <1>0, ReloadedEntries DEF Reopen
<1>2. /\ r \in Seq(Keys) /\ Len(r) \in Nat
      /\ \A i \in 1..Len(r) : r[i] \in L
      /\ \A k \in L : \E i \in 1..Len(r) : r[i] = k
      /\ \A i \in 1..Len(r), j \in 1..Len(r) : r[i] = r[j] => i = j
  BY <1>0, ReloadedPlaces
<1>3. \A k \in L : inbox.entries[k] \in Entry
  BY DEF TypeOK
<1>4. ASSUME NEW k \in L
      PROVE  /\ inbox'.entries[k] \in Entry
             /\ inbox'.entries[k].sequence \in 1..Len(r)
             /\ r[inbox'.entries[k].sequence] = k
             /\ inbox'.entries[k].agent = inbox.entries[k].agent
             /\ inbox'.entries[k].attempts = inbox.entries[k].attempts
             /\ inbox'.entries[k].last_delivered = inbox.entries[k].last_delivered
             /\ inbox'.entries[k].acknowledged = inbox.entries[k].acknowledged
             /\ inbox'.entries[k].cancelled = inbox.entries[k].cancelled
             /\ inbox'.entries[k].cancelled_at = inbox.entries[k].cancelled_at
  <2>1. PICK i \in 1..Len(r) :
           r[i] = k /\ inbox'.entries[k] = Resequenced(inbox.entries[k], i)
    BY <1>1
  <2>2. i \in Nat \ {0} /\ inbox.entries[k] \in Entry
    BY <1>2, <1>3
  <2> QED
    BY <2>1, <2>2, ResequencedFacts
<1>5. TypeOK'
  <2>1. \A s \in Scopes : Cardinality(InScope(L, s)) \in Nat
    BY InScopeFinite DEF TypeOK
  <2>2. inbox'.entries \in [L -> Entry]
    BY <1>1, <1>4
  <2>3. inbox'.scope_counts \in [Scopes -> Nat]
    BY <1>1, <2>1
  <2> QED
    BY <1>1, <1>2, <2>2, <2>3 DEF TypeOK
<1>6. OrderInv'
  <2>1. \A i \in 1..Len(r) : Sequences'[r[i]] = i
    <3> SUFFICES ASSUME NEW i \in 1..Len(r) PROVE Sequences'[r[i]] = i
      OBVIOUS
    <3>1. PICK k, n : k = r[i] /\ n = inbox'.entries[k].sequence
      OBVIOUS
    <3>2. k \in L /\ n \in 1..Len(r) /\ r[n] = k
      BY <1>2, <1>4, <3>1
    <3>3. n = i
      BY <1>2, <3>1, <3>2
    <3> QED
      BY <1>1, <3>1, <3>2, <3>3 DEF Sequences
  <2>2. Ordered(r, L, Sequences')
    BY <1>2, <2>1 DEF Ordered
  <2>3. \A k \in L : inbox'.entries[k].sequence < Len(r) + 1
    BY <1>2, <1>4
  <2> QED
    BY <1>1, <1>2, <2>2, <2>3 DEF OrderInv
<1>7. CancelledMeansUndelivered => CancelledMeansUndelivered'
  BY <1>1, <1>4 DEF CancelledMeansUndelivered
<1>8. CapacityInv => CapacityInv'
  BY <1>1, SameTracked
<1>9. WindowInv => WindowInv'
  BY <1>1, <1>4 DEF WindowInv, Tracked
<1>10. Known' = Known
  BY <1>1, <1>4 DEF Known, Seen
<1> QED
  BY <1>5, <1>6, <1>7, <1>8, <1>9, <1>10

-----------------------------------------------------------------------------

LEMMA OrderMatches == TypeOK /\ OrderInv => OrderMatchesSequence
<1> SUFFICES ASSUME TypeOK, OrderInv PROVE OrderMatchesSequence
  OBVIOUS
<1>1. DOMAIN inbox.order = 1..Len(inbox.order)
  BY DEF OrderInv
<1>2. \A k \in DOMAIN inbox.entries : Sequences[k] = inbox.entries[k].sequence
  BY DEF Sequences
<1> QED
  BY <1>1, <1>2 DEF OrderMatchesSequence, OrderInv, Ordered

\* The order a poll walks and the sequence a listing filters on agree, for any
\* number of commands recorded, swept and recorded again: every live command
\* stands in `order` exactly once, by ascending sequence, below next_sequence.
THEOREM OrderCorrect == Spec => []OrderMatchesSequence
BY OrderMatches, OrderInit, OrderNext, TypeCorrect, PTL DEF Spec

-----------------------------------------------------------------------------
(* The replay of a journal. *)

LEMMA BoundedInduction ==
    ASSUME NEW m \in Nat, NEW T, 0 \in T,
           \A n \in Nat : n < m /\ n \in T => n + 1 \in T
    PROVE  \A n \in 0..m : n \in T
<1> DEFINE U == {n \in Nat : n <= m => n \in T}
<1>1. 0 \in U
  OBVIOUS
<1>2. ASSUME NEW n \in Nat, n \in U PROVE n + 1 \in U
  BY <1>2
<1> HIDE DEF U
<1>3. Nat \subseteq U
  BY <1>1, <1>2, SetInduction
<1> QED
  BY <1>3 DEF U

\* g[i] is where the replay of jnl from acc stands after i records.
Runs(acc, jnl, g, n) ==
    \A i \in 0..n : g[i] = IF i = 0 THEN acc ELSE LoadStep(g[i - 1], jnl[i])

LEMMA RunExists ==
    ASSUME NEW acc, NEW jnl, NEW m \in Nat
    PROVE  \E g : Runs(acc, jnl, g, m)
<1> DEFINE T == {n \in Nat : \E g : Runs(acc, jnl, g, n)}
<1>1. 0 \in T
  <2>1. Runs(acc, jnl, [i \in 0..0 |-> acc], 0)
    BY DEF Runs
  <2> QED
    BY <2>1
<1>2. ASSUME NEW n \in Nat, n \in T PROVE n + 1 \in T
  <2>1. PICK g : Runs(acc, jnl, g, n)
    BY <1>2
  <2>2. PICK last : last = LoadStep(g[n], jnl[n + 1])
    OBVIOUS
  <2> DEFINE h == [i \in 0..(n + 1) |-> IF i = n + 1 THEN last ELSE g[i]]
  <2>3. ASSUME NEW i \in 0..(n + 1)
        PROVE  h[i] = IF i = 0 THEN acc ELSE LoadStep(h[i - 1], jnl[i])
    <3>1. CASE i = n + 1
      <4>1. h[i] = last /\ h[n] = g[n] /\ i # 0 /\ i - 1 = n
        BY <3>1
      <4> QED
        BY <2>2, <3>1, <4>1
    <3>2. CASE i # n + 1
      <4>1. i \in 0..n /\ h[i] = g[i] /\ (i # 0 => h[i - 1] = g[i - 1])
        BY <3>2
      <4> HIDE DEF h
      <4> QED
        BY <2>1, <4>1 DEF Runs
    <3> QED
      BY <3>1, <3>2
  <2> HIDE DEF h
  <2>4. Runs(acc, jnl, h, n + 1)
    BY <2>3 DEF Runs
  <2> QED
    BY <2>4
<1> HIDE DEF T
<1>3. Nat \subseteq T
  BY <1>1, <1>2, SetInduction
<1> QED
  BY <1>3 DEF T

LEMMA RunUnique ==
    ASSUME NEW acc, NEW jnl, NEW m \in Nat, NEW g, NEW h,
           Runs(acc, jnl, g, m), Runs(acc, jnl, h, m)
    PROVE  g[m] = h[m]
<1> DEFINE T == {n \in Nat : g[n] = h[n]}
<1>1. 0 \in T
  BY DEF Runs
<1>2. ASSUME NEW n \in Nat, n < m, n \in T PROVE n + 1 \in T
  <2>1. n + 1 \in 0..m /\ n + 1 # 0 /\ (n + 1) - 1 = n
    BY <1>2
  <2>2. g[n + 1] = LoadStep(g[n], jnl[n + 1]) /\ h[n + 1] = LoadStep(h[n], jnl[n + 1])
    BY <2>1 DEF Runs
  <2> QED
    BY <1>2, <2>2
<1> HIDE DEF T
<1>3. m \in T
  BY <1>1, <1>2, BoundedInduction
<1> QED
  BY <1>3 DEF T

LEMMA ReplayIs ==
    ASSUME NEW acc, NEW jnl, Len(jnl) \in Nat
    PROVE  \E g : Runs(acc, jnl, g, Len(jnl)) /\ Replay(acc, jnl) = g[Len(jnl)]
<1> DEFINE Rec(f) == f = [i \in 0..Len(jnl) |->
                            IF i = 0 THEN acc ELSE LoadStep(f[i - 1], jnl[i])]
           F == CHOOSE f : Rec(f)
<1>1. PICK g : Runs(acc, jnl, g, Len(jnl))
  BY RunExists
<1>2. PICK f : f = [i \in 0..Len(jnl) |-> g[i]]
  OBVIOUS
<1>3. Rec(f)
  <2>1. \A i \in 0..Len(jnl) : f[i] = IF i = 0 THEN acc ELSE LoadStep(f[i - 1], jnl[i])
    BY <1>1, <1>2 DEF Runs
  <2> QED
    BY <1>2, <2>1
<1>4. Rec(F)
  BY <1>3
<1>5. Replay(acc, jnl) = F[Len(jnl)]
  BY DEF Replay
<1> HIDE DEF F
<1>6. Runs(acc, jnl, F, Len(jnl))
  BY <1>4 DEF Runs
<1> QED
  BY <1>5, <1>6

LEMMA RunIsReplay ==
    ASSUME NEW acc, NEW jnl, Len(jnl) \in Nat, NEW g, Runs(acc, jnl, g, Len(jnl))
    PROVE  Replay(acc, jnl) = g[Len(jnl)]
BY ReplayIs, RunUnique

LEMMA ReplayNil == ASSUME NEW acc PROVE Replay(acc, <<>>) = acc
<1>1. Len(<<>>) = 0
  OBVIOUS
<1>2. PICK g : Runs(acc, <<>>, g, 0) /\ Replay(acc, <<>>) = g[0]
  BY <1>1, ReplayIs
<1> QED
  BY <1>2 DEF Runs

LEMMA ReplayOne == ASSUME NEW acc, NEW r PROVE Replay(acc, <<r>>) = LoadStep(acc, r)
<1>1. Len(<<r>>) = 1 /\ <<r>>[1] = r
  OBVIOUS
<1>2. PICK g : Runs(acc, <<r>>, g, 1) /\ Replay(acc, <<r>>) = g[1]
  BY <1>1, ReplayIs
<1>3. g[0] = acc /\ g[1] = LoadStep(g[0], <<r>>[1])
  BY <1>2 DEF Runs
<1> QED
  BY <1>1, <1>2, <1>3

\* Reading two journals one after the other is reading them joined.
LEMMA ReplayConcat ==
    ASSUME NEW R, NEW s \in Seq(R), NEW t \in Seq(R), NEW acc
    PROVE  Replay(acc, s \o t) = Replay(Replay(acc, s), t)
<1>1. PICK m, n : m = Len(s) /\ n = Len(t) /\ m \in Nat /\ n \in Nat
  OBVIOUS
<1>2. PICK j : j = s \o t
  OBVIOUS
<1>3. /\ Len(j) = m + n
      /\ \A i \in 1..m : j[i] = s[i]
      /\ \A i \in 1..n : j[m + i] = t[i]
  <2>1. /\ Len(s \o t) = Len(s) + Len(t)
        /\ \A i \in 1..(Len(s) + Len(t)) :
              (s \o t)[i] = IF i <= Len(s) THEN s[i] ELSE t[i - Len(s)]
    BY ConcatProperties
  <2>2. \A i \in 1..n : m + i \in 1..(m + n) /\ ~(m + i <= m) /\ (m + i) - m = i
    BY <1>1
  <2> QED
    BY <1>1, <1>2, <2>1, <2>2
<1>4. PICK g : Runs(acc, j, g, m + n) /\ Replay(acc, j) = g[m + n]
  <2>1. Len(j) = m + n /\ m + n \in Nat
    BY <1>1, <1>3
  <2> QED
    BY <2>1, ReplayIs
<1>5. Runs(acc, s, g, m)
  <2> SUFFICES ASSUME NEW i \in 0..m
               PROVE  g[i] = IF i = 0 THEN acc ELSE LoadStep(g[i - 1], s[i])
    BY DEF Runs
  <2>1. i \in 0..(m + n) /\ (i # 0 => i \in 1..m)
    BY <1>1
  <2> QED
    BY <1>3, <1>4, <2>1 DEF Runs
<1>6. g[m] = Replay(acc, s)
  BY <1>1, <1>5, RunIsReplay
<1>7. PICK h : h = [i \in 0..n |-> g[m + i]]
  OBVIOUS
<1>8. Runs(g[m], t, h, n)
  <2> SUFFICES ASSUME NEW i \in 0..n
               PROVE  h[i] = IF i = 0 THEN g[m] ELSE LoadStep(h[i - 1], t[i])
    BY DEF Runs
  <2>1. CASE i = 0
    BY <1>1, <1>7, <2>1
  <2>2. CASE i # 0
    <3>1. /\ i \in 1..n /\ i - 1 \in 0..n /\ m + i \in 0..(m + n) /\ m + i # 0
          /\ (m + i) - 1 = m + (i - 1)
      BY <1>1, <2>2
    <3>2. g[m + i] = LoadStep(g[m + (i - 1)], j[m + i])
      BY <1>4, <3>1 DEF Runs
    <3> QED
      BY <1>3, <1>7, <2>2, <3>1, <3>2
  <2> QED
    BY <2>1, <2>2
<1>9. h[n] = Replay(g[m], t)
  BY <1>1, <1>8, RunIsReplay
<1>10. h[n] = g[m + n]
  BY <1>1, <1>7
<1> QED
  BY <1>2, <1>4, <1>6, <1>9, <1>10

-----------------------------------------------------------------------------
(* What a journal holds, and what any inbox built from one looks like. *)

\* The records written by time t.
Records(t) ==
    {CommandRec(c) : c \in Command}
    \cup {DeliveredRec(k, n, at) : k \in Keys, n \in 1..MaxAttempts,
                                   at \in {x \in Time : x <= t}}
    \cup {AcknowledgedRec(k) : k \in Keys}
    \cup {RetiredRec(k, at) : k \in Keys, at \in Nat}
    \cup {CancelledRec(k, at) : k \in Keys, at \in Time}
    \cup {TornRec}

TypedState(st) ==
    /\ DOMAIN st.entries \subseteq Keys /\ IsFiniteSet(DOMAIN st.entries)
    /\ st.entries \in [DOMAIN st.entries -> Entry]
    /\ DOMAIN st.retired \subseteq Keys /\ IsFiniteSet(DOMAIN st.retired)
    /\ st.retired \in [DOMAIN st.retired -> Nat]
    /\ DOMAIN st.entries \cap DOMAIN st.retired = {}
    /\ st.next_sequence \in Nat \ {0}

\* Every key of L stands somewhere in s.
Lists(s, L) == s \in Seq(Keys) /\ \A k \in L : \E i \in 1..Len(s) : s[i] = k

\* What a snapshot leaves out because it is implied.
PlainEntry(e, t) ==
    /\ e.last_delivered <= t
    /\ e.attempts = 0 => e.last_delivered = NoTime
    /\ ~e.cancelled => e.cancelled_at = NoTime

Sound(st, t) ==
    /\ TypedState(st)
    /\ Lists(st.order, DOMAIN st.entries)
    /\ \A k \in DOMAIN st.entries : PlainEntry(st.entries[k], t)

LEMMA RetainLists ==
    ASSUME NEW s, NEW L, NEW keep, NEW M, Lists(s, L), M \subseteq L, M \subseteq keep
    PROVE  Lists(Retain(s, keep), M)
<1>1. PICK r, e : /\ r = Retain(s, keep) /\ r \in Seq(Keys)
                  /\ IsRetained(s, keep, r, e, Len(s))
  BY RetainEmbeds DEF Lists
<1>2. ASSUME NEW k \in M PROVE \E i \in 1..Len(r) : r[i] = k
  <2>1. PICK p \in 1..Len(s) : s[p] = k
    BY DEF Lists
  <2>2. PICK i \in 1..Len(r) : e[i] = p
    BY <1>1, <2>1 DEF IsRetained
  <2>3. r[i] = k
    BY <1>1, <2>1, <2>2 DEF IsRetained
  <2> QED
    BY <2>3
<1> QED
  BY <1>1, <1>2 DEF Lists

LEMMA AppendLists ==
    ASSUME NEW s, NEW L, NEW k \in Keys, Lists(s, L)
    PROVE  Lists(Append(s, k), L \cup {k})
<1>1. PICK t, m : t = Append(s, k) /\ m = Len(s)
  OBVIOUS
<1>2. /\ t \in Seq(Keys) /\ m \in Nat /\ Len(t) = m + 1 /\ t[m + 1] = k
      /\ \A i \in 1..m : t[i] = s[i]
  BY <1>1, AppendProperties DEF Lists
<1>3. ASSUME NEW j \in L \cup {k} PROVE \E i \in 1..Len(t) : t[i] = j
  <2>1. CASE j = k
    BY <1>2, <2>1
  <2>2. CASE j # k
    <3>1. PICK i \in 1..m : s[i] = j
      BY <1>1, <1>3, <2>2 DEF Lists
    <3>2. i \in 1..Len(t) /\ t[i] = j
      BY <1>2, <3>1
    <3> QED
      BY <3>2
  <2> QED
    BY <2>1, <2>2
<1> QED
  BY <1>1, <1>2, <1>3 DEF Lists

LEMMA SoundUpdate ==
    ASSUME NEW st, NEW t, Sound(st, t), NEW k \in DOMAIN st.entries,
           NEW e \in Entry, PlainEntry(e, t)
    PROVE  Sound(UpdateEntry(st, k, e), t)
BY DEF Sound, TypedState, UpdateEntry

LEMMA SoundInsert ==
    ASSUME NEW st, NEW t \in Nat, Sound(st, t), NEW c \in Command, c.key \notin Tracked(st)
    PROVE  Sound(InsertRecorded(st, c), t)
<1> DEFINE k == c.key
           nu == InsertRecorded(st, c)
<1>1. k \in Keys /\ FreshEntry(c, st.next_sequence) \in Entry
      /\ PlainEntry(FreshEntry(c, st.next_sequence), t)
  <2>1. FreshEntry(c, st.next_sequence) \in Entry
    BY FreshEntryType DEF Sound, TypedState
  <2> QED
    BY <2>1 DEF Command, FreshEntry, PlainEntry, NoTime
<1>2. /\ nu.order = Append(Retain(st.order, Keys \ {k}), k)
      /\ nu.entries = [j \in DOMAIN st.entries \cup {k} |->
                         IF j = k THEN FreshEntry(c, st.next_sequence) ELSE st.entries[j]]
      /\ nu.retired = st.retired
      /\ nu.next_sequence = st.next_sequence + 1
  BY DEF InsertRecorded
<1> HIDE DEF nu, k
<1>3. Lists(nu.order, DOMAIN nu.entries)
  <2>1. DOMAIN nu.entries = DOMAIN st.entries \cup {k}
    BY <1>2
  <2>2. DOMAIN st.entries \subseteq Keys \ {k}
    BY DEF Sound, TypedState, Tracked, k
  <2>3. Lists(Retain(st.order, Keys \ {k}), DOMAIN st.entries)
    BY <2>2, RetainLists DEF Sound
  <2> QED
    BY <1>1, <1>2, <2>1, <2>3, AppendLists
<1>4. TypedState(nu)
  <2>1. k \notin DOMAIN st.retired
    BY DEF Tracked, k
  <2>2. IsFiniteSet(DOMAIN st.entries \cup {k})
    BY FS_AddElement DEF Sound, TypedState
  <2> QED
    BY <1>1, <1>2, <2>1, <2>2 DEF Sound, TypedState
<1>5. \A j \in DOMAIN nu.entries : PlainEntry(nu.entries[j], t)
  BY <1>1, <1>2 DEF Sound
<1> QED
  BY <1>3, <1>4, <1>5 DEF Sound, nu

LEMMA SoundRetire ==
    ASSUME NEW st, NEW t, Sound(st, t), NEW k \in Keys, NEW at \in Nat
    PROVE  Sound(Retire(st, k, at), t)
<1>1. IsFiniteSet(DOMAIN st.retired \cup {k}) /\ IsFiniteSet(DOMAIN st.entries \ {k})
  BY FS_AddElement, FS_Subset DEF Sound, TypedState
<1>2. \A M : M \subseteq DOMAIN st.entries => Lists(st.order, M)
  BY DEF Sound, Lists
<1> QED
  BY <1>1, <1>2 DEF Sound, TypedState, Retire

LEMMA SoundMark ==
    ASSUME NEW st, NEW t \in Nat, Sound(st, t), NEW S,
           \A k \in S : k \in DOMAIN st.entries /\ st.entries[k].attempts < MaxAttempts
    PROVE  Sound(MarkDelivered(st, S, t), t)
<1> DEFINE Handed(e) == [e EXCEPT !.attempts = @ + 1, !.last_delivered = t]
           nu == MarkDelivered(st, S, t)
<1>1. ASSUME NEW k \in S PROVE Handed(st.entries[k]) \in Entry
  <2>1. st.entries[k] \in Entry /\ st.entries[k].attempts < MaxAttempts
    BY DEF Sound, TypedState
  <2> QED
    BY <2>1, DeliveredEntryType
<1>2. ASSUME NEW k \in S PROVE PlainEntry(Handed(st.entries[k]), t)
  <2>1. PICK e : e = st.entries[k] /\ e \in Entry /\ PlainEntry(e, t)
    BY DEF Sound, TypedState
  <2>2. PICK f : f = Handed(e)
    OBVIOUS
  <2>3. /\ f.attempts = e.attempts + 1 /\ f.last_delivered = t
        /\ f.cancelled = e.cancelled /\ f.cancelled_at = e.cancelled_at
    BY <2>1, <2>2 DEF Entry
  <2>4. e.attempts + 1 # 0
    BY <2>1, BoundsAssumption DEF Entry
  <2>5. PlainEntry(f, t)
    BY <2>1, <2>3, <2>4 DEF PlainEntry
  <2> QED
    BY <2>1, <2>2, <2>5
<1>3. /\ nu.order = st.order /\ nu.retired = st.retired
      /\ nu.next_sequence = st.next_sequence
      /\ nu.entries = [k \in DOMAIN st.entries |->
                         IF k \in S THEN Handed(st.entries[k]) ELSE st.entries[k]]
  BY DEF MarkDelivered
<1> HIDE DEF nu, Handed
<1>4. /\ nu.entries \in [DOMAIN st.entries -> Entry]
      /\ \A k \in DOMAIN st.entries : PlainEntry(nu.entries[k], t)
  BY <1>1, <1>2, <1>3 DEF Sound, TypedState
<1>5. Sound(nu, t)
  BY <1>3, <1>4 DEF Sound, TypedState
<1> QED
  BY <1>5 DEF nu

LEMMA SoundMaintain ==
    ASSUME NEW st, NEW t \in Nat, Sound(st, t), MaintainChanges(st, t)
    PROVE  Sound(Maintain(st, t), t)
<1> DEFINE live == DOMAIN st.entries \ Settled(st, t)
           R == RetiredAt(st, t)
           nu == Maintain(st, t)
<1>1. /\ nu.order = Retain(st.order, live)
      /\ nu.entries = [k \in live |-> st.entries[k]]
      /\ nu.retired = [k \in DOMAIN R \ Expired(st, t) |-> R[k]]
      /\ nu.next_sequence = st.next_sequence
  BY DEF Maintain
<1>2. /\ DOMAIN R = Settled(st, t) \cup DOMAIN st.retired
      /\ Settled(st, t) \subseteq DOMAIN st.entries
  BY MaintainParts
<1>3. R \in [DOMAIN R -> Nat]
  <2>1. ASSUME NEW k \in Settled(st, t), st.entries[k].cancelled
        PROVE  st.entries[k].cancelled_at \in Nat
    BY <2>1 DEF Settled, IsSettled, Sound, TypedState, Entry, Time, NoTime
  <2> QED
    BY <2>1, MaintainParts DEF RetiredAt, Sound, TypedState
<1>4. DOMAIN R \subseteq Keys
  BY <1>2 DEF Sound, TypedState
<1> HIDE DEF nu, R
<1>5. Lists(nu.order, DOMAIN nu.entries)
  BY <1>1, RetainLists DEF Sound
<1>6. /\ IsFiniteSet(DOMAIN R \ Expired(st, t)) /\ IsFiniteSet(live)
  BY <1>2, FS_Subset, FS_Union DEF Sound, TypedState
<1>7. TypedState(nu)
  BY <1>1, <1>2, <1>3, <1>4, <1>6 DEF Sound, TypedState
<1>8. \A k \in DOMAIN nu.entries : PlainEntry(nu.entries[k], t)
  BY <1>1 DEF Sound
<1> QED
  BY <1>5, <1>7, <1>8 DEF Sound, nu

LEMMA SoundDropStale ==
    ASSUME NEW st, NEW t, Sound(st, t), DOMAIN st = {"order", "entries", "retired", "scope_counts", "next_sequence"}
    PROVE  Sound(DropStaleOrder(st), t)
BY RetainLists DEF Sound, TypedState, DropStaleOrder

-----------------------------------------------------------------------------
(* What one record does. *)

\* The entry e after a Delivered record.
Bump(e, n, at) == [e EXCEPT !.attempts = IF @ >= n THEN @ ELSE n,
                            !.last_delivered = IF @ >= at THEN @ ELSE at]

LEMMA BumpFacts ==
    ASSUME NEW e \in Entry, NEW n \in 0..MaxAttempts, NEW at \in Time
    PROVE  /\ Bump(e, n, at) \in Entry
           /\ Bump(e, n, at).agent = e.agent
           /\ Bump(e, n, at).acknowledged = e.acknowledged
           /\ Bump(e, n, at).cancelled = e.cancelled
           /\ Bump(e, n, at).cancelled_at = e.cancelled_at
           /\ Bump(e, n, at).attempts = IF e.attempts >= n THEN e.attempts ELSE n
           /\ Bump(e, n, at).last_delivered =
                IF e.last_delivered >= at THEN e.last_delivered ELSE at
<1>1. PICK x, y : /\ x = (IF e.attempts >= n THEN e.attempts ELSE n)
                  /\ y = (IF e.last_delivered >= at THEN e.last_delivered ELSE at)
  OBVIOUS
<1>2. x \in 0..MaxAttempts /\ y \in Time
  BY <1>1 DEF Entry
<1>3. Bump(e, n, at) = [e EXCEPT !.attempts = x, !.last_delivered = y]
  BY <1>1 DEF Bump, Entry
<1> QED
  BY <1>1, <1>2, <1>3 DEF Entry

LEMMA AcknowledgedFacts ==
    ASSUME NEW e \in Entry, NEW f, f = [e EXCEPT !.acknowledged = TRUE]
    PROVE  /\ f \in Entry /\ f.agent = e.agent /\ f.attempts = e.attempts
           /\ f.last_delivered = e.last_delivered /\ f.acknowledged = TRUE
           /\ f.cancelled = e.cancelled /\ f.cancelled_at = e.cancelled_at
           /\ f.sequence = e.sequence
BY DEF Entry

LEMMA CancelledFacts ==
    ASSUME NEW e \in Entry, NEW at \in Time, NEW f,
           f = [e EXCEPT !.cancelled = TRUE, !.cancelled_at = at]
    PROVE  /\ f \in Entry /\ f.agent = e.agent /\ f.attempts = e.attempts
           /\ f.last_delivered = e.last_delivered /\ f.acknowledged = e.acknowledged
           /\ f.cancelled = TRUE /\ f.cancelled_at = at /\ f.sequence = e.sequence
BY DEF Entry

LEMMA LoadCommandIs ==
    ASSUME NEW st, NEW c
    PROVE  /\ LoadRefuses(st, CommandRec(c)) <=> CheckRecordable(st, c) = "capacity"
           /\ LoadRecord(st, CommandRec(c)) =
                IF CheckRecordable(st, c) = "ok" THEN InsertRecorded(st, c) ELSE st
<1>1. CheckRecordable(st, CommandRec(c)) = CheckRecordable(st, c)
  BY DEF CheckRecordable, CommandRec
<1>2. InsertRecorded(st, CommandRec(c)) = InsertRecorded(st, c)
  BY DEF InsertRecorded, FreshEntry, CommandRec
<1>3. CommandRec(c).type = "Command"
  BY DEF CommandRec
<1> QED
  BY <1>1, <1>2, <1>3 DEF LoadRefuses, LoadRecord

LEMMA LoadDeliveredIs ==
    ASSUME NEW st, NEW k, NEW n, NEW at
    PROVE  /\ ~LoadRefuses(st, DeliveredRec(k, n, at))
           /\ LoadRecord(st, DeliveredRec(k, n, at)) =
                IF k \in DOMAIN st.entries
                THEN UpdateEntry(st, k, Bump(st.entries[k], n, at)) ELSE st
BY DEF LoadRefuses, LoadRecord, DeliveredRec, ApplyDelivery, Bump

LEMMA LoadAcknowledgedIs ==
    ASSUME NEW st, NEW k
    PROVE  /\ ~LoadRefuses(st, AcknowledgedRec(k))
           /\ LoadRecord(st, AcknowledgedRec(k)) =
                IF k \in DOMAIN st.entries
                THEN UpdateEntry(st, k, [st.entries[k] EXCEPT !.acknowledged = TRUE]) ELSE st
BY DEF LoadRefuses, LoadRecord, AcknowledgedRec, SetAcknowledged

LEMMA LoadCancelledIs ==
    ASSUME NEW st, NEW k, NEW at
    PROVE  /\ ~LoadRefuses(st, CancelledRec(k, at))
           /\ LoadRecord(st, CancelledRec(k, at)) =
                IF k \in DOMAIN st.entries
                THEN UpdateEntry(st, k, [st.entries[k] EXCEPT !.cancelled = TRUE,
                                                              !.cancelled_at = at]) ELSE st
BY DEF LoadRefuses, LoadRecord, CancelledRec, SetCancelled

LEMMA LoadRetiredIs ==
    ASSUME NEW st, NEW k, NEW at
    PROVE  /\ ~LoadRefuses(st, RetiredRec(k, at))
           /\ LoadRecord(st, RetiredRec(k, at)) = Retire(st, k, at)
BY DEF LoadRefuses, LoadRecord, RetiredRec

LEMMA LoadTornIs ==
    ASSUME NEW st
    PROVE  LoadRefuses(st, TornRec)
BY DEF LoadRefuses, TornRec

LEMMA RecordSound ==
    ASSUME NEW t \in Nat, NEW st, Sound(st, t), NEW r \in Records(t), ~LoadRefuses(st, r)
    PROVE  Sound(LoadRecord(st, r), t)
<1>1. ASSUME NEW c \in Command, r = CommandRec(c) PROVE Sound(LoadRecord(st, r), t)
  <2>1. CASE CheckRecordable(st, c) = "ok"
    <3>1. c.key \notin Tracked(st)
      BY <2>1 DEF CheckRecordable
    <3> QED
      BY <1>1, <2>1, <3>1, LoadCommandIs, SoundInsert
  <2>2. CASE CheckRecordable(st, c) # "ok"
    BY <1>1, <2>2, LoadCommandIs
  <2> QED
    BY <2>1, <2>2
<1>0. \A k \in DOMAIN st.entries : st.entries[k] \in Entry /\ PlainEntry(st.entries[k], t)
  BY DEF Sound, TypedState
<1>2. ASSUME NEW k \in Keys, NEW n \in 1..MaxAttempts, NEW at \in {x \in Time : x <= t},
             r = DeliveredRec(k, n, at)
      PROVE  Sound(LoadRecord(st, r), t)
  <2>1. CASE k \in DOMAIN st.entries
    <3>1. PICK e, f : /\ e = st.entries[k] /\ f = Bump(e, n, at)
                      /\ e \in Entry /\ PlainEntry(e, t)
      BY <1>0, <2>1
    <3>2. /\ f \in Entry
          /\ f.cancelled = e.cancelled
          /\ f.cancelled_at = e.cancelled_at
          /\ f.attempts = IF e.attempts >= n THEN e.attempts ELSE n
          /\ f.last_delivered = IF e.last_delivered >= at THEN e.last_delivered ELSE at
      BY <3>1, BumpFacts, BoundsAssumption
    <3>3. f.attempts # 0
      BY <3>1, <3>2, BoundsAssumption DEF Entry
    <3>4. PlainEntry(f, t)
      BY <3>1, <3>2, <3>3 DEF PlainEntry
    <3> QED
      BY <1>2, <2>1, <3>1, <3>2, <3>4, LoadDeliveredIs, SoundUpdate
  <2>2. CASE k \notin DOMAIN st.entries
    BY <1>2, <2>2, LoadDeliveredIs
  <2> QED
    BY <2>1, <2>2
<1>3. ASSUME NEW k \in Keys, r = AcknowledgedRec(k) PROVE Sound(LoadRecord(st, r), t)
  <2>1. CASE k \in DOMAIN st.entries
    <3>1. PICK e, f : /\ e = st.entries[k] /\ f = [e EXCEPT !.acknowledged = TRUE]
                      /\ e \in Entry /\ PlainEntry(e, t)
      BY <1>0, <2>1
    <3>2. /\ f \in Entry /\ f.attempts = e.attempts /\ f.cancelled = e.cancelled
          /\ f.last_delivered = e.last_delivered /\ f.cancelled_at = e.cancelled_at
      BY <3>1 DEF Entry
    <3>3. PlainEntry(f, t)
      BY <3>1, <3>2 DEF PlainEntry
    <3> QED
      BY <1>3, <2>1, <3>1, <3>2, <3>3, LoadAcknowledgedIs, SoundUpdate
  <2>2. CASE k \notin DOMAIN st.entries
    BY <1>3, <2>2, LoadAcknowledgedIs
  <2> QED
    BY <2>1, <2>2
<1>4. ASSUME NEW k \in Keys, NEW at \in Time, r = CancelledRec(k, at)
      PROVE  Sound(LoadRecord(st, r), t)
  <2>1. CASE k \in DOMAIN st.entries
    <3>1. PICK e, f : /\ e = st.entries[k]
                      /\ f = [e EXCEPT !.cancelled = TRUE, !.cancelled_at = at]
                      /\ e \in Entry /\ PlainEntry(e, t)
      BY <1>0, <2>1
    <3>2. /\ f \in Entry /\ f.attempts = e.attempts /\ f.cancelled = TRUE
          /\ f.last_delivered = e.last_delivered
      BY <3>1 DEF Entry
    <3>3. PlainEntry(f, t)
      BY <3>1, <3>2 DEF PlainEntry
    <3>4. LoadRecord(st, r) = UpdateEntry(st, k, f)
      BY <1>4, <2>1, <3>1, LoadCancelledIs, Zenon
    <3> QED
      BY <2>1, <3>2, <3>3, <3>4, SoundUpdate
  <2>2. CASE k \notin DOMAIN st.entries
    BY <1>4, <2>2, LoadCancelledIs
  <2> QED
    BY <2>1, <2>2
<1>5. ASSUME NEW k \in Keys, NEW at \in Nat, r = RetiredRec(k, at)
      PROVE  Sound(LoadRecord(st, r), t)
  BY <1>5, LoadRetiredIs, SoundRetire
<1>6. r # TornRec
  BY LoadTornIs
<1> QED
  BY <1>1, <1>2, <1>3, <1>4, <1>5, <1>6 DEF Records

LEMMA LoadStepSound ==
    ASSUME NEW t \in Nat, NEW acc, Sound(acc.st, t), NEW r \in Records(t)
    PROVE  Sound(LoadStep(acc, r).st, t)
BY RecordSound DEF LoadStep

LEMMA ReplaySound ==
    ASSUME NEW t \in Nat, NEW acc, Sound(acc.st, t), NEW jnl \in Seq(Records(t))
    PROVE  Sound(Replay(acc, jnl).st, t)
<1>1. PICK g : Runs(acc, jnl, g, Len(jnl)) /\ Replay(acc, jnl) = g[Len(jnl)]
  BY ReplayIs
<1> DEFINE T == {n \in Nat : Sound(g[n].st, t)}
<1>2. 0 \in T
  BY <1>1 DEF Runs
<1>3. ASSUME NEW n \in Nat, n < Len(jnl), n \in T PROVE n + 1 \in T
  <2>1. n + 1 \in 0..Len(jnl) /\ n + 1 # 0 /\ (n + 1) - 1 = n /\ n + 1 \in 1..Len(jnl)
    BY <1>3
  <2>2. g[n + 1] = LoadStep(g[n], jnl[n + 1]) /\ jnl[n + 1] \in Records(t)
    BY <1>1, <2>1 DEF Runs
  <2>3. Sound(g[n].st, t)
    BY <1>3
  <2>4. Sound(g[n + 1].st, t)
    BY <2>2, <2>3, LoadStepSound
  <2> QED
    BY <2>4
<1> HIDE DEF T
<1>4. Len(jnl) \in Nat
  OBVIOUS
<1>5. \A n \in 0..Len(jnl) : n \in T
  BY <1>2, <1>3, <1>4, BoundedInduction
<1>6. Len(jnl) \in T
  BY <1>4, <1>5
<1> QED
  BY <1>1, <1>6 DEF T

LEMMA NewSound == ASSUME NEW t \in Nat PROVE Sound(NewInbox, t)
BY FS_EmptySet DEF Sound, TypedState, NewInbox, EmptyMap, Lists

LEMMA LoadSound ==
    ASSUME NEW t \in Nat, NEW jnl \in Seq(Records(t))
    PROVE  Sound(Load(jnl).st, t)
BY ReplaySound, NewSound DEF Load

-----------------------------------------------------------------------------
(* What an appended batch does. *)

LEMMA RefusedForGood ==
    ASSUME NEW acc, NEW jnl, Len(jnl) \in Nat, acc.refused
    PROVE  Replay(acc, jnl).refused
<1>1. PICK g : Runs(acc, jnl, g, Len(jnl)) /\ Replay(acc, jnl) = g[Len(jnl)]
  BY ReplayIs
<1> DEFINE T == {n \in Nat : g[n].refused}
<1>2. 0 \in T
  BY <1>1 DEF Runs
<1>3. ASSUME NEW n \in Nat, n < Len(jnl), n \in T PROVE n + 1 \in T
  <2>1. n + 1 \in 0..Len(jnl) /\ n + 1 # 0 /\ (n + 1) - 1 = n
    BY <1>3
  <2>2. g[n + 1] = LoadStep(g[n], jnl[n + 1])
    BY <1>1, <2>1 DEF Runs
  <2>3. g[n].refused
    BY <1>3
  <2>4. g[n + 1].refused
    BY <2>2, <2>3 DEF LoadStep
  <2> QED
    BY <2>4
<1> HIDE DEF T
<1>5. \A n \in 0..Len(jnl) : n \in T
  BY <1>2, <1>3, BoundedInduction
<1>6. Len(jnl) \in T
  BY <1>5
<1> QED
  BY <1>1, <1>6 DEF T

LEMMA BumpTwice ==
    ASSUME NEW e \in Entry, NEW n \in 0..MaxAttempts, NEW at \in Time
    PROVE  Bump(Bump(e, n, at), n, at) = Bump(e, n, at)
<1>1. PICK f : f = Bump(e, n, at)
  OBVIOUS
<1>2. /\ f \in Entry
      /\ f.attempts = IF e.attempts >= n THEN e.attempts ELSE n
      /\ f.last_delivered = IF e.last_delivered >= at THEN e.last_delivered ELSE at
  BY <1>1, BumpFacts
<1>3. f.attempts >= n /\ f.last_delivered >= at
  BY <1>2, BoundsAssumption DEF Entry, Time, NoTime
<1>4. Bump(f, n, at) = [f EXCEPT !.attempts = f.attempts, !.last_delivered = f.last_delivered]
  BY <1>3 DEF Bump
<1>5. Bump(f, n, at) = f
  BY <1>2, <1>4 DEF Entry
<1> QED
  BY <1>1, <1>5

\* st is d after Delivered records for the first n of ks, attempt att[k] each.
Bumped(st, d, ks, att, t, n) ==
    /\ st.retired = d.retired
    /\ DOMAIN st.entries = DOMAIN d.entries
    /\ \A k \in DOMAIN d.entries :
         st.entries[k] = IF \E i \in 1..n : ks[i] = k THEN Bump(d.entries[k], att[k], t)
                         ELSE d.entries[k]

LEMMA BumpedNext ==
    ASSUME NEW t \in Nat, NEW d, Sound(d, t), NEW st, NEW ks, NEW att, NEW n \in Nat,
           Bumped(st, d, ks, att, t, n), att[ks[n + 1]] \in 1..MaxAttempts,
           NEW new, new = LoadRecord(st, DeliveredRec(ks[n + 1], att[ks[n + 1]], t))
    PROVE  Bumped(new, d, ks, att, t, n + 1)
<1>1. PICK k : k = ks[n + 1]
  OBVIOUS
<1>2. \A i \in 1..(n + 1) : i \in 1..n \/ i = n + 1
  OBVIOUS
<1>3. \A j : (\E i \in 1..(n + 1) : ks[i] = j) <=> (j = k \/ \E i \in 1..n : ks[i] = j)
  BY <1>1, <1>2
<1>4. CASE k \notin DOMAIN d.entries
  <2>1. new = st
    BY <1>1, <1>4, LoadDeliveredIs DEF Bumped
  <2> QED
    BY <1>3, <1>4, <2>1 DEF Bumped
<1>5. CASE k \in DOMAIN d.entries
  <2>1. d.entries[k] \in Entry /\ t \in Time /\ att[k] \in 0..MaxAttempts
    BY <1>1, <1>5, BoundsAssumption DEF Sound, TypedState, Time
  <2>2. Bump(st.entries[k], att[k], t) = Bump(d.entries[k], att[k], t)
    BY <1>5, <2>1, BumpTwice DEF Bumped
  <2>3. new = UpdateEntry(st, k, Bump(d.entries[k], att[k], t))
    BY <1>1, <1>5, <2>2, LoadDeliveredIs DEF Bumped
  <2>4. /\ new.retired = st.retired
        /\ DOMAIN new.entries = DOMAIN st.entries
        /\ \A j \in DOMAIN st.entries :
              new.entries[j] = IF j = k THEN Bump(d.entries[k], att[k], t) ELSE st.entries[j]
    BY <1>5, <2>3 DEF UpdateEntry, Bumped
  <2>5. ASSUME NEW j \in DOMAIN d.entries
        PROVE  new.entries[j] = IF \E i \in 1..(n + 1) : ks[i] = j
                                THEN Bump(d.entries[j], att[j], t) ELSE d.entries[j]
    BY <1>3, <2>4 DEF Bumped
  <2> QED
    BY <2>4, <2>5 DEF Bumped
<1> QED
  BY <1>4, <1>5

\* recs are the Delivered records of the first m of ks.
Delivers(recs, ks, att, t, m) ==
    /\ m \in Nat /\ Len(recs) = m
    /\ \A i \in 1..m : att[ks[i]] \in 1..MaxAttempts
    /\ \A i \in 1..m : recs[i] = DeliveredRec(ks[i], att[ks[i]], t)

LEMMA DeliveredReplay ==
    ASSUME NEW t \in Nat, NEW d, Sound(d, t), NEW m, NEW ks, NEW att, NEW recs,
           Delivers(recs, ks, att, t, m), NEW acc, acc = [st |-> d, refused |-> FALSE]
    PROVE  /\ ~Replay(acc, recs).refused
           /\ Bumped(Replay(acc, recs).st, d, ks, att, t, m)
<1>a. /\ m \in Nat /\ Len(recs) = m
      /\ \A i \in 1..m : att[ks[i]] \in 1..MaxAttempts
      /\ \A i \in 1..m : recs[i] = DeliveredRec(ks[i], att[ks[i]], t)
  BY DEF Delivers
<1>0. acc.st = d /\ acc.refused = FALSE
  OBVIOUS
<1>1. PICK g : Runs(acc, recs, g, m) /\ Replay(acc, recs) = g[m]
  BY <1>a, ReplayIs
<1> DEFINE T == {n \in Nat : ~g[n].refused /\ Bumped(g[n].st, d, ks, att, t, n)}
<1>2. 0 \in T
  <2>1. g[0] = acc
    <3>1. 0 \in 0..m
      BY <1>a
    <3> QED
      BY <1>1, <3>1, Zenon DEF Runs
  <2>2. Bumped(d, d, ks, att, t, 0)
    BY DEF Bumped
  <2> QED
    BY <1>0, <2>1, <2>2
<1>3. ASSUME NEW n \in Nat, n < m, n \in T PROVE n + 1 \in T
  <2>1. n + 1 \in 0..m /\ n + 1 # 0 /\ (n + 1) - 1 = n /\ n + 1 \in 1..m
    BY <1>a, <1>3
  <2>2. g[n + 1] = LoadStep(g[n], DeliveredRec(ks[n + 1], att[ks[n + 1]], t))
    BY <1>a, <1>1, <2>1 DEF Runs
  <2>3. ~g[n].refused /\ Bumped(g[n].st, d, ks, att, t, n)
    BY <1>3
  <2>4. PICK new : new = LoadRecord(g[n].st, DeliveredRec(ks[n + 1], att[ks[n + 1]], t))
    OBVIOUS
  <2>5. g[n + 1] = [st |-> new, refused |-> FALSE]
    BY <2>2, <2>3, <2>4, LoadDeliveredIs DEF LoadStep
  <2>6. Bumped(new, d, ks, att, t, n + 1)
    BY <1>a, <2>1, <2>3, <2>4, BumpedNext
  <2> QED
    BY <2>5, <2>6
<1> HIDE DEF T
<1>5. \A n \in 0..m : n \in T
  BY <1>a, <1>2, <1>3, BoundedInduction
<1>6. m \in T
  BY <1>a, <1>5
<1> QED
  BY <1>1, <1>6 DEF T

-----------------------------------------------------------------------------
(* What a snapshot holds: SetToSeq and FlattenSeq, then the two halves. *)

LEMMA SetToSeqCovers ==
    ASSUME NEW S, IsFiniteSet(S)
    PROVE  /\ SetToSeq(S) \in Seq(S)
           /\ \A x \in S : \E i \in 1..Len(SetToSeq(S)) : SetToSeq(S)[i] = x
<1> DEFINE n == Cardinality(S)
           F == CHOOSE f \in [1..n -> S] : IsInjective(f)
<1>1. n \in Nat /\ ExistsBijection(1..n, S)
  BY FS_CardinalityType
<1>2. PICK b \in Bijection(1..n, S) : TRUE
  BY <1>1 DEF ExistsBijection
<1>3. b \in [1..n -> S] /\ IsInjective(b)
  BY <1>2 DEF Bijection, Injection
<1>4. F \in [1..n -> S] /\ IsInjective(F)
  BY <1>3
<1>5. SetToSeq(S) = F
  BY DEF SetToSeq
<1> HIDE DEF F
<1>6. F \in Injection(1..n, S)
  BY <1>4 DEF Injection
<1>7. Cardinality(1..n) = n
  BY <1>1, FS_Interval
<1>8. F \in Surjection(1..n, S)
  BY <1>6, <1>7, FS_Injection
<1> HIDE DEF n
<1>9. F \in Seq(S) /\ Len(F) = n
  BY <1>1, <1>4
<1> QED
  BY <1>5, <1>8, <1>9 DEF Surjection

\* h[i] is the first i members of seqs joined.
Joins(seqs, h, n) == \A i \in 0..n : h[i] = IF i = 0 THEN <<>> ELSE h[i - 1] \o seqs[i]

LEMMA JoinExists ==
    ASSUME NEW seqs, NEW m \in Nat
    PROVE  \E h : Joins(seqs, h, m)
<1> DEFINE T == {n \in Nat : \E h : Joins(seqs, h, n)}
<1>1. 0 \in T
  <2>1. Joins(seqs, [i \in 0..0 |-> <<>>], 0)
    BY DEF Joins
  <2> QED
    BY <2>1
<1>2. ASSUME NEW n \in Nat, n \in T PROVE n + 1 \in T
  <2>1. PICK g : Joins(seqs, g, n)
    BY <1>2
  <2>2. PICK last : last = g[n] \o seqs[n + 1]
    OBVIOUS
  <2> DEFINE h == [i \in 0..(n + 1) |-> IF i = n + 1 THEN last ELSE g[i]]
  <2>3. ASSUME NEW i \in 0..(n + 1)
        PROVE  h[i] = IF i = 0 THEN <<>> ELSE h[i - 1] \o seqs[i]
    <3>1. CASE i = n + 1
      <4>1. h[i] = last /\ h[n] = g[n] /\ i # 0 /\ i - 1 = n
        BY <3>1
      <4> HIDE DEF h
      <4> QED
        BY <2>2, <3>1, <4>1
    <3>2. CASE i # n + 1
      <4>1. i \in 0..n /\ h[i] = g[i] /\ (i # 0 => h[i - 1] = g[i - 1])
        BY <3>2
      <4> HIDE DEF h
      <4> QED
        BY <2>1, <4>1 DEF Joins
    <3> QED
      BY <3>1, <3>2
  <2> HIDE DEF h
  <2>4. Joins(seqs, h, n + 1)
    BY <2>3 DEF Joins
  <2> QED
    BY <2>4
<1> HIDE DEF T
<1>3. Nat \subseteq T
  BY <1>1, <1>2, SetInduction
<1> QED
  BY <1>3 DEF T

LEMMA FlattenIs ==
    ASSUME NEW R, NEW seqs \in Seq(Seq(R))
    PROVE  \E h : /\ Joins(seqs, h, Len(seqs)) /\ FlattenSeq(seqs) = h[Len(seqs)]
                  /\ \A i \in 0..Len(seqs) : h[i] \in Seq(R)
<1>1. PICK m : m = Len(seqs) /\ m \in Nat
  OBVIOUS
<1>2. \A i \in 1..m : seqs[i] \in Seq(R) /\ <<>> \o seqs[i] = seqs[i]
  BY <1>1, ConcatEmptySeq
<1>3. ASSUME NEW h, Joins(seqs, h, m) PROVE \A i \in 0..m : h[i] \in Seq(R)
  <2> DEFINE T == {n \in Nat : h[n] \in Seq(R)}
  <2>1. 0 \in T
    <3>1. 0 \in 0..m /\ h[0] = <<>>
      BY <1>1, <1>3 DEF Joins
    <3>2. <<>> \in Seq(R)
      OBVIOUS
    <3> QED
      BY <3>1, <3>2
  <2>2. ASSUME NEW n \in Nat, n < m, n \in T PROVE n + 1 \in T
    <3>1. n + 1 \in 0..m /\ n + 1 # 0 /\ (n + 1) - 1 = n /\ n + 1 \in 1..m
      BY <1>1, <2>2
    <3>2. h[n + 1] = h[n] \o seqs[n + 1]
      BY <1>3, <3>1 DEF Joins
    <3>3. h[n] \in Seq(R) /\ seqs[n + 1] \in Seq(R)
      BY <1>2, <2>2, <3>1
    <3>4. h[n + 1] \in Seq(R)
      BY <3>2, <3>3, ConcatProperties
    <3> QED
      BY <3>4
  <2> HIDE DEF T
  <2>3. \A n \in 0..m : n \in T
    BY <1>1, <2>1, <2>2, BoundedInduction
  <2> QED
    BY <2>3 DEF T
<1>4. CASE m = 0
  <2>1. seqs = <<>> /\ FlattenSeq(seqs) = <<>>
    BY <1>1, <1>4, EmptySeq DEF FlattenSeq
  <2>2. PICK h : Joins(seqs, h, m)
    BY <1>1, JoinExists
  <2>3. h[0] = <<>>
    BY <1>1, <2>2 DEF Joins
  <2> QED
    BY <1>1, <1>3, <1>4, <2>1, <2>2, <2>3
<1>5. CASE m # 0
  <2> DEFINE Rec(f) == f = [i \in 1..Len(seqs) |->
                              IF i = 1 THEN seqs[i] ELSE f[i - 1] \o seqs[i]]
             F == CHOOSE f : Rec(f)
  <2>1. PICK g : Joins(seqs, g, m)
    BY <1>1, JoinExists
  <2>2. PICK f : f = [i \in 1..Len(seqs) |-> g[i]]
    OBVIOUS
  <2>3. ASSUME NEW i \in 1..m
        PROVE  f[i] = IF i = 1 THEN seqs[i] ELSE f[i - 1] \o seqs[i]
    <3>0. i \in 0..m /\ i # 0
      BY <1>1
    <3>1. i # 0 /\ f[i] = g[i] /\ g[i] = g[i - 1] \o seqs[i]
      BY <1>1, <2>1, <2>2, <3>0 DEF Joins
    <3>2. CASE i = 1
      <4>1. g[0] = <<>> /\ i - 1 = 0
        BY <1>1, <2>1, <3>2 DEF Joins
      <4> QED
        BY <1>2, <3>1, <3>2, <4>1
    <3>3. CASE i # 1
      <4>1. i - 1 \in 1..Len(seqs)
        BY <1>1, <3>3
      <4> QED
        BY <2>2, <3>1, <3>3, <4>1
    <3> QED
      BY <3>2, <3>3
  <2>4. Rec(f)
    BY <1>1, <2>2, <2>3
  <2>5. Rec(F)
    BY <2>4
  <2>6. FlattenSeq(seqs) = F[m]
    BY <1>1, <1>5 DEF FlattenSeq
  <2> HIDE DEF F
  <2>7. \A i \in 1..m : F[i] = IF i = 1 THEN seqs[i] ELSE F[i - 1] \o seqs[i]
    BY <1>1, <2>5
  <2>8. PICK h : h = [i \in 0..m |-> IF i = 0 THEN <<>> ELSE F[i]]
    OBVIOUS
  <2>9. ASSUME NEW i \in 0..m PROVE h[i] = IF i = 0 THEN <<>> ELSE h[i - 1] \o seqs[i]
    <3>1. CASE i = 0
      BY <1>1, <2>8, <3>1
    <3>2. CASE i = 1
      <4>1. h[1] = F[1] /\ h[0] = <<>> /\ i - 1 = 0 /\ 1 \in 1..m /\ F[1] = seqs[1]
        BY <1>1, <2>7, <2>8, <3>2
      <4> QED
        BY <1>2, <3>2, <4>1
    <3>3. CASE i # 0 /\ i # 1
      <4>1. i \in 1..m /\ i - 1 \in 0..m /\ i - 1 # 0
        BY <1>1, <3>3
      <4>2. h[i] = F[i] /\ h[i - 1] = F[i - 1] /\ F[i] = F[i - 1] \o seqs[i]
        BY <2>7, <2>8, <3>3, <4>1
      <4> QED
        BY <3>3, <4>2
    <3> QED
      BY <3>1, <3>2, <3>3
  <2>10. Joins(seqs, h, m)
    BY <2>9 DEF Joins
  <2>11. h[m] = F[m]
    BY <1>1, <1>5, <2>8
  <2> QED
    BY <1>1, <1>3, <2>6, <2>10, <2>11
<1> QED
  BY <1>4, <1>5

\* d is m but for its place in the sequence.
Alike(d, m) ==
    /\ d.agent = m.agent /\ d.attempts = m.attempts
    /\ d.last_delivered = m.last_delivered /\ d.acknowledged = m.acknowledged
    /\ d.cancelled = m.cancelled /\ d.cancelled_at = m.cancelled_at

\* x holds the commands D of st and no tombstone.
Copied(x, st, D) ==
    /\ DOMAIN x.retired = {}
    /\ DOMAIN x.entries = D
    /\ \A k \in D : Alike(x.entries[k], st.entries[k])

\* e was recorded and nothing happened to it since.
Blank(e) ==
    /\ e.attempts = 0 /\ e.last_delivered = NoTime /\ e.acknowledged = FALSE
    /\ e.cancelled = FALSE /\ e.cancelled_at = NoTime

\* ... and e as command k.
Copying(x, st, D, k, e) ==
    /\ DOMAIN x.retired = {}
    /\ DOMAIN x.entries = D \cup {k}
    /\ x.entries[k] = e
    /\ \A j \in D \ {k} : Alike(x.entries[j], st.entries[j])

LEMMA CopyingUpdate ==
    ASSUME NEW x, NEW st, NEW D, NEW k, NEW e, NEW f, Copying(x, st, D, k, e)
    PROVE  Copying(UpdateEntry(x, k, f), st, D, k, f)
BY DEF Copying, UpdateEntry

LEMMA StepTaken ==
    ASSUME NEW acc, NEW r, ~LoadStep(acc, r).refused
    PROVE  /\ ~acc.refused /\ ~LoadRefuses(acc.st, r)
           /\ LoadStep(acc, r).st = LoadRecord(acc.st, r)
BY DEF LoadStep

\* The four parts of a live command's records.
LEMMA CopyCommand ==
    ASSUME NEW t \in Nat, NEW st, Sound(st, t), NEW k \in DOMAIN st.entries,
           NEW D, NEW x, Sound(x, t), Copied(x, st, D),
           NEW c, c = [key |-> k, agent |-> st.entries[k].agent],
           ~LoadRefuses(x, CommandRec(c)), NEW y, y = LoadRecord(x, CommandRec(c)),
           NEW e, e = y.entries[k], NEW m, m = st.entries[k]
    PROVE  /\ Copying(y, st, D, k, e) /\ e.agent = m.agent
           /\ Alike(e, m) \/ Blank(e)
<1>2. c.key = k /\ c.agent = m.agent
  OBVIOUS
<1>3. Tracked(x) = D
  BY DEF Tracked, Copied
<1>4. CASE k \in D
  <2>1. y = x
    BY <1>2, <1>3, <1>4, LoadCommandIs DEF CheckRecordable
  <2>2. Copying(x, st, D, k, x.entries[k]) /\ Alike(x.entries[k], m)
    BY <1>4 DEF Copied, Copying
  <2>3. x.entries[k].agent = m.agent
    BY <2>2 DEF Alike
  <2> QED
    BY <2>1, <2>2, <2>3
<1>5. CASE k \notin D
  <2>1. CheckRecordable(x, c) # "already"
    BY <1>2, <1>3, <1>5 DEF CheckRecordable
  <2>2. CheckRecordable(x, c) = "ok"
    BY <2>1, LoadCommandIs DEF CheckRecordable
  <2>3. y = InsertRecorded(x, c)
    BY <2>2, LoadCommandIs
  <2>4. /\ DOMAIN y.entries = D \cup {k} /\ y.retired = x.retired
        /\ y.entries[k] = FreshEntry(c, x.next_sequence)
        /\ \A j \in D \ {k} : y.entries[j] = x.entries[j]
    BY <1>2, <2>3 DEF InsertRecorded, Copied
  <2>5. e = FreshEntry(c, x.next_sequence)
    BY <2>4
  <2>6. e.agent = m.agent /\ Blank(e)
    BY <1>2, <2>5 DEF FreshEntry, Blank
  <2>7. Copying(y, st, D, k, e)
    BY <2>4, <2>5 DEF Copying, Copied
  <2> QED
    BY <2>4, <2>5, <2>6, <2>7
<1> QED
  BY <1>4, <1>5

LEMMA ReplayIf ==
    ASSUME NEW acc, NEW r, NEW cond \in BOOLEAN
    PROVE  Replay(acc, IF cond THEN <<r>> ELSE <<>>) = IF cond THEN LoadStep(acc, r) ELSE acc
<1>1. CASE cond
  BY <1>1, ReplayOne
<1>2. CASE ~cond
  BY <1>2, ReplayNil
<1> QED
  BY <1>1, <1>2

LEMMA SnapshotOfParts ==
    ASSUME NEW t \in Nat, NEW st, Sound(st, t), NEW k \in DOMAIN st.entries
    PROVE  LET e == st.entries[k]
               p1 == <<CommandRec([key |-> k, agent |-> e.agent])>>
               p2 == IF e.attempts > 0
                     THEN <<DeliveredRec(k, e.attempts, e.last_delivered)>> ELSE <<>>
               p3 == IF e.acknowledged THEN <<AcknowledgedRec(k)>> ELSE <<>>
               p4 == IF e.cancelled THEN <<CancelledRec(k, e.cancelled_at)>> ELSE <<>>
           IN  /\ p1 \in Seq(Records(t)) /\ p2 \in Seq(Records(t))
               /\ p3 \in Seq(Records(t)) /\ p4 \in Seq(Records(t))
               /\ SnapshotOf(st, k) = ((p1 \o p2) \o p3) \o p4
<1>1. PICK e : e = st.entries[k] /\ e \in Entry /\ PlainEntry(e, t) /\ k \in Keys
  BY DEF Sound, TypedState
<1>2. PICK c : c = [key |-> k, agent |-> e.agent]
  OBVIOUS
<1>3. c \in Command
  BY <1>1, <1>2 DEF Command, Entry
<1>4. CommandRec(c) \in Records(t) /\ AcknowledgedRec(k) \in Records(t)
  BY <1>1, <1>3 DEF Records
<1>5. e.cancelled_at \in Time /\ CancelledRec(k, e.cancelled_at) \in Records(t)
  <2>1. e.cancelled_at \in Time
    BY <1>1 DEF Entry
  <2> QED
    BY <1>1, <2>1 DEF Records
<1>6. e.attempts > 0 => DeliveredRec(k, e.attempts, e.last_delivered) \in Records(t)
  <2>1. e.attempts > 0 => e.attempts \in 1..MaxAttempts
    BY <1>1, BoundsAssumption DEF Entry
  <2>2. e.last_delivered \in {x \in Time : x <= t}
    BY <1>1 DEF Entry, PlainEntry
  <2> QED
    BY <1>1, <2>1, <2>2 DEF Records
<1>7. PICK R : R = Records(t)
  OBVIOUS
<1>8. <<>> \in Seq(R) /\ \A r \in R : <<r>> \in Seq(R)
  OBVIOUS
<1> QED
  BY <1>1, <1>2, <1>4, <1>5, <1>6, <1>7, <1>8 DEF SnapshotOf

LEMMA CopyEntry ==
    ASSUME NEW t \in Nat, NEW e \in Entry, NEW m \in Entry, PlainEntry(m, t), e.agent = m.agent,
           Alike(e, m) \/ Blank(e),
           NEW e2, e2 = IF m.attempts > 0 THEN Bump(e, m.attempts, m.last_delivered) ELSE e,
           NEW e3, e3 = IF m.acknowledged THEN [e2 EXCEPT !.acknowledged = TRUE] ELSE e2,
           NEW e4, e4 = IF m.cancelled THEN [e3 EXCEPT !.cancelled = TRUE,
                                                       !.cancelled_at = m.cancelled_at]
                        ELSE e3
    PROVE  e2 \in Entry /\ e3 \in Entry /\ e4 \in Entry /\ Alike(e4, m)
<1>0. /\ m.attempts \in 0..MaxAttempts /\ m.last_delivered \in Time /\ m.cancelled_at \in Time
      /\ m.acknowledged \in BOOLEAN /\ m.cancelled \in BOOLEAN
      /\ e.attempts \in 0..MaxAttempts /\ e.last_delivered \in Time
  BY DEF Entry
<1>1. /\ e2 \in Entry /\ e2.agent = m.agent
      /\ e2.attempts = m.attempts /\ e2.last_delivered = m.last_delivered
      /\ e2.acknowledged = e.acknowledged /\ e2.cancelled = e.cancelled
      /\ e2.cancelled_at = e.cancelled_at
  <2>1. CASE m.attempts > 0
    <3>1. /\ e2 \in Entry /\ e2.agent = e.agent
          /\ e2.acknowledged = e.acknowledged /\ e2.cancelled = e.cancelled
          /\ e2.cancelled_at = e.cancelled_at
          /\ e2.attempts = IF e.attempts >= m.attempts THEN e.attempts ELSE m.attempts
          /\ e2.last_delivered = IF e.last_delivered >= m.last_delivered
                                 THEN e.last_delivered ELSE m.last_delivered
      <4>1. PICK n, at : /\ n = m.attempts /\ at = m.last_delivered
                         /\ n \in 0..MaxAttempts /\ at \in Time
        BY <1>0
      <4>2. e2 = Bump(e, n, at)
        BY <2>1, <4>1
      <4>3. /\ e2 \in Entry /\ e2.agent = e.agent
            /\ e2.acknowledged = e.acknowledged /\ e2.cancelled = e.cancelled
            /\ e2.cancelled_at = e.cancelled_at
            /\ e2.attempts = IF e.attempts >= n THEN e.attempts ELSE n
            /\ e2.last_delivered = IF e.last_delivered >= at THEN e.last_delivered ELSE at
        BY <4>1, <4>2, BumpFacts
      <4> QED
        BY <4>1, <4>3
    <3> QED
      BY <1>0, <2>1, <3>1, BoundsAssumption DEF Alike, Blank, Time, NoTime
  <2>2. CASE ~(m.attempts > 0)
    <3>1. m.attempts = 0 /\ m.last_delivered = NoTime /\ e2 = e
      BY <1>0, <2>2, BoundsAssumption DEF PlainEntry
    <3> QED
      BY <3>1 DEF Alike, Blank
  <2> QED
    BY <2>1, <2>2
<1>2. /\ e3 \in Entry /\ e3.agent = m.agent
      /\ e3.attempts = m.attempts /\ e3.last_delivered = m.last_delivered
      /\ e3.acknowledged = m.acknowledged /\ e3.cancelled = e.cancelled
      /\ e3.cancelled_at = e.cancelled_at
  <2>1. CASE m.acknowledged
    <3>1. e3 = [e2 EXCEPT !.acknowledged = TRUE]
      BY <2>1
    <3>2. /\ e3 \in Entry /\ e3.agent = e2.agent /\ e3.attempts = e2.attempts
          /\ e3.last_delivered = e2.last_delivered /\ e3.acknowledged = TRUE
          /\ e3.cancelled = e2.cancelled /\ e3.cancelled_at = e2.cancelled_at
      BY <1>1, <3>1, AcknowledgedFacts
    <3> QED
      BY <1>0, <1>1, <2>1, <3>2
  <2>2. CASE ~m.acknowledged
    BY <1>0, <1>1, <2>2 DEF Alike, Blank
  <2> QED
    BY <2>1, <2>2
<1>3. CASE m.cancelled
  <2>1. e4 = [e3 EXCEPT !.cancelled = TRUE, !.cancelled_at = m.cancelled_at]
    BY <1>3
  <2>2. /\ e4 \in Entry /\ e4.agent = e3.agent /\ e4.attempts = e3.attempts
        /\ e4.last_delivered = e3.last_delivered /\ e4.acknowledged = e3.acknowledged
        /\ e4.cancelled = TRUE /\ e4.cancelled_at = m.cancelled_at
    BY <1>0, <1>2, <2>1 DEF Entry
  <2>3. m.cancelled = TRUE
    BY <1>0, <1>3
  <2> QED
    BY <1>1, <1>2, <2>2, <2>3 DEF Alike, Blank
<1>4. CASE ~m.cancelled
  <2>1. m.cancelled = FALSE /\ m.cancelled_at = NoTime /\ e4 = e3
    BY <1>0, <1>4 DEF PlainEntry
  <2> QED
    BY <1>1, <1>2, <2>1 DEF Alike, Blank
<1> QED
  BY <1>3, <1>4

LEMMA CopyBlock ==
    ASSUME NEW t \in Nat, NEW st, Sound(st, t), NEW k \in DOMAIN st.entries, NEW D,
           NEW acc, Sound(acc.st, t), Copied(acc.st, st, D),
           ~Replay(acc, SnapshotOf(st, k)).refused
    PROVE  ~acc.refused /\ Copied(Replay(acc, SnapshotOf(st, k)).st, st, D \cup {k})
<1>0. PICK m : m = st.entries[k] /\ m \in Entry /\ PlainEntry(m, t) /\ k \in Keys
  BY DEF Sound, TypedState
<1>1. m.acknowledged \in BOOLEAN /\ m.cancelled \in BOOLEAN /\ (m.attempts > 0) \in BOOLEAN
  BY <1>0 DEF Entry
<1>2. PICK c : c = [key |-> k, agent |-> m.agent]
  OBVIOUS
<1> DEFINE r1 == CommandRec(c)
           r2 == DeliveredRec(k, m.attempts, m.last_delivered)
           r3 == AcknowledgedRec(k)
           r4 == CancelledRec(k, m.cancelled_at)
           p2 == IF m.attempts > 0 THEN <<r2>> ELSE <<>>
           p3 == IF m.acknowledged THEN <<r3>> ELSE <<>>
           p4 == IF m.cancelled THEN <<r4>> ELSE <<>>
<1>3. /\ <<r1>> \in Seq(Records(t)) /\ p2 \in Seq(Records(t))
      /\ p3 \in Seq(Records(t)) /\ p4 \in Seq(Records(t))
      /\ SnapshotOf(st, k) = ((<<r1>> \o p2) \o p3) \o p4
  BY <1>0, <1>2, SnapshotOfParts
<1> HIDE DEF r1, r2, r3, r4
<1>4. PICK a1, a2, a3, a4 :
        /\ a1 = LoadStep(acc, r1)
        /\ a2 = IF m.attempts > 0 THEN LoadStep(a1, r2) ELSE a1
        /\ a3 = IF m.acknowledged THEN LoadStep(a2, r3) ELSE a2
        /\ a4 = IF m.cancelled THEN LoadStep(a3, r4) ELSE a3
  OBVIOUS
<1>5. /\ Replay(acc, <<r1>>) = a1 /\ Replay(a1, p2) = a2
      /\ Replay(a2, p3) = a3 /\ Replay(a3, p4) = a4
  BY <1>1, <1>4, ReplayOne, ReplayIf
<1> HIDE DEF p2, p3, p4
<1>6. Replay(acc, SnapshotOf(st, k)) = a4
  <2>1. PICK q2, q3 : q2 = <<r1>> \o p2 /\ q3 = q2 \o p3
    OBVIOUS
  <2>2. q2 \in Seq(Records(t)) /\ q3 \in Seq(Records(t))
    BY <1>3, <2>1, ConcatProperties
  <2>3. Replay(acc, q2) = a2
    BY <1>3, <1>5, <2>1, ReplayConcat
  <2>4. Replay(acc, q3) = a3
    <3>1. Replay(acc, q2 \o p3) = Replay(Replay(acc, q2), p3)
      BY <1>3, <2>2, ReplayConcat
    <3> QED
      BY <1>5, <2>1, <2>3, <3>1
  <2>5. Replay(acc, q3 \o p4) = a4
    BY <1>3, <1>5, <2>2, <2>4, ReplayConcat
  <2> QED
    BY <1>3, <2>1, <2>5
<1>7. ~a4.refused /\ ~a3.refused /\ ~a2.refused /\ ~a1.refused /\ ~acc.refused
  BY <1>4, <1>6, StepTaken
<1>8. /\ ~LoadRefuses(acc.st, r1) /\ a1.st = LoadRecord(acc.st, r1)
      /\ a2.st = IF m.attempts > 0 THEN LoadRecord(a1.st, r2) ELSE a1.st
      /\ a3.st = IF m.acknowledged THEN LoadRecord(a2.st, r3) ELSE a2.st
      /\ a4.st = IF m.cancelled THEN LoadRecord(a3.st, r4) ELSE a3.st
  BY <1>4, <1>7, StepTaken
<1>9. PICK e1 : e1 = a1.st.entries[k]
  OBVIOUS
<1>10. /\ Copying(a1.st, st, D, k, e1) /\ e1.agent = m.agent
       /\ Alike(e1, m) \/ Blank(e1)
  <2>1. PICK x, y : x = acc.st /\ y = a1.st
    OBVIOUS
  <2>2. /\ c = [key |-> k, agent |-> st.entries[k].agent]
        /\ Sound(x, t) /\ Copied(x, st, D)
        /\ ~LoadRefuses(x, CommandRec(c)) /\ y = LoadRecord(x, CommandRec(c))
        /\ e1 = y.entries[k] /\ m = st.entries[k]
    BY <1>0, <1>2, <1>8, <1>9, <2>1 DEF r1
  <2>3. /\ Copying(y, st, D, k, e1) /\ e1.agent = m.agent
        /\ Alike(e1, m) \/ Blank(e1)
    BY <2>2, CopyCommand
  <2> QED
    BY <2>1, <2>3
<1>11. Sound(a1.st, t)
  <2>1. r1 \in Records(t)
    BY <1>3
  <2> QED
    BY <1>4, <2>1, LoadStepSound
<1>12. e1 \in Entry
  BY <1>9, <1>10, <1>11 DEF Sound, TypedState, Copying
<1>13. PICK e2, e3, e4 :
         /\ e2 = IF m.attempts > 0 THEN Bump(e1, m.attempts, m.last_delivered) ELSE e1
         /\ e3 = IF m.acknowledged THEN [e2 EXCEPT !.acknowledged = TRUE] ELSE e2
         /\ e4 = IF m.cancelled THEN [e3 EXCEPT !.cancelled = TRUE,
                                                !.cancelled_at = m.cancelled_at] ELSE e3
  OBVIOUS
<1>14. Alike(e4, m)
  BY <1>0, <1>10, <1>12, <1>13, CopyEntry
<1>15. Copying(a2.st, st, D, k, e2)
  <2>1. LoadRecord(a1.st, r2) = UpdateEntry(a1.st, k, Bump(e1, m.attempts, m.last_delivered))
    BY <1>9, <1>10, LoadDeliveredIs DEF r2, Copying
  <2> QED
    BY <1>8, <1>10, <1>13, <2>1, CopyingUpdate
<1>16. Copying(a3.st, st, D, k, e3)
  <2>1. LoadRecord(a2.st, r3) = UpdateEntry(a2.st, k, [e2 EXCEPT !.acknowledged = TRUE])
    BY <1>15, LoadAcknowledgedIs DEF r3, Copying
  <2> QED
    BY <1>8, <1>13, <1>15, <2>1, CopyingUpdate
<1>17. Copying(a4.st, st, D, k, e4)
  <2>1. LoadRecord(a3.st, r4) = UpdateEntry(a3.st, k, [e3 EXCEPT !.cancelled = TRUE,
                                                       !.cancelled_at = m.cancelled_at])
    BY <1>16, LoadCancelledIs DEF r4, Copying
  <2> QED
    BY <1>8, <1>13, <1>16, <2>1, CopyingUpdate
<1>18. Copied(a4.st, st, D \cup {k})
  BY <1>0, <1>14, <1>17 DEF Copying, Copied
<1> QED
  BY <1>6, <1>7, <1>18

LEMMA SnapshotOfTyped ==
    ASSUME NEW t \in Nat, NEW st, Sound(st, t), NEW k \in DOMAIN st.entries
    PROVE  SnapshotOf(st, k) \in Seq(Records(t))
<1> DEFINE e == st.entries[k]
           p1 == <<CommandRec([key |-> k, agent |-> e.agent])>>
           p2 == IF e.attempts > 0
                 THEN <<DeliveredRec(k, e.attempts, e.last_delivered)>> ELSE <<>>
           p3 == IF e.acknowledged THEN <<AcknowledgedRec(k)>> ELSE <<>>
           p4 == IF e.cancelled THEN <<CancelledRec(k, e.cancelled_at)>> ELSE <<>>
<1>1. /\ p1 \in Seq(Records(t)) /\ p2 \in Seq(Records(t))
      /\ p3 \in Seq(Records(t)) /\ p4 \in Seq(Records(t))
      /\ SnapshotOf(st, k) = ((p1 \o p2) \o p3) \o p4
  BY SnapshotOfParts
<1> HIDE DEF p1, p2, p3, p4
<1>2. p1 \o p2 \in Seq(Records(t))
  BY <1>1, ConcatProperties
<1>3. (p1 \o p2) \o p3 \in Seq(Records(t))
  BY <1>1, <1>2, ConcatProperties
<1> QED
  BY <1>1, <1>3, ConcatProperties

\* The live commands of st as Snapshot walks them, and their records.
Live(st) == Retain(st.order, DOMAIN st.entries)
Blocks(st) == [i \in DOMAIN Live(st) |-> SnapshotOf(st, Live(st)[i])]
Tombs(st) == SetToSeq(DOMAIN st.retired)
Tombstones(st) == [i \in DOMAIN Tombs(st) |-> RetiredRec(Tombs(st)[i], st.retired[Tombs(st)[i]])]

LEMMA LiveIsLive ==
    ASSUME NEW t \in Nat, NEW st, Sound(st, t)
    PROVE  /\ Live(st) \in Seq(Keys)
           /\ \A i \in 1..Len(Live(st)) : Live(st)[i] \in DOMAIN st.entries
           /\ \A k \in DOMAIN st.entries : \E i \in 1..Len(Live(st)) : Live(st)[i] = k
<1>1. Lists(Live(st), DOMAIN st.entries)
  BY RetainLists DEF Sound, Live
<1>2. PICK e : IsRetained(st.order, DOMAIN st.entries, Live(st), e, Len(st.order))
  BY RetainEmbeds DEF Sound, Lists, Live
<1> QED
  BY <1>1, <1>2 DEF Lists, IsRetained

LEMMA SnapshotParts ==
    ASSUME NEW t \in Nat, NEW st, Sound(st, t)
    PROVE  /\ Blocks(st) \in Seq(Seq(Records(t))) /\ Len(Blocks(st)) = Len(Live(st))
           /\ \A i \in 1..Len(Live(st)) : Blocks(st)[i] = SnapshotOf(st, Live(st)[i])
           /\ FlattenSeq(Blocks(st)) \in Seq(Records(t))
           /\ Tombstones(st) \in Seq(Records(t)) /\ Len(Tombstones(st)) = Len(Tombs(st))
           /\ \A i \in 1..Len(Tombs(st)) :
                /\ Tombs(st)[i] \in DOMAIN st.retired
                /\ Tombstones(st)[i] = RetiredRec(Tombs(st)[i], st.retired[Tombs(st)[i]])
           /\ \A k \in DOMAIN st.retired : \E i \in 1..Len(Tombs(st)) : Tombs(st)[i] = k
           /\ Snapshot(st) = FlattenSeq(Blocks(st)) \o Tombstones(st)
           /\ Snapshot(st) \in Seq(Records(t))
<1>1. PICK n, live : /\ live = Live(st) /\ n = Len(live) /\ n \in Nat /\ DOMAIN live = 1..n
                     /\ \A i \in 1..n : live[i] \in DOMAIN st.entries
  BY LiveIsLive
<1>2. PICK bs : bs = Blocks(st) /\ bs = [i \in 1..n |-> SnapshotOf(st, live[i])]
  BY <1>1 DEF Blocks
<1>3. \A i \in 1..n : SnapshotOf(st, live[i]) \in Seq(Records(t))
  BY <1>1, SnapshotOfTyped
<1>4. bs \in Seq(Seq(Records(t))) /\ Len(bs) = n
  <2>1. PICK Q : Q = Seq(Records(t))
    OBVIOUS
  <2>2. bs \in [1..n -> Q]
    BY <1>2, <1>3, <2>1
  <2> QED
    BY <1>1, <2>1, <2>2
<1>5. FlattenSeq(bs) \in Seq(Records(t))
  <2>1. PICK h : /\ FlattenSeq(bs) = h[Len(bs)]
                 /\ \A i \in 0..Len(bs) : h[i] \in Seq(Records(t))
    BY <1>4, FlattenIs
  <2> QED
    BY <1>1, <1>4, <2>1
<1>6. PICK m, tombs : /\ tombs = Tombs(st) /\ m = Len(tombs) /\ m \in Nat /\ DOMAIN tombs = 1..m
                      /\ \A i \in 1..m : tombs[i] \in DOMAIN st.retired
                      /\ \A k \in DOMAIN st.retired : \E i \in 1..m : tombs[i] = k
  <2>1. /\ Tombs(st) \in Seq(DOMAIN st.retired)
        /\ \A x \in DOMAIN st.retired : \E i \in 1..Len(Tombs(st)) : Tombs(st)[i] = x
    BY SetToSeqCovers DEF Sound, TypedState, Tombs
  <2> QED
    BY <2>1
<1>7. PICK ts : ts = Tombstones(st) /\ ts = [i \in 1..m |-> RetiredRec(tombs[i], st.retired[tombs[i]])]
  BY <1>6 DEF Tombstones
<1>8. \A i \in 1..m : RetiredRec(tombs[i], st.retired[tombs[i]]) \in Records(t)
  <2> SUFFICES ASSUME NEW i \in 1..m
               PROVE  RetiredRec(tombs[i], st.retired[tombs[i]]) \in Records(t)
    OBVIOUS
  <2>1. tombs[i] \in Keys /\ st.retired[tombs[i]] \in Nat
    BY <1>6 DEF Sound, TypedState
  <2> QED
    BY <2>1 DEF Records
<1>9. ts \in Seq(Records(t)) /\ Len(ts) = m
  BY <1>6, <1>7, <1>8
<1>10. Snapshot(st) = FlattenSeq(bs) \o ts
  BY <1>2, <1>7 DEF Snapshot, Blocks, Tombstones, Live, Tombs
<1>11. Snapshot(st) \in Seq(Records(t))
  BY <1>5, <1>9, <1>10, ConcatProperties
<1> QED
  BY <1>1, <1>2, <1>4, <1>5, <1>6, <1>7, <1>9, <1>10, <1>11

\* The first half: replaying the live commands restores each of them.
LEMMA LiveReplay ==
    ASSUME NEW t \in Nat, NEW st, Sound(st, t), NEW a,
           a = Load(FlattenSeq(Blocks(st))), ~a.refused
    PROVE  Copied(a.st, st, DOMAIN st.entries)
<1>1. PICK acc : acc = [st |-> NewInbox, refused |-> FALSE]
  OBVIOUS
<1>p. PICK n, bs, live : live = Live(st) /\ bs = Blocks(st) /\ n = Len(live)
  OBVIOUS
<1>2. /\ n \in Nat /\ bs \in Seq(Seq(Records(t))) /\ Len(bs) = n
      /\ \A i \in 1..n : bs[i] = SnapshotOf(st, live[i])
      /\ \A i \in 1..n : live[i] \in DOMAIN st.entries
      /\ \A k \in DOMAIN st.entries : \E i \in 1..n : live[i] = k
  <2>1. bs \in Seq(Seq(Records(t))) /\ Len(bs) = n
    BY <1>p, SnapshotParts
  <2>2. n \in Nat
    BY <1>p, LiveIsLive
  <2>3. \A i \in 1..n : bs[i] = SnapshotOf(st, live[i])
    BY <1>p, SnapshotParts
  <2>4. /\ \A i \in 1..n : live[i] \in DOMAIN st.entries
        /\ \A k \in DOMAIN st.entries : \E i \in 1..n : live[i] = k
    BY <1>p, LiveIsLive
  <2> QED
    BY <2>1, <2>2, <2>3, <2>4
<1>3. PICK h : /\ Joins(bs, h, n) /\ FlattenSeq(bs) = h[n]
               /\ \A i \in 0..n : h[i] \in Seq(Records(t))
  BY <1>2, FlattenIs
<1> DEFINE D(i) == {live[j] : j \in 1..i}
           T == {i \in Nat : ~Replay(acc, h[i]).refused => Copied(Replay(acc, h[i]).st, st, D(i))}
<1>4. 0 \in T
  <2>1. h[0] = <<>>
    BY <1>2, <1>3 DEF Joins
  <2>2. Replay(acc, h[0]) = acc
    BY <2>1, ReplayNil
  <2>3. Copied(acc.st, st, D(0))
    <3>1. D(0) = {}
      OBVIOUS
    <3>2. acc.st = NewInbox
      BY <1>1
    <3> HIDE DEF D
    <3> QED
      BY <3>1, <3>2 DEF Copied, NewInbox, EmptyMap
  <2> QED
    BY <2>2, <2>3
<1>5. ASSUME NEW i \in Nat, i < n, i \in T PROVE i + 1 \in T
  <2>1. i + 1 \in 0..n /\ i \in 0..n /\ i + 1 # 0 /\ (i + 1) - 1 = i /\ i + 1 \in 1..n
    BY <1>2, <1>5
  <2>2. PICK k : k = live[i + 1] /\ k \in DOMAIN st.entries /\ bs[i + 1] = SnapshotOf(st, k)
    BY <1>2, <2>1
  <2>3. h[i + 1] = h[i] \o SnapshotOf(st, k)
    BY <1>3, <2>1, <2>2 DEF Joins
  <2>4. h[i] \in Seq(Records(t)) /\ SnapshotOf(st, k) \in Seq(Records(t))
    BY <1>3, <2>1, <2>2, SnapshotOfTyped
  <2>5. PICK b : b = Replay(acc, h[i])
    OBVIOUS
  <2>6. Replay(acc, h[i + 1]) = Replay(b, SnapshotOf(st, k))
    BY <2>3, <2>4, <2>5, ReplayConcat
  <2>7. D(i + 1) = D(i) \cup {k}
    <3>1. \A j \in 1..(i + 1) : j \in 1..i \/ j = i + 1
      OBVIOUS
    <3> QED
      BY <2>2, <3>1
  <2>8. Sound(b.st, t)
    BY <1>1, <2>4, <2>5, ReplaySound, NewSound
  <2>9. ~b.refused => Copied(b.st, st, D(i))
    BY <1>5, <2>5
  <2> HIDE DEF D
  <2>10. ASSUME ~Replay(b, SnapshotOf(st, k)).refused
         PROVE  Copied(Replay(b, SnapshotOf(st, k)).st, st, D(i) \cup {k})
    <3>1. ~b.refused
      <4>1. Len(SnapshotOf(st, k)) \in Nat
        BY <2>4
      <4> QED
        BY <2>10, <4>1, RefusedForGood
    <3> QED
      BY <2>2, <2>8, <2>9, <2>10, <3>1, CopyBlock
  <2> QED
    BY <2>6, <2>7, <2>10
<1> HIDE DEF T
<1>6. \A i \in 0..n : i \in T
  BY <1>2, <1>4, <1>5, BoundedInduction
<1>7. n \in T
  BY <1>2, <1>6
<1>8. a = Replay(acc, h[n])
  BY <1>1, <1>p, <1>3 DEF Load
<1>9. D(n) = DOMAIN st.entries
  BY <1>2
<1> QED
  BY <1>7, <1>8, <1>9 DEF T

\* x is a with the tombstones of the first n of tombs.
Entombed(x, a, tombs, times, n) ==
    /\ x.entries = a.entries
    /\ DOMAIN x.retired = {tombs[i] : i \in 1..n}
    /\ \A k \in DOMAIN x.retired : x.retired[k] = times[k]

LEMMA EntombedNext ==
    ASSUME NEW t, NEW x, Sound(x, t), NEW a, NEW tombs, NEW times, NEW n \in Nat,
           Entombed(x, a, tombs, times, n), tombs[n + 1] \notin DOMAIN x.entries,
           NEW new, new = LoadRecord(x, RetiredRec(tombs[n + 1], times[tombs[n + 1]]))
    PROVE  Entombed(new, a, tombs, times, n + 1)
<1>1. PICK k : k = tombs[n + 1]
  OBVIOUS
<1>2. new = Retire(x, k, times[k])
  BY <1>1, LoadRetiredIs
<1>3. /\ new.entries = [j \in DOMAIN x.entries \ {k} |-> x.entries[j]]
      /\ new.retired = [j \in DOMAIN x.retired \cup {k} |->
                          IF j = k THEN times[k] ELSE x.retired[j]]
  BY <1>2 DEF Retire
<1>4. new.entries = x.entries
  <2>1. DOMAIN x.entries \ {k} = DOMAIN x.entries
    BY <1>1
  <2>2. x.entries = [j \in DOMAIN x.entries |-> x.entries[j]]
    BY DEF Sound, TypedState
  <2> QED
    BY <1>3, <2>1, <2>2
<1>5. {tombs[i] : i \in 1..(n + 1)} = {tombs[i] : i \in 1..n} \cup {k}
  <2>1. \A i \in 1..(n + 1) : i \in 1..n \/ i = n + 1
    OBVIOUS
  <2> QED
    BY <1>1, <2>1
<1> QED
  BY <1>3, <1>4, <1>5 DEF Entombed

LEMMA TombsAre ==
    ASSUME NEW t \in Nat, NEW st, Sound(st, t), NEW tombs, NEW ts,
           tombs = Tombs(st), ts = Tombstones(st)
    PROVE  /\ \A i \in 1..Len(tombs) : tombs[i] \in DOMAIN st.retired
           /\ \A i \in 1..Len(tombs) : ts[i] = RetiredRec(tombs[i], st.retired[tombs[i]])
           /\ \A k \in DOMAIN st.retired : \E i \in 1..Len(tombs) : tombs[i] = k
<1>1. /\ tombs \in Seq(DOMAIN st.retired)
      /\ \A x \in DOMAIN st.retired : \E i \in 1..Len(tombs) : tombs[i] = x
  BY SetToSeqCovers DEF Sound, TypedState, Tombs
<1>2. ts = [i \in 1..Len(tombs) |-> RetiredRec(tombs[i], st.retired[tombs[i]])]
  BY <1>1 DEF Tombstones
<1> QED
  BY <1>1, <1>2

\* The second half: the tombstones come back with their times, and take no
\* live command with them.
LEMMA TombReplay ==
    ASSUME NEW t \in Nat, NEW st, Sound(st, t), NEW a, Sound(a.st, t), ~a.refused,
           Copied(a.st, st, DOMAIN st.entries)
    PROVE  /\ Replay(a, Tombstones(st)).st.entries = a.st.entries
           /\ Replay(a, Tombstones(st)).st.retired = st.retired
<1>p. PICK tombs, ts, m : tombs = Tombs(st) /\ ts = Tombstones(st) /\ m = Len(ts)
  OBVIOUS
<1>1. /\ m \in Nat /\ ts \in Seq(Records(t)) /\ Len(tombs) = m
      /\ \A i \in 1..m : /\ tombs[i] \in DOMAIN st.retired
                         /\ ts[i] = RetiredRec(tombs[i], st.retired[tombs[i]])
      /\ \A k \in DOMAIN st.retired : \E i \in 1..m : tombs[i] = k
  <2>1. ts \in Seq(Records(t)) /\ Len(ts) = Len(tombs)
    BY <1>p, SnapshotParts
  <2>2. m \in Nat
    BY <1>p, <2>1
  <2>3. /\ \A i \in 1..Len(tombs) : tombs[i] \in DOMAIN st.retired
        /\ \A i \in 1..Len(tombs) : ts[i] = RetiredRec(tombs[i], st.retired[tombs[i]])
        /\ \A k \in DOMAIN st.retired : \E i \in 1..Len(tombs) : tombs[i] = k
    BY <1>p, TombsAre
  <2> QED
    BY <1>p, <2>1, <2>2, <2>3
<1>2. PICK g : Runs(a, ts, g, m) /\ Replay(a, ts) = g[m]
  BY <1>p, <1>1, ReplayIs
<1> DEFINE T == {n \in Nat : /\ ~g[n].refused /\ Sound(g[n].st, t)
                             /\ Entombed(g[n].st, a.st, tombs, st.retired, n)}
<1>3. 0 \in T
  <2>1. g[0] = a
    BY <1>1, <1>2 DEF Runs
  <2>2. {tombs[i] : i \in 1..0} = {}
    OBVIOUS
  <2>3. Entombed(a.st, a.st, tombs, st.retired, 0)
    BY <2>2 DEF Entombed, Copied
  <2> QED
    BY <2>1, <2>3
<1>4. ASSUME NEW n \in Nat, n < m, n \in T PROVE n + 1 \in T
  <2>1. n + 1 \in 0..m /\ n + 1 # 0 /\ (n + 1) - 1 = n /\ n + 1 \in 1..m
    BY <1>1, <1>4
  <2>2. PICK k, x, r : k = tombs[n + 1] /\ x = g[n].st /\ r = RetiredRec(k, st.retired[k])
    OBVIOUS
  <2>3. g[n + 1] = LoadStep(g[n], r) /\ r \in Records(t)
    <3>1. g[n + 1] = LoadStep(g[n], ts[n + 1])
      BY <1>2, <2>1 DEF Runs
    <3>2. ts[n + 1] = r
      BY <1>1, <2>1, <2>2
    <3>3. ts[n + 1] \in Records(t)
      BY <1>p, <1>1, <2>1
    <3> QED
      BY <3>1, <3>2, <3>3
  <2>4. ~g[n].refused /\ Sound(x, t) /\ Entombed(x, a.st, tombs, st.retired, n)
    BY <1>4, <2>2
  <2>5. k \notin DOMAIN x.entries
    <3>1. k \in DOMAIN st.retired /\ k \notin DOMAIN st.entries
      BY <1>1, <2>1, <2>2 DEF Sound, TypedState
    <3> QED
      BY <2>4, <3>1 DEF Entombed, Copied
  <2>6. PICK new : new = LoadRecord(x, r)
    OBVIOUS
  <2>7. g[n + 1] = [st |-> new, refused |-> FALSE]
    BY <2>2, <2>3, <2>4, <2>6, LoadRetiredIs DEF LoadStep
  <2>8. Entombed(new, a.st, tombs, st.retired, n + 1)
    BY <2>2, <2>4, <2>5, <2>6, EntombedNext
  <2>9. Sound(new, t)
    BY <2>2, <2>3, <2>4, <2>6, RecordSound, LoadRetiredIs
  <2> QED
    BY <2>7, <2>8, <2>9
<1> HIDE DEF T
<1>5. \A n \in 0..m : n \in T
  BY <1>1, <1>3, <1>4, BoundedInduction
<1>6. m \in T
  BY <1>1, <1>5
<1>7. Sound(g[m].st, t) /\ Entombed(g[m].st, a.st, tombs, st.retired, m)
  BY <1>6 DEF T
<1>8. {tombs[i] : i \in 1..m} = DOMAIN st.retired
  BY <1>1
<1>9. g[m].st.retired = st.retired
  <2>1. PICK x : x = g[m].st
    OBVIOUS
  <2>2. /\ x.retired \in [DOMAIN x.retired -> Nat] /\ st.retired \in [DOMAIN st.retired -> Nat]
        /\ DOMAIN x.retired = DOMAIN st.retired
        /\ \A k \in DOMAIN st.retired : x.retired[k] = st.retired[k]
    BY <1>7, <1>8, <2>1 DEF Entombed, Sound, TypedState
  <2> QED
    BY <2>1, <2>2
<1> QED
  BY <1>p, <1>2, <1>7, <1>9 DEF Entombed

\* d knows what m knows, but for the places in the sequence.
Same(d, m) ==
    /\ d.retired = m.retired
    /\ DOMAIN d.entries = DOMAIN m.entries
    /\ \A k \in DOMAIN m.entries : Alike(d.entries[k], m.entries[k])

\* A snapshot that can be loaded loads as the state it was taken of.
LEMMA SnapshotReplay ==
    ASSUME NEW t \in Nat, NEW st, Sound(st, t), ~Load(Snapshot(st)).refused
    PROVE  Same(Load(Snapshot(st)).st, st)
<1>1. PICK a : a = Load(FlattenSeq(Blocks(st)))
  OBVIOUS
<1>2. /\ FlattenSeq(Blocks(st)) \in Seq(Records(t)) /\ Tombstones(st) \in Seq(Records(t))
      /\ Snapshot(st) = FlattenSeq(Blocks(st)) \o Tombstones(st)
  BY SnapshotParts
<1>3. Load(Snapshot(st)) = Replay(a, Tombstones(st))
  BY <1>1, <1>2, ReplayConcat DEF Load
<1>4. ~a.refused
  <2>1. Len(Tombstones(st)) \in Nat
    BY <1>2
  <2> QED
    BY <1>3, <2>1, RefusedForGood
<1>5. Sound(a.st, t)
  BY <1>1, <1>2, LoadSound
<1>6. Copied(a.st, st, DOMAIN st.entries)
  BY <1>1, <1>4, LiveReplay
<1>7. /\ Replay(a, Tombstones(st)).st.entries = a.st.entries
      /\ Replay(a, Tombstones(st)).st.retired = st.retired
  BY <1>4, <1>5, <1>6, TombReplay
<1> QED
  BY <1>3, <1>6, <1>7 DEF Same, Copied

-----------------------------------------------------------------------------
(* What memory and journal owe each other. *)

\* d is a later record of the same command than m.
Later(d, m) ==
    /\ d.attempts >= m.attempts /\ d.last_delivered >= m.last_delivered
    /\ m.acknowledged => d.acknowledged
    /\ m.cancelled => d.cancelled

\* d knows at least what m knows.
Ahead(d, m) ==
    /\ d.retired = m.retired
    /\ \A k \in DOMAIN m.entries :
         k \in DOMAIN d.entries /\ Later(d.entries[k], m.entries[k])

\* No command was handed out more often than its attempts say.
Accounts(st, h) == \A k \in DOMAIN st.entries : h[k] <= st.entries[k].attempts

Exclusive(e) ==
    /\ e.cancelled => e.attempts = 0 /\ ~e.acknowledged
    /\ e.acknowledged => e.attempts > 0

\* e will not be handed out again, nor swept too early for a report at time s.
SettledEntry(e, s) ==
    IF e.cancelled THEN s <= e.cancelled_at
    ELSE e.acknowledged \/ e.attempts >= MaxAttempts

\* An identity reported settled at s: long ago, a tombstone, or settled still.
StillKept(st, k, s, t) ==
    \/ s + Retention <= t
    \/ k \in DOMAIN st.retired /\ s <= st.retired[k]
    \/ k \in DOMAIN st.entries /\ SettledEntry(st.entries[k], s)

Remembers(st, sa, t) ==
    /\ \A k \in DOMAIN st.entries : Exclusive(st.entries[k])
    /\ \A k \in Keys : StillKept(st, k, sa[k], t)

\* The state m in memory, the replay a of the journal, and the two together;
\* u says that some append was a phantom.
Memory(m, h, sa, u, t) ==
    /\ Sound(m, t)
    /\ Accounts(m, h)
    /\ \A k \in Keys \ Tracked(m) : h[k] = 0
    /\ u \/ Remembers(m, sa, t)

Disk(a, h, sa, u, t) ==
    a.refused \/ (Accounts(a.st, h) /\ (u \/ Remembers(a.st, sa, t)))

Shadow(a, m, u) ==
    a.refused \/ (Ahead(a.st, m) /\ (u \/ Same(a.st, m)))

Clocked(h, sa, t) ==
    /\ t \in Nat /\ Retention <= t
    /\ h \in [Keys -> 0..MaxAttempts]
    /\ sa \in [Keys -> Time]
    /\ \A k \in Keys : sa[k] <= t

Paired(a, m, h, sa, u, t) ==
    /\ Clocked(h, sa, t)
    /\ Sound(a.st, t)
    /\ Memory(m, h, sa, u, t) /\ Disk(a, h, sa, u, t) /\ Shadow(a, m, u)

\* What an append that nobody was answered for leaves behind.
Unanswered(b, m, h, sa, u, t) ==
    /\ Disk(b, h, sa, u, t)
    /\ b.refused \/ Ahead(b.st, m)

LEMMA AlikeSettled ==
    ASSUME NEW d, NEW m, Alike(d, m), NEW s
    PROVE  /\ SettledEntry(d, s) <=> SettledEntry(m, s)
           /\ Exclusive(d) <=> Exclusive(m)
BY DEF Alike, SettledEntry, Exclusive

LEMMA SameRemembers ==
    ASSUME NEW d, NEW m, Same(d, m), NEW sa, NEW t, Remembers(m, sa, t)
    PROVE  Remembers(d, sa, t)
<1>1. ASSUME NEW k \in DOMAIN d.entries PROVE Exclusive(d.entries[k])
  BY AlikeSettled DEF Same, Remembers
<1>2. ASSUME NEW k \in Keys PROVE StillKept(d, k, sa[k], t)
  <2>1. StillKept(m, k, sa[k], t)
    BY DEF Remembers
  <2> QED
    BY <2>1, AlikeSettled DEF Same, StillKept
<1> QED
  BY <1>1, <1>2 DEF Remembers

LEMMA SameAccounts ==
    ASSUME NEW d, NEW m, Same(d, m), NEW h, Accounts(m, h)
    PROVE  Accounts(d, h)
BY DEF Same, Accounts, Alike

LEMMA SameAhead ==
    ASSUME NEW t, NEW d, NEW m, Same(d, m), Sound(m, t)
    PROVE  Ahead(d, m)
<1> SUFFICES ASSUME NEW k \in DOMAIN m.entries PROVE Later(d.entries[k], m.entries[k])
  BY DEF Ahead, Same
<1>1. m.entries[k] \in Entry /\ Alike(d.entries[k], m.entries[k])
  BY DEF Same, Sound, TypedState
<1> QED
  BY <1>1 DEF Alike, Later, Entry, Time, NoTime

LEMMA LaterTrans ==
    ASSUME NEW x \in Entry, NEW y \in Entry, NEW z \in Entry, Later(x, y), Later(y, z)
    PROVE  Later(x, z)
BY BoundsAssumption DEF Later, Entry, Time, NoTime

LEMMA RemembersUpdate ==
    ASSUME NEW x, NEW y, NEW k, NEW f, NEW sa, NEW sb, NEW t, Remembers(x, sa, t),
           k \in DOMAIN x.entries, y = UpdateEntry(x, k, f), Exclusive(f),
           \A j \in Keys \ {k} : sb[j] = sa[j],
           sb[k] + Retention <= t \/ SettledEntry(f, sb[k])
    PROVE  Remembers(y, sb, t)
<1>1. y.entries = [x.entries EXCEPT ![k] = f] /\ y.retired = x.retired
  BY DEF UpdateEntry
<1>2. ASSUME NEW j \in DOMAIN y.entries PROVE Exclusive(y.entries[j])
  BY <1>1 DEF Remembers
<1>3. ASSUME NEW j \in Keys PROVE StillKept(y, j, sb[j], t)
  <2>1. CASE j = k
    BY <1>1, <2>1 DEF StillKept
  <2>2. CASE j # k
    <3>1. StillKept(x, j, sa[j], t) /\ sb[j] = sa[j]
      BY <2>2 DEF Remembers
    <3> QED
      BY <1>1, <2>2, <3>1 DEF StillKept
  <2> QED
    BY <2>1, <2>2
<1> QED
  BY <1>2, <1>3 DEF Remembers

LEMMA AheadUpdate ==
    ASSUME NEW t, NEW d, NEW m, NEW y, NEW k, NEW f, Sound(d, t), Sound(m, t), Ahead(d, m),
           k \in DOMAIN d.entries, y = UpdateEntry(d, k, f), f \in Entry,
           Later(f, d.entries[k])
    PROVE  Ahead(y, m)
<1>1. y.entries = [d.entries EXCEPT ![k] = f] /\ y.retired = d.retired
  BY DEF UpdateEntry
<1> SUFFICES ASSUME NEW j \in DOMAIN m.entries PROVE Later(y.entries[j], m.entries[j])
  BY <1>1 DEF Ahead
<1>2. /\ m.entries[j] \in Entry /\ d.entries[j] \in Entry
      /\ Later(d.entries[j], m.entries[j]) /\ j \in DOMAIN d.entries
  BY DEF Ahead, Sound, TypedState
<1> QED
  BY <1>1, <1>2, LaterTrans

LEMMA AheadUpdateBoth ==
    ASSUME NEW d, NEW m, NEW y, NEW z, NEW k, NEW f, NEW g, Ahead(d, m),
           k \in DOMAIN m.entries, y = UpdateEntry(d, k, f), z = UpdateEntry(m, k, g),
           Later(f, g)
    PROVE  Ahead(y, z)
BY DEF Ahead, UpdateEntry

LEMMA SameUpdateBoth ==
    ASSUME NEW d, NEW m, NEW y, NEW z, NEW k, NEW f, NEW g, Same(d, m),
           k \in DOMAIN m.entries, y = UpdateEntry(d, k, f), z = UpdateEntry(m, k, g),
           Alike(f, g)
    PROVE  Same(y, z)
BY DEF Same, UpdateEntry

LEMMA AccountsUpdate ==
    ASSUME NEW x, NEW y, NEW k, NEW f, NEW h, NEW g, Accounts(x, h), k \in DOMAIN x.entries,
           y = UpdateEntry(x, k, f), \A j \in DOMAIN x.entries : j # k => g[j] = h[j],
           g[k] <= f.attempts
    PROVE  Accounts(y, g)
BY DEF Accounts, UpdateEntry

\* A snapshot taken of a good memory is good, and equal to it.
LEMMA SnapshotGood ==
    ASSUME NEW m, NEW h, NEW sa, NEW u, NEW t \in Nat, Sound(m, t), Accounts(m, h),
           u \/ Remembers(m, sa, t), NEW a, a = Load(Snapshot(m))
    PROVE  Disk(a, h, sa, u, t) /\ Shadow(a, m, u)
<1>1. CASE a.refused
  BY <1>1 DEF Disk, Shadow
<1>2. CASE ~a.refused
  <2>1. Same(a.st, m)
    BY <1>2, SnapshotReplay
  <2>2. Ahead(a.st, m) /\ Accounts(a.st, h)
    BY <2>1, SameAhead, SameAccounts
  <2>3. u \/ Remembers(a.st, sa, t)
    BY <2>1, SameRemembers
  <2> QED
    BY <2>1, <2>2, <2>3 DEF Disk, Shadow
<1> QED
  BY <1>1, <1>2

LEMMA CheckOk ==
    ASSUME NEW st, NEW c, CheckRecordable(st, c) = "ok"
    PROVE  c.key \notin Tracked(st)
BY DEF CheckRecordable

LEMMA InsertIs ==
    ASSUME NEW st, NEW c, NEW y, y = InsertRecorded(st, c)
    PROVE  /\ DOMAIN y.entries = DOMAIN st.entries \cup {c.key}
           /\ y.retired = st.retired
           /\ \A j \in DOMAIN st.entries : j # c.key => y.entries[j] = st.entries[j]
           /\ y.entries[c.key].agent = c.agent /\ Blank(y.entries[c.key])
BY DEF InsertRecorded, FreshEntry, Blank

LEMMA RemembersInsert ==
    ASSUME NEW st, NEW c, NEW y, y = InsertRecorded(st, c), NEW sa, NEW t,
           c.key \notin Tracked(st), Remembers(st, sa, t)
    PROVE  Remembers(y, sa, t)
<1>1. PICK k : k = c.key
  OBVIOUS
<1>2. /\ DOMAIN y.entries = DOMAIN st.entries \cup {k} /\ y.retired = st.retired
      /\ \A j \in DOMAIN st.entries : j # k => y.entries[j] = st.entries[j]
      /\ Blank(y.entries[k])
  BY <1>1, InsertIs
<1>3. ASSUME NEW j \in DOMAIN y.entries PROVE Exclusive(y.entries[j])
  <2>1. CASE j = k
    BY <1>2, <2>1 DEF Blank, Exclusive
  <2>2. CASE j # k
    BY <1>2, <2>2 DEF Remembers
  <2> QED
    BY <2>1, <2>2
<1>4. ASSUME NEW j \in Keys PROVE StillKept(y, j, sa[j], t)
  <2>1. StillKept(st, j, sa[j], t)
    BY DEF Remembers
  <2>2. CASE j = k
    BY <1>1, <2>1, <2>2 DEF StillKept, Tracked
  <2>3. CASE j # k
    BY <1>2, <2>1, <2>3 DEF StillKept
  <2> QED
    BY <2>2, <2>3
<1> QED
  BY <1>3, <1>4 DEF Remembers

LEMMA AccountsInsert ==
    ASSUME NEW st, NEW c, NEW y, y = InsertRecorded(st, c), NEW h, Accounts(st, h),
           h[c.key] = 0
    PROVE  Accounts(y, h)
<1>1. PICK k : k = c.key
  OBVIOUS
<1>2. /\ DOMAIN y.entries = DOMAIN st.entries \cup {k}
      /\ \A j \in DOMAIN st.entries : j # k => y.entries[j] = st.entries[j]
      /\ Blank(y.entries[k])
  BY <1>1, InsertIs
<1> QED
  BY <1>1, <1>2 DEF Accounts, Blank

LEMMA LaterThanBlank ==
    ASSUME NEW d \in Entry, NEW e, Blank(e)
    PROVE  Later(d, e)
BY DEF Blank, Later, Entry, Time, NoTime

LEMMA AlikeBlank ==
    ASSUME NEW d, NEW e, Blank(d), Blank(e), d.agent = e.agent
    PROVE  Alike(d, e)
BY DEF Blank, Alike

\* A recorded command, with its Command record read back by the next load.
LEMMA CommandWritten ==
    ASSUME NEW a, NEW m, NEW h, NEW sa, NEW u, NEW t, Paired(a, m, h, sa, u, t),
           NEW c \in Command, CheckRecordable(m, c) = "ok",
           NEW b, b = LoadStep(a, CommandRec(c)), NEW mm, mm = InsertRecorded(m, c)
    PROVE  /\ Unanswered(b, m, h, sa, u, t)
           /\ Memory(mm, h, sa, u, t) /\ Disk(b, h, sa, u, t) /\ Shadow(b, mm, u)
<1>0. PICK k : k = c.key
  OBVIOUS
<1>1. /\ k \in Keys /\ k \notin Tracked(m) /\ h[k] = 0 /\ t \in Nat
      /\ Sound(m, t) /\ Accounts(m, h) /\ (\A j \in Keys \ Tracked(m) : h[j] = 0)
      /\ u \/ Remembers(m, sa, t)
  BY <1>0, CheckOk DEF Paired, Memory, Clocked, Command
<1>2. /\ DOMAIN mm.entries = DOMAIN m.entries \cup {k} /\ mm.retired = m.retired
      /\ \A j \in DOMAIN m.entries : j # k => mm.entries[j] = m.entries[j]
      /\ mm.entries[k].agent = c.agent /\ Blank(mm.entries[k])
  BY <1>0, InsertIs
<1>3. Memory(mm, h, sa, u, t)
  <2>1. Sound(mm, t)
    BY <1>0, <1>1, SoundInsert
  <2>2. Accounts(mm, h)
    BY <1>0, <1>1, AccountsInsert
  <2>3. \A j \in Keys \ Tracked(mm) : h[j] = 0
    BY <1>1, <1>2 DEF Tracked
  <2>4. u \/ Remembers(mm, sa, t)
    BY <1>0, <1>1, RemembersInsert
  <2> QED
    BY <2>1, <2>2, <2>3, <2>4 DEF Memory
<1>4. CASE b.refused
  BY <1>3, <1>4 DEF Unanswered, Disk, Shadow
<1>5. CASE ~b.refused
  <2>1. PICK d, y : d = a.st /\ y = b.st
    OBVIOUS
  <2>2. /\ ~a.refused /\ ~LoadRefuses(d, CommandRec(c)) /\ y = LoadRecord(d, CommandRec(c))
    BY <1>5, <2>1, StepTaken
  <2>3. /\ Sound(d, t) /\ Accounts(d, h) /\ (u \/ Remembers(d, sa, t))
        /\ Ahead(d, m) /\ (u \/ Same(d, m))
    BY <2>1, <2>2 DEF Paired, Disk, Shadow
  <2>4. \/ CheckRecordable(d, c) = "ok" /\ y = InsertRecorded(d, c)
        \/ CheckRecordable(d, c) = "already" /\ y = d /\ k \in Tracked(d)
    BY <1>0, <2>2, LoadCommandIs DEF CheckRecordable
  <2>5. CASE CheckRecordable(d, c) = "ok" /\ y = InsertRecorded(d, c)
    <3>1. k \notin Tracked(d)
      BY <1>0, <2>5, CheckOk
    <3>2. /\ DOMAIN y.entries = DOMAIN d.entries \cup {k} /\ y.retired = d.retired
          /\ \A j \in DOMAIN d.entries : j # k => y.entries[j] = d.entries[j]
          /\ y.entries[k].agent = c.agent /\ Blank(y.entries[k])
      BY <1>0, <2>5, InsertIs
    <3>3. Accounts(y, h) /\ (u \/ Remembers(y, sa, t))
      BY <1>0, <1>1, <2>3, <2>5, <3>1, AccountsInsert, RemembersInsert
    <3>4. Ahead(y, m)
      BY <1>1, <2>3, <3>1, <3>2 DEF Ahead, Tracked
    <3>5. Alike(y.entries[k], mm.entries[k]) /\ Later(y.entries[k], mm.entries[k])
      <4>1. Alike(y.entries[k], mm.entries[k])
        BY <1>2, <3>2, AlikeBlank
      <4>2. y.entries[k] \in Entry
        <5>1. Sound(y, t)
          BY <1>0, <1>1, <2>3, <2>5, <3>1, SoundInsert
        <5> QED
          BY <3>2, <5>1 DEF Sound, TypedState
      <4> QED
        BY <1>2, <4>1, <4>2, LaterThanBlank
    <3>6. Ahead(y, mm)
      BY <1>2, <2>3, <3>2, <3>5 DEF Ahead
    <3>7. u \/ Same(y, mm)
      BY <1>2, <2>3, <3>2, <3>5 DEF Same
    <3> QED
      BY <1>3, <2>1, <3>3, <3>4, <3>6, <3>7 DEF Unanswered, Disk, Shadow
  <2>6. CASE CheckRecordable(d, c) = "already" /\ y = d /\ k \in Tracked(d)
    <3>1. k \in DOMAIN d.entries
      BY <1>1, <2>3, <2>6 DEF Ahead, Tracked
    <3>2. u
      BY <1>1, <2>3, <3>1 DEF Same, Tracked
    <3>3. Later(d.entries[k], mm.entries[k])
      BY <1>2, <2>3, <3>1, LaterThanBlank DEF Sound, TypedState
    <3>4. Ahead(y, mm)
      BY <1>2, <2>3, <2>6, <3>1, <3>3 DEF Ahead
    <3> QED
      BY <1>3, <2>1, <2>3, <2>6, <3>2, <3>4 DEF Unanswered, Disk, Shadow
  <2> QED
    BY <2>4, <2>5, <2>6
<1> QED
  BY <1>4, <1>5

LEMMA AlikeLater ==
    ASSUME NEW d, NEW m \in Entry, Alike(d, m)
    PROVE  Later(d, m)
BY DEF Alike, Later, Entry, Time, NoTime

\* What a single update of one command does to the pair, on the journal's side
\* alone and on both: f is the journal's new entry, g memory's.
LEMMA UpdateWritten ==
    ASSUME NEW a, NEW m, NEW h, NEW sa, NEW u, NEW t, Paired(a, m, h, sa, u, t), ~a.refused,
           NEW k \in DOMAIN m.entries, NEW f \in Entry,
           Later(f, a.st.entries[k]), f.attempts >= a.st.entries[k].attempts,
           NEW b, ~b.refused, b.st = UpdateEntry(a.st, k, f),
           u \/ (Exclusive(f) /\ (sa[k] + Retention <= t \/ SettledEntry(f, sa[k])))
    PROVE  Unanswered(b, m, h, sa, u, t)
<1>1. PICK d, y : d = a.st /\ y = b.st
  OBVIOUS
<1>2. /\ Sound(d, t) /\ Accounts(d, h) /\ (u \/ Remembers(d, sa, t))
      /\ Ahead(d, m) /\ Sound(m, t) /\ h \in [Keys -> 0..MaxAttempts]
  BY <1>1 DEF Paired, Disk, Shadow, Memory, Clocked
<1>3. k \in DOMAIN d.entries /\ k \in Keys /\ d.entries[k] \in Entry
  BY <1>2 DEF Ahead, Sound, TypedState
<1>4. Accounts(y, h)
  <2>1. h[k] <= f.attempts
    BY <1>1, <1>2, <1>3, BoundsAssumption DEF Accounts, Entry
  <2> QED
    BY <1>1, <1>2, <1>3, <2>1, AccountsUpdate
<1>5. u \/ Remembers(y, sa, t)
  BY <1>1, <1>2, <1>3, RemembersUpdate
<1>6. Ahead(y, m)
  BY <1>1, <1>2, <1>3, AheadUpdate
<1> QED
  BY <1>1, <1>4, <1>5, <1>6 DEF Unanswered, Disk

LEMMA UpdateMemory ==
    ASSUME NEW m, NEW h, NEW sa, NEW u, NEW t, Clocked(h, sa, t), Memory(m, h, sa, u, t),
           NEW k \in DOMAIN m.entries, NEW g \in Entry, PlainEntry(g, t),
           g.attempts = m.entries[k].attempts,
           NEW sb, sb = [sa EXCEPT ![k] = t],
           u \/ (Exclusive(g) /\ SettledEntry(g, t)),
           NEW mm, mm = UpdateEntry(m, k, g)
    PROVE  Memory(mm, h, sb, u, t)
<1>1. /\ Sound(m, t) /\ Accounts(m, h) /\ h \in [Keys -> 0..MaxAttempts]
      /\ (\A j \in Keys \ Tracked(m) : h[j] = 0) /\ (u \/ Remembers(m, sa, t))
      /\ sa \in [Keys -> Time]
  BY DEF Memory, Clocked
<1>2. k \in Keys /\ m.entries[k] \in Entry
  BY <1>1 DEF Sound, TypedState
<1>3. Accounts(mm, h)
  <2>1. h[k] <= g.attempts
    BY <1>1, <1>2 DEF Accounts
  <2> QED
    BY <1>1, <1>2, <2>1, AccountsUpdate
<1>4. Tracked(mm) = Tracked(m)
  BY <1>1 DEF UpdateEntry, Tracked, Sound, TypedState
<1>5. u \/ Remembers(mm, sb, t)
  <2>1. sb[k] = t /\ \A j \in Keys \ {k} : sb[j] = sa[j]
    BY <1>1, <1>2
  <2> QED
    BY <1>1, <1>2, <2>1, RemembersUpdate
<1>6. Sound(mm, t)
  BY <1>1, SoundUpdate
<1> QED
  BY <1>1, <1>3, <1>4, <1>5, <1>6 DEF Memory

LEMMA UpdateDone ==
    ASSUME NEW a, NEW m, NEW h, NEW sa, NEW u, NEW t, Paired(a, m, h, sa, u, t), ~a.refused,
           NEW k \in DOMAIN m.entries, NEW f \in Entry, NEW g,
           f.attempts >= a.st.entries[k].attempts, Later(f, g), u \/ Alike(f, g),
           NEW b, ~b.refused, b.st = UpdateEntry(a.st, k, f),
           NEW sb, NEW mm, mm = UpdateEntry(m, k, g), Memory(mm, h, sb, u, t)
    PROVE  Disk(b, h, sb, u, t) /\ Shadow(b, mm, u)
<1>1. PICK d, y : d = a.st /\ y = b.st
  OBVIOUS
<1>2. /\ Sound(d, t) /\ Accounts(d, h) /\ (u \/ Same(d, m))
      /\ Ahead(d, m) /\ Sound(m, t) /\ h \in [Keys -> 0..MaxAttempts]
  BY <1>1 DEF Paired, Disk, Shadow, Memory, Clocked
<1>3. k \in DOMAIN d.entries /\ k \in Keys /\ d.entries[k] \in Entry
  BY <1>2 DEF Ahead, Sound, TypedState
<1>4. Accounts(y, h)
  <2>1. h[k] <= f.attempts
    BY <1>1, <1>2, <1>3, BoundsAssumption DEF Accounts, Entry
  <2> QED
    BY <1>1, <1>2, <1>3, <2>1, AccountsUpdate
<1>5. Ahead(y, mm) /\ (u \/ Same(y, mm))
  BY <1>1, <1>2, AheadUpdateBoth, SameUpdateBoth
<1>6. u \/ Remembers(y, sb, t)
  BY <1>5, SameRemembers DEF Memory
<1> QED
  BY <1>1, <1>4, <1>5, <1>6 DEF Disk, Shadow

LEMMA AckFacts ==
    ASSUME NEW st, NEW agent, NEW k, NEW n, AckResult(st, agent, k, n) = "acknowledged"
    PROVE  /\ k \in DOMAIN st.entries /\ n # 0 /\ ~(n > st.entries[k].attempts)
           /\ ~st.entries[k].acknowledged
BY DEF AckResult

LEMMA AcknowledgedWritten ==
    ASSUME NEW a, NEW m, NEW h, NEW sa, NEW u, NEW t, Paired(a, m, h, sa, u, t),
           NEW agent, NEW k, NEW n \in Nat, AckResult(m, agent, k, n) = "acknowledged",
           NEW b, b = LoadStep(a, AcknowledgedRec(k)),
           NEW mm, mm = SetAcknowledged(m, k, TRUE), NEW sb, sb = [sa EXCEPT ![k] = t]
    PROVE  /\ Unanswered(b, m, h, sa, u, t)
           /\ Memory(mm, h, sb, u, t) /\ Disk(b, h, sb, u, t) /\ Shadow(b, mm, u)
<1>1. PICK e, g : e = m.entries[k] /\ g = [e EXCEPT !.acknowledged = TRUE]
  OBVIOUS
<1>2. /\ k \in DOMAIN m.entries /\ e \in Entry /\ PlainEntry(e, t) /\ n # 0
      /\ ~(n > e.attempts) /\ k \in Keys /\ t \in Nat
      /\ u \/ Exclusive(e)
  BY <1>1, AckFacts DEF Paired, Memory, Clocked, Sound, TypedState, Remembers
<1>3. /\ g \in Entry /\ g.attempts = e.attempts /\ g.last_delivered = e.last_delivered
      /\ g.acknowledged = TRUE /\ g.cancelled = e.cancelled
      /\ g.cancelled_at = e.cancelled_at /\ g.agent = e.agent
  BY <1>1, <1>2 DEF Entry
<1>4. e.attempts > 0 /\ e.attempts # 0
  BY <1>2, BoundsAssumption DEF Entry
<1>5. PlainEntry(g, t)
  BY <1>2, <1>3 DEF PlainEntry
<1>6. u \/ (Exclusive(g) /\ \A s : SettledEntry(g, s))
  BY <1>2, <1>3, <1>4 DEF Exclusive, SettledEntry
<1>7. mm = UpdateEntry(m, k, g)
  BY <1>1 DEF SetAcknowledged
<1>8. Memory(mm, h, sb, u, t)
  <2>1. Clocked(h, sa, t) /\ Memory(m, h, sa, u, t)
    BY DEF Paired
  <2>2. g.attempts = m.entries[k].attempts /\ (u \/ (Exclusive(g) /\ SettledEntry(g, t)))
    BY <1>1, <1>3, <1>6
  <2> QED
    BY <1>2, <1>3, <1>5, <1>7, <2>1, <2>2, UpdateMemory
<1>9. CASE b.refused
  BY <1>8, <1>9 DEF Unanswered, Disk, Shadow
<1>10. CASE ~b.refused
  <2>1. PICK d, p, f : d = a.st /\ p = d.entries[k] /\ f = [p EXCEPT !.acknowledged = TRUE]
    OBVIOUS
  <2>2. ~a.refused /\ b.st = LoadRecord(d, AcknowledgedRec(k))
    BY <1>10, <2>1, StepTaken
  <2>3. /\ k \in DOMAIN d.entries /\ p \in Entry /\ Later(p, e)
        /\ u \/ Alike(p, e)
    BY <1>1, <1>2, <2>1, <2>2 DEF Paired, Shadow, Ahead, Same, Sound, TypedState
  <2>4. /\ f \in Entry /\ f.attempts = p.attempts /\ f.last_delivered = p.last_delivered
        /\ f.acknowledged = TRUE /\ f.cancelled = p.cancelled
        /\ f.cancelled_at = p.cancelled_at /\ f.agent = p.agent
    BY <2>1, <2>3 DEF Entry
  <2>5. b.st = UpdateEntry(d, k, f)
    BY <2>1, <2>2, <2>3, LoadAcknowledgedIs
  <2>6. Later(f, p) /\ Later(f, g) /\ f.attempts >= p.attempts
    BY <1>3, <2>3, <2>4 DEF Later, Entry, Time, NoTime
  <2>7. ASSUME Alike(p, e) PROVE Alike(f, g)
    BY <1>3, <2>4, <2>7 DEF Alike
  <2>8. u \/ (Exclusive(f) /\ \A s : SettledEntry(f, s))
    <3>1. ASSUME Alike(f, g), \A s : SettledEntry(g, s), Exclusive(g)
          PROVE  Exclusive(f) /\ \A s : SettledEntry(f, s)
      BY <3>1 DEF Alike, SettledEntry, Exclusive
    <3> QED
      BY <1>6, <2>3, <2>7, <3>1
  <2>10. Unanswered(b, m, h, sa, u, t)
    BY <1>2, <1>10, <2>1, <2>2, <2>4, <2>5, <2>6, <2>8, UpdateWritten
  <2>11. Disk(b, h, sb, u, t) /\ Shadow(b, mm, u)
    <3>1. /\ b.st = UpdateEntry(a.st, k, f) /\ f.attempts >= a.st.entries[k].attempts
          /\ u \/ Alike(f, g)
      BY <2>1, <2>3, <2>5, <2>6, <2>7
    <3>2. k \in DOMAIN m.entries /\ ~a.refused /\ f \in Entry /\ Later(f, g)
      BY <1>2, <2>2, <2>4, <2>6
    <3> QED
      BY <1>7, <1>8, <1>10, <3>1, <3>2, UpdateDone, Zenon
  <2> QED
    BY <1>8, <2>10, <2>11
<1> QED
  BY <1>9, <1>10

LEMMA CancelFacts ==
    ASSUME NEW st, NEW k, CancelResult(st, k) = "cancelled"
    PROVE  /\ k \in DOMAIN st.entries /\ ~st.entries[k].cancelled
           /\ ~(st.entries[k].attempts > 0)
BY DEF CancelResult

LEMMA CancelledWritten ==
    ASSUME NEW a, NEW m, NEW h, NEW sa, NEW u, NEW t, Paired(a, m, h, sa, u, t),
           NEW k, CancelResult(m, k) = "cancelled",
           NEW b, b = LoadStep(a, CancelledRec(k, t)),
           NEW mm, mm = SetCancelled(m, k, TRUE, t), NEW sb, sb = [sa EXCEPT ![k] = t]
    PROVE  /\ Unanswered(b, m, h, sa, u, t)
           /\ Memory(mm, h, sb, u, t) /\ Disk(b, h, sb, u, t) /\ Shadow(b, mm, u)
<1>1. PICK e, g : e = m.entries[k] /\ g = [e EXCEPT !.cancelled = TRUE, !.cancelled_at = t]
  OBVIOUS
<1>2. /\ k \in DOMAIN m.entries /\ e \in Entry /\ PlainEntry(e, t)
      /\ ~(e.attempts > 0) /\ k \in Keys /\ t \in Nat /\ sa[k] <= t
      /\ u \/ Exclusive(e)
  BY <1>1, CancelFacts DEF Paired, Memory, Clocked, Sound, TypedState, Remembers
<1>3. /\ g \in Entry /\ g.attempts = e.attempts /\ g.last_delivered = e.last_delivered
      /\ g.acknowledged = e.acknowledged /\ g.cancelled = TRUE
      /\ g.cancelled_at = t /\ g.agent = e.agent
  BY <1>1, <1>2 DEF Entry, Time
<1>4. e.attempts = 0
  BY <1>2, BoundsAssumption DEF Entry
<1>5. PlainEntry(g, t)
  BY <1>2, <1>3 DEF PlainEntry
<1>6. u \/ (Exclusive(g) /\ SettledEntry(g, t) /\ SettledEntry(g, sa[k]))
  BY <1>2, <1>3, <1>4 DEF Exclusive, SettledEntry
<1>7. mm = UpdateEntry(m, k, g)
  BY <1>1 DEF SetCancelled
<1>8. Memory(mm, h, sb, u, t)
  <2>1. Clocked(h, sa, t) /\ Memory(m, h, sa, u, t)
    BY DEF Paired
  <2>2. g.attempts = m.entries[k].attempts /\ (u \/ (Exclusive(g) /\ SettledEntry(g, t)))
    BY <1>1, <1>3, <1>6
  <2> QED
    BY <1>2, <1>3, <1>5, <1>7, <2>1, <2>2, UpdateMemory
<1>9. CASE b.refused
  BY <1>8, <1>9 DEF Unanswered, Disk, Shadow
<1>10. CASE ~b.refused
  <2>1. PICK d, p, f : /\ d = a.st /\ p = d.entries[k]
                       /\ f = [p EXCEPT !.cancelled = TRUE, !.cancelled_at = t]
    OBVIOUS
  <2>2. ~a.refused /\ b.st = LoadRecord(d, CancelledRec(k, t))
    BY <1>10, <2>1, StepTaken
  <2>3. /\ k \in DOMAIN d.entries /\ p \in Entry /\ Later(p, e)
        /\ u \/ Alike(p, e)
    BY <1>1, <1>2, <2>1, <2>2 DEF Paired, Shadow, Ahead, Same, Sound, TypedState
  <2>4. /\ f \in Entry /\ f.attempts = p.attempts /\ f.last_delivered = p.last_delivered
        /\ f.acknowledged = p.acknowledged /\ f.cancelled = TRUE
        /\ f.cancelled_at = t /\ f.agent = p.agent
    BY <1>2, <2>1, <2>3 DEF Entry, Time
  <2>5. b.st = UpdateEntry(d, k, f)
    BY <2>1, <2>2, <2>3, LoadCancelledIs
  <2>6. Later(f, p) /\ Later(f, g) /\ f.attempts >= p.attempts
    BY <1>3, <2>3, <2>4 DEF Later, Entry, Time, NoTime
  <2>7. ASSUME Alike(p, e) PROVE Alike(f, g)
    BY <1>3, <2>4, <2>7 DEF Alike
  <2>8. u \/ (Exclusive(f) /\ SettledEntry(f, sa[k]))
    BY <1>6, <2>3, <2>7, AlikeSettled
  <2>9. /\ b.st = UpdateEntry(a.st, k, f) /\ f.attempts >= a.st.entries[k].attempts
        /\ u \/ Alike(f, g)
    BY <2>1, <2>3, <2>5, <2>6, <2>7
  <2>10. Unanswered(b, m, h, sa, u, t)
    <3>1. /\ Later(f, a.st.entries[k]) /\ k \in DOMAIN m.entries /\ ~a.refused /\ f \in Entry
          /\ u \/ (Exclusive(f) /\ (sa[k] + Retention <= t \/ SettledEntry(f, sa[k])))
      BY <1>2, <2>1, <2>2, <2>4, <2>6, <2>8
    <3> QED
      BY <1>10, <2>9, <3>1, UpdateWritten, Zenon
  <2>11. Disk(b, h, sb, u, t) /\ Shadow(b, mm, u)
    <3>1. k \in DOMAIN m.entries /\ ~a.refused /\ f \in Entry /\ Later(f, g)
      BY <1>2, <2>2, <2>4, <2>6
    <3> QED
      BY <1>7, <1>8, <1>10, <2>9, <3>1, UpdateDone, Zenon
  <2> QED
    BY <1>8, <2>10, <2>11
<1> QED
  BY <1>9, <1>10

\* One claimed command: e in memory and p in the journal, g and f afterwards.
Unsettled(e) == \A s : ~SettledEntry(e, s)
AlwaysSettled(e) == \A s : SettledEntry(e, s)
Deliver(e, t) == [e EXCEPT !.attempts = @ + 1, !.last_delivered = t]

LEMMA DeliveredEntry ==
    ASSUME NEW t \in Nat, NEW e \in Entry, NEW p \in Entry, Later(p, e), p.last_delivered <= t,
           NEW n, n = e.attempts + 1, e.attempts < MaxAttempts, ~e.acknowledged, ~e.cancelled,
           NEW f, f = Bump(p, n, t), NEW g,
           g = Deliver(e, t)
    PROVE  /\ f \in Entry /\ Later(f, p) /\ f.attempts >= n /\ n \in 1..MaxAttempts
           /\ f.attempts >= p.attempts
           /\ g.attempts = n /\ Exclusive(g)
           /\ Unsettled(e)
           /\ n = MaxAttempts => AlwaysSettled(g)
           /\ Later(f, g)
           /\ Alike(p, e) => Alike(f, g) /\ Exclusive(f)
<1>1. /\ n \in 1..MaxAttempts /\ n \in 0..MaxAttempts /\ t \in Time
      /\ e.attempts \in Nat /\ p.attempts \in Nat /\ p.last_delivered \in Int
      /\ p.attempts <= MaxAttempts
  BY BoundsAssumption DEF Entry, Time, NoTime
<1>2. /\ f \in Entry /\ f.agent = p.agent /\ f.acknowledged = p.acknowledged
      /\ f.cancelled = p.cancelled /\ f.cancelled_at = p.cancelled_at
      /\ f.attempts = IF p.attempts >= n THEN p.attempts ELSE n
      /\ f.last_delivered = IF p.last_delivered >= t THEN p.last_delivered ELSE t
  BY <1>1, BumpFacts
<1>3. /\ g.attempts = n /\ g.last_delivered = t /\ g.acknowledged = e.acknowledged
      /\ g.cancelled = e.cancelled /\ g.cancelled_at = e.cancelled_at /\ g.agent = e.agent
  BY DEF Entry, Deliver
<1>4. f.attempts >= n /\ f.attempts >= p.attempts /\ f.last_delivered = t
  BY <1>1, <1>2
<1>5. Later(f, p) /\ Later(f, g)
  BY <1>1, <1>2, <1>3, <1>4 DEF Later
<1>6. Exclusive(g)
  BY <1>3 DEF Exclusive
<1>7. Unsettled(e)
  BY <1>1, BoundsAssumption DEF SettledEntry, Unsettled
<1>8. n = MaxAttempts => AlwaysSettled(g)
  BY <1>1, <1>3 DEF SettledEntry, AlwaysSettled
<1>9. ASSUME Alike(p, e) PROVE Alike(f, g) /\ Exclusive(f)
  <2>1. f.attempts = n
    BY <1>1, <1>2, <1>9 DEF Alike
  <2>2. Alike(f, g)
    BY <1>2, <1>3, <1>4, <1>9, <2>1 DEF Alike
  <2> QED
    BY <1>6, <2>2, AlikeSettled
<1> QED
  BY <1>1, <1>2, <1>3, <1>4, <1>5, <1>6, <1>7, <1>8, <1>9

Shaped(a) == a = [st |-> a.st, refused |-> a.refused] /\ a.refused \in BOOLEAN

LEMMA ReplayShaped ==
    ASSUME NEW a, Shaped(a), NEW jnl, Len(jnl) \in Nat, Shaped(a)
    PROVE  Shaped(Replay(a, jnl))
<1>1. PICK g, n : n = Len(jnl) /\ Runs(a, jnl, g, n) /\ Replay(a, jnl) = g[n]
  BY ReplayIs
<1>2. CASE n = 0
  <2>1. g[n] = a
    BY <1>1, <1>2 DEF Runs
  <2> QED
    BY <1>1, <2>1
<1>3. CASE n # 0
  <2>1. g[n] = LoadStep(g[n - 1], jnl[n])
    BY <1>1, <1>3 DEF Runs
  <2>2. Shaped(LoadStep(g[n - 1], jnl[n]))
    BY DEF LoadStep, Shaped
  <2> QED
    BY <1>1, <2>1, <2>2
<1> QED
  BY <1>2, <1>3

LEMMA LoadShaped ==
    ASSUME NEW jnl, Len(jnl) \in Nat
    PROVE  Shaped(Load(jnl))
<1>1. PICK a : a = [st |-> NewInbox, refused |-> FALSE]
  OBVIOUS
<1>2. Shaped(a)
  BY <1>1 DEF Shaped
<1> QED
  BY <1>1, <1>2, ReplayShaped DEF Load

Takeable(m, S) ==
    \A k \in S : /\ k \in DOMAIN m.entries /\ m.entries[k].attempts < MaxAttempts
                 /\ ~m.entries[k].acknowledged /\ ~m.entries[k].cancelled

LEMMA DeliverableIsTakeable ==
    ASSUME NEW m, NEW agent, NEW limit, NEW t
    PROVE  Takeable(m, Deliverable(m, agent, limit, t))
BY DEF Takeable, Deliverable, Eligible

\* recs are the Delivered records of the first n of ks, all of them of S.
Batch(m, S, ks, n, recs, t) ==
    /\ n \in Nat /\ Len(recs) = n
    /\ \A i \in 1..n : /\ ks[i] \in S
                       /\ recs[i] = DeliveredRec(ks[i], m.entries[ks[i]].attempts + 1, t)

\* y is d with the attempts of the first n of ks.
Handed(y, d, m, ks, n, t) ==
    /\ y.retired = d.retired /\ DOMAIN y.entries = DOMAIN d.entries
    /\ \A k \in DOMAIN d.entries :
         \/ (\A i \in 1..n : ks[i] # k) /\ y.entries[k] = d.entries[k]
         \/ /\ \E i \in 1..n : ks[i] = k
            /\ y.entries[k] = Bump(d.entries[k], m.entries[k].attempts + 1, t)

LEMMA BatchReplay ==
    ASSUME NEW a, NEW m, NEW h, NEW sa, NEW u, NEW t, Paired(a, m, h, sa, u, t), Shaped(a),
           ~a.refused, NEW S, Takeable(m, S), NEW ks, NEW n, NEW recs,
           Batch(m, S, ks, n, recs, t), NEW b, b = Replay(a, recs)
    PROVE  ~b.refused /\ Handed(b.st, a.st, m, ks, n, t)
<1>1. PICK att : att = [k \in S |-> m.entries[k].attempts + 1]
  OBVIOUS
<1>2. \A k \in S : att[k] = m.entries[k].attempts + 1 /\ att[k] \in 1..MaxAttempts
  <2> SUFFICES ASSUME NEW k \in S
               PROVE  att[k] = m.entries[k].attempts + 1 /\ att[k] \in 1..MaxAttempts
    OBVIOUS
  <2>1. m.entries[k] \in Entry /\ m.entries[k].attempts < MaxAttempts
    BY DEF Takeable, Paired, Memory, Sound, TypedState
  <2> QED
    BY <1>1, <2>1, BoundsAssumption DEF Entry
<1>3. PICK d : d = a.st /\ Sound(d, t) /\ a = [st |-> d, refused |-> FALSE] /\ t \in Nat
  BY DEF Paired, Shaped, Clocked
<1>4. /\ n \in Nat /\ Len(recs) = n /\ \A i \in 1..n : att[ks[i]] \in 1..MaxAttempts
      /\ \A i \in 1..n : recs[i] = DeliveredRec(ks[i], att[ks[i]], t)
  BY <1>2 DEF Batch
<1>5. ~b.refused /\ Bumped(b.st, d, ks, att, t, n)
  <2>1. Delivers(recs, ks, att, t, n)
    BY <1>4 DEF Delivers
  <2> QED
    BY <1>3, <2>1, DeliveredReplay
<1>6. \A i \in 1..n : att[ks[i]] = m.entries[ks[i]].attempts + 1
  BY <1>2 DEF Batch
<1>7. ASSUME NEW k \in DOMAIN d.entries
      PROVE  \/ (\A i \in 1..n : ks[i] # k) /\ b.st.entries[k] = d.entries[k]
             \/ /\ \E i \in 1..n : ks[i] = k
                /\ b.st.entries[k] = Bump(d.entries[k], m.entries[k].attempts + 1, t)
  <2>1. CASE \E i \in 1..n : ks[i] = k
    <3>1. att[k] = m.entries[k].attempts + 1
      BY <1>6, <2>1
    <3>2. b.st.entries[k] = Bump(d.entries[k], att[k], t)
      BY <1>5, <2>1 DEF Bumped
    <3> QED
      BY <2>1, <3>1, <3>2
  <2>2. CASE ~\E i \in 1..n : ks[i] = k
    <3>1. b.st.entries[k] = d.entries[k]
      BY <1>5, <2>2 DEF Bumped
    <3> QED
      BY <2>2, <3>1
  <2> QED
    BY <2>1, <2>2
<1>8. b.st.retired = d.retired /\ DOMAIN b.st.entries = DOMAIN d.entries
  BY <1>5 DEF Bumped
<1> QED
  BY <1>3, <1>5, <1>7, <1>8 DEF Handed

\* The Delivered records of a claim nobody was answered for, all or some.
LEMMA DeliveredWritten ==
    ASSUME NEW a, NEW m, NEW h, NEW sa, NEW u, NEW t, Paired(a, m, h, sa, u, t), Shaped(a),
           NEW S, Takeable(m, S), NEW ks, NEW n, NEW recs,
           Batch(m, S, ks, n, recs, t), NEW b, b = Replay(a, recs)
    PROVE  Unanswered(b, m, h, sa, u, t)
<1>1. CASE a.refused
  <2>1. b.refused
    BY <1>1, RefusedForGood DEF Batch
  <2> QED
    BY <2>1 DEF Unanswered, Disk
<1>2. CASE ~a.refused
  <2>1. PICK d, y : d = a.st /\ y = b.st
    OBVIOUS
  <2>2. ~b.refused /\ Handed(y, d, m, ks, n, t)
    BY <1>2, <2>1, BatchReplay
  <2>3. /\ Sound(d, t) /\ Accounts(d, h) /\ (u \/ Remembers(d, sa, t)) /\ t \in Nat
        /\ Ahead(d, m) /\ (u \/ Same(d, m)) /\ Sound(m, t) /\ h \in [Keys -> 0..MaxAttempts]
    BY <1>2, <2>1 DEF Paired, Disk, Shadow, Memory, Clocked
  <2>4. ASSUME NEW k \in DOMAIN d.entries
        PROVE  /\ k \in Keys /\ d.entries[k] \in Entry /\ y.entries[k] \in Entry
               /\ Later(y.entries[k], d.entries[k])
               /\ y.entries[k].attempts >= d.entries[k].attempts
               /\ \/ y.entries[k] = d.entries[k]
                  \/ /\ u \/ Exclusive(y.entries[k])
                     /\ k \notin DOMAIN d.retired
                     /\ u \/ \A s : ~SettledEntry(d.entries[k], s)
    <3>1. /\ k \in Keys /\ d.entries[k] \in Entry /\ d.entries[k].last_delivered <= t
          /\ k \notin DOMAIN d.retired
      BY <2>3 DEF Sound, TypedState, PlainEntry
    <3>2. CASE y.entries[k] = d.entries[k]
      BY <3>1, <3>2 DEF Later, Entry, Time, NoTime
    <3>3. CASE /\ \E i \in 1..n : ks[i] = k
               /\ y.entries[k] = Bump(d.entries[k], m.entries[k].attempts + 1, t)
      <4>1. PICK e, p, f : e = m.entries[k] /\ p = d.entries[k] /\ f = y.entries[k]
        OBVIOUS
      <4>2. k \in S
        BY <3>3 DEF Batch
      <4>3. /\ e \in Entry /\ e.attempts < MaxAttempts /\ ~e.acknowledged /\ ~e.cancelled
            /\ Later(p, e) /\ (u \/ Alike(p, e))
        BY <2>3, <4>1, <4>2 DEF Takeable, Ahead, Same, Sound, TypedState
      <4>4. PICK g, x : /\ g = Deliver(e, t)
                        /\ x = e.attempts + 1 /\ f = Bump(p, x, t)
        BY <3>3, <4>1
      <4>5. /\ f \in Entry /\ Later(f, p) /\ f.attempts >= p.attempts
            /\ Unsettled(e)
            /\ Alike(p, e) => Exclusive(f)
        <5>1. t \in Nat /\ p \in Entry /\ p.last_delivered <= t
          BY <2>3, <3>1, <4>1
        <5> QED
          BY <4>3, <4>4, <5>1, DeliveredEntry
      <4>6. u \/ \A s : ~SettledEntry(p, s)
        BY <4>3, <4>5, AlikeSettled DEF Unsettled
      <4> QED
        BY <3>1, <4>1, <4>3, <4>5, <4>6
    <3> QED
      BY <2>2, <3>2, <3>3 DEF Handed
  <2>5. Accounts(y, h)
    <3> SUFFICES ASSUME NEW k \in DOMAIN d.entries PROVE h[k] <= y.entries[k].attempts
      BY <2>2 DEF Accounts, Handed
    <3>1. h[k] <= d.entries[k].attempts /\ h[k] \in Int
      BY <2>3, <2>4 DEF Accounts
    <3>2. d.entries[k].attempts \in Int /\ y.entries[k].attempts \in Int
      BY <2>4 DEF Entry
    <3> QED
      BY <2>4, <3>1, <3>2
  <2>6. ASSUME ~u PROVE Remembers(y, sa, t)
    <3>1. Remembers(d, sa, t) /\ y.retired = d.retired /\ DOMAIN y.entries = DOMAIN d.entries
      BY <2>2, <2>3, <2>6 DEF Handed
    <3>2. ASSUME NEW k \in DOMAIN y.entries PROVE Exclusive(y.entries[k])
      BY <2>4, <2>6, <3>1 DEF Remembers
    <3>3. ASSUME NEW k \in Keys PROVE StillKept(y, k, sa[k], t)
      <4>1. StillKept(d, k, sa[k], t)
        BY <3>1 DEF Remembers
      <4>2. CASE k \in DOMAIN d.entries
        BY <2>4, <2>6, <3>1, <4>1, <4>2 DEF StillKept
      <4>3. CASE k \notin DOMAIN d.entries
        BY <3>1, <4>1, <4>3 DEF StillKept
      <4> QED
        BY <4>2, <4>3
    <3> QED
      BY <3>2, <3>3 DEF Remembers
  <2>7. Ahead(y, m)
    <3> SUFFICES ASSUME NEW k \in DOMAIN m.entries PROVE Later(y.entries[k], m.entries[k])
      BY <2>2, <2>3 DEF Ahead, Handed
    <3>1. /\ k \in DOMAIN d.entries /\ m.entries[k] \in Entry
          /\ Later(d.entries[k], m.entries[k])
      BY <2>3 DEF Ahead, Sound, TypedState
    <3> QED
      BY <2>4, <3>1, LaterTrans
  <2> QED
    BY <2>1, <2>5, <2>6, <2>7 DEF Unanswered, Disk
<1> QED
  BY <1>1, <1>2

\* The books of a claim that was answered.
HandedOut(h, S) == [k \in Keys |-> IF k \in S THEN h[k] + 1 ELSE h[k]]
SettledBy(m, sa, S, t) ==
    [k \in Keys |-> IF k \in S /\ m.entries[k].attempts + 1 = MaxAttempts
                    THEN t ELSE sa[k]]

LEMMA MarkIs ==
    ASSUME NEW m, NEW S, NEW t, NEW mm, mm = MarkDelivered(m, S, t)
    PROVE  /\ mm.retired = m.retired /\ DOMAIN mm.entries = DOMAIN m.entries
           /\ \A k \in DOMAIN m.entries :
                /\ k \in S => mm.entries[k] = Deliver(m.entries[k], t)
                /\ k \notin S => mm.entries[k] = m.entries[k]
BY DEF MarkDelivered, Deliver

LEMMA TakenEntry ==
    ASSUME NEW t \in Nat, NEW e \in Entry, e.attempts < MaxAttempts,
           ~e.acknowledged, ~e.cancelled, NEW g, g = Deliver(e, t)
    PROVE  /\ g.attempts = e.attempts + 1 /\ Exclusive(g) /\ Unsettled(e)
           /\ e.attempts + 1 = MaxAttempts => AlwaysSettled(g)
<1>1. /\ g.attempts = e.attempts + 1 /\ g.acknowledged = e.acknowledged
      /\ g.cancelled = e.cancelled
  BY DEF Entry, Deliver
<1>2. e.attempts \in Nat
  BY BoundsAssumption DEF Entry
<1> QED
  BY <1>1, <1>2, BoundsAssumption DEF Exclusive, Unsettled, AlwaysSettled, SettledEntry

LEMMA DeliveredMemory ==
    ASSUME NEW m, NEW h, NEW sa, NEW u, NEW t, Clocked(h, sa, t), Memory(m, h, sa, u, t),
           NEW S, Takeable(m, S), NEW mm, mm = MarkDelivered(m, S, t),
           NEW hb, hb = HandedOut(h, S), NEW sb, sb = SettledBy(m, sa, S, t)
    PROVE  Clocked(hb, sb, t) /\ Memory(mm, hb, sb, u, t)
<1>1. /\ t \in Nat /\ h \in [Keys -> 0..MaxAttempts] /\ sa \in [Keys -> Time]
      /\ (\A k \in Keys : sa[k] <= t) /\ Sound(m, t) /\ Accounts(m, h)
      /\ (\A k \in Keys \ Tracked(m) : h[k] = 0) /\ (u \/ Remembers(m, sa, t))
  BY DEF Clocked, Memory
<1>2. /\ mm.retired = m.retired /\ DOMAIN mm.entries = DOMAIN m.entries
      /\ \A k \in DOMAIN m.entries :
           /\ k \in S => mm.entries[k] = Deliver(m.entries[k], t)
           /\ k \notin S => mm.entries[k] = m.entries[k]
  BY MarkIs
<1>3. ASSUME NEW k \in S
      PROVE  /\ k \in DOMAIN m.entries /\ k \in Keys /\ k \notin DOMAIN m.retired
             /\ m.entries[k].attempts \in Nat /\ m.entries[k].attempts < MaxAttempts
             /\ h[k] <= m.entries[k].attempts
             /\ mm.entries[k].attempts = m.entries[k].attempts + 1
             /\ Exclusive(mm.entries[k]) /\ Unsettled(m.entries[k])
             /\ m.entries[k].attempts + 1 = MaxAttempts => AlwaysSettled(mm.entries[k])
  <2>1. PICK e, g : e = m.entries[k] /\ g = mm.entries[k]
    OBVIOUS
  <2>2. /\ k \in DOMAIN m.entries /\ e.attempts < MaxAttempts
        /\ ~e.acknowledged /\ ~e.cancelled
    BY <2>1 DEF Takeable
  <2>3. k \in Keys /\ k \notin DOMAIN m.retired /\ e \in Entry /\ h[k] <= e.attempts
    BY <1>1, <2>1, <2>2 DEF Sound, TypedState, Accounts
  <2>4. g = Deliver(e, t)
    BY <1>2, <2>1, <2>2
  <2>5. e.attempts \in Nat
    BY <2>3, BoundsAssumption DEF Entry
  <2>6. /\ g.attempts = e.attempts + 1 /\ Exclusive(g) /\ Unsettled(e)
        /\ e.attempts + 1 = MaxAttempts => AlwaysSettled(g)
    BY <1>1, <2>2, <2>3, <2>4, TakenEntry
  <2> QED
    BY <2>1, <2>2, <2>3, <2>5, <2>6
<1>4. /\ \A k \in Keys : k \in S => hb[k] = h[k] + 1
      /\ \A k \in Keys : k \notin S => hb[k] = h[k]
      /\ hb \in [Keys -> 0..MaxAttempts]
  <2>1. \A k \in Keys : k \in S => h[k] + 1 \in 0..MaxAttempts
    BY <1>1, <1>3, BoundsAssumption
  <2> QED
    BY <1>1, <2>1 DEF HandedOut
<1>5. /\ sb \in [Keys -> Time] /\ \A k \in Keys : sb[k] <= t
      /\ \A k \in Keys : \/ sb[k] = sa[k]
                         \/ k \in S /\ m.entries[k].attempts + 1 = MaxAttempts
  BY <1>1 DEF SettledBy, Time
<1>6. Clocked(hb, sb, t)
  BY <1>4, <1>5 DEF Clocked
<1>7. Sound(mm, t)
  BY <1>1, <1>3, SoundMark
<1>8. Accounts(mm, hb)
  <2> SUFFICES ASSUME NEW k \in DOMAIN m.entries PROVE hb[k] <= mm.entries[k].attempts
    BY <1>2 DEF Accounts
  <2>1. k \in Keys /\ h[k] \in Nat
    BY <1>1 DEF Sound, TypedState
  <2>2. CASE k \in S
    BY <1>3, <1>4, <2>1, <2>2
  <2>3. CASE k \notin S
    BY <1>1, <1>2, <1>4, <2>1, <2>3 DEF Accounts
  <2> QED
    BY <2>2, <2>3
<1>9. \A k \in Keys \ Tracked(mm) : hb[k] = 0
  BY <1>1, <1>2, <1>3, <1>4 DEF Tracked
<1>10. ASSUME ~u PROVE Remembers(mm, sb, t)
  <2>1. Remembers(m, sa, t)
    BY <1>1, <1>10
  <2>2. ASSUME NEW k \in DOMAIN mm.entries PROVE Exclusive(mm.entries[k])
    BY <1>2, <1>3, <2>1 DEF Remembers
  <2>3. ASSUME NEW k \in Keys PROVE StillKept(mm, k, sb[k], t)
    <3>1. StillKept(m, k, sa[k], t)
      BY <2>1 DEF Remembers
    <3>2. CASE k \in S /\ m.entries[k].attempts + 1 = MaxAttempts
      BY <1>2, <1>3, <3>2 DEF StillKept, AlwaysSettled
    <3>3. CASE k \in S /\ m.entries[k].attempts + 1 # MaxAttempts
      <4>1. sb[k] = sa[k]
        BY <1>5, <3>3
      <4>2. sa[k] + Retention <= t
        BY <1>3, <3>1, <3>3 DEF StillKept, Unsettled
      <4> QED
        BY <4>1, <4>2 DEF StillKept
    <3>4. CASE k \notin S
      <4>1. sb[k] = sa[k]
        BY <1>5, <3>4
      <4> QED
        BY <1>2, <3>1, <3>4, <4>1 DEF StillKept
    <3> QED
      BY <3>2, <3>3, <3>4
  <2> QED
    BY <2>2, <2>3 DEF Remembers
<1> QED
  BY <1>6, <1>7, <1>8, <1>9, <1>10 DEF Memory

LEMMA DeliveredDone ==
    ASSUME NEW a, NEW m, NEW h, NEW sa, NEW u, NEW t, Paired(a, m, h, sa, u, t), Shaped(a),
           NEW S, Takeable(m, S), NEW ks, NEW n, NEW recs,
           Batch(m, S, ks, n, recs, t), \A k \in S : \E i \in 1..n : ks[i] = k,
           NEW b, b = Replay(a, recs), NEW mm, mm = MarkDelivered(m, S, t),
           NEW hb, hb = HandedOut(h, S), NEW sb, Memory(mm, hb, sb, u, t)
    PROVE  Disk(b, hb, sb, u, t) /\ Shadow(b, mm, u)
<1>1. CASE a.refused
  <2>1. b.refused
    BY <1>1, RefusedForGood DEF Batch
  <2> QED
    BY <2>1 DEF Disk, Shadow
<1>2. CASE ~a.refused
  <2>1. PICK d, y : d = a.st /\ y = b.st
    OBVIOUS
  <2>2. ~b.refused /\ Handed(y, d, m, ks, n, t)
    BY <1>2, <2>1, BatchReplay
  <2>3. /\ Sound(d, t) /\ Accounts(d, h) /\ t \in Nat /\ Accounts(m, h)
        /\ Ahead(d, m) /\ (u \/ Same(d, m)) /\ Sound(m, t) /\ h \in [Keys -> 0..MaxAttempts]
    BY <1>2, <2>1 DEF Paired, Disk, Shadow, Memory, Clocked
  <2>4. /\ mm.retired = m.retired /\ DOMAIN mm.entries = DOMAIN m.entries
        /\ \A k \in DOMAIN m.entries :
             /\ k \in S => mm.entries[k] = Deliver(m.entries[k], t)
             /\ k \notin S => mm.entries[k] = m.entries[k]
    BY MarkIs
  <2>5. ASSUME NEW k \in S
        PROVE  /\ k \in DOMAIN d.entries /\ k \in Keys
               /\ Later(y.entries[k], mm.entries[k])
               /\ u \/ Alike(y.entries[k], mm.entries[k])
               /\ hb[k] <= y.entries[k].attempts
    <3>1. PICK e, p, f, g : /\ e = m.entries[k] /\ p = d.entries[k]
                            /\ f = y.entries[k] /\ g = mm.entries[k]
      OBVIOUS
    <3>2. /\ k \in DOMAIN m.entries /\ e.attempts < MaxAttempts
          /\ ~e.acknowledged /\ ~e.cancelled
      BY <3>1 DEF Takeable
    <3>3. /\ k \in DOMAIN d.entries /\ k \in Keys /\ e \in Entry /\ p \in Entry
          /\ Later(p, e) /\ (u \/ Alike(p, e)) /\ p.last_delivered <= t
          /\ h[k] <= e.attempts
      BY <2>3, <3>1, <3>2 DEF Sound, TypedState, Ahead, Same, PlainEntry, Accounts
    <3>4. PICK x : x = e.attempts + 1 /\ f = Bump(p, x, t)
      BY <2>2, <3>1, <3>3 DEF Handed
    <3>5. g = Deliver(e, t)
      BY <2>4, <3>1, <3>2
    <3>6. /\ Later(f, g) /\ f.attempts >= x /\ f \in Entry
          /\ Alike(p, e) => Alike(f, g)
      BY <2>3, <3>2, <3>3, <3>4, <3>5, DeliveredEntry
    <3>7. hb[k] = h[k] + 1 /\ h[k] \in Nat
      BY <2>3, <3>3 DEF HandedOut
    <3>8. hb[k] <= f.attempts
      <4>1. f.attempts \in Int /\ e.attempts \in Int
        BY <3>3, <3>6 DEF Entry
      <4> QED
        BY <3>3, <3>4, <3>6, <3>7, <4>1
    <3> QED
      BY <3>1, <3>3, <3>6, <3>8
  <2>6. ASSUME NEW k \in DOMAIN d.entries, k \notin S
        PROVE  /\ k \in Keys /\ y.entries[k] = d.entries[k] /\ hb[k] = h[k]
    <3>1. \A i \in 1..n : ks[i] # k
      BY <2>6 DEF Batch
    <3>2. k \in Keys
      BY <2>3 DEF Sound, TypedState
    <3> QED
      BY <2>2, <2>6, <3>1, <3>2 DEF Handed, HandedOut
  <2>7. y.retired = d.retired /\ DOMAIN y.entries = DOMAIN d.entries
    BY <2>2 DEF Handed
  <2>8. Accounts(y, hb)
    BY <2>3, <2>5, <2>6, <2>7 DEF Accounts
  <2>9. Ahead(y, mm)
    BY <2>3, <2>4, <2>5, <2>6, <2>7 DEF Ahead
  <2>10. u \/ Same(y, mm)
    BY <2>3, <2>4, <2>5, <2>6, <2>7 DEF Same
  <2>11. u \/ Remembers(y, sb, t)
    BY <2>10, SameRemembers DEF Memory
  <2> QED
    BY <2>1, <2>8, <2>9, <2>10, <2>11 DEF Disk, Shadow
<1> QED
  BY <1>1, <1>2

\* A sweep forgets no identity before its time.
LEMMA SweepRemembers ==
    ASSUME NEW m, NEW sa, NEW t \in Nat, Retention <= t, Sound(m, t), MaintainChanges(m, t),
           sa \in [Keys -> Time], \A k \in Keys : sa[k] <= t, Remembers(m, sa, t),
           NEW mm, mm = Maintain(m, t)
    PROVE  Remembers(mm, sa, t)
<1> DEFINE R == RetiredAt(m, t)
           gone == Expired(m, t)
           done == Settled(m, t)
<1>1. /\ mm.entries = [k \in DOMAIN m.entries \ done |-> m.entries[k]]
      /\ mm.retired = [k \in DOMAIN R \ gone |-> R[k]]
  BY DEF Maintain
<1>2. DOMAIN R = done \cup DOMAIN m.retired /\ done \subseteq DOMAIN m.entries
  BY MaintainParts
<1>3. \A k \in DOMAIN R : k \in gone => R[k] <= t - Retention
  BY BoundsAssumption DEF Expired, SaturatingSub
<1>4. ASSUME NEW k \in Keys, k \in DOMAIN R, sa[k] <= R[k], R[k] \in Int
      PROVE  StillKept(mm, k, sa[k], t)
  <2>1. CASE k \in gone
    <3>1. sa[k] + Retention <= t
      BY <1>3, <1>4, <2>1, BoundsAssumption DEF Time, NoTime
    <3> QED
      BY <3>1 DEF StillKept
  <2>2. CASE k \notin gone
    BY <1>1, <1>4, <2>2 DEF StillKept
  <2> QED
    BY <2>1, <2>2
<1>5. ASSUME NEW k \in done
      PROVE  R[k] = IF m.entries[k].cancelled THEN m.entries[k].cancelled_at ELSE t
  BY DEF RetiredAt
<1>6. ASSUME NEW k \in DOMAIN m.retired, k \notin done PROVE R[k] = m.retired[k]
  BY <1>6 DEF RetiredAt
<1> HIDE DEF R, gone, done
<1>7. ASSUME NEW k \in Keys PROVE StillKept(mm, k, sa[k], t)
  <2>1. StillKept(m, k, sa[k], t)
    BY DEF Remembers
  <2>2. CASE sa[k] + Retention <= t
    BY <2>2 DEF StillKept
  <2>3. CASE k \in DOMAIN m.retired /\ sa[k] <= m.retired[k]
    <3>1. k \notin done /\ m.retired[k] \in Int
      BY <1>2, <2>3 DEF Sound, TypedState
    <3> QED
      BY <1>2, <1>4, <1>6, <2>3, <3>1
  <2>4. CASE k \in DOMAIN m.entries /\ SettledEntry(m.entries[k], sa[k])
    <3>1. CASE k \in done
      <4>1. m.entries[k].cancelled_at \in Int
        BY <2>4 DEF Sound, TypedState, Entry, Time, NoTime
      <4>2. sa[k] <= R[k] /\ R[k] \in Int
        BY <1>5, <2>4, <3>1, <4>1 DEF SettledEntry
      <4> QED
        BY <1>2, <1>4, <3>1, <4>2
    <3>2. CASE k \notin done
      BY <1>1, <2>4, <3>2 DEF StillKept
    <3> QED
      BY <3>1, <3>2
  <2> QED
    BY <2>1, <2>2, <2>3, <2>4 DEF StillKept
<1>8. ASSUME NEW k \in DOMAIN mm.entries PROVE Exclusive(mm.entries[k])
  BY <1>1 DEF Remembers
<1> QED
  BY <1>7, <1>8 DEF Remembers

LEMMA SweepAccounts ==
    ASSUME NEW m, NEW t, NEW h, MaintainChanges(m, t), Accounts(m, h),
           NEW mm, mm = Maintain(m, t)
    PROVE  Accounts(mm, h)
<1>1. mm.entries = [k \in DOMAIN m.entries \ Settled(m, t) |-> m.entries[k]]
  BY DEF Maintain
<1> QED
  BY <1>1 DEF Accounts

LEMMA SweepMemory ==
    ASSUME NEW m, NEW h, NEW sa, NEW u, NEW t, Clocked(h, sa, t), Memory(m, h, sa, u, t),
           MaintainChanges(m, t), NEW mm, mm = Maintain(m, t), NEW hb,
           hb = [k \in Keys |-> IF k \in Expired(m, t) THEN 0 ELSE h[k]]
    PROVE  Clocked(hb, sa, t) /\ Memory(mm, hb, sa, u, t)
<1>1. /\ t \in Nat /\ h \in [Keys -> 0..MaxAttempts] /\ sa \in [Keys -> Time] /\ Retention <= t
      /\ (\A k \in Keys : sa[k] <= t) /\ Sound(m, t) /\ Accounts(m, h)
      /\ (\A k \in Keys \ Tracked(m) : h[k] = 0) /\ (u \/ Remembers(m, sa, t))
  BY DEF Clocked, Memory
<1>2. hb \in [Keys -> 0..MaxAttempts] /\ \A k \in Keys : hb[k] <= h[k] /\ hb[k] \in Int
  BY <1>1, BoundsAssumption
<1>3. Clocked(hb, sa, t)
  BY <1>1, <1>2 DEF Clocked
<1>4. Sound(mm, t) /\ (u \/ Remembers(mm, sa, t)) /\ Accounts(mm, h)
  BY <1>1, SoundMaintain, SweepRemembers, SweepAccounts
<1>5. Accounts(mm, hb)
  <2> SUFFICES ASSUME NEW k \in DOMAIN mm.entries PROVE hb[k] <= mm.entries[k].attempts
    BY DEF Accounts
  <2>1. k \in Keys /\ mm.entries[k].attempts \in Int /\ h[k] <= mm.entries[k].attempts
    BY <1>4 DEF Sound, TypedState, Entry, Accounts
  <2> QED
    BY <1>1, <1>2, <2>1
<1>6. ASSUME NEW k \in Keys, k \notin Tracked(mm) PROVE hb[k] = 0
  <2>1. /\ mm.entries = [j \in DOMAIN m.entries \ Settled(m, t) |-> m.entries[j]]
        /\ mm.retired = [j \in DOMAIN RetiredAt(m, t) \ Expired(m, t) |-> RetiredAt(m, t)[j]]
        /\ DOMAIN RetiredAt(m, t) = Settled(m, t) \cup DOMAIN m.retired
    BY MaintainParts DEF Maintain
  <2>2. k \in Expired(m, t) \/ k \notin Tracked(m)
    BY <1>6, <2>1 DEF Tracked
  <2> QED
    BY <1>1, <2>2
<1> QED
  BY <1>3, <1>4, <1>5, <1>6 DEF Memory

-----------------------------------------------------------------------------
(* The inductive invariant of the journal-backed inbox. *)

\* Memory m, journal j, open file f, mode md, and the history h, sa, u at time t.
Consistent(m, j, f, md, h, sa, u, t) ==
    /\ Clocked(h, sa, t)
    /\ u \in BOOLEAN /\ f \in BOOLEAN
    /\ md \in {"up", "down", "refused"} /\ (f => md = "up")
    /\ j \in Seq(Records(t))
    /\ md = "up" => Memory(m, h, sa, u, t)
    /\ Disk(Load(j), h, sa, u, t)
    /\ f => Shadow(Load(j), m, u)

FileInv == Consistent(inbox, journal, file_open, mode, handed, settled_at, unsynced, now)

LEMMA ConsistentPaired ==
    ASSUME NEW m, NEW j, NEW f, NEW md, NEW h, NEW sa, NEW u, NEW t,
           Consistent(m, j, f, md, h, sa, u, t), f, NEW a, a = Load(j)
    PROVE  /\ Paired(a, m, h, sa, u, t) /\ Shaped(a) /\ md = "up" /\ j \in Seq(Records(t))
           /\ f = TRUE /\ u \in BOOLEAN
<1>1. t \in Nat /\ j \in Seq(Records(t)) /\ Len(j) \in Nat
  BY DEF Consistent, Clocked
<1>2. Sound(a.st, t) /\ Shaped(a)
  BY <1>1, LoadSound, LoadShaped
<1> QED
  BY <1>1, <1>2 DEF Consistent, Paired

LEMMA LoadConcat ==
    ASSUME NEW t, NEW j \in Seq(Records(t)), NEW recs \in Seq(Records(t)), NEW a, a = Load(j)
    PROVE  j \o recs \in Seq(Records(t)) /\ Load(j \o recs) = Replay(a, recs)
BY ReplayConcat, ConcatProperties DEF Load

LEMMA LoadTorn ==
    ASSUME NEW t, NEW j \in Seq(Records(t))
    PROVE  j \o <<TornRec>> \in Seq(Records(t)) /\ Load(j \o <<TornRec>>).refused
<1>1. PICK a : a = Load(j)
  OBVIOUS
<1>2. <<TornRec>> \in Seq(Records(t))
  BY DEF Records
<1>3. /\ j \o <<TornRec>> \in Seq(Records(t))
      /\ Load(j \o <<TornRec>>) = LoadStep(a, TornRec)
  <2>1. PICK recs : recs = <<TornRec>> /\ recs \in Seq(Records(t))
    BY <1>2
  <2>2. j \o recs \in Seq(Records(t)) /\ Load(j \o recs) = Replay(a, recs)
    <3>1. recs \in Seq(Records(t))
      BY <2>1
    <3> QED
      BY <1>1, <3>1, LoadConcat
  <2> QED
    BY <2>1, <2>2, ReplayOne
<1> QED
  BY <1>3, LoadTornIs DEF LoadStep

\* The ways an append can leave the pair: unanswered but written (a phantom, or
\* a crash), torn, and answered.
LEMMA ConsistentPhantom ==
    ASSUME NEW m, NEW j, NEW f, NEW md, NEW h, NEW sa, NEW u, NEW t,
           Consistent(m, j, f, md, h, sa, u, t), f,
           NEW jb \in Seq(Records(t)), NEW b, b = Load(jb), Unanswered(b, m, h, sa, u, t)
    PROVE  /\ Consistent(m, jb, f, md, h, sa, TRUE, t)
           /\ \A x : Consistent(x, jb, FALSE, "down", h, sa, u, t)
<1>1. Memory(m, h, sa, TRUE, t) /\ Disk(b, h, sa, TRUE, t) /\ Shadow(b, m, TRUE)
  BY DEF Unanswered, Consistent, Memory, Disk, Shadow
<1>2. Disk(b, h, sa, u, t)
  BY DEF Unanswered
<1> QED
  BY <1>1, <1>2 DEF Consistent

LEMMA ConsistentTorn ==
    ASSUME NEW m, NEW j, NEW f, NEW md, NEW h, NEW sa, NEW u, NEW t,
           Consistent(m, j, f, md, h, sa, u, t),
           NEW jb \in Seq(Records(t)), Load(jb).refused
    PROVE  /\ Consistent(m, jb, f, md, h, sa, u, t)
           /\ \A x : Consistent(x, jb, FALSE, "down", h, sa, u, t)
<1>1. Disk(Load(jb), h, sa, u, t) /\ Shadow(Load(jb), m, u)
  BY DEF Disk, Shadow
<1> QED
  BY <1>1 DEF Consistent

LEMMA ConsistentAnswered ==
    ASSUME NEW m, NEW j, NEW f, NEW md, NEW h, NEW sa, NEW u, NEW t,
           Consistent(m, j, f, md, h, sa, u, t),
           NEW jb \in Seq(Records(t)), NEW b, b = Load(jb),
           NEW mm, NEW hb, NEW sb, Clocked(hb, sb, t), Memory(mm, hb, sb, u, t),
           Disk(b, hb, sb, u, t), NEW fb \in BOOLEAN, fb => f /\ Shadow(b, mm, u)
    PROVE  Consistent(mm, jb, fb, md, hb, sb, u, t)
BY DEF Consistent

\* Only these parts of memory matter.
LEMMA ConsistentTouch ==
    ASSUME NEW m, NEW j, NEW f, NEW md, NEW h, NEW sa, NEW u, NEW t,
           Consistent(m, j, f, md, h, sa, u, t), NEW mm, mm.entries = m.entries,
           mm.retired = m.retired, mm.order = m.order, mm.next_sequence = m.next_sequence
    PROVE  Consistent(mm, j, f, md, h, sa, u, t)
<1>1. Sound(m, t) => Sound(mm, t)
  BY DEF Sound, TypedState
<1>2. Memory(m, h, sa, u, t) => Memory(mm, h, sa, u, t)
  BY <1>1 DEF Memory, Accounts, Remembers, StillKept, Tracked
<1>3. Shadow(Load(j), m, u) => Shadow(Load(j), mm, u)
  BY DEF Shadow, Ahead, Same
<1> QED
  BY <1>2, <1>3 DEF Consistent

\* How append_batch ends.
LEMMA AppendEnds ==
    ASSUME NEW recs, NEW o \in Outcomes, AppendBatch(recs, o), NEW R, journal \in Seq(R),
           unsynced \in BOOLEAN
    PROVE  \/ o # "ok" /\ journal' = journal /\ unsynced' = unsynced
           \/ file_open /\ o = "ok" /\ journal' = journal \o recs /\ unsynced' = unsynced
           \/ file_open /\ o = "phantom" /\ journal' = journal \o recs /\ unsynced' = TRUE
           \/ /\ file_open /\ o = "torn" /\ journal' = journal \o <<TornRec>>
              /\ unsynced' = unsynced
<1>1. CASE ~file_open
  BY <1>1 DEF AppendBatch
<1>2. CASE file_open /\ o = "lost"
  <2>1. journal \o <<>> = journal
    BY ConcatEmptySeq
  <2> QED
    BY <1>2, <2>1 DEF AppendBatch
<1>3. CASE file_open /\ o = "ok"
  BY <1>3 DEF AppendBatch
<1>4. CASE file_open /\ o = "phantom"
  BY <1>4 DEF AppendBatch
<1>5. CASE file_open /\ o = "torn"
  BY <1>5 DEF AppendBatch
<1>6. o # "closed" \/ ~file_open
  BY FileInboxAssumption DEF AppendBatch
<1> QED
  BY <1>1, <1>2, <1>3, <1>4, <1>5, <1>6 DEF Outcomes

LEMMA RecordConsistent ==
    ASSUME FileInv, NEW c \in Command, NEW o \in Outcomes, FileRecord(c, o)
    PROVE  FileInv'
<1>1. PICK m, j, f, h, sa, u, t, a :
         /\ m = inbox /\ j = journal /\ f = file_open /\ h = handed /\ sa = settled_at
         /\ u = unsynced /\ t = now /\ a = Load(j)
  OBVIOUS
<1>2. /\ Consistent(m, j, f, "up", h, sa, u, t) /\ mode = "up"
      /\ CheckRecordable(m, c) = "ok"
      /\ inbox' = IF o = "ok" THEN InsertRecorded(m, c) ELSE m
      /\ file_open' = f /\ mode' = "up" /\ now' = t /\ settled_at' = sa /\ handed' = h
  BY <1>1 DEF FileInv, FileRecord
<1>3. j \in Seq(Records(t)) /\ u \in BOOLEAN /\ Clocked(h, sa, t)
  BY <1>2 DEF Consistent
<1>4. PICK recs : recs = <<CommandRec(c)>> /\ recs \in Seq(Records(t))
  <2>1. PICK r : r = CommandRec(c) /\ r \in Records(t)
    BY DEF Records
  <2>2. <<r>> \in Seq(Records(t))
    BY <2>1
  <2> QED
    BY <2>1, <2>2
<1>5. \/ o # "ok" /\ journal' = j /\ unsynced' = u
      \/ f /\ o = "ok" /\ journal' = j \o recs /\ unsynced' = u
      \/ f /\ o = "phantom" /\ journal' = j \o recs /\ unsynced' = TRUE
      \/ f /\ o = "torn" /\ journal' = j \o <<TornRec>> /\ unsynced' = u
  <2>1. AppendBatch(recs, o)
    BY <1>4 DEF FileRecord
  <2> QED
    BY <1>1, <1>3, <2>1, AppendEnds
<1>6. PICK mm, b, jb : mm = InsertRecorded(m, c) /\ jb = j \o recs /\ b = Load(jb)
  OBVIOUS
<1>7. ASSUME f
      PROVE  /\ jb \in Seq(Records(t)) /\ Unanswered(b, m, h, sa, u, t)
             /\ Memory(mm, h, sa, u, t) /\ Disk(b, h, sa, u, t) /\ Shadow(b, mm, u)
  <2>1. Paired(a, m, h, sa, u, t)
    BY <1>1, <1>2, <1>7, ConsistentPaired
  <2>2. jb \in Seq(Records(t)) /\ b = Replay(a, recs)
    BY <1>1, <1>3, <1>4, <1>6, LoadConcat
  <2>3. b = LoadStep(a, CommandRec(c))
    BY <1>4, <2>2, ReplayOne
  <2> QED
    BY <1>2, <1>6, <2>1, <2>2, <2>3, CommandWritten
<1>8. Consistent(inbox', journal', file_open', mode', handed', settled_at', unsynced', now')
  <2>1. CASE o # "ok" /\ journal' = j /\ unsynced' = u
    BY <1>2, <2>1
  <2>2. CASE f /\ o = "ok" /\ journal' = j \o recs /\ unsynced' = u
    <3>1. Consistent(mm, jb, f, "up", h, sa, u, t)
      BY <1>2, <1>3, <1>6, <1>7, <2>2, ConsistentAnswered DEF Consistent
    <3> QED
      BY <1>2, <1>6, <2>2, <3>1
  <2>3. CASE f /\ o = "phantom" /\ journal' = j \o recs /\ unsynced' = TRUE
    <3>1. Consistent(m, jb, f, "up", h, sa, TRUE, t)
      BY <1>2, <1>6, <1>7, <2>3, ConsistentPhantom
    <3> QED
      BY <1>2, <1>6, <2>3, <3>1
  <2>4. CASE f /\ o = "torn" /\ journal' = j \o <<TornRec>> /\ unsynced' = u
    <3>1. PICK jt : jt = j \o <<TornRec>> /\ jt \in Seq(Records(t)) /\ Load(jt).refused
      BY <1>3, LoadTorn
    <3>2. Consistent(m, jt, f, "up", h, sa, u, t)
      BY <1>2, <3>1, ConsistentTorn
    <3> QED
      BY <1>2, <2>4, <3>1, <3>2
  <2> QED
    BY <1>5, <2>1, <2>2, <2>3, <2>4
<1> QED
  BY <1>8 DEF FileInv

LEMMA ClockedSettle ==
    ASSUME NEW h, NEW sa, NEW t, Clocked(h, sa, t), NEW k, NEW sb, sb = [sa EXCEPT ![k] = t]
    PROVE  Clocked(h, sb, t)
<1>1. t \in Time /\ t <= t /\ sa \in [Keys -> Time] /\ \A j \in Keys : sa[j] <= t
  BY DEF Clocked, Time
<1>2. sb \in [Keys -> Time] /\ \A j \in Keys : sb[j] <= t
  BY <1>1
<1> QED
  BY <1>2 DEF Clocked

\* Taking back a flag that was not set changes nothing.
LEMMA AckTakenBack ==
    ASSUME NEW st, NEW t, Sound(st, t), NEW k \in DOMAIN st.entries, ~st.entries[k].acknowledged,
           NEW y, y = SetAcknowledged(st, k, FALSE)
    PROVE  /\ y.entries = st.entries /\ y.retired = st.retired /\ y.order = st.order
           /\ y.next_sequence = st.next_sequence
<1>1. PICK e, g : /\ e = st.entries[k] /\ e \in Entry /\ ~e.acknowledged
                  /\ g = [e EXCEPT !.acknowledged = FALSE]
  BY DEF Sound, TypedState
<1>2. g = e
  BY <1>1 DEF Entry
<1> QED
  BY <1>1, <1>2 DEF SetAcknowledged, UpdateEntry, Sound, TypedState

LEMMA CancelTakenBack ==
    ASSUME NEW st, NEW t, Sound(st, t), NEW k \in DOMAIN st.entries, ~st.entries[k].cancelled,
           NEW y, y = SetCancelled(st, k, FALSE, NoTime)
    PROVE  /\ y.entries = st.entries /\ y.retired = st.retired /\ y.order = st.order
           /\ y.next_sequence = st.next_sequence
<1>1. PICK e, g : /\ e = st.entries[k] /\ e \in Entry /\ ~e.cancelled /\ e.cancelled_at = NoTime
                  /\ g = [e EXCEPT !.cancelled = FALSE, !.cancelled_at = NoTime]
  BY DEF Sound, TypedState, PlainEntry
<1>2. g = e
  BY <1>1 DEF Entry
<1> QED
  BY <1>1, <1>2 DEF SetCancelled, UpdateEntry, Sound, TypedState

LEMMA AcknowledgeConsistent ==
    ASSUME FileInv, NEW agent, NEW key \in Keys, NEW attempt \in Nat, NEW o \in Outcomes, FileAcknowledge(agent, key, attempt, o)
    PROVE  FileInv'
<1>1. PICK m, j, f, h, sa, u, t, a :
         /\ m = inbox /\ j = journal /\ f = file_open /\ h = handed /\ sa = settled_at
         /\ u = unsynced /\ t = now /\ a = Load(j)
  OBVIOUS
<1>2. PICK mm, back, sb, r : /\ mm = SetAcknowledged(m, key, TRUE) /\ back = SetAcknowledged(m, key, FALSE)
                             /\ sb = [sa EXCEPT ![key] = t] /\ r = AcknowledgedRec(key)
  OBVIOUS
<1>3. /\ Consistent(m, j, f, "up", h, sa, u, t) /\ mode = "up"
      /\ AckResult(m, agent, key, attempt) = "acknowledged"
      /\ o = "ok" => inbox' = mm /\ settled_at' = sb
      /\ o # "ok" => inbox' = back /\ settled_at' = sa
      /\ file_open' = f /\ mode' = "up" /\ now' = t /\ handed' = h
  BY <1>1, <1>2 DEF FileInv, FileAcknowledge
<1>4. /\ j \in Seq(Records(t)) /\ u \in BOOLEAN /\ Clocked(h, sa, t)
      /\ Memory(m, h, sa, u, t) /\ Sound(m, t) /\ t \in Nat
  BY <1>3 DEF Consistent, Memory, Clocked
<1>5. PICK recs : recs = <<r>> /\ recs \in Seq(Records(t))
  <2>1. r \in Records(t)
    BY <1>2, <1>4 DEF Records, Time
  <2>2. <<r>> \in Seq(Records(t))
    BY <2>1
  <2> QED
    BY <2>2
<1>6. \/ o # "ok" /\ journal' = j /\ unsynced' = u
      \/ f /\ o = "ok" /\ journal' = j \o recs /\ unsynced' = u
      \/ f /\ o = "phantom" /\ journal' = j \o recs /\ unsynced' = TRUE
      \/ f /\ o = "torn" /\ journal' = j \o <<TornRec>> /\ unsynced' = u
  <2>1. AppendBatch(recs, o)
    BY <1>1, <1>2, <1>5 DEF FileAcknowledge
  <2> QED
    BY <1>1, <1>4, <2>1, AppendEnds
<1>7. PICK b, jb : jb = j \o recs /\ b = Load(jb)
  OBVIOUS
<1>8. ASSUME f
      PROVE  /\ jb \in Seq(Records(t)) /\ Unanswered(b, m, h, sa, u, t)
             /\ Memory(mm, h, sb, u, t) /\ Disk(b, h, sb, u, t) /\ Shadow(b, mm, u)
  <2>1. Paired(a, m, h, sa, u, t)
    BY <1>1, <1>3, <1>8, ConsistentPaired
  <2>2. jb \in Seq(Records(t)) /\ b = Replay(a, recs)
    BY <1>1, <1>4, <1>5, <1>7, LoadConcat
  <2>3. b = LoadStep(a, AcknowledgedRec(key))
    BY <1>2, <1>5, <2>2, ReplayOne
  <2> QED
    BY <1>2, <1>3, <2>1, <2>2, <2>3, AcknowledgedWritten
<1>9. /\ back.entries = m.entries /\ back.retired = m.retired
      /\ back.order = m.order /\ back.next_sequence = m.next_sequence
  <2>1. key \in DOMAIN m.entries /\ ~m.entries[key].acknowledged
    BY <1>3, AckFacts
  <2> QED
    BY <1>2, <1>4, <2>1, AckTakenBack
<1>10. Consistent(inbox', journal', file_open', mode', handed', settled_at', unsynced', now')
  <2>1. CASE o # "ok" /\ journal' = j /\ unsynced' = u
    <3>1. Consistent(back, j, f, "up", h, sa, u, t)
      BY <1>3, <1>9, ConsistentTouch
    <3> QED
      BY <1>3, <2>1, <3>1
  <2>2. CASE f /\ o = "ok" /\ journal' = j \o recs /\ unsynced' = u
    <3>1. Clocked(h, sb, t) /\ f \in BOOLEAN
      BY <1>2, <1>3, <1>4, ClockedSettle DEF Consistent
    <3>2. Consistent(mm, jb, f, "up", h, sb, u, t)
      BY <1>3, <1>7, <1>8, <2>2, <3>1, ConsistentAnswered
    <3> QED
      BY <1>3, <1>7, <2>2, <3>2
  <2>3. CASE f /\ o = "phantom" /\ journal' = j \o recs /\ unsynced' = TRUE
    <3>1. Consistent(m, jb, f, "up", h, sa, TRUE, t)
      BY <1>3, <1>7, <1>8, <2>3, ConsistentPhantom
    <3>2. Consistent(back, jb, f, "up", h, sa, TRUE, t)
      BY <1>9, <3>1, ConsistentTouch
    <3> QED
      BY <1>3, <1>7, <2>3, <3>2
  <2>4. CASE f /\ o = "torn" /\ journal' = j \o <<TornRec>> /\ unsynced' = u
    <3>1. PICK jt : jt = j \o <<TornRec>> /\ jt \in Seq(Records(t)) /\ Load(jt).refused
      BY <1>4, LoadTorn
    <3>2. Consistent(m, jt, f, "up", h, sa, u, t)
      BY <1>3, <3>1, ConsistentTorn
    <3>3. Consistent(back, jt, f, "up", h, sa, u, t)
      BY <1>9, <3>2, ConsistentTouch
    <3> QED
      BY <1>3, <2>4, <3>1, <3>3
  <2> QED
    BY <1>6, <2>1, <2>2, <2>3, <2>4
<1> QED
  BY <1>10 DEF FileInv

LEMMA CancelConsistent ==
    ASSUME FileInv, NEW key \in Keys, NEW o \in Outcomes, FileCancel(key, o)
    PROVE  FileInv'
<1>1. PICK m, j, f, h, sa, u, t, a :
         /\ m = inbox /\ j = journal /\ f = file_open /\ h = handed /\ sa = settled_at
         /\ u = unsynced /\ t = now /\ a = Load(j)
  OBVIOUS
<1>2. PICK mm, back, sb, r : /\ mm = SetCancelled(m, key, TRUE, t) /\ back = SetCancelled(m, key, FALSE, NoTime)
                             /\ sb = [sa EXCEPT ![key] = t] /\ r = CancelledRec(key, t)
  OBVIOUS
<1>3. /\ Consistent(m, j, f, "up", h, sa, u, t) /\ mode = "up"
      /\ CancelResult(m, key) = "cancelled"
      /\ o = "ok" => inbox' = mm /\ settled_at' = sb
      /\ o # "ok" => inbox' = back /\ settled_at' = sa
      /\ file_open' = f /\ mode' = "up" /\ now' = t /\ handed' = h
  BY <1>1, <1>2 DEF FileInv, FileCancel
<1>4. /\ j \in Seq(Records(t)) /\ u \in BOOLEAN /\ Clocked(h, sa, t)
      /\ Memory(m, h, sa, u, t) /\ Sound(m, t) /\ t \in Nat
  BY <1>3 DEF Consistent, Memory, Clocked
<1>5. PICK recs : recs = <<r>> /\ recs \in Seq(Records(t))
  <2>1. r \in Records(t)
    BY <1>2, <1>4 DEF Records, Time
  <2>2. <<r>> \in Seq(Records(t))
    BY <2>1
  <2> QED
    BY <2>2
<1>6. \/ o # "ok" /\ journal' = j /\ unsynced' = u
      \/ f /\ o = "ok" /\ journal' = j \o recs /\ unsynced' = u
      \/ f /\ o = "phantom" /\ journal' = j \o recs /\ unsynced' = TRUE
      \/ f /\ o = "torn" /\ journal' = j \o <<TornRec>> /\ unsynced' = u
  <2>1. AppendBatch(recs, o)
    BY <1>1, <1>2, <1>5 DEF FileCancel
  <2> QED
    BY <1>1, <1>4, <2>1, AppendEnds
<1>7. PICK b, jb : jb = j \o recs /\ b = Load(jb)
  OBVIOUS
<1>8. ASSUME f
      PROVE  /\ jb \in Seq(Records(t)) /\ Unanswered(b, m, h, sa, u, t)
             /\ Memory(mm, h, sb, u, t) /\ Disk(b, h, sb, u, t) /\ Shadow(b, mm, u)
  <2>1. Paired(a, m, h, sa, u, t)
    BY <1>1, <1>3, <1>8, ConsistentPaired
  <2>2. jb \in Seq(Records(t)) /\ b = Replay(a, recs)
    BY <1>1, <1>4, <1>5, <1>7, LoadConcat
  <2>3. b = LoadStep(a, CancelledRec(key, t))
    BY <1>2, <1>5, <2>2, ReplayOne
  <2> QED
    BY <1>2, <1>3, <2>1, <2>2, <2>3, CancelledWritten
<1>9. /\ back.entries = m.entries /\ back.retired = m.retired
      /\ back.order = m.order /\ back.next_sequence = m.next_sequence
  <2>1. key \in DOMAIN m.entries /\ ~m.entries[key].cancelled
    BY <1>3, CancelFacts
  <2> QED
    BY <1>2, <1>4, <2>1, CancelTakenBack
<1>10. Consistent(inbox', journal', file_open', mode', handed', settled_at', unsynced', now')
  <2>1. CASE o # "ok" /\ journal' = j /\ unsynced' = u
    <3>1. Consistent(back, j, f, "up", h, sa, u, t)
      BY <1>3, <1>9, ConsistentTouch
    <3> QED
      BY <1>3, <2>1, <3>1
  <2>2. CASE f /\ o = "ok" /\ journal' = j \o recs /\ unsynced' = u
    <3>1. Clocked(h, sb, t) /\ f \in BOOLEAN
      BY <1>2, <1>3, <1>4, ClockedSettle DEF Consistent
    <3>2. Consistent(mm, jb, f, "up", h, sb, u, t)
      BY <1>3, <1>7, <1>8, <2>2, <3>1, ConsistentAnswered
    <3> QED
      BY <1>3, <1>7, <2>2, <3>2
  <2>3. CASE f /\ o = "phantom" /\ journal' = j \o recs /\ unsynced' = TRUE
    <3>1. Consistent(m, jb, f, "up", h, sa, TRUE, t)
      BY <1>3, <1>7, <1>8, <2>3, ConsistentPhantom
    <3>2. Consistent(back, jb, f, "up", h, sa, TRUE, t)
      BY <1>9, <3>1, ConsistentTouch
    <3> QED
      BY <1>3, <1>7, <2>3, <3>2
  <2>4. CASE f /\ o = "torn" /\ journal' = j \o <<TornRec>> /\ unsynced' = u
    <3>1. PICK jt : jt = j \o <<TornRec>> /\ jt \in Seq(Records(t)) /\ Load(jt).refused
      BY <1>4, LoadTorn
    <3>2. Consistent(m, jt, f, "up", h, sa, u, t)
      BY <1>3, <3>1, ConsistentTorn
    <3>3. Consistent(back, jt, f, "up", h, sa, u, t)
      BY <1>9, <3>2, ConsistentTouch
    <3> QED
      BY <1>3, <2>4, <3>1, <3>3
  <2> QED
    BY <1>6, <2>1, <2>2, <2>3, <2>4
<1> QED
  BY <1>10 DEF FileInv

DeliveredBatch(m, ks, t) ==
    [i \in DOMAIN ks |-> DeliveredRec(ks[i], m.entries[ks[i]].attempts + 1, t)]

\* A claim's batch names exactly the commands it takes.
LEMMA BatchIs ==
    ASSUME NEW m, NEW t \in Nat, Sound(m, t), NEW S, Takeable(m, S),
           NEW ks, ks = Retain(m.order, S), NEW n, n = Len(ks), NEW recs,
           recs = DeliveredBatch(m, ks, t)
    PROVE  /\ recs \in Seq(Records(t)) /\ Batch(m, S, ks, n, recs, t)
           /\ \A k \in S : \E i \in 1..n : ks[i] = k
<1>1. S \subseteq DOMAIN m.entries
  BY DEF Takeable
<1>2. Lists(ks, S)
  BY <1>1, RetainLists DEF Sound
<1>3. PICK e : IsRetained(m.order, S, ks, e, Len(m.order))
  BY RetainEmbeds DEF Sound, Lists
<1>4. ks \in Seq(Keys) /\ n \in Nat /\ DOMAIN ks = 1..n /\ \A i \in 1..n : ks[i] \in S
  BY <1>2, <1>3 DEF Lists, IsRetained
<1>5. ASSUME NEW i \in 1..n
      PROVE  DeliveredRec(ks[i], m.entries[ks[i]].attempts + 1, t) \in Records(t)
  <2>1. PICK k : k = ks[i] /\ k \in S
    BY <1>4
  <2>2. k \in Keys /\ m.entries[k] \in Entry /\ m.entries[k].attempts < MaxAttempts
    BY <2>1 DEF Takeable, Sound, TypedState
  <2>3. m.entries[k].attempts + 1 \in 1..MaxAttempts
    BY <2>2, BoundsAssumption DEF Entry
  <2>4. t \in {x \in Time : x <= t}
    BY DEF Time
  <2>5. DeliveredRec(k, m.entries[k].attempts + 1, t) \in Records(t)
    BY <2>2, <2>3, <2>4 DEF Records
  <2> QED
    BY <2>1, <2>5
<1>6. recs \in [1..n -> Records(t)]
  BY <1>4, <1>5 DEF DeliveredBatch
<1>7. recs \in Seq(Records(t)) /\ Len(recs) = n
  BY <1>4, <1>6
<1>8. Batch(m, S, ks, n, recs, t)
  BY <1>4, <1>7 DEF Batch, DeliveredBatch
<1> QED
  BY <1>2, <1>7, <1>8 DEF Lists

LEMMA BatchPrefix ==
    ASSUME NEW m, NEW t, NEW S, NEW ks, NEW n, NEW recs \in Seq(Records(t)),
           Batch(m, S, ks, n, recs, t), NEW i \in 0..n, NEW part, part = SubSeq(recs, 1, i)
    PROVE  part \in Seq(Records(t)) /\ Batch(m, S, ks, i, part, t)
<1>1. n \in Nat /\ n = Len(recs) /\ i \in Nat /\ i <= n
  BY DEF Batch
<1>2. Len(part) = i /\ part \in Seq(Records(t)) /\ \A x \in 1..i : part[x] = recs[x]
  <2>1. part = [x \in 1..i |-> recs[x]]
    BY <1>1
  <2>2. \A x \in 1..i : recs[x] \in Records(t)
    BY <1>1
  <2>3. part \in [1..i -> Records(t)]
    BY <2>1, <2>2
  <2> QED
    BY <1>1, <2>1, <2>3
<1>3. \A x \in 1..i : x \in 1..n
  BY <1>1
<1> QED
  BY <1>1, <1>2, <1>3 DEF Batch

LEMMA ClaimFailsConsistent ==
    ASSUME FileInv, NEW agent, NEW limit, NEW o \in Outcomes, ClaimFails(agent, limit, o)
    PROVE  FileInv'
<1>1. PICK m, j, f, h, sa, u, t, a, S, ks :
         /\ m = inbox /\ j = journal /\ f = file_open /\ h = handed /\ sa = settled_at
         /\ u = unsynced /\ t = now /\ a = Load(j)
         /\ S = Deliverable(m, agent, limit, t) /\ ks = Retain(m.order, S)
  OBVIOUS
<1>2. /\ Consistent(m, j, f, "up", h, sa, u, t) /\ mode = "up" /\ o # "ok"
      /\ inbox' = m
      /\ file_open' = f /\ mode' = "up" /\ now' = t /\ settled_at' = sa /\ handed' = h
  BY <1>1 DEF FileInv, ClaimFails
<1>3. /\ j \in Seq(Records(t)) /\ u \in BOOLEAN /\ Sound(m, t) /\ t \in Nat
  BY <1>2 DEF Consistent, Memory, Clocked
<1>4. PICK recs, n :
        /\ n = Len(ks)
        /\ recs = DeliveredBatch(m, ks, t)
  OBVIOUS
<1>5. Takeable(m, S)
  BY <1>1, DeliverableIsTakeable
<1>6. recs \in Seq(Records(t)) /\ Batch(m, S, ks, n, recs, t)
  BY <1>1, <1>3, <1>4, <1>5, BatchIs
<1>7. \/ journal' = j /\ unsynced' = u
      \/ f /\ journal' = j \o recs /\ unsynced' = TRUE
      \/ f /\ journal' = j \o <<TornRec>> /\ unsynced' = u
  <2>1. AppendBatch(recs, o)
    BY <1>1, <1>4 DEF ClaimFails, DeliveredRecords, DeliveredBatch
  <2> QED
    BY <1>1, <1>2, <1>3, <2>1, AppendEnds
<1>8. Consistent(inbox', journal', file_open', mode', handed', settled_at', unsynced', now')
  <2>1. CASE journal' = j /\ unsynced' = u
    BY <1>2, <2>1
  <2>2. CASE f /\ journal' = j \o recs /\ unsynced' = TRUE
    <3>1. PICK jb, b : jb = j \o recs /\ b = Load(jb)
      OBVIOUS
    <3>2. Paired(a, m, h, sa, u, t) /\ Shaped(a)
      BY <1>1, <1>2, <2>2, ConsistentPaired
    <3>3. jb \in Seq(Records(t)) /\ b = Replay(a, recs)
      BY <1>1, <1>3, <1>6, <3>1, LoadConcat
    <3>4. Unanswered(b, m, h, sa, u, t)
      BY <1>5, <1>6, <3>2, <3>3, DeliveredWritten
    <3>5. Consistent(m, jb, f, "up", h, sa, TRUE, t)
      BY <1>2, <2>2, <3>1, <3>3, <3>4, ConsistentPhantom
    <3> QED
      BY <1>2, <2>2, <3>1, <3>5
  <2>3. CASE f /\ journal' = j \o <<TornRec>> /\ unsynced' = u
    <3>1. PICK jt : jt = j \o <<TornRec>> /\ jt \in Seq(Records(t)) /\ Load(jt).refused
      BY <1>3, LoadTorn
    <3>2. Consistent(m, jt, f, "up", h, sa, u, t)
      BY <1>2, <3>1, ConsistentTorn
    <3> QED
      BY <1>2, <2>3, <3>1, <3>2
  <2> QED
    BY <1>7, <2>1, <2>2, <2>3
<1> QED
  BY <1>8 DEF FileInv

\* A claim whose Delivered records were appended, seen from the journal jb they
\* are in: the books of the claim, and the journal, with or without memory's
\* order cleaned.
LEMMA ClaimConsistent ==
    ASSUME NEW m, NEW j, NEW h, NEW sa, NEW u, NEW t,
           Consistent(m, j, TRUE, "up", h, sa, u, t),
           NEW agent, NEW limit, NEW S, S = Deliverable(m, agent, limit, t),
           NEW ks, ks = Retain(m.order, S), NEW recs,
           recs = DeliveredBatch(m, ks, t),
           NEW mm, mm = MarkDelivered(m, S, t), NEW hb, hb = HandedOut(h, S),
           NEW sb, sb = SettledBy(m, sa, S, t)
    PROVE  /\ j \o recs \in Seq(Records(t))
           /\ Clocked(hb, sb, t) /\ Memory(mm, hb, sb, u, t)
           /\ Disk(Load(j \o recs), hb, sb, u, t) /\ Shadow(Load(j \o recs), mm, u)
<1>1. PICK a, n, jb, b : a = Load(j) /\ n = Len(ks) /\ jb = j \o recs /\ b = Load(jb)
  OBVIOUS
<1>2. Paired(a, m, h, sa, u, t) /\ Shaped(a) /\ j \in Seq(Records(t))
  BY <1>1, ConsistentPaired
<1>3. Clocked(h, sa, t) /\ Memory(m, h, sa, u, t) /\ Sound(m, t) /\ t \in Nat
  BY <1>2 DEF Paired, Memory, Clocked
<1>4. Takeable(m, S)
  BY DeliverableIsTakeable
<1>5. /\ recs \in Seq(Records(t)) /\ Batch(m, S, ks, n, recs, t)
      /\ \A k \in S : \E i \in 1..n : ks[i] = k
  <2>1. n = Len(ks)
    BY <1>1
  <2> QED
    BY <1>3, <1>4, <2>1, BatchIs
<1>6. jb \in Seq(Records(t)) /\ b = Replay(a, recs)
  <2>1. j \in Seq(Records(t)) /\ recs \in Seq(Records(t))
    BY <1>2, <1>5
  <2> QED
    BY <1>1, <2>1, LoadConcat
<1>7. Clocked(hb, sb, t) /\ Memory(mm, hb, sb, u, t)
  BY <1>3, <1>4, DeliveredMemory
<1>8. Disk(b, hb, sb, u, t) /\ Shadow(b, mm, u)
  BY <1>2, <1>4, <1>5, <1>6, <1>7, DeliveredDone
<1> QED
  BY <1>1, <1>6, <1>7, <1>8

LEMMA FileClaimConsistent ==
    ASSUME FileInv, NEW agent, NEW limit, FileClaim(agent, limit)
    PROVE  FileInv'
<1>1. PICK m, j, h, sa, u, t, S, ks :
         /\ m = inbox /\ j = journal /\ h = handed /\ sa = settled_at
         /\ u = unsynced /\ t = now
         /\ S = Deliverable(m, agent, limit, t) /\ ks = Retain(m.order, S)
  OBVIOUS
<1>2. PICK recs, mm, hb, sb, jb :
         /\ recs = DeliveredBatch(m, ks, t) /\ mm = MarkDelivered(m, S, t)
         /\ hb = HandedOut(h, S) /\ sb = SettledBy(m, sa, S, t) /\ jb = j \o recs
  OBVIOUS
<1>3. /\ inbox' = mm /\ handed' = hb /\ settled_at' = sb
      /\ file_open' = file_open /\ mode' = "up" /\ now' = t /\ mode = "up"
  BY <1>1, <1>2 DEF FileClaim, HandedOut, SettledBy
<1>4. file_open = TRUE /\ journal' = jb /\ unsynced' = u
  <2>1. AppendBatch(recs, "ok")
    BY <1>1, <1>2 DEF FileClaim, DeliveredRecords, DeliveredBatch
  <2>2. j \in Seq(Records(t)) /\ u \in BOOLEAN /\ file_open \in BOOLEAN /\ "ok" \in Outcomes
    BY <1>1 DEF FileInv, Consistent, Outcomes
  <2> QED
    BY <1>1, <1>2, <2>1, <2>2, AppendEnds
<1>5. Consistent(m, j, TRUE, "up", h, sa, u, t)
  BY <1>1, <1>3, <1>4 DEF FileInv
<1>6. /\ jb \in Seq(Records(t)) /\ Clocked(hb, sb, t) /\ Memory(mm, hb, sb, u, t)
      /\ Disk(Load(jb), hb, sb, u, t) /\ Shadow(Load(jb), mm, u)
  BY <1>1, <1>2, <1>5, ClaimConsistent
<1>7. Consistent(mm, jb, TRUE, "up", hb, sb, u, t)
  BY <1>5, <1>6, ConsistentAnswered
<1> QED
  BY <1>3, <1>4, <1>7 DEF FileInv

\* compact() as the model has it, for a file that is open.
LEMMA CompactEnds ==
    ASSUME NEW st, NEW old, NEW o, CompactTo(st, old, o), file_open
    PROVE  /\ o \in {"ok", "lost", "closed"}
           /\ o = "ok" => journal' = Snapshot(st) /\ file_open' = TRUE
           /\ o = "lost" => journal' = old /\ file_open' = TRUE
           /\ o = "closed" => journal' \in {Snapshot(st), old} /\ file_open' = FALSE
BY FileInboxAssumption DEF CompactTo

LEMMA DropStaleIs ==
    ASSUME NEW st, NEW S, NEW t, NEW m, st = MarkDelivered(m, S, t),
           NEW y, y = DropStaleOrder(st)
    PROVE  /\ y.entries = st.entries /\ y.retired = st.retired
           /\ \A x : Sound(st, x) => Sound(y, x)
<1>1. DOMAIN st = {"order", "entries", "retired", "scope_counts", "next_sequence"}
  BY DEF MarkDelivered
<1>2. \A x : Sound(st, x) => Sound(y, x)
  BY <1>1, SoundDropStale
<1> QED
  BY <1>1, <1>2 DEF DropStaleOrder

LEMMA DropStaleMemory ==
    ASSUME NEW st, NEW y, NEW h, NEW sa, NEW u, NEW t, Memory(st, h, sa, u, t),
           y.entries = st.entries, y.retired = st.retired, Sound(st, t) => Sound(y, t),
           NEW a, Shadow(a, st, u)
    PROVE  Memory(y, h, sa, u, t) /\ Shadow(a, y, u)
BY DEF Memory, Accounts, Remembers, StillKept, Tracked, Shadow, Ahead, Same

LEMMA ClaimAndCompactConsistent ==
    ASSUME FileInv, NEW agent, NEW limit, NEW o \in Outcomes, ClaimAndCompact(agent, limit, o)
    PROVE  FileInv'
<1>1. PICK m, j, h, sa, u, t, S, ks :
         /\ m = inbox /\ j = journal /\ h = handed /\ sa = settled_at
         /\ u = unsynced /\ t = now
         /\ S = Deliverable(m, agent, limit, t) /\ ks = Retain(m.order, S)
  OBVIOUS
<1>2. PICK recs, mm, hb, sb, old, snap, clean :
         /\ recs = DeliveredBatch(m, ks, t) /\ mm = MarkDelivered(m, S, t)
         /\ hb = HandedOut(h, S) /\ sb = SettledBy(m, sa, S, t) /\ old = j \o recs
         /\ snap = Snapshot(mm) /\ clean = DropStaleOrder(mm)
  OBVIOUS
<1>3. /\ handed' = hb /\ settled_at' = sb /\ o # "lost" /\ unsynced' = u
      /\ mode' = "up" /\ now' = t /\ mode = "up" /\ file_open
      /\ inbox' = IF o = "ok" THEN clean ELSE mm
  BY <1>1, <1>2 DEF ClaimAndCompact, HandedOut, SettledBy
<1>4. CompactTo(mm, old, o)
  BY <1>1, <1>2 DEF ClaimAndCompact, DeliveredRecords, DeliveredBatch
<1>5. \/ o = "ok" /\ journal' = snap /\ file_open' = TRUE /\ inbox' = clean
      \/ journal' = snap /\ file_open' = FALSE /\ inbox' = mm
      \/ journal' = old /\ file_open' = FALSE /\ inbox' = mm
  <2>1. /\ o \in {"ok", "lost", "closed"}
        /\ o = "ok" => journal' = Snapshot(mm) /\ file_open' = TRUE
        /\ o = "closed" => journal' \in {Snapshot(mm), old} /\ file_open' = FALSE
    BY <1>3, <1>4, CompactEnds
  <2> QED
    BY <1>2, <1>3, <2>1
<1>6. Consistent(m, j, TRUE, "up", h, sa, u, t)
  <2>1. file_open = TRUE
    BY <1>3 DEF FileInv, Consistent
  <2> QED
    BY <1>1, <1>3, <2>1 DEF FileInv
<1>7. /\ old \in Seq(Records(t)) /\ Clocked(hb, sb, t) /\ Memory(mm, hb, sb, u, t)
      /\ Disk(Load(old), hb, sb, u, t)
  BY <1>1, <1>2, <1>6, ClaimConsistent
<1>8. PICK b : b = Load(snap)
  OBVIOUS
<1>9. snap \in Seq(Records(t)) /\ Disk(b, hb, sb, u, t) /\ Shadow(b, mm, u)
  <2>1. /\ t \in Nat /\ Sound(mm, t) /\ Accounts(mm, hb) /\ (u \/ Remembers(mm, sb, t))
    BY <1>7 DEF Memory, Clocked
  <2>2. snap \in Seq(Records(t))
    BY <1>2, <2>1, SnapshotParts
  <2> QED
    BY <1>2, <1>8, <2>1, <2>2, SnapshotGood
<1>10. CASE o = "ok" /\ journal' = snap /\ file_open' = TRUE /\ inbox' = clean
  <2>1. Memory(clean, hb, sb, u, t) /\ Shadow(b, clean, u)
    <3>1. /\ clean.entries = mm.entries /\ clean.retired = mm.retired
          /\ Sound(mm, t) => Sound(clean, t)
      BY <1>2, DropStaleIs
    <3> QED
      BY <1>7, <1>9, <3>1, DropStaleMemory
  <2>2. Consistent(clean, snap, TRUE, "up", hb, sb, u, t)
    BY <1>6, <1>7, <1>8, <1>9, <2>1, ConsistentAnswered
  <2> QED
    BY <1>3, <1>10, <2>2 DEF FileInv
<1>11. CASE journal' = snap /\ file_open' = FALSE /\ inbox' = mm
  <2>1. Consistent(mm, snap, FALSE, "up", hb, sb, u, t)
    BY <1>6, <1>7, <1>8, <1>9, ConsistentAnswered
  <2> QED
    BY <1>3, <1>11, <2>1 DEF FileInv
<1>12. CASE journal' = old /\ file_open' = FALSE /\ inbox' = mm
  <2>1. Consistent(mm, old, FALSE, "up", hb, sb, u, t)
    BY <1>6, <1>7, ConsistentAnswered
  <2> QED
    BY <1>3, <1>12, <2>1 DEF FileInv
<1> QED
  BY <1>5, <1>10, <1>11, <1>12

LEMMA SweepConsistent ==
    ASSUME FileInv, NEW o \in Outcomes, FileSweep(o)
    PROVE  FileInv'
<1>1. PICK m, j, f, h, sa, u, t :
         /\ m = inbox /\ j = journal /\ f = file_open /\ h = handed /\ sa = settled_at
         /\ u = unsynced /\ t = now
  OBVIOUS
<1>2. PICK mm, hb, snap :
         /\ mm = Maintain(m, t) /\ snap = Snapshot(mm)
         /\ hb = [k \in Keys |-> IF k \in Expired(m, t) THEN 0 ELSE h[k]]
  OBVIOUS
<1>3. /\ Consistent(m, j, f, "up", h, sa, u, t) /\ mode = "up" /\ MaintainChanges(m, t)
      /\ mode' = "up" /\ now' = t /\ settled_at' = sa /\ unsynced' = u
      /\ CompactTo(mm, j, o)
      /\ inbox' = IF o = "ok" THEN mm ELSE m
  BY <1>1, <1>2 DEF FileInv, FileSweep
<1>4. /\ Clocked(h, sa, t) /\ Memory(m, h, sa, u, t) /\ t \in Nat /\ j \in Seq(Records(t))
      /\ h \in [Keys -> 0..MaxAttempts] /\ Disk(Load(j), h, sa, u, t) /\ f \in BOOLEAN
  BY <1>3 DEF Consistent, Clocked
<1>5. /\ o = "ok" => handed' = hb
      /\ o # "ok" => handed' = h
  <2>1. handed' = [k \in Keys |-> IF o = "ok" /\ k \in Expired(m, t) THEN 0 ELSE h[k]]
    BY <1>1 DEF FileSweep
  <2> QED
    BY <1>2, <1>4, <2>1
<1>6. Clocked(hb, sa, t) /\ Memory(mm, hb, sa, u, t)
  BY <1>2, <1>3, <1>4, SweepMemory
<1>7. /\ Sound(mm, t) /\ (u \/ Remembers(mm, sa, t)) /\ Accounts(mm, hb) /\ Accounts(mm, h)
  <2>1. Sound(mm, t) /\ (u \/ Remembers(mm, sa, t)) /\ Accounts(mm, hb)
    BY <1>6 DEF Memory
  <2>2. Accounts(m, h)
    BY <1>4 DEF Memory
  <2> QED
    BY <1>2, <1>3, <2>1, <2>2, SweepAccounts
<1>8. PICK b : b = Load(snap)
  OBVIOUS
<1>9. /\ snap \in Seq(Records(t)) /\ Disk(b, hb, sa, u, t) /\ Disk(b, h, sa, u, t)
      /\ Shadow(b, mm, u)
  <2>1. snap \in Seq(Records(t))
    BY <1>2, <1>4, <1>7, SnapshotParts
  <2> QED
    BY <1>2, <1>4, <1>7, <1>8, <2>1, SnapshotGood
<1>10. CASE ~f
  <2>1. o = "lost" /\ journal' = j /\ file_open' = f
    BY <1>1, <1>3, <1>10 DEF CompactTo
  <2> QED
    BY <1>3, <1>5, <2>1 DEF FileInv
<1>11. CASE f
  <2>1. /\ o \in {"ok", "lost", "closed"}
        /\ o = "ok" => journal' = Snapshot(mm) /\ file_open' = TRUE
        /\ o = "lost" => journal' = j /\ file_open' = TRUE
        /\ o = "closed" => journal' \in {Snapshot(mm), j} /\ file_open' = FALSE
    BY <1>1, <1>3, <1>11, CompactEnds
  <2>2. CASE o = "ok"
    <3>1. Consistent(mm, snap, TRUE, "up", hb, sa, u, t)
      BY <1>3, <1>6, <1>8, <1>9, <1>11, ConsistentAnswered
    <3> QED
      BY <1>2, <1>3, <1>5, <2>1, <2>2, <3>1 DEF FileInv
  <2>3. CASE o = "lost"
    <3>1. f = TRUE
      BY <1>4, <1>11
    <3> QED
      BY <1>3, <1>5, <2>1, <2>3, <3>1 DEF FileInv
  <2>4. CASE o = "closed"
    <3>1. Consistent(m, snap, FALSE, "up", h, sa, u, t)
      BY <1>3, <1>4, <1>8, <1>9, ConsistentAnswered
    <3>2. Consistent(m, j, FALSE, "up", h, sa, u, t)
      BY <1>3, <1>4, ConsistentAnswered
    <3>3. journal' = snap \/ journal' = j
      BY <1>2, <2>1, <2>4
    <3> QED
      BY <1>3, <1>5, <2>1, <2>4, <3>1, <3>2, <3>3 DEF FileInv
  <2> QED
    BY <2>1, <2>2, <2>3, <2>4
<1> QED
  BY <1>10, <1>11

LEMMA CrashConsistent ==
    ASSUME FileInv, Crash
    PROVE  FileInv'
<1>1. PICK m, j, h, sa, u, t :
         /\ m = inbox /\ j = journal /\ h = handed /\ sa = settled_at
         /\ u = unsynced /\ t = now
  OBVIOUS
<1>2. Consistent(m, j, file_open, mode, h, sa, u, t)
  BY <1>1 DEF FileInv
<1>3. /\ inbox' = NewInbox /\ journal' = j /\ file_open' = FALSE /\ mode' = "down"
      /\ handed' = h /\ settled_at' = sa /\ unsynced' = u /\ now' = t
  BY <1>1 DEF Crash, Die
<1>4. Consistent(NewInbox, j, FALSE, "down", h, sa, u, t)
  BY <1>2 DEF Consistent
<1> QED
  BY <1>3, <1>4 DEF FileInv

LEMMA SingleRecord ==
    ASSUME NEW r, NEW n \in DOMAIN <<r>>
    PROVE  SubSeq(<<r>>, 1, n) = <<r>> /\ SubSeq(<<r>>, 1, n - 1) = <<>>
<1>1. PICK S : S = {r}
  OBVIOUS
<1>2. <<r>> \in Seq(S) /\ Len(<<r>>) = 1
  BY <1>1
<1>3. n = 1 /\ n - 1 = 0
  OBVIOUS
<1>4. SubSeq(<<r>>, 1, 1) = <<r>>
  BY <1>2, SubSeqFull
<1>5. SubSeq(<<r>>, 1, 0) = <<>>
  BY SubSeqEmpty
<1> QED
  BY <1>3, <1>4, <1>5

\* Whatever prefix of whatever append the crash leaves, the pair is as good as
\* after an unanswered append.
LEMMA PendingUnanswered ==
    ASSUME NEW a, NEW m, NEW h, NEW sa, NEW u, NEW t, Paired(a, m, h, sa, u, t), Shaped(a),
           NEW recs, NEW n, n \in DOMAIN recs,
           \/ \E c \in Command : CheckRecordable(m, c) = "ok" /\ recs = <<CommandRec(c)>>
           \/ \E g, l : recs = DeliveredBatch(m, Retain(m.order, Deliverable(m, g, l, t)), t)
           \/ \E k, g, x : /\ x \in Nat /\ AckResult(m, g, k, x) = "acknowledged"
                           /\ recs = <<AcknowledgedRec(k)>>
           \/ \E k : CancelResult(m, k) = "cancelled" /\ recs = <<CancelledRec(k, t)>>
    PROVE  /\ SubSeq(recs, 1, n) \in Seq(Records(t))
           /\ SubSeq(recs, 1, n - 1) \in Seq(Records(t))
           /\ Unanswered(Replay(a, SubSeq(recs, 1, n)), m, h, sa, u, t)
<1>0. t \in Nat /\ Sound(m, t)
  BY DEF Paired, Clocked, Memory
<1>r. ASSUME NEW r \in Records(t), recs = <<r>>, NEW b, b = LoadStep(a, r),
             Unanswered(b, m, h, sa, u, t)
      PROVE  /\ SubSeq(recs, 1, n) \in Seq(Records(t))
             /\ SubSeq(recs, 1, n - 1) \in Seq(Records(t))
             /\ Unanswered(Replay(a, SubSeq(recs, 1, n)), m, h, sa, u, t)
  <2>1. SubSeq(recs, 1, n) = <<r>> /\ SubSeq(recs, 1, n - 1) = <<>>
    BY <1>r, SingleRecord
  <2>2. <<r>> \in Seq(Records(t)) /\ <<>> \in Seq(Records(t))
    BY <1>r
  <2>3. Replay(a, SubSeq(recs, 1, n)) = b
    BY <1>r, <2>1, ReplayOne
  <2> QED
    BY <1>r, <2>1, <2>2, <2>3
<1>1. ASSUME NEW c \in Command, CheckRecordable(m, c) = "ok", recs = <<CommandRec(c)>>
      PROVE  \E r, b : /\ r \in Records(t) /\ recs = <<r>> /\ b = LoadStep(a, r)
                         /\ Unanswered(b, m, h, sa, u, t)
  <2>1. PICK r, b, mm : /\ r = CommandRec(c) /\ b = LoadStep(a, CommandRec(c))
                        /\ mm = InsertRecorded(m, c)
    OBVIOUS
  <2>2. Unanswered(b, m, h, sa, u, t)
    BY <1>1, <2>1, CommandWritten
  <2>3. r \in Records(t)
    BY <2>1 DEF Records
  <2> QED
    BY <1>1, <2>1, <2>2, <2>3
<1>2. ASSUME NEW k, NEW g, NEW x \in Nat, AckResult(m, g, k, x) = "acknowledged",
             recs = <<AcknowledgedRec(k)>>
      PROVE  \E r, b : /\ r \in Records(t) /\ recs = <<r>> /\ b = LoadStep(a, r)
                         /\ Unanswered(b, m, h, sa, u, t)
  <2>1. PICK r, b, mm, sb : /\ r = AcknowledgedRec(k) /\ b = LoadStep(a, AcknowledgedRec(k))
                            /\ mm = SetAcknowledged(m, k, TRUE) /\ sb = [sa EXCEPT ![k] = t]
    OBVIOUS
  <2>2. Unanswered(b, m, h, sa, u, t)
    BY <1>2, <2>1, AcknowledgedWritten
  <2>3. k \in Keys
    BY <1>0, <1>2, AckFacts DEF Sound, TypedState
  <2>4. r \in Records(t)
    BY <2>1, <2>3 DEF Records
  <2> QED
    BY <1>2, <2>1, <2>2, <2>4
<1>3. ASSUME NEW k, CancelResult(m, k) = "cancelled", recs = <<CancelledRec(k, t)>>
      PROVE  \E r, b : /\ r \in Records(t) /\ recs = <<r>> /\ b = LoadStep(a, r)
                         /\ Unanswered(b, m, h, sa, u, t)
  <2>1. PICK r, b, mm, sb : /\ r = CancelledRec(k, t) /\ b = LoadStep(a, CancelledRec(k, t))
                            /\ mm = SetCancelled(m, k, TRUE, t) /\ sb = [sa EXCEPT ![k] = t]
    OBVIOUS
  <2>2. Unanswered(b, m, h, sa, u, t)
    BY <1>3, <2>1, CancelledWritten
  <2>3. k \in Keys
    BY <1>0, <1>3, CancelFacts DEF Sound, TypedState
  <2>4. r \in Records(t)
    BY <1>0, <2>1, <2>3 DEF Records, Time
  <2> QED
    BY <1>3, <2>1, <2>2, <2>4
<1>4. ASSUME NEW g, NEW l,
             recs = DeliveredBatch(m, Retain(m.order, Deliverable(m, g, l, t)), t)
      PROVE  /\ SubSeq(recs, 1, n) \in Seq(Records(t))
             /\ SubSeq(recs, 1, n - 1) \in Seq(Records(t))
             /\ Unanswered(Replay(a, SubSeq(recs, 1, n)), m, h, sa, u, t)
  <2>1. PICK S, ks, x : /\ S = Deliverable(m, g, l, t) /\ ks = Retain(m.order, S) /\ x = Len(ks)
                        /\ recs = DeliveredBatch(m, ks, t)
    BY <1>4
  <2>2. Takeable(m, S)
    BY <2>1, DeliverableIsTakeable
  <2>3. recs \in Seq(Records(t)) /\ Batch(m, S, ks, x, recs, t)
    BY <1>0, <2>1, <2>2, BatchIs
  <2>4. n \in 0..x /\ n - 1 \in 0..x
    BY <2>3 DEF Batch
  <2>5. PICK part, less, b : /\ part = SubSeq(recs, 1, n) /\ less = SubSeq(recs, 1, n - 1)
                             /\ b = Replay(a, part)
    OBVIOUS
  <2>6. part \in Seq(Records(t)) /\ less \in Seq(Records(t)) /\ Batch(m, S, ks, n, part, t)
    BY <2>3, <2>4, <2>5, BatchPrefix
  <2>7. Unanswered(b, m, h, sa, u, t)
    BY <2>2, <2>5, <2>6, DeliveredWritten
  <2> QED
    BY <2>5, <2>6, <2>7
<1> QED
  BY <1>r, <1>1, <1>2, <1>3, <1>4

LEMMA PendingIs ==
    ASSUME NEW recs \in PendingAppends, NEW m, m = inbox, NEW t, t = now
    PROVE  \/ \E c \in Command : CheckRecordable(m, c) = "ok" /\ recs = <<CommandRec(c)>>
           \/ \E g, l : recs = DeliveredBatch(m, Retain(m.order, Deliverable(m, g, l, t)), t)
           \/ \E k, g, x : /\ x \in Nat /\ AckResult(m, g, k, x) = "acknowledged"
                           /\ recs = <<AcknowledgedRec(k)>>
           \/ \E k : CancelResult(m, k) = "cancelled" /\ recs = <<CancelledRec(k, t)>>
<1>1. CASE recs \in {<<CommandRec(c)>> : c \in {c \in Command : CheckRecordable(inbox, c) = "ok"}}
  BY <1>1
<1>2. CASE recs \in {DeliveredRecords(g, l) : g \in Agents, l \in PollLimits}
  <2>1. PICK g, l : recs = DeliveredRecords(g, l)
    BY <1>2
  <2>2. recs = DeliveredBatch(m, Retain(m.order, Deliverable(m, g, l, t)), t)
    BY <2>1 DEF DeliveredRecords, DeliveredBatch
  <2> QED
    BY <2>2
<1>3. CASE recs \in {<<AcknowledgedRec(k)>> :
                       k \in {k \in DOMAIN inbox.entries :
                                \E g \in Agents, x \in 1..MaxAttempts :
                                   AckResult(inbox, g, k, x) = "acknowledged"}}
  <2>1. PICK k, g, x : /\ x \in 1..MaxAttempts /\ AckResult(m, g, k, x) = "acknowledged"
                       /\ recs = <<AcknowledgedRec(k)>>
    BY <1>3
  <2>2. x \in Nat
    BY <2>1, BoundsAssumption
  <2> QED
    BY <2>1, <2>2
<1>4. CASE recs \in {<<CancelledRec(k, now)>> :
                       k \in {k \in Keys : CancelResult(inbox, k) = "cancelled"}}
  BY <1>4
<1> QED
  BY <1>1, <1>2, <1>3, <1>4 DEF PendingAppends

LEMMA CrashInAppendConsistent ==
    ASSUME FileInv, CrashInAppend
    PROVE  FileInv'
<1>1. PICK m, j, h, sa, u, t, a :
         /\ m = inbox /\ j = journal /\ h = handed /\ sa = settled_at
         /\ u = unsynced /\ t = now /\ a = Load(j)
  OBVIOUS
<1>2. /\ inbox' = NewInbox /\ file_open' = FALSE /\ mode' = "down" /\ mode = "up"
      /\ handed' = h /\ settled_at' = sa /\ unsynced' = u /\ now' = t
  BY <1>1 DEF CrashInAppend, Die
<1>3. Consistent(m, j, TRUE, "up", h, sa, u, t)
  <2>1. file_open = TRUE
    BY DEF FileInv, Consistent, CrashInAppend
  <2> QED
    BY <1>1, <1>2, <2>1 DEF FileInv
<1>4. PICK recs \in PendingAppends : \E n \in DOMAIN recs, cut \in BOOLEAN :
         journal' = j \o (IF cut THEN Append(SubSeq(recs, 1, n - 1), TornRec)
                                 ELSE SubSeq(recs, 1, n))
  BY <1>1 DEF CrashInAppend
<1>5. PICK n \in DOMAIN recs, cut \in BOOLEAN :
         journal' = j \o (IF cut THEN Append(SubSeq(recs, 1, n - 1), TornRec)
                                 ELSE SubSeq(recs, 1, n))
  BY <1>4
<1>6. Paired(a, m, h, sa, u, t) /\ Shaped(a) /\ j \in Seq(Records(t))
  BY <1>1, <1>3, ConsistentPaired
<1>7. PICK part, less, b : /\ part = SubSeq(recs, 1, n) /\ less = SubSeq(recs, 1, n - 1)
                           /\ b = Replay(a, part)
  OBVIOUS
<1>8. part \in Seq(Records(t)) /\ less \in Seq(Records(t)) /\ Unanswered(b, m, h, sa, u, t)
  BY <1>1, <1>6, <1>7, PendingIs, PendingUnanswered
<1>9. PICK jb : jb = journal'
  OBVIOUS
<1>10. Consistent(NewInbox, jb, FALSE, "down", h, sa, u, t)
  <2>1. CASE cut
    <3>1. PICK whole : whole = j \o less
      OBVIOUS
    <3>2. whole \in Seq(Records(t))
      BY <1>6, <1>8, <3>1, LoadConcat
    <3>3. jb = whole \o <<TornRec>>
      <4>1. jb = j \o Append(less, TornRec)
        BY <1>5, <1>7, <1>9, <2>1
      <4>2. <<TornRec>> \in Seq(Records(t))
        BY DEF Records
      <4>3. Append(less, TornRec) = less \o <<TornRec>>
        BY <1>8, <4>2, AppendIsConcat
      <4> QED
        BY <1>6, <1>8, <3>1, <4>1, <4>2, <4>3, ConcatAssociative
    <3>4. jb \in Seq(Records(t)) /\ Load(jb).refused
      BY <3>2, <3>3, LoadTorn
    <3> QED
      BY <1>3, <3>4, ConsistentTorn
  <2>2. CASE ~cut
    <3>1. jb = j \o part
      BY <1>5, <1>7, <1>9, <2>2
    <3>2. jb \in Seq(Records(t)) /\ Load(jb) = b
      BY <1>1, <1>6, <1>7, <1>8, <3>1, LoadConcat
    <3> QED
      BY <1>3, <1>8, <3>2, ConsistentPhantom
  <2> QED
    BY <2>1, <2>2
<1> QED
  BY <1>2, <1>9, <1>10 DEF FileInv

LEMMA SameSelf == ASSUME NEW d PROVE Same(d, d)
BY DEF Same, Alike

LEMMA RestartConsistent ==
    ASSUME FileInv, Restart
    PROVE  FileInv'
<1>1. PICK m, j, h, sa, u, t, a :
         /\ m = inbox /\ j = journal /\ h = handed /\ sa = settled_at
         /\ u = unsynced /\ t = now /\ a = Load(j)
  OBVIOUS
<1>2. /\ Consistent(m, j, file_open, "down", h, sa, u, t) /\ mode = "down"
      /\ journal' = j /\ now' = t /\ settled_at' = sa /\ unsynced' = u
  BY <1>1 DEF FileInv, Restart
<1>3. /\ Clocked(h, sa, t) /\ h \in [Keys -> 0..MaxAttempts] /\ t \in Nat
      /\ j \in Seq(Records(t)) /\ u \in BOOLEAN /\ Disk(a, h, sa, u, t)
  BY <1>1, <1>2 DEF Consistent, Clocked
<1>4. CASE a.refused
  <2>1. mode' = "refused" /\ inbox' = m /\ file_open' = file_open /\ handed' = h
    BY <1>1, <1>4 DEF Restart
  <2>2. Consistent(m, j, file_open, "refused", h, sa, u, t)
    BY <1>2 DEF Consistent
  <2> QED
    BY <1>2, <2>1, <2>2 DEF FileInv
<1>5. CASE ~a.refused
  <2>1. PICK d, hb : d = a.st /\ hb = [k \in Keys |-> IF k \in Tracked(d) THEN h[k] ELSE 0]
    OBVIOUS
  <2>2. mode' = "up" /\ inbox' = d /\ file_open' = TRUE /\ handed' = hb
    BY <1>1, <1>5, <2>1 DEF Restart
  <2>3. Sound(d, t)
    BY <1>1, <1>3, <2>1, LoadSound
  <2>4. Accounts(d, h) /\ (u \/ Remembers(d, sa, t))
    BY <1>3, <1>5, <2>1 DEF Disk
  <2>5. /\ hb \in [Keys -> 0..MaxAttempts] /\ (\A k \in Tracked(d) \cap Keys : hb[k] = h[k])
        /\ \A k \in Keys \ Tracked(d) : hb[k] = 0
    BY <1>3, <2>1, BoundsAssumption
  <2>6. Accounts(d, hb)
    BY <2>3, <2>4, <2>5 DEF Accounts, Tracked, Sound, TypedState
  <2>7. Clocked(hb, sa, t) /\ Memory(d, hb, sa, u, t)
    BY <1>3, <2>3, <2>4, <2>5, <2>6 DEF Clocked, Memory
  <2>8. Disk(a, hb, sa, u, t)
    BY <2>1, <2>4, <2>6 DEF Disk
  <2>9. Shadow(a, d, u)
    BY <2>1, <2>3, SameSelf, SameAhead DEF Shadow
  <2>10. Consistent(d, j, TRUE, "up", hb, sa, u, t)
    BY <1>1, <1>3, <2>7, <2>8, <2>9 DEF Consistent
  <2> QED
    BY <1>2, <2>2, <2>10 DEF FileInv
<1> QED
  BY <1>4, <1>5

LEMMA RecordsGrow == ASSUME NEW t \in Nat PROVE Records(t) \subseteq Records(t + 1)
<1>1. {x \in Time : x <= t} \subseteq {x \in Time : x <= t + 1}
  BY DEF Time, NoTime
<1> QED
  BY <1>1 DEF Records

LEMMA SoundLater ==
    ASSUME NEW t \in Nat, NEW st, Sound(st, t)
    PROVE  Sound(st, t + 1)
<1> SUFFICES ASSUME NEW k \in DOMAIN st.entries PROVE PlainEntry(st.entries[k], t + 1)
  BY DEF Sound
<1>1. st.entries[k] \in Entry /\ PlainEntry(st.entries[k], t)
  BY DEF Sound, TypedState
<1>2. st.entries[k].last_delivered \in Int
  BY <1>1 DEF Entry, Time, NoTime
<1> QED
  BY <1>1, <1>2 DEF PlainEntry

LEMMA RemembersLater ==
    ASSUME NEW t \in Nat, NEW st, NEW sa \in [Keys -> Time], Remembers(st, sa, t)
    PROVE  Remembers(st, sa, t + 1)
<1> SUFFICES ASSUME NEW k \in Keys PROVE StillKept(st, k, sa[k], t + 1)
  BY DEF Remembers
<1>1. StillKept(st, k, sa[k], t)
  BY DEF Remembers
<1>2. sa[k] + Retention \in Int
  BY BoundsAssumption DEF Time, NoTime
<1> QED
  BY <1>1, <1>2 DEF StillKept

LEMMA TickConsistent ==
    ASSUME FileInv, FileTick
    PROVE  FileInv'
<1>1. PICK m, j, f, md, h, sa, u, t, a :
         /\ m = inbox /\ j = journal /\ f = file_open /\ md = mode /\ h = handed
         /\ sa = settled_at /\ u = unsynced /\ t = now /\ a = Load(j)
  OBVIOUS
<1>2. /\ Consistent(m, j, f, md, h, sa, u, t)
      /\ inbox' = m /\ journal' = j /\ file_open' = f /\ mode' = md /\ handed' = h
      /\ settled_at' = sa /\ unsynced' = u /\ now' = t + 1
  BY <1>1 DEF FileInv, FileTick
<1>3. /\ t \in Nat /\ Retention <= t /\ h \in [Keys -> 0..MaxAttempts]
      /\ sa \in [Keys -> Time] /\ (\A k \in Keys : sa[k] <= t) /\ j \in Seq(Records(t))
  BY <1>2 DEF Consistent, Clocked
<1>4. Clocked(h, sa, t + 1)
  <2>1. Retention <= t + 1 /\ \A k \in Keys : sa[k] <= t + 1
    BY <1>3, BoundsAssumption DEF Time, NoTime
  <2> QED
    BY <1>3, <2>1 DEF Clocked
<1>5. j \in Seq(Records(t + 1))
  BY <1>3, RecordsGrow
<1>6. Memory(m, h, sa, u, t) => Memory(m, h, sa, u, t + 1)
  BY <1>3, SoundLater, RemembersLater DEF Memory
<1>7. Disk(a, h, sa, u, t) => Disk(a, h, sa, u, t + 1)
  BY <1>3, RemembersLater DEF Disk
<1>8. Consistent(m, j, f, md, h, sa, u, t + 1)
  BY <1>1, <1>2, <1>4, <1>5, <1>6, <1>7 DEF Consistent
<1> QED
  BY <1>2, <1>8 DEF FileInv

LEMMA FileInvInit == FileInit => FileInv
<1> SUFFICES ASSUME FileInit PROVE FileInv
  OBVIOUS
<1>1. PICK m, j, h, sa, t, a :
         /\ m = NewInbox /\ j = <<>> /\ h = [k \in Keys |-> 0] /\ t = Retention
         /\ sa = [k \in Keys |-> NoTime] /\ a = [st |-> NewInbox, refused |-> FALSE]
  OBVIOUS
<1>2. /\ inbox = m /\ journal = j /\ file_open = TRUE /\ mode = "up" /\ now = t
      /\ settled_at = sa /\ handed = h /\ unsynced = FALSE
  BY <1>1 DEF FileInit
<1>3. t \in Nat /\ t # 0
  BY <1>1, BoundsAssumption
<1>4. Load(j) = a
  BY <1>1, ReplayNil DEF Load
<1>5. Sound(m, t) /\ DOMAIN m.entries = {} /\ DOMAIN m.retired = {}
  BY <1>1, <1>3, NewSound DEF NewInbox, EmptyMap
<1>6. Clocked(h, sa, t)
  BY <1>1, <1>3, BoundsAssumption DEF Clocked, Time, NoTime
<1>7. Remembers(m, sa, t) /\ Accounts(m, h) /\ \A k \in Keys : h[k] = 0
  <2>1. \A k \in Keys : sa[k] + Retention <= t
    BY <1>1, <1>3, BoundsAssumption DEF NoTime
  <2> QED
    BY <1>1, <1>5, <2>1 DEF Remembers, StillKept, Accounts
<1>8. Memory(m, h, sa, FALSE, t)
  BY <1>5, <1>7 DEF Memory
<1>9. Disk(a, h, sa, FALSE, t) /\ Shadow(a, m, FALSE)
  BY <1>1, <1>5, <1>7, SameSelf, SameAhead DEF Disk, Shadow
<1>10. j \in Seq(Records(t))
  BY <1>1
<1>11. Consistent(m, j, TRUE, "up", h, sa, FALSE, t)
  BY <1>4, <1>6, <1>8, <1>9, <1>10 DEF Consistent
<1> QED
  BY <1>2, <1>11 DEF FileInv

LEMMA FileInvNext == FileInv /\ [FileNext]_fileVars => FileInv'
<1> SUFFICES ASSUME FileInv, [FileNext]_fileVars PROVE FileInv'
  OBVIOUS
<1>1. ASSUME NEW c \in Command, NEW o \in Outcomes, FileRecord(c, o) PROVE FileInv'
  BY <1>1, RecordConsistent
<1>2. ASSUME NEW g \in Agents, NEW n \in PollLimits, FileClaim(g, n) PROVE FileInv'
  BY <1>2, FileClaimConsistent
<1>3. ASSUME NEW g \in Agents, NEW n \in PollLimits, NEW o \in Outcomes, ClaimFails(g, n, o)
      PROVE  FileInv'
  BY <1>3, ClaimFailsConsistent
<1>4. ASSUME NEW g \in Agents, NEW n \in PollLimits, NEW o \in Outcomes,
             ClaimAndCompact(g, n, o)
      PROVE  FileInv'
  BY <1>4, ClaimAndCompactConsistent
<1>5. ASSUME NEW g \in Agents, NEW k \in Keys, NEW n \in 0..MaxAttempts, NEW o \in Outcomes,
             FileAcknowledge(g, k, n, o)
      PROVE  FileInv'
  <2>1. n \in Nat
    BY BoundsAssumption
  <2> QED
    BY <1>5, <2>1, AcknowledgeConsistent
<1>6. ASSUME NEW k \in Keys, NEW o \in Outcomes, FileCancel(k, o) PROVE FileInv'
  BY <1>6, CancelConsistent
<1>7. ASSUME NEW o \in Outcomes, FileSweep(o) PROVE FileInv'
  BY <1>7, SweepConsistent
<1>8. CASE Crash
  BY <1>8, CrashConsistent
<1>9. CASE CrashInAppend
  BY <1>9, CrashInAppendConsistent
<1>10. CASE Restart
  BY <1>10, RestartConsistent
<1>11. CASE FileTick
  BY <1>11, TickConsistent
<1>12. CASE UNCHANGED fileVars
  BY <1>12 DEF FileInv, fileVars
<1> QED
  BY <1>1, <1>2, <1>3, <1>4, <1>5, <1>6, <1>7, <1>8, <1>9, <1>10, <1>11, <1>12 DEF FileNext

LEMMA FileInvHolds == FileSpec => []FileInv
BY FileInvInit, FileInvNext, PTL DEF FileSpec

\* What JournalReplayable is about: without a cut-off record, load() succeeds.
Replayable == ~Torn => ~Load(journal).refused

LEMMA FileInvDisk == FileInv => (Replayable => DiskAheadOfMemory)
<1> SUFFICES ASSUME FileInv, Replayable, mode = "up", file_open, ~Torn
             PROVE  DiskAheadOfMemory
  BY DEF DiskAheadOfMemory
<1>1. PICK m, a : m = inbox /\ a = Load(journal)
  OBVIOUS
<1>2. ~a.refused /\ Ahead(a.st, m)
  BY <1>1 DEF FileInv, Consistent, Shadow, Replayable
<1>3. /\ DOMAIN m.retired \subseteq DOMAIN a.st.retired
      /\ \A k \in DOMAIN m.entries : /\ k \in DOMAIN a.st.entries
                                     /\ Later(a.st.entries[k], m.entries[k])
  BY <1>2 DEF Ahead
<1> QED
  BY <1>1, <1>2, <1>3 DEF DiskAheadOfMemory, Later

LEMMA FileInvHanded == FileInv => (Replayable => HandedOutIsDurable)
<1> SUFFICES ASSUME FileInv, Replayable, ~Torn PROVE HandedOutIsDurable
  BY DEF HandedOutIsDurable
<1>1. PICK m, a, d, h : m = inbox /\ a = Load(journal) /\ d = a.st /\ h = handed
  OBVIOUS
<1>2. /\ ~a.refused /\ Accounts(d, h) /\ h \in [Keys -> 0..MaxAttempts]
      /\ file_open => Ahead(d, m) /\ \A k \in Keys \ Tracked(m) : h[k] = 0
  BY <1>1 DEF FileInv, Consistent, Clocked, Disk, Shadow, Memory, Replayable
<1>3. ASSUME NEW k \in Keys
      PROVE  /\ h[k] <= MaxAttempts
             /\ k \in DOMAIN d.entries => h[k] <= d.entries[k].attempts
             /\ h[k] > 0 /\ file_open => k \in Tracked(d)
  <2>1. h[k] <= MaxAttempts
    BY <1>2, BoundsAssumption
  <2>2. k \in DOMAIN d.entries => h[k] <= d.entries[k].attempts
    BY <1>2 DEF Accounts
  <2>3. ASSUME h[k] > 0, file_open PROVE k \in Tracked(d)
    <3>1. k \in Tracked(m)
      BY <1>2, <2>3
    <3> QED
      BY <1>2, <2>3, <3>1 DEF Ahead, Tracked
  <2> QED
    BY <2>1, <2>2, <2>3
<1> QED
  BY <1>1, <1>3 DEF HandedOutIsDurable

\* What a claim takes was not reported settled within the window.
LEMMA TakenIsOld ==
    ASSUME NEW m, NEW h, NEW sa, NEW t, Memory(m, h, sa, FALSE, t), NEW agent, NEW limit,
           NEW k, k \in Deliverable(m, agent, limit, t)
    PROVE  sa[k] + Retention <= t
<1>1. PICK S : S = Deliverable(m, agent, limit, t) /\ Takeable(m, S) /\ k \in S
  BY DeliverableIsTakeable
<1>2. PICK e : e = m.entries[k]
  OBVIOUS
<1>3. /\ k \in DOMAIN m.entries /\ k \in Keys /\ k \notin DOMAIN m.retired /\ e \in Entry
      /\ e.attempts < MaxAttempts /\ ~e.acknowledged /\ ~e.cancelled
  BY <1>1, <1>2 DEF Takeable, Memory, Sound, TypedState
<1>4. ~SettledEntry(e, sa[k])
  BY <1>3, BoundsAssumption DEF SettledEntry, Entry
<1>5. StillKept(m, k, sa[k], t)
  BY <1>3 DEF Memory, Remembers
<1> QED
  BY <1>2, <1>3, <1>4, <1>5 DEF StillKept

LEMMA SettledNext ==
    FileInv /\ [FileNext]_fileVars =>
       [\A k \in Keys :
          handed'[k] > handed[k] /\ ~unsynced =>
             settled_at[k] = NoTime \/ settled_at[k] + Retention <= now]_fileVars
<1> SUFFICES ASSUME FileInv, [FileNext]_fileVars, NEW k \in Keys,
                    handed'[k] > handed[k], ~unsynced
             PROVE  settled_at[k] + Retention <= now
  OBVIOUS
<1>0. /\ handed \in [Keys -> 0..MaxAttempts] /\ handed[k] \in Nat /\ unsynced = FALSE
      /\ mode = "up" => Memory(inbox, handed, settled_at, unsynced, now)
  BY BoundsAssumption DEF FileInv, Consistent, Clocked
<1>1. ASSUME handed' = handed PROVE FALSE
  BY <1>0, <1>1
<1>2. ASSUME NEW g, NEW n, mode = "up",
             handed' = [j \in Keys |-> IF j \in Deliverable(inbox, g, n, now)
                                       THEN handed[j] + 1 ELSE handed[j]]
      PROVE  settled_at[k] + Retention <= now
  <2>1. k \in Deliverable(inbox, g, n, now)
    BY <1>0, <1>2
  <2>2. PICK m, h, sa, t : m = inbox /\ h = handed /\ sa = settled_at /\ t = now
    OBVIOUS
  <2>3. Memory(m, h, sa, FALSE, t) /\ k \in Deliverable(m, g, n, t)
    BY <1>0, <1>2, <2>1, <2>2
  <2> QED
    BY <2>2, <2>3, TakenIsOld
<1>3. ASSUME \A j \in Keys : handed'[j] = handed[j] \/ handed'[j] = 0 PROVE FALSE
  BY <1>0, <1>3
<1>4. ASSUME NEW c \in Command, NEW o \in Outcomes, FileRecord(c, o) PROVE FALSE
  BY <1>1, <1>4 DEF FileRecord
<1>5. ASSUME NEW g \in Agents, NEW n \in PollLimits, FileClaim(g, n)
      PROVE  settled_at[k] + Retention <= now
  BY <1>2, <1>5 DEF FileClaim
<1>6. ASSUME NEW g \in Agents, NEW n \in PollLimits, NEW o \in Outcomes, ClaimFails(g, n, o)
      PROVE  FALSE
  BY <1>1, <1>6 DEF ClaimFails
<1>7. ASSUME NEW g \in Agents, NEW n \in PollLimits, NEW o \in Outcomes,
             ClaimAndCompact(g, n, o)
      PROVE  settled_at[k] + Retention <= now
  BY <1>2, <1>7 DEF ClaimAndCompact
<1>8. ASSUME NEW g \in Agents, NEW j \in Keys, NEW n \in 0..MaxAttempts, NEW o \in Outcomes,
             FileAcknowledge(g, j, n, o)
      PROVE  FALSE
  BY <1>1, <1>8 DEF FileAcknowledge
<1>9. ASSUME NEW j \in Keys, NEW o \in Outcomes, FileCancel(j, o) PROVE FALSE
  BY <1>1, <1>9 DEF FileCancel
<1>10. ASSUME NEW o \in Outcomes, FileSweep(o) PROVE FALSE
  BY <1>3, <1>10 DEF FileSweep
<1>11. ASSUME Crash \/ CrashInAppend PROVE FALSE
  BY <1>1, <1>11 DEF Crash, CrashInAppend, Die
<1>12. ASSUME Restart PROVE FALSE
  <2>1. CASE Load(journal).refused
    BY <1>1, <1>12, <2>1 DEF Restart
  <2>2. CASE ~Load(journal).refused
    <3>1. handed' = [j \in Keys |-> IF j \in Tracked(inbox') THEN handed[j] ELSE 0]
      BY <1>12, <2>2 DEF Restart
    <3> QED
      BY <1>3, <3>1
  <2> QED
    BY <2>1, <2>2
<1>13. ASSUME FileTick \/ UNCHANGED fileVars PROVE FALSE
  BY <1>1, <1>13 DEF FileTick, fileVars
<1> QED
  BY <1>4, <1>5, <1>6, <1>7, <1>8, <1>9, <1>10, <1>11, <1>12, <1>13 DEF FileNext

\* What was reported settled is not handed out again inside the retention
\* window, for every schedule of failed appends, failed compactions, crashes and
\* replays (SettledStaysSettled): a phantom is the only exception, and whether
\* the journal can be replayed does not matter.
THEOREM SettledCorrect == FileSpec => SettledStaysSettled
<1>1. FileInv /\ [FileNext]_fileVars =>
       [\A k \in Keys :
          handed'[k] > handed[k] /\ ~unsynced =>
             settled_at[k] = NoTime \/ settled_at[k] + Retention <= now]_fileVars
  BY SettledNext
<1> QED
  BY <1>1, FileInvHolds, PTL DEF FileSpec, SettledStaysSettled

\* As long as load() has no reason to refuse it, the journal is never behind
\* memory (DiskAheadOfMemory), whatever appends and compactions failed on the way.
THEOREM DiskCorrect == FileSpec => [](Replayable => DiskAheadOfMemory)
BY FileInvHolds, FileInvDisk, PTL

\* As long as load() has no reason to refuse it, every response that carried a
\* command is accounted for in the journal (HandedOutIsDurable), up or down.
THEOREM HandedCorrect == FileSpec => [](Replayable => HandedOutIsDurable)
BY FileInvHolds, FileInvHanded, PTL

-----------------------------------------------------------------------------
(* When load() has no reason to refuse. *)

\* Nobody can ask for more than the ceilings allow.
RoomForAll ==
    /\ IsFiniteSet(Keys) /\ Cardinality(Keys) <= Capacity
    /\ \A s \in Scopes : Cardinality(InScope(Keys, s)) <= ScopeQuota

\* A replayed state counts no identity twice. (It may count too few: a tombstone
\* without its command is not counted.)
Counted(st) ==
    \A s \in Scopes : /\ st.scope_counts[s] \in Nat
                      /\ st.scope_counts[s] <= Cardinality(InScope(Tracked(st), s))

LEMMA TrackedFinite ==
    ASSUME NEW t, NEW st, Sound(st, t)
    PROVE  /\ IsFiniteSet(Tracked(st)) /\ Tracked(st) \subseteq Keys
           /\ Cardinality(Tracked(st)) =
                Cardinality(DOMAIN st.entries) + Cardinality(DOMAIN st.retired)
<1>1. /\ IsFiniteSet(DOMAIN st.entries) /\ IsFiniteSet(DOMAIN st.retired)
      /\ DOMAIN st.entries \cap DOMAIN st.retired = {}
      /\ Tracked(st) \subseteq Keys
  BY DEF Sound, TypedState, Tracked
<1>2. Cardinality(DOMAIN st.entries) \in Nat /\ Cardinality(DOMAIN st.retired) \in Nat
  BY <1>1, FS_CardinalityType
<1>3. PICK E, R : E = DOMAIN st.entries /\ R = DOMAIN st.retired
  OBVIOUS
<1>4. /\ IsFiniteSet(E \cup R)
      /\ Cardinality(E \cup R) = Cardinality(E) + Cardinality(R) - Cardinality(E \cap R)
  BY <1>1, <1>3, FS_Union
<1>5. E \cap R = {} /\ Cardinality({}) = 0
  BY <1>1, <1>3, FS_EmptySet
<1>6. Cardinality(E \cup R) = Cardinality(E) + Cardinality(R)
  <2>1. PICK x, y, z, u : /\ x = Cardinality(E) /\ y = Cardinality(R)
                          /\ z = Cardinality(E \cap R) /\ u = Cardinality(E \cup R)
    OBVIOUS
  <2>2. x \in Nat /\ y \in Nat /\ z = 0 /\ u = x + y - z
    <3>1. x \in Nat /\ y \in Nat
      BY <1>2, <1>3, <2>1
    <3>2. z = 0
      BY <1>5, <2>1, Zenon
    <3>3. u = x + y - z
      BY <1>4, <2>1
    <3> QED
      BY <3>1, <3>2, <3>3
  <2> QED
    BY <2>1, <2>2
<1> QED
  BY <1>1, <1>3, <1>4, <1>6 DEF Tracked

LEMMA CountGrows ==
    ASSUME NEW S, NEW T, IsFiniteSet(T), S \subseteq T, NEW s
    PROVE  /\ Cardinality(InScope(S, s)) \in Nat /\ Cardinality(InScope(T, s)) \in Nat
           /\ Cardinality(InScope(S, s)) <= Cardinality(InScope(T, s))
           /\ \A k \in T \ S : ScopeOf[k] = s =>
                 Cardinality(InScope(S, s)) < Cardinality(InScope(T, s))
<1>1. IsFiniteSet(InScope(T, s)) /\ IsFiniteSet(InScope(S, s)) /\ InScope(S, s) \subseteq InScope(T, s)
  BY FS_Subset DEF InScope
<1>2. /\ Cardinality(InScope(S, s)) \in Nat /\ Cardinality(InScope(T, s)) \in Nat
      /\ Cardinality(InScope(S, s)) <= Cardinality(InScope(T, s))
      /\ Cardinality(InScope(S, s)) = Cardinality(InScope(T, s)) => InScope(S, s) = InScope(T, s)
  BY <1>1, FS_CardinalityType, FS_Subset
<1>3. ASSUME NEW k \in T \ S, ScopeOf[k] = s
      PROVE  Cardinality(InScope(S, s)) < Cardinality(InScope(T, s))
  <2>1. k \in InScope(T, s) /\ k \notin InScope(S, s)
    BY <1>3 DEF InScope
  <2> QED
    BY <1>2, <2>1
<1> QED
  BY <1>2, <1>3

\* With room for all, an unknown command is always recordable.
LEMMA RoomRecordable ==
    ASSUME RoomForAll, NEW t, NEW st, Sound(st, t), Counted(st), NEW c \in Command
    PROVE  CheckRecordable(st, c) # "capacity"
<1> SUFFICES ASSUME c.key \notin Tracked(st)
             PROVE  /\ ~(Cardinality(DOMAIN st.entries) + Cardinality(DOMAIN st.retired)
                           >= Capacity)
                    /\ ~(st.scope_counts[ScopeOf[c.key]] >= ScopeQuota)
  BY DEF CheckRecordable
<1>1. PICK k, s : k = c.key /\ s = ScopeOf[k] /\ k \in Keys /\ s \in Scopes
  BY ScopesAssumption DEF Command
<1>2. /\ IsFiniteSet(Tracked(st)) /\ Tracked(st) \subseteq Keys
      /\ Cardinality(Tracked(st)) =
           Cardinality(DOMAIN st.entries) + Cardinality(DOMAIN st.retired)
  BY TrackedFinite
<1>3. Cardinality(Tracked(st)) < Capacity
  <2>1. /\ Cardinality(Tracked(st)) <= Cardinality(Keys)
        /\ Cardinality(Keys) = Cardinality(Tracked(st)) => Keys = Tracked(st)
    BY <1>2, FS_Subset DEF RoomForAll
  <2>2. Cardinality(Keys) \in Nat /\ Cardinality(Tracked(st)) \in Nat
    BY <1>2, FS_CardinalityType DEF RoomForAll
  <2> QED
    BY <1>1, <2>1, <2>2, BoundsAssumption DEF RoomForAll
<1>4. st.scope_counts[s] < ScopeQuota
  <2>1. PICK x, y : x = Cardinality(InScope(Tracked(st), s)) /\ y = Cardinality(InScope(Keys, s))
    OBVIOUS
  <2>2. x \in Nat /\ y \in Nat /\ x < y
    BY <1>1, <1>2, <2>1, CountGrows DEF RoomForAll
  <2>3. st.scope_counts[s] \in Nat /\ st.scope_counts[s] <= x /\ y <= ScopeQuota
    BY <1>1, <2>1 DEF Counted, RoomForAll
  <2> QED
    BY <2>2, <2>3, BoundsAssumption
<1>5. st.scope_counts[s] \in Nat
  BY <1>1 DEF Counted
<1>6. Cardinality(Tracked(st)) \in Nat
  BY <1>2, FS_CardinalityType
<1> QED
  BY <1>1, <1>2, <1>3, <1>4, <1>5, <1>6, BoundsAssumption

LEMMA CountedMore ==
    ASSUME NEW t, NEW st, Counted(st), NEW y, Sound(y, t), Tracked(st) \subseteq Tracked(y),
           y.scope_counts = st.scope_counts
    PROVE  Counted(y)
<1> SUFFICES ASSUME NEW s \in Scopes
             PROVE  /\ y.scope_counts[s] \in Nat
                    /\ y.scope_counts[s] <= Cardinality(InScope(Tracked(y), s))
  BY DEF Counted
<1>1. PICK S, T : S = Tracked(st) /\ T = Tracked(y) /\ IsFiniteSet(T)
  BY TrackedFinite
<1>2. /\ Cardinality(InScope(S, s)) \in Nat /\ Cardinality(InScope(T, s)) \in Nat
      /\ Cardinality(InScope(S, s)) <= Cardinality(InScope(T, s))
  BY <1>1, CountGrows
<1>3. /\ st.scope_counts[s] \in Nat /\ st.scope_counts[s] <= Cardinality(InScope(S, s))
  BY <1>1 DEF Counted
<1> QED
  BY <1>1, <1>2, <1>3

LEMMA CountedInsert ==
    ASSUME NEW t, NEW st, Counted(st), NEW c \in Command, c.key \notin Tracked(st),
           NEW y, y = InsertRecorded(st, c), Sound(y, t)
    PROVE  Counted(y)
<1>1. PICK k, z : k = c.key /\ z = ScopeOf[k] /\ k \in Keys /\ z \in Scopes
  BY ScopesAssumption DEF Command
<1>2. y.scope_counts = [st.scope_counts EXCEPT ![z] = @ + 1] /\ Tracked(y) = Tracked(st) \cup {k}
  BY <1>1 DEF InsertRecorded, Tracked
<1>3. PICK S, T : S = Tracked(st) /\ T = Tracked(y) /\ IsFiniteSet(T)
  BY TrackedFinite
<1> SUFFICES ASSUME NEW s \in Scopes
             PROVE  /\ y.scope_counts[s] \in Nat
                    /\ y.scope_counts[s] <= Cardinality(InScope(T, s))
  BY <1>3 DEF Counted
<1>4. PICK p, q : p = Cardinality(InScope(S, s)) /\ q = Cardinality(InScope(T, s))
  OBVIOUS
<1>5. p \in Nat /\ q \in Nat /\ p <= q
  BY <1>2, <1>3, <1>4, CountGrows
<1>6. st.scope_counts[s] \in Nat /\ st.scope_counts[s] <= p
  BY <1>3, <1>4 DEF Counted
<1>7. CASE s = z
  <2>1. k \in T \ S
    BY <1>1, <1>2, <1>3
  <2>2. p < q
    BY <1>1, <1>2, <1>3, <1>4, <1>7, <2>1, CountGrows
  <2>3. y.scope_counts[s] = st.scope_counts[s] + 1 \/ y.scope_counts[s] = st.scope_counts[s]
    BY <1>2, <1>7
  <2> QED
    BY <1>4, <1>5, <1>6, <2>2, <2>3
<1>8. CASE s # z
  <2>1. y.scope_counts[s] = st.scope_counts[s]
    BY <1>2, <1>8
  <2> QED
    BY <1>4, <1>5, <1>6, <2>1
<1> QED
  BY <1>7, <1>8

LEMMA RoomStep ==
    ASSUME RoomForAll, NEW t \in Nat, NEW acc, ~acc.refused, Sound(acc.st, t), Counted(acc.st),
           NEW r \in Records(t), r # TornRec
    PROVE  /\ ~LoadStep(acc, r).refused
           /\ Sound(LoadStep(acc, r).st, t) /\ Counted(LoadStep(acc, r).st)
<1>1. PICK st, y : st = acc.st /\ y = LoadRecord(st, r)
  OBVIOUS
<1>2. Sound(st, t) /\ Counted(st)
  BY <1>1
<1> DEFINE Fine == ~LoadRefuses(st, r) /\ (Sound(y, t) => Counted(y))
<1>3. ASSUME NEW c \in Command, r = CommandRec(c) PROVE Fine
  <2>1. CheckRecordable(st, c) # "capacity"
    BY <1>2, RoomRecordable
  <2>2. ~LoadRefuses(st, r)
    BY <1>3, <2>1, LoadCommandIs
  <2>3. CASE CheckRecordable(st, c) = "ok"
    <3>1. y = InsertRecorded(st, c) /\ c.key \notin Tracked(st)
      BY <1>1, <1>3, <2>3, LoadCommandIs, CheckOk
    <3> QED
      BY <1>2, <2>2, <3>1, CountedInsert
  <2>4. CASE CheckRecordable(st, c) # "ok"
    BY <1>1, <1>2, <1>3, <2>2, <2>4, LoadCommandIs
  <2> QED
    BY <2>3, <2>4
<1>4. ASSUME NEW k, NEW f, y = IF k \in DOMAIN st.entries THEN UpdateEntry(st, k, f) ELSE st,
             Sound(y, t)
      PROVE  Counted(y)
  <2>1. CASE k \in DOMAIN st.entries
    <3>1. y.scope_counts = st.scope_counts /\ Tracked(y) = Tracked(st)
      BY <1>2, <1>4, <2>1 DEF UpdateEntry, Tracked, Sound, TypedState
    <3> QED
      BY <1>2, <1>4, <3>1, CountedMore
  <2>2. CASE k \notin DOMAIN st.entries
    BY <1>2, <1>4, <2>2
  <2> QED
    BY <2>1, <2>2
<1>5. ASSUME NEW k \in Keys, NEW n \in 1..MaxAttempts, NEW at \in {x \in Time : x <= t},
             r = DeliveredRec(k, n, at)
      PROVE  Fine
  <2>1. PICK f : f = Bump(st.entries[k], n, at)
    OBVIOUS
  <2>2. ~LoadRefuses(st, r) /\ y = IF k \in DOMAIN st.entries THEN UpdateEntry(st, k, f) ELSE st
    BY <1>1, <1>5, <2>1, LoadDeliveredIs
  <2> QED
    BY <1>4, <2>2
<1>6. ASSUME NEW k \in Keys, r = AcknowledgedRec(k) PROVE Fine
  <2>1. PICK f : f = [st.entries[k] EXCEPT !.acknowledged = TRUE]
    OBVIOUS
  <2>2. ~LoadRefuses(st, r) /\ y = IF k \in DOMAIN st.entries THEN UpdateEntry(st, k, f) ELSE st
    BY <1>1, <1>6, <2>1, LoadAcknowledgedIs
  <2> QED
    BY <1>4, <2>2
<1>7. ASSUME NEW k \in Keys, NEW at \in Time, r = CancelledRec(k, at) PROVE Fine
  <2>1. PICK f : f = [st.entries[k] EXCEPT !.cancelled = TRUE, !.cancelled_at = at]
    OBVIOUS
  <2>2. ~LoadRefuses(st, r) /\ y = IF k \in DOMAIN st.entries THEN UpdateEntry(st, k, f) ELSE st
    BY <1>1, <1>7, <2>1, LoadCancelledIs, Zenon
  <2> QED
    BY <1>4, <2>2
<1>8. ASSUME NEW k \in Keys, NEW at \in Nat, r = RetiredRec(k, at) PROVE Fine
  <2>1. ~LoadRefuses(st, r) /\ y = Retire(st, k, at)
    BY <1>1, <1>8, LoadRetiredIs
  <2>2. y.scope_counts = st.scope_counts /\ Tracked(st) \subseteq Tracked(y)
    BY <2>1 DEF Retire, Tracked
  <2> QED
    BY <1>2, <2>1, <2>2, CountedMore
<1>9. Fine
  <2> HIDE DEF Fine
  <2> QED
    BY <1>3, <1>5, <1>6, <1>7, <1>8 DEF Records
<1>10. Sound(y, t)
  BY <1>1, <1>2, <1>9, RecordSound
<1>11. LoadStep(acc, r) = [st |-> y, refused |-> FALSE]
  BY <1>1, <1>9 DEF LoadStep
<1> QED
  BY <1>9, <1>10, <1>11

\* With room for all, only a cut-off record can fail a load.
LEMMA RoomLoad ==
    ASSUME RoomForAll, NEW t \in Nat, NEW jnl \in Seq(Records(t)),
           \A i \in 1..Len(jnl) : jnl[i] # TornRec
    PROVE  ~Load(jnl).refused
<1>0. Len(jnl) \in Nat
  OBVIOUS
<1>1. PICK acc, m : acc = [st |-> NewInbox, refused |-> FALSE] /\ m = Len(jnl) /\ m \in Nat
  BY <1>0, Zenon
<1>2. PICK g : Runs(acc, jnl, g, m) /\ Replay(acc, jnl) = g[m]
  BY <1>1, ReplayIs
<1> DEFINE T == {n \in Nat : ~g[n].refused /\ Sound(g[n].st, t) /\ Counted(g[n].st)}
<1>3. 0 \in T
  <2>1. 0 \in 0..m
    BY <1>1
  <2>2. g[0] = acc
    BY <1>2, <2>1, Zenon DEF Runs
  <2>3. Counted(NewInbox)
    <3>1. Tracked(NewInbox) = {}
      BY DEF Tracked, NewInbox, EmptyMap
    <3>2. \A s : InScope({}, s) = {}
      BY DEF InScope
    <3>3. \A s \in Scopes : NewInbox.scope_counts[s] = 0
      BY DEF NewInbox
    <3>4. Cardinality({}) = 0
      BY FS_EmptySet
    <3>5. ASSUME NEW s \in Scopes
          PROVE  /\ NewInbox.scope_counts[s] \in Nat
                 /\ NewInbox.scope_counts[s] <= Cardinality(InScope(Tracked(NewInbox), s))
      <4>1. Cardinality(InScope(Tracked(NewInbox), s)) = 0
        BY <3>1, <3>2, <3>4, Zenon
      <4>2. NewInbox.scope_counts[s] = 0
        BY <3>3
      <4> QED
        BY <4>1, <4>2
    <3> QED
      BY <3>5, Zenon DEF Counted
  <2> QED
    BY <1>1, <2>2, <2>3, NewSound
<1>4. ASSUME NEW n \in Nat, n < m, n \in T PROVE n + 1 \in T
  <2>1. n + 1 \in 0..m /\ n + 1 # 0 /\ (n + 1) - 1 = n /\ n + 1 \in 1..m
    BY <1>1, <1>4
  <2>2. PICK x, r : x = g[n] /\ r = jnl[n + 1]
    OBVIOUS
  <2>3. r \in Records(t) /\ r # TornRec
    BY <1>1, <2>1, <2>2
  <2>4. g[n + 1] = LoadStep(x, r)
    BY <1>2, <2>1, <2>2 DEF Runs
  <2>5. ~x.refused /\ Sound(x.st, t) /\ Counted(x.st)
    BY <1>4, <2>2
  <2> QED
    BY <2>3, <2>4, <2>5, RoomStep
<1> HIDE DEF T
<1>5. \A n \in 0..m : n \in T
  BY <1>1, <1>3, <1>4, BoundedInduction
<1>6. m \in T
  BY <1>1, <1>5
<1> QED
  BY <1>1, <1>2, <1>6 DEF T, Load

LEMMA RoomReplayable == RoomForAll /\ FileInv => Replayable
<1> SUFFICES ASSUME RoomForAll, FileInv, ~Torn PROVE ~Load(journal).refused
  BY DEF Replayable
<1>1. PICK t, j : t = now /\ j = journal
  OBVIOUS
<1>2. t \in Nat /\ j \in Seq(Records(t))
  BY <1>1 DEF FileInv, Consistent, Clocked
<1>3. ASSUME NEW i \in 1..Len(j) PROVE j[i] # TornRec
  BY <1>1, <1>2, <1>3 DEF Torn, TornRec
<1> QED
  BY <1>1, <1>2, <1>3, RoomLoad

\* A process that refused to start refused the journal that is on disk.
Refusal == mode = "refused" => Load(journal).refused

LEMMA RefusalNext == Refusal /\ [FileNext]_fileVars => Refusal'
<1> SUFFICES ASSUME Refusal, [FileNext]_fileVars, mode' = "refused"
             PROVE  Load(journal').refused
  BY DEF Refusal
<1>1. ASSUME mode = "refused", journal' = journal PROVE Load(journal').refused
  BY <1>1 DEF Refusal
<1>2. ASSUME NEW c \in Command, NEW o \in Outcomes, FileRecord(c, o) PROVE FALSE
  BY <1>2 DEF FileRecord
<1>3. ASSUME NEW g \in Agents, NEW n \in PollLimits, FileClaim(g, n) PROVE FALSE
  BY <1>3 DEF FileClaim
<1>4. ASSUME NEW g \in Agents, NEW n \in PollLimits, NEW o \in Outcomes, ClaimFails(g, n, o)
      PROVE  FALSE
  BY <1>4 DEF ClaimFails
<1>5. ASSUME NEW g \in Agents, NEW n \in PollLimits, NEW o \in Outcomes,
             ClaimAndCompact(g, n, o)
      PROVE  FALSE
  BY <1>5 DEF ClaimAndCompact
<1>6. ASSUME NEW g \in Agents, NEW k \in Keys, NEW n \in 0..MaxAttempts, NEW o \in Outcomes,
             FileAcknowledge(g, k, n, o)
      PROVE  FALSE
  BY <1>6 DEF FileAcknowledge
<1>7. ASSUME NEW k \in Keys, NEW o \in Outcomes, FileCancel(k, o) PROVE FALSE
  BY <1>7 DEF FileCancel
<1>8. ASSUME NEW o \in Outcomes, FileSweep(o) PROVE FALSE
  BY <1>8 DEF FileSweep
<1>9. ASSUME Crash \/ CrashInAppend PROVE FALSE
  BY <1>9 DEF Crash, CrashInAppend, Die
<1>10. ASSUME Restart PROVE Load(journal').refused
  BY <1>10 DEF Restart
<1>11. ASSUME FileTick \/ UNCHANGED fileVars PROVE Load(journal').refused
  BY <1>1, <1>11 DEF FileTick, fileVars
<1> QED
  BY <1>2, <1>3, <1>4, <1>5, <1>6, <1>7, <1>8, <1>9, <1>10, <1>11 DEF FileNext

\* DiskAheadOfMemory without a side condition on the journal, for every
\* deployment that leaves room for all its commands.
THEOREM DiskCorrectWithRoom == RoomForAll => (FileSpec => []DiskAheadOfMemory)
<1> SUFFICES ASSUME RoomForAll PROVE FileSpec => []DiskAheadOfMemory
  OBVIOUS
<1>1. FileInv => DiskAheadOfMemory
  BY RoomReplayable, FileInvDisk
<1> QED
  BY <1>1, FileInvHolds, PTL

\* HandedOutIsDurable without a side condition on the journal, for every
\* deployment that leaves room for all its commands.
THEOREM HandedCorrectWithRoom == RoomForAll => (FileSpec => []HandedOutIsDurable)
<1> SUFFICES ASSUME RoomForAll PROVE FileSpec => []HandedOutIsDurable
  OBVIOUS
<1>1. FileInv => HandedOutIsDurable
  BY RoomReplayable, FileInvHanded
<1> QED
  BY <1>1, FileInvHolds, PTL

\* With room for all commands, the code replays every journal it writes: only a
\* cut-off record makes load() refuse to start (JournalReplayable). At the quota
\* it does not hold: MCFileInboxReplay has the counterexample.
THEOREM ReplayableWithRoom == RoomForAll => (FileSpec => []JournalReplayable)
<1> SUFFICES ASSUME RoomForAll PROVE FileSpec => []JournalReplayable
  OBVIOUS
<1>1. FileInit => Refusal
  BY DEF FileInit, Refusal
<1>2. FileInv /\ Refusal => JournalReplayable
  BY RoomReplayable DEF Replayable, Refusal, JournalReplayable
<1> QED
  BY <1>1, <1>2, RefusalNext, FileInvHolds, PTL DEF FileSpec
=============================================================================
