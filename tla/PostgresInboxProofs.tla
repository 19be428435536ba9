------------------------- MODULE PostgresInboxProofs -------------------------
(***************************************************************************)
(* Proofs about PostgresInbox: in every interleaving of the statements of  *)
(* any number of connections, the table implements the contract of the     *)
(* trait.                                                                  *)
(***************************************************************************)
EXTENDS PostgresInbox, FiniteSetTheorems, TLAPS

-----------------------------------------------------------------------------
(* The inductive invariant. *)

Stored == [agent : Agents, attempts : 0..MaxAttempts, last_delivered_millis : Time,
           acknowledged : BOOLEAN, cancelled_at_millis : Time, sequence : Nat]

\* May still be handed out.
Due(r) == ~r.acknowledged /\ r.cancelled_at_millis = NoTime /\ r.attempts < MaxAttempts

ClaimFields == {"step", "agent", "limit", "at", "cursor", "locked", "selected"}

\* A claim that is under way: the rows it has locked are this agent's and are due,
\* and the ones it has selected lie in the agent's scopes.
Claiming(x) ==
    /\ DOMAIN x = ClaimFields
    /\ x.step \in {"scanning", "updating"}
    /\ x.agent \in Agents /\ x.at \in Nat
    /\ x.selected \subseteq x.locked
    /\ \A k \in x.locked : /\ k \in DOMAIN rows
                           /\ rows[k].agent = x.agent
                           /\ Due(rows[k])
    /\ \A k \in x.selected : ScopeOf[k] \in AgentScopes[x.agent]

Recording == [step : {"counting", "inserting"}, command : Command]

TypeInv ==
    /\ DOMAIN rows \subseteq Keys /\ IsFiniteSet(DOMAIN rows)
    /\ rows \in [DOMAIN rows -> Stored]
    /\ next_sequence \in Nat /\ now \in Nat
    /\ DOMAIN session = Slots

SessionInv ==
    \A s \in Slots :
        session[s] = Idle \/ session[s] \in Recording \/ Claiming(session[s])

\* SKIP LOCKED: no row is locked twice.
LockInv == \A s, t \in Slots : s # t => Locked(s) \cap Locked(t) = {}

\* Between its counts and its insert a connection alone holds the scope, so the
\* scope has still room for the row.
QuotaInv ==
    \A s \in Slots : session[s].step = "inserting" =>
        /\ HoldersOf(session[s].command) = {s}
        /\ Cardinality(InScope(DOMAIN rows, ScopeOf[session[s].command.key])) < ScopeQuota

Inserting == {s \in Slots : session[s].step = "inserting"}

\* Nothing of the kind protects the shared capacity: every connection may be about
\* to insert on a count of its own.
CapacityInv ==
    Inserting # {} =>
        Cardinality(DOMAIN rows) + Cardinality(Inserting) <= Capacity + Cardinality(Slots) - 1

TableInv == TypeInv /\ SessionInv /\ LockInv /\ QuotaInv /\ CapacityInv

-----------------------------------------------------------------------------
(* Rows and sessions under the statements. *)

LEMMA StoredChanges ==
    ASSUME NEW r \in Stored, NEW t \in Nat
    PROVE  /\ [r EXCEPT !.acknowledged = TRUE] \in Stored
           /\ [r EXCEPT !.cancelled_at_millis = t] \in Stored
           /\ r.attempts < MaxAttempts =>
                [r EXCEPT !.attempts = @ + 1, !.last_delivered_millis = t] \in Stored
<1>1. t \in Time
  BY DEF Time
<1>2. r.attempts < MaxAttempts => r.attempts + 1 \in 0..MaxAttempts
  BY BoundsAssumption DEF Stored
<1> QED
  BY <1>1, <1>2 DEF Stored

\* The row of a command just recorded.
NewRow(c) == [agent |-> c.agent, attempts |-> 0, last_delivered_millis |-> NoTime,
              acknowledged |-> FALSE, cancelled_at_millis |-> NoTime,
              sequence |-> next_sequence]

LEMMA InsertFacts ==
    ASSUME TypeInv, SessionInv, NEW s \in Slots, RecordInsert(s)
    PROVE  LET c == session[s].command
           IN  /\ c \in Command /\ session[s].step = "inserting"
               /\ session' = [session EXCEPT ![s] = Idle]
               /\ next_sequence' = next_sequence + 1 /\ now' = now
               /\ \/ c.key \in DOMAIN rows /\ rows' = rows
                  \/ /\ c.key \notin DOMAIN rows
                     /\ rows' = [k \in DOMAIN rows \cup {c.key} |->
                                   IF k # c.key THEN rows[k] ELSE NewRow(c)]
                     /\ NewRow(c) \in Stored
<1>1. session[s].step = "inserting"
  BY DEF RecordInsert
<1>2. session[s] \in Recording
  BY <1>1 DEF SessionInv, Claiming, Idle
<1>3. session[s].command \in Command
  BY <1>2 DEF Recording
<1>4. NewRow(session[s].command) \in Stored
  BY <1>3, BoundsAssumption DEF TypeInv, NewRow, Stored, Command, Time, NoTime
<1> QED
  BY <1>1, <1>3, <1>4 DEF RecordInsert, NewRow

LEMMA UpdateFacts ==
    ASSUME TypeInv, SessionInv, NEW s \in Slots, ClaimUpdate(s)
    PROVE  /\ Claiming(session[s]) /\ session[s].step = "updating"
           /\ session' = [session EXCEPT ![s] = Idle]
           /\ DOMAIN rows' = DOMAIN rows
           /\ rows' = [k \in DOMAIN rows |->
                         IF k \in session[s].selected
                         THEN [rows[k] EXCEPT !.attempts = @ + 1,
                                              !.last_delivered_millis = session[s].at]
                         ELSE rows[k]]
           /\ \A k \in DOMAIN rows \ session[s].locked : rows'[k] = rows[k]
           /\ next_sequence' = next_sequence /\ now' = now
<1>1. session[s].step = "updating"
  BY DEF ClaimUpdate
<1>2. Claiming(session[s])
  BY <1>1 DEF SessionInv, Recording, Idle
<1> QED
  BY <1>1, <1>2 DEF ClaimUpdate, Claiming

\* A scan locks due rows of its agent that nobody else holds.
LEMMA ScanFacts ==
    ASSUME TypeInv, SessionInv, NEW s \in Slots, ClaimScan(s)
    PROVE  /\ Claiming(session[s]) /\ session[s].step = "scanning"
           /\ session' = [session EXCEPT ![s] = Scanned(session[s], Batch(s))]
           /\ UNCHANGED <<rows, next_sequence, now>>
           /\ Batch(s) \cap LockedBut(s) = {}
           /\ Scanned(session[s], Batch(s)).locked = session[s].locked \cup Batch(s)
           /\ Claiming(Scanned(session[s], Batch(s)))
<1> DEFINE x == session[s]
           batch == Batch(s)
           y == Scanned(x, batch)
<1>1. x.step = "scanning" /\ Claiming(x)
  BY DEF ClaimScan, SessionInv, Recording, Idle
<1>2. \A k \in batch : /\ k \in DOMAIN rows \ LockedBut(s)
                       /\ rows[k].agent = x.agent /\ Due(rows[k])
  BY DEF Batch, FirstOf, Matches, Due
<1>3. PICK taken : /\ taken \subseteq {k \in batch : ScopeOf[k] \in AgentScopes[x.agent]}
                   /\ y.selected = x.selected \cup taken
                   /\ y.locked = x.locked \cup batch
                   /\ y.agent = x.agent /\ y.at = x.at
                   /\ y.step \in {"updating", x.step}
                   /\ DOMAIN y = DOMAIN x
  <2>1. PICK T : T = FirstOf({k \in batch : ScopeOf[k] \in AgentScopes[x.agent]},
                             x.limit - Cardinality(x.selected))
    OBVIOUS
  <2>2. T \subseteq {k \in batch : ScopeOf[k] \in AgentScopes[x.agent]}
    BY <2>1 DEF FirstOf
  <2>3. DOMAIN x = ClaimFields
    BY <1>1 DEF Claiming
  <2> HIDE DEF x, batch
  <2>4. /\ y.selected = x.selected \cup T
        /\ y.locked = x.locked \cup batch
        /\ y.agent = x.agent /\ y.at = x.at
        /\ y.step \in {"updating", x.step}
        /\ DOMAIN y = DOMAIN x
    BY <2>1, <2>3 DEF Scanned, ClaimFields
  <2> QED
    BY <2>2, <2>4
<1>4. Claiming(y)
  <2> HIDE DEF x, batch, y
  <2> QED
    BY <1>1, <1>2, <1>3 DEF Claiming
<1>5. session' = [session EXCEPT ![s] = y] /\ UNCHANGED <<rows, next_sequence, now>>
  BY DEF ClaimScan
<1> QED
  BY <1>1, <1>2, <1>3, <1>4, <1>5

\* Acknowledge, Cancel and Sweep wait for the locks.
StatementEffect ==
    /\ UNCHANGED <<next_sequence, session, now>>
    /\ DOMAIN rows' \subseteq DOMAIN rows
    /\ rows' \in [DOMAIN rows' -> Stored]
    /\ \A k \in DOMAIN rows \cap LockedRows : k \in DOMAIN rows' /\ rows'[k] = rows[k]

LEMMA StatementFacts ==
    ASSUME TypeInv,
           \/ \E a \in Agents, k \in Keys, n \in 0..MaxAttempts : Acknowledge(a, k, n)
           \/ \E k \in Keys : Cancel(k)
           \/ Sweep
    PROVE  StatementEffect
<1>0. \A k \in DOMAIN rows : rows[k] \in Stored
  BY DEF TypeInv
<1>1. ASSUME NEW a \in Agents, NEW k \in Keys, NEW n \in 0..MaxAttempts, Acknowledge(a, k, n)
      PROVE  StatementEffect
  <2>1. k \in DOMAIN rows \ LockedRows
        /\ rows' = [rows EXCEPT ![k] = [rows[k] EXCEPT !.acknowledged = TRUE]]
    BY <1>1 DEF Acknowledge
  <2>2. [rows[k] EXCEPT !.acknowledged = TRUE] \in Stored
    BY <1>0, <2>1, StoredChanges
  <2> QED
    BY <1>0, <1>1, <2>1, <2>2 DEF Acknowledge, StatementEffect
<1>2. ASSUME NEW k \in Keys, Cancel(k) PROVE StatementEffect
  <2>1. PICK t \in Readings :
           rows' = [rows EXCEPT ![k] = [rows[k] EXCEPT !.cancelled_at_millis = t]]
    BY <1>2 DEF Cancel
  <2>2. t \in Nat /\ k \in DOMAIN rows \ LockedRows
    BY <1>2, ClockAssumption DEF Readings, Cancel, TypeInv
  <2>3. [rows[k] EXCEPT !.cancelled_at_millis = t] \in Stored
    BY <1>0, <2>2, StoredChanges
  <2> QED
    BY <1>0, <1>2, <2>1, <2>2, <2>3 DEF Cancel, StatementEffect
<1>3. CASE Sweep
  BY <1>0, <1>3 DEF Sweep, StatementEffect
<1> QED
  BY <1>1, <1>2, <1>3

-----------------------------------------------------------------------------
(* The invariant is inductive. *)

\* A step of one connection, or a single statement, leaves the rows another
\* connection has locked as they are.
LEMMA LockedKept ==
    ASSUME TypeInv, SessionInv, LockInv, [Next]_vars,
           NEW t \in Slots, session'[t] = session[t], NEW k \in Locked(t), k \in DOMAIN rows
    PROVE  k \in DOMAIN rows' /\ rows'[k] = rows[k]
<1>0. session[t].step \in {"scanning", "updating"}
  BY DEF Locked
<1>1. ASSUME NEW s \in Slots, RecordInsert(s) PROVE k \in DOMAIN rows' /\ rows'[k] = rows[k]
  BY <1>1, InsertFacts
<1>2. ASSUME NEW s \in Slots, ClaimUpdate(s) PROVE k \in DOMAIN rows' /\ rows'[k] = rows[k]
  <2>1. s # t
    <3>1. session' = [session EXCEPT ![s] = Idle] /\ s \in DOMAIN session
      BY <1>2, UpdateFacts DEF TypeInv
    <3>2. session'[s].step = "idle"
      BY <3>1 DEF Idle
    <3> QED
      BY <1>0, <3>2
  <2>2. k \notin Locked(s)
    BY <2>1 DEF LockInv
  <2>3. Locked(s) = session[s].locked
    BY <1>2, UpdateFacts DEF Locked
  <2> QED
    BY <1>2, <2>2, <2>3, UpdateFacts
<1>3. ASSUME \/ \E a \in Agents, j \in Keys, n \in 0..MaxAttempts : Acknowledge(a, j, n)
             \/ \E j \in Keys : Cancel(j)
             \/ Sweep
      PROVE  k \in DOMAIN rows' /\ rows'[k] = rows[k]
  <2>1. k \in LockedRows
    BY DEF LockedRows
  <2> QED
    BY <1>3, <2>1, StatementFacts DEF StatementEffect
<1>4. ASSUME UNCHANGED rows PROVE k \in DOMAIN rows' /\ rows'[k] = rows[k]
  BY <1>4
<1> QED
  BY <1>1, <1>2, <1>3, <1>4
     DEF Next, RecordLookup, RecordCount, ClaimBegin, ClaimScan, Lost, Tick, vars

LEMMA TypeNext == TypeInv /\ SessionInv /\ [Next]_vars => TypeInv'
<1> SUFFICES ASSUME TypeInv, SessionInv, [Next]_vars PROVE TypeInv'
  OBVIOUS
<1>1. ASSUME NEW s \in Slots, RecordInsert(s) PROVE TypeInv'
  <2> DEFINE c == session[s].command
  <2>1. IsFiniteSet(DOMAIN rows \cup {c.key}) /\ c.key \in Keys
    BY <1>1, InsertFacts, FS_AddElement DEF TypeInv, Command
  <2> QED
    BY <1>1, <2>1, InsertFacts DEF TypeInv
<1>2. ASSUME NEW s \in Slots, ClaimUpdate(s) PROVE TypeInv'
  <2>1. session[s].at \in Nat
        /\ \A k \in session[s].selected : k \in DOMAIN rows /\ rows[k].attempts < MaxAttempts
    BY <1>2, UpdateFacts DEF Claiming, Due
  <2>2. \A k \in DOMAIN rows : k \in session[s].selected =>
          [rows[k] EXCEPT !.attempts = @ + 1, !.last_delivered_millis = session[s].at] \in Stored
    BY <2>1, StoredChanges DEF TypeInv
  <2>3. rows' \in [DOMAIN rows -> Stored]
    <3>1. rows' = [k \in DOMAIN rows |->
                     IF k \in session[s].selected
                     THEN [rows[k] EXCEPT !.attempts = @ + 1,
                                          !.last_delivered_millis = session[s].at]
                     ELSE rows[k]]
      BY <1>2, UpdateFacts
    <3>2. \A k \in DOMAIN rows : rows[k] \in Stored
      BY DEF TypeInv
    <3>3. \A k \in DOMAIN rows : rows'[k] \in Stored
      BY <2>2, <3>1, <3>2
    <3> QED
      BY <3>1, <3>3
  <2> QED
    BY <1>2, <2>3, UpdateFacts DEF TypeInv
<1>3. ASSUME \/ \E a \in Agents, k \in Keys, n \in 0..MaxAttempts : Acknowledge(a, k, n)
             \/ \E k \in Keys : Cancel(k)
             \/ Sweep
      PROVE  TypeInv'
  BY <1>3, StatementFacts, FS_Subset DEF StatementEffect, TypeInv
<1>4. ASSUME UNCHANGED <<rows, next_sequence>>, now' \in {now, now + 1}, DOMAIN session' = Slots
      PROVE  TypeInv'
  BY <1>4 DEF TypeInv
<1>5. ASSUME NEW s \in Slots, NEW x, session' = [session EXCEPT ![s] = x]
      PROVE  DOMAIN session' = Slots
  BY <1>5 DEF TypeInv
<1>6. ASSUME NEW s \in Slots,
             \/ \E c \in Command : RecordLookup(s, c)
             \/ RecordCount(s)
             \/ \E a \in Agents, n \in PollLimits : ClaimBegin(s, a, n)
             \/ ClaimScan(s)
             \/ Lost(s)
      PROVE  TypeInv'
  BY <1>4, <1>5, <1>6 DEF RecordLookup, RecordCount, ClaimBegin, ClaimScan, Lost
<1>7. CASE Tick \/ UNCHANGED vars
  BY <1>4, <1>7 DEF Tick, TypeInv, vars
<1> QED
  BY <1>1, <1>2, <1>3, <1>6, <1>7 DEF Next

\* Only the acting connection has to be looked at.
LEMMA SessionStep ==
    ASSUME TypeInv, SessionInv, LockInv, [Next]_vars, NEW s \in Slots, NEW x,
           session' = [session EXCEPT ![s] = x],
           x = Idle \/ x \in Recording \/ (Claiming(session[s])' /\ x = session'[s])
    PROVE  SessionInv'
<1> SUFFICES ASSUME NEW t \in Slots
             PROVE  \/ session'[t] = Idle \/ session'[t] \in Recording
                    \/ Claiming(session[t])'
  BY DEF SessionInv
<1>1. CASE t = s
  BY <1>1 DEF TypeInv
<1>2. CASE t # s
  <2>1. session'[t] = session[t]
    BY <1>2 DEF TypeInv
  <2>2. CASE Claiming(session[t])
    <3>1. \A k \in session[t].locked : k \in DOMAIN rows' /\ rows'[k] = rows[k]
      BY <2>1, <2>2, LockedKept DEF Claiming, Locked
    <3> QED
      BY <2>1, <2>2, <3>1 DEF Claiming
  <2> QED
    BY <2>1, <2>2 DEF SessionInv
<1> QED
  BY <1>1, <1>2

LEMMA SessionNext == TypeInv /\ SessionInv /\ LockInv /\ [Next]_vars => SessionInv'
<1> SUFFICES ASSUME TypeInv, SessionInv, LockInv, [Next]_vars PROVE SessionInv'
  OBVIOUS
<1>1. ASSUME NEW s \in Slots, NEW c \in Command, RecordLookup(s, c) PROVE SessionInv'
  <2>1. [step |-> "counting", command |-> c] \in Recording
    BY DEF Recording
  <2> QED
    BY <1>1, <2>1, SessionStep DEF RecordLookup
<1>2. ASSUME NEW s \in Slots, RecordCount(s) PROVE SessionInv'
  <2>1. session[s] \in Recording
    BY <1>2 DEF RecordCount, SessionInv, Claiming, Idle
  <2>2. [session[s] EXCEPT !.step = "inserting"] \in Recording
    BY <2>1 DEF Recording
  <2>3. PICK x : /\ x = Idle \/ x \in Recording
                 /\ session' = [session EXCEPT ![s] = x]
    BY <1>2, <2>2 DEF RecordCount
  <2> QED
    BY <2>3, SessionStep
<1>3. ASSUME NEW s \in Slots, RecordInsert(s) \/ ClaimUpdate(s) \/ Lost(s) PROVE SessionInv'
  BY <1>3, SessionStep DEF RecordInsert, ClaimUpdate, Lost
<1>4. ASSUME NEW s \in Slots, NEW a \in Agents, NEW n \in PollLimits, ClaimBegin(s, a, n)
      PROVE  SessionInv'
  <2>1. PICK at \in Readings : session' = [session EXCEPT ![s] =
                       [step |-> "scanning", agent |-> a, limit |-> n, at |-> at,
                        cursor |-> 0, locked |-> {}, selected |-> {}]]
    BY <1>4 DEF ClaimBegin
  <2> DEFINE x == [step |-> "scanning", agent |-> a, limit |-> n, at |-> at,
                   cursor |-> 0, locked |-> {}, selected |-> {}]
  <2>2. session' = [session EXCEPT ![s] = x] /\ session'[s] = x
    BY <2>1 DEF TypeInv
  <2>3. at \in Nat
    BY ClockAssumption DEF Readings, TypeInv
  <2>4. Claiming(session[s])'
    BY <2>2, <2>3 DEF Claiming, ClaimFields
  <2> HIDE DEF x
  <2> QED
    BY <2>2, <2>4, SessionStep
<1>5. ASSUME NEW s \in Slots, ClaimScan(s) PROVE SessionInv'
  <2>1. PICK x : x = Scanned(session[s], Batch(s))
    OBVIOUS
  <2>2. /\ session' = [session EXCEPT ![s] = x] /\ rows' = rows /\ Claiming(x)
    BY <1>5, <2>1, ScanFacts
  <2>3. session'[s] = x
    BY <2>2 DEF TypeInv
  <2>4. Claiming(session[s])'
    BY <2>2, <2>3 DEF Claiming
  <2> QED
    BY <2>2, <2>3, <2>4, SessionStep
<1>6. ASSUME UNCHANGED session PROVE SessionInv'
  <2> SUFFICES ASSUME NEW t \in Slots, Claiming(session[t]) PROVE Claiming(session[t])'
    BY <1>6 DEF SessionInv
  <2>1. \A k \in session[t].locked : k \in DOMAIN rows' /\ rows'[k] = rows[k]
    BY <1>6, LockedKept DEF Claiming, Locked
  <2> QED
    BY <1>6, <2>1 DEF Claiming
<1> QED
  BY <1>1, <1>2, <1>3, <1>4, <1>5, <1>6
     DEF Next, Acknowledge, Cancel, Sweep, Tick, vars

LEMMA LockNext == TypeInv /\ SessionInv /\ LockInv /\ [Next]_vars => LockInv'
<1> SUFFICES ASSUME TypeInv, SessionInv, LockInv, [Next]_vars PROVE LockInv'
  OBVIOUS
<1>1. ASSUME NEW s \in Slots, ClaimScan(s) PROVE LockInv'
  <2>1. PICK x : x = Scanned(session[s], Batch(s))
    OBVIOUS
  <2>2. /\ session' = [session EXCEPT ![s] = x]
        /\ x.step \in {"scanning", "updating"} /\ x.locked = session[s].locked \cup Batch(s)
        /\ session[s].step = "scanning" /\ Batch(s) \cap LockedBut(s) = {}
    BY <1>1, <2>1, ScanFacts DEF Claiming
  <2>3. Locked(s)' = Locked(s) \cup Batch(s) /\ \A t \in Slots \ {s} : Locked(t)' = Locked(t)
    BY <2>2 DEF Locked, TypeInv
  <2>4. \A t \in Slots \ {s} : Batch(s) \cap Locked(t) = {}
    BY <2>2 DEF LockedBut
  <2> QED
    BY <2>3, <2>4 DEF LockInv
<1>2. ASSUME \A t \in Slots : Locked(t)' \subseteq Locked(t) PROVE LockInv'
  BY <1>2 DEF LockInv
<1>3. ASSUME NEW s \in Slots, NEW x, session' = [session EXCEPT ![s] = x],
             x.step \in {"idle", "counting", "inserting"} \/ x.locked = {}
      PROVE  LockInv'
  <2>1. \A t \in Slots : Locked(t)' \subseteq Locked(t)
    BY <1>3 DEF Locked, TypeInv
  <2> QED
    BY <1>2, <2>1
<1>4. ASSUME NEW s \in Slots, NEW c \in Command, RecordLookup(s, c) PROVE LockInv'
  <2>1. [step |-> "counting", command |-> c].step = "counting"
    OBVIOUS
  <2> QED
    BY <1>3, <1>4, <2>1 DEF RecordLookup
<1>5. ASSUME NEW s \in Slots, RecordCount(s) PROVE LockInv'
  <2>1. session[s] \in Recording
    BY <1>5 DEF RecordCount, SessionInv, Claiming, Idle
  <2>2. [session[s] EXCEPT !.step = "inserting"].step = "inserting" /\ Idle.step = "idle"
    BY <2>1 DEF Recording, Idle
  <2>3. PICK x : x = IF UnderCeilings(session[s].command)
                     THEN [session[s] EXCEPT !.step = "inserting"] ELSE Idle
    OBVIOUS
  <2>4. session' = [session EXCEPT ![s] = x]
    BY <1>5, <2>3 DEF RecordCount
  <2>5. x.step \in {"idle", "counting", "inserting"}
    BY <2>2, <2>3
  <2> QED
    BY <1>3, <2>4, <2>5
<1>6. ASSUME NEW s \in Slots, RecordInsert(s) \/ ClaimUpdate(s) \/ Lost(s) PROVE LockInv'
  <2>1. Idle.step = "idle"
    BY DEF Idle
  <2> QED
    BY <1>3, <1>6, <2>1 DEF RecordInsert, ClaimUpdate, Lost
<1>7. ASSUME NEW s \in Slots, NEW a \in Agents, NEW n \in PollLimits, ClaimBegin(s, a, n)
      PROVE  LockInv'
  <2>1. PICK x : x.locked = {} /\ session' = [session EXCEPT ![s] = x]
    <3>1. PICK at \in Readings : session' = [session EXCEPT ![s] =
                       [step |-> "scanning", agent |-> a, limit |-> n, at |-> at,
                        cursor |-> 0, locked |-> {}, selected |-> {}]]
      BY <1>7 DEF ClaimBegin
    <3>2. [step |-> "scanning", agent |-> a, limit |-> n, at |-> at,
           cursor |-> 0, locked |-> {}, selected |-> {}].locked = {}
      OBVIOUS
    <3> QED
      BY <3>1, <3>2, Zenon
  <2> QED
    BY <1>3, <2>1
<1>8. ASSUME UNCHANGED session PROVE LockInv'
  BY <1>8 DEF LockInv, Locked
<1> QED
  BY <1>1, <1>4, <1>5, <1>6, <1>7, <1>8
     DEF Next, Acknowledge, Cancel, Sweep, Tick, vars

-----------------------------------------------------------------------------
(* The books: quota and capacity. *)

LEMMA ScopeFinite ==
    ASSUME NEW S, IsFiniteSet(S), NEW x
    PROVE  IsFiniteSet(InScope(S, x)) /\ Cardinality(InScope(S, x)) \in Nat
BY FS_Subset, FS_CardinalityType DEF InScope

LEMMA InsertingFinite ==
    /\ IsFiniteSet(Inserting) /\ Cardinality(Inserting) \in Nat
    /\ Cardinality(Inserting) <= Cardinality(Slots) /\ Cardinality(Slots) \in Nat
BY SlotsAssumption, FS_Subset, FS_CardinalityType DEF Inserting

\* Nobody starts to insert and no row is added.
LEMMA QuietBooks ==
    ASSUME TypeInv, QuotaInv, CapacityInv, DOMAIN rows' \subseteq DOMAIN rows,
           \A t \in Slots : session'[t].step = "inserting" => session'[t] = session[t]
    PROVE  QuotaInv' /\ CapacityInv'
<1>1. QuotaInv'
  <2> SUFFICES ASSUME NEW t \in Slots, session'[t].step = "inserting"
               PROVE  /\ HoldersOf(session[t].command)' = {t}
                      /\ Cardinality(InScope(DOMAIN rows', ScopeOf[session'[t].command.key]))
                           < ScopeQuota
    BY DEF QuotaInv
  <2> DEFINE x == ScopeOf[session[t].command.key]
  <2>1. session'[t] = session[t]
    OBVIOUS
  <2>2. HoldersOf(session[t].command) = {t} /\ Cardinality(InScope(DOMAIN rows, x)) < ScopeQuota
    BY <2>1 DEF QuotaInv
  <2>3. HoldersOf(session[t].command)' \subseteq HoldersOf(session[t].command)
    BY <2>1 DEF HoldersOf
  <2>4. t \in HoldersOf(session[t].command)'
    BY DEF HoldersOf
  <2>5. InScope(DOMAIN rows', x) \subseteq InScope(DOMAIN rows, x)
    BY DEF InScope
  <2>6. Cardinality(InScope(DOMAIN rows', x)) <= Cardinality(InScope(DOMAIN rows, x))
        /\ Cardinality(InScope(DOMAIN rows', x)) \in Nat
        /\ Cardinality(InScope(DOMAIN rows, x)) \in Nat
    BY <2>5, ScopeFinite, FS_Subset, FS_CardinalityType DEF TypeInv
  <2>7. Cardinality(InScope(DOMAIN rows', x)) < ScopeQuota
    BY <2>2, <2>6, BoundsAssumption
  <2> QED
    BY <2>1, <2>2, <2>3, <2>4, <2>7
<1>2. CapacityInv'
  <2>1. Inserting' \subseteq Inserting
    BY DEF Inserting
  <2>2. /\ Cardinality(Inserting') <= Cardinality(Inserting)
        /\ Cardinality(Inserting') \in Nat
    BY <2>1, InsertingFinite, FS_Subset, FS_CardinalityType
  <2>3. /\ Cardinality(DOMAIN rows') <= Cardinality(DOMAIN rows)
        /\ Cardinality(DOMAIN rows') \in Nat /\ Cardinality(DOMAIN rows) \in Nat
    BY FS_Subset, FS_CardinalityType DEF TypeInv
  <2> QED
    BY <2>1, <2>2, <2>3, InsertingFinite, BoundsAssumption DEF CapacityInv
<1> QED
  BY <1>1, <1>2

LEMMA CountBooks ==
    ASSUME TypeInv, SessionInv, QuotaInv, CapacityInv, NEW s \in Slots, RecordCount(s)
    PROVE  QuotaInv' /\ CapacityInv'
<1> DEFINE c == session[s].command
           x == [session[s] EXCEPT !.step = "inserting"]
<1>0. session[s] \in Recording /\ session[s].step = "counting" /\ rows' = rows
      /\ HoldersOf(c) = {}
  BY DEF RecordCount, SessionInv, Claiming, Idle
<1>1. CASE ~UnderCeilings(c)
  <2>1. session' = [session EXCEPT ![s] = Idle] /\ Idle.step = "idle"
    BY <1>1 DEF RecordCount, Idle
  <2>2. \A t \in Slots : session'[t].step = "inserting" => session'[t] = session[t]
    BY <2>1 DEF TypeInv
  <2> QED
    BY <1>0, <2>2, QuietBooks
<1>2. CASE UnderCeilings(c)
  <2>1. session' = [session EXCEPT ![s] = x]
    BY <1>2 DEF RecordCount
  <2>2. x.step = "inserting" /\ x.command = c
    BY <1>0 DEF Recording
  <2>3. session'[s] = x /\ \A t \in Slots \ {s} : session'[t] = session[t]
    BY <2>1 DEF TypeInv
  <2>4. /\ Cardinality(InScope(DOMAIN rows, ScopeOf[c.key])) < ScopeQuota
        /\ Cardinality(DOMAIN rows) < Capacity
    BY <1>2 DEF UnderCeilings
  <2> HIDE DEF x
  <2>5. QuotaInv'
    <3> SUFFICES ASSUME NEW t \in Slots, session'[t].step = "inserting"
                 PROVE  /\ HoldersOf(session[t].command)' = {t}
                        /\ Cardinality(InScope(DOMAIN rows', ScopeOf[session'[t].command.key]))
                             < ScopeQuota
      BY DEF QuotaInv
    <3>1. CASE t = s
      <4>1. HoldersOf(session[t].command)' = {t}
        BY <1>0, <2>2, <2>3, <3>1 DEF HoldersOf
      <4> QED
        BY <1>0, <2>2, <2>3, <2>4, <3>1, <4>1
    <3>2. CASE t # s
      <4>1. session'[t] = session[t]
        BY <2>3, <3>2
      <4>2. HoldersOf(session[t].command) = {t}
            /\ Cardinality(InScope(DOMAIN rows, ScopeOf[session[t].command.key])) < ScopeQuota
        BY <4>1 DEF QuotaInv
      <4>3. ScopeOf[session[t].command.key] # ScopeOf[c.key]
        BY <1>0, <4>1 DEF HoldersOf
      <4>4. HoldersOf(session[t].command)' = HoldersOf(session[t].command)
        <5>1. \A u \in Slots : u \in HoldersOf(session[t].command)'
                                 <=> u \in HoldersOf(session[t].command)
          BY <1>0, <2>2, <2>3, <4>1, <4>3 DEF HoldersOf
        <5> QED
          BY <5>1 DEF HoldersOf
      <4> QED
        BY <1>0, <4>1, <4>2, <4>4
    <3> QED
      BY <3>1, <3>2
  <2>6. CapacityInv'
    <3>1. Cardinality(Inserting') \in Nat /\ Cardinality(Inserting') <= Cardinality(Slots)
          /\ Cardinality(Slots) \in Nat
      <4>1. Inserting' \subseteq Slots
        BY DEF Inserting
      <4> QED
        BY <4>1, SlotsAssumption, FS_Subset, FS_CardinalityType
    <3>2. Cardinality(DOMAIN rows) \in Nat
      BY FS_CardinalityType DEF TypeInv
    <3> QED
      BY <1>0, <2>4, <3>1, <3>2, BoundsAssumption DEF CapacityInv
  <2> QED
    BY <2>5, <2>6
<1> QED
  BY <1>1, <1>2

LEMMA InsertBooks ==
    ASSUME TypeInv, SessionInv, QuotaInv, CapacityInv, NEW s \in Slots, RecordInsert(s)
    PROVE  QuotaInv' /\ CapacityInv'
<1> DEFINE c == session[s].command
<1>0. /\ session' = [session EXCEPT ![s] = Idle] /\ session[s].step = "inserting"
      /\ DOMAIN rows' \subseteq DOMAIN rows \cup {c.key} /\ DOMAIN rows \subseteq DOMAIN rows'
  BY InsertFacts
<1>1. session'[s].step = "idle" /\ \A t \in Slots \ {s} : session'[t] = session[t]
  BY <1>0 DEF Idle, TypeInv
<1>2. QuotaInv'
  <2> SUFFICES ASSUME NEW t \in Slots, session'[t].step = "inserting"
               PROVE  /\ HoldersOf(session[t].command)' = {t}
                      /\ Cardinality(InScope(DOMAIN rows', ScopeOf[session'[t].command.key]))
                           < ScopeQuota
    BY DEF QuotaInv
  <2>1. t # s /\ session'[t] = session[t]
    BY <1>1
  <2>2. HoldersOf(session[t].command) = {t}
        /\ Cardinality(InScope(DOMAIN rows, ScopeOf[session[t].command.key])) < ScopeQuota
    BY <2>1 DEF QuotaInv
  <2>3. ScopeOf[session[t].command.key] # ScopeOf[c.key]
    BY <1>0, <2>1, <2>2 DEF HoldersOf
  <2>4. InScope(DOMAIN rows', ScopeOf[session[t].command.key])
          = InScope(DOMAIN rows, ScopeOf[session[t].command.key])
    BY <1>0, <2>3 DEF InScope
  <2>5. HoldersOf(session[t].command)' = {t}
    <3>1. HoldersOf(session[t].command)' \subseteq HoldersOf(session[t].command)
      BY <1>1, <2>1 DEF HoldersOf
    <3>2. t \in HoldersOf(session[t].command)'
      BY DEF HoldersOf
    <3> QED
      BY <2>2, <3>1, <3>2
  <2> QED
    BY <2>1, <2>2, <2>4, <2>5
<1>3. CapacityInv'
  <2>1. Inserting' = Inserting \ {s} /\ s \in Inserting
    BY <1>0, <1>1 DEF Inserting
  <2>2. /\ Cardinality(Inserting') = Cardinality(Inserting) - 1
        /\ Cardinality(Inserting) \in Nat /\ Cardinality(Slots) \in Nat
    BY <2>1, InsertingFinite, FS_RemoveElement
  <2>3. /\ Cardinality(DOMAIN rows') <= Cardinality(DOMAIN rows) + 1
        /\ Cardinality(DOMAIN rows') \in Nat /\ Cardinality(DOMAIN rows) \in Nat
    <3>1. /\ IsFiniteSet(DOMAIN rows \cup {c.key})
          /\ Cardinality(DOMAIN rows \cup {c.key}) <= Cardinality(DOMAIN rows) + 1
          /\ Cardinality(DOMAIN rows \cup {c.key}) \in Nat
          /\ Cardinality(DOMAIN rows) \in Nat
      <4>0. IsFiniteSet(DOMAIN rows) /\ Cardinality(DOMAIN rows) \in Nat
        BY FS_CardinalityType DEF TypeInv
      <4>1. CASE c.key \in DOMAIN rows
        <5>1. DOMAIN rows \cup {c.key} = DOMAIN rows
          BY <4>1
        <5> QED
          BY <4>0, <5>1
      <4>2. CASE c.key \notin DOMAIN rows
        <5> DEFINE k == c.key
        <5> HIDE DEF k
        <5>1. /\ IsFiniteSet(DOMAIN rows \cup {k})
              /\ Cardinality(DOMAIN rows \cup {k}) =
                   IF k \in DOMAIN rows THEN Cardinality(DOMAIN rows)
                   ELSE Cardinality(DOMAIN rows) + 1
          BY <4>0, FS_AddElement
        <5> QED
          BY <4>0, <4>2, <5>1 DEF k
      <4> QED
        BY <4>1, <4>2
    <3>2. Cardinality(DOMAIN rows') <= Cardinality(DOMAIN rows \cup {c.key})
          /\ Cardinality(DOMAIN rows') \in Nat
      BY <1>0, <3>1, FS_Subset, FS_CardinalityType
    <3> QED
      BY <3>1, <3>2
  <2>4. Cardinality(DOMAIN rows) + Cardinality(Inserting) <= Capacity + Cardinality(Slots) - 1
    BY <2>1 DEF CapacityInv
  <2> QED
    BY <2>2, <2>3, <2>4, BoundsAssumption DEF CapacityInv
<1> QED
  BY <1>2, <1>3

LEMMA BooksNext ==
    TypeInv /\ SessionInv /\ QuotaInv /\ CapacityInv /\ [Next]_vars => QuotaInv' /\ CapacityInv'
<1> SUFFICES ASSUME TypeInv, SessionInv, QuotaInv, CapacityInv, [Next]_vars
             PROVE  QuotaInv' /\ CapacityInv'
  OBVIOUS
<1>1. ASSUME NEW s \in Slots, NEW x, session' = [session EXCEPT ![s] = x],
             x.step # "inserting", DOMAIN rows' = DOMAIN rows
      PROVE  QuotaInv' /\ CapacityInv'
  <2>1. \A t \in Slots : session'[t].step = "inserting" => session'[t] = session[t]
    BY <1>1 DEF TypeInv
  <2> QED
    BY <1>1, <2>1, QuietBooks
<1>2. ASSUME NEW s \in Slots, NEW c \in Command, RecordLookup(s, c)
      PROVE  QuotaInv' /\ CapacityInv'
  <2>1. [step |-> "counting", command |-> c].step # "inserting"
    OBVIOUS
  <2> QED
    BY <1>1, <1>2, <2>1 DEF RecordLookup
<1>3. ASSUME NEW s \in Slots, RecordCount(s) \/ RecordInsert(s)
      PROVE  QuotaInv' /\ CapacityInv'
  BY <1>3, CountBooks, InsertBooks
<1>4. ASSUME NEW s \in Slots, NEW a \in Agents, NEW n \in PollLimits, ClaimBegin(s, a, n)
      PROVE  QuotaInv' /\ CapacityInv'
  <2>1. PICK x : x.step # "inserting" /\ session' = [session EXCEPT ![s] = x]
    <3>1. PICK at \in Readings : session' = [session EXCEPT ![s] =
                       [step |-> "scanning", agent |-> a, limit |-> n, at |-> at,
                        cursor |-> 0, locked |-> {}, selected |-> {}]]
      BY <1>4 DEF ClaimBegin
    <3>2. [step |-> "scanning", agent |-> a, limit |-> n, at |-> at,
           cursor |-> 0, locked |-> {}, selected |-> {}].step # "inserting"
      OBVIOUS
    <3> QED
      BY <3>1, <3>2, Zenon
  <2> QED
    BY <1>1, <1>4, <2>1 DEF ClaimBegin
<1>5. ASSUME NEW s \in Slots, ClaimScan(s) PROVE QuotaInv' /\ CapacityInv'
  <2>1. PICK x : x = Scanned(session[s], Batch(s))
    OBVIOUS
  <2>2. session' = [session EXCEPT ![s] = x] /\ x.step # "inserting" /\ rows' = rows
    BY <1>5, <2>1, ScanFacts DEF Claiming
  <2> QED
    BY <1>1, <2>2
<1>6. ASSUME NEW s \in Slots, ClaimUpdate(s) \/ Lost(s) PROVE QuotaInv' /\ CapacityInv'
  <2>1. Idle.step # "inserting"
    BY DEF Idle
  <2> QED
    BY <1>1, <1>6, <2>1 DEF ClaimUpdate, Lost
<1>7. ASSUME session' = session, DOMAIN rows' \subseteq DOMAIN rows
      PROVE  QuotaInv' /\ CapacityInv'
  BY <1>7, QuietBooks
<1>8. ASSUME \/ \E a \in Agents, k \in Keys, n \in 0..MaxAttempts : Acknowledge(a, k, n)
             \/ \E k \in Keys : Cancel(k)
             \/ Sweep
      PROVE  QuotaInv' /\ CapacityInv'
  BY <1>7, <1>8, StatementFacts DEF StatementEffect
<1>9. CASE Tick \/ UNCHANGED vars
  BY <1>7, <1>9 DEF Tick, vars
<1> QED
  BY <1>2, <1>3, <1>4, <1>5, <1>6, <1>8, <1>9 DEF Next

LEMMA TableHolds == Spec => []TableInv
<1>1. Init => TableInv
  <2> SUFFICES ASSUME Init PROVE TableInv
    OBVIOUS
  <2>1. DOMAIN rows = {} /\ \A s \in Slots : session[s] = Idle /\ session[s].step = "idle"
    BY DEF Init, Idle
  <2>2. TypeInv
    BY <2>1, FS_EmptySet, BoundsAssumption DEF Init, TypeInv
  <2> QED
    BY <2>1, <2>2
       DEF TableInv, SessionInv, LockInv, Locked, QuotaInv, CapacityInv, Inserting
<1> QED
  BY <1>1, TypeNext, SessionNext, LockNext, BooksNext, PTL DEF Spec, TableInv

-----------------------------------------------------------------------------
(* The contract. *)

\* What the contract sees of a row.
Seen(r) == [agent |-> r.agent, attempts |-> r.attempts, acknowledged |-> r.acknowledged,
            cancelled |-> r.cancelled_at_millis # NoTime]

Known == [k \in DOMAIN rows |-> Seen(rows[k])]

LEMMA KnownFacts ==
    /\ DOMAIN Known = DOMAIN rows
    /\ \A k \in DOMAIN rows :
         /\ Known[k] = Seen(rows[k])
         /\ Known[k].agent = rows[k].agent
         /\ Known[k].attempts = rows[k].attempts
         /\ Known[k].acknowledged = rows[k].acknowledged
         /\ Known[k].cancelled = (rows[k].cancelled_at_millis # NoTime)
BY DEF Known, Seen

LEMMA SeenChange ==
    ASSUME NEW r, NEW v
    PROVE  /\ [Seen(r) EXCEPT !.acknowledged = v] =
                [agent |-> r.agent, attempts |-> r.attempts, acknowledged |-> v,
                 cancelled |-> r.cancelled_at_millis # NoTime]
           /\ [Seen(r) EXCEPT !.cancelled = v] =
                [agent |-> r.agent, attempts |-> r.attempts,
                 acknowledged |-> r.acknowledged, cancelled |-> v]
           /\ [Seen(r) EXCEPT !.attempts = v] =
                [agent |-> r.agent, attempts |-> v, acknowledged |-> r.acknowledged,
                 cancelled |-> r.cancelled_at_millis # NoTime]
BY DEF Seen

LEMMA KnownUpdate ==
    ASSUME NEW k \in DOMAIN rows, NEW r, rows' = [rows EXCEPT ![k] = r]
    PROVE  Known' = [Known EXCEPT ![k] = Seen(r)]
<1>1. Known' = [j \in DOMAIN rows |-> Seen(rows'[j])]
  BY DEF Known, Seen
<1> QED
  BY <1>1, KnownFacts

\* The contract counts with the same Cardinality, under its instance's name.
LEMMA SameCount == ASSUME NEW S PROVE Contract!Cardinality(S) = Cardinality(S)
BY DEF Contract!Cardinality, Cardinality

LEMMA InsertRefines ==
    ASSUME TableInv, NEW s \in Slots, RecordInsert(s)
    PROVE  Contract!Next \/ Known' = Known
<1> DEFINE c == session[s].command
           k == c.key
<1> USE BoundsAssumption
<1>0. TypeInv /\ SessionInv /\ QuotaInv /\ CapacityInv
  BY DEF TableInv
<1>1. CASE rows' = rows
  BY <1>1 DEF Known
<1>2. CASE rows' # rows
  <2>1. /\ c \in Command /\ session[s].step = "inserting" /\ k \notin DOMAIN rows
        /\ rows' = [j \in DOMAIN rows \cup {k} |-> IF j # k THEN rows[j] ELSE NewRow(c)]
    BY <1>0, <1>2, InsertFacts
  <2>2. k \in Keys /\ c.agent \in Agents
    BY <2>1 DEF Command
  <2>3. Cardinality({j \in DOMAIN Known : ScopeOf[j] = ScopeOf[k]}) < ScopeQuota
    BY <1>0, <2>1, KnownFacts DEF QuotaInv, InScope
  <2>4. Cardinality(DOMAIN Known) < Capacity + (Cardinality(Slots) - 1)
    <3>1. Cardinality(Inserting) \in Nat /\ Cardinality(Inserting) # 0
      BY <2>1, InsertingFinite, FS_EmptySet DEF Inserting
    <3>2. Cardinality(DOMAIN rows) \in Nat /\ Cardinality(Slots) \in Nat
      BY <1>0, InsertingFinite, FS_CardinalityType DEF TypeInv
    <3>3. Cardinality(DOMAIN rows) + Cardinality(Inserting) <= Capacity + Cardinality(Slots) - 1
      BY <1>0, <2>1 DEF CapacityInv, Inserting
    <3> QED
      BY <3>1, <3>2, <3>3, KnownFacts
  <2>5. Known' = [j \in DOMAIN Known \cup {k} |->
                    IF j = k THEN Contract!Fresh(c.agent) ELSE Known[j]]
    <3>1. Seen(NewRow(c)) = Contract!Fresh(c.agent)
      BY DEF Seen, NewRow, Contract!Fresh
    <3>2. DOMAIN rows' = DOMAIN Known \cup {k}
      BY <2>1, KnownFacts
    <3>3. \A j \in DOMAIN Known \cup {k} :
            Seen(rows'[j]) = IF j = k THEN Contract!Fresh(c.agent) ELSE Known[j]
      BY <2>1, <3>1, KnownFacts
    <3>4. Known' = [j \in DOMAIN Known \cup {k} |-> Seen(rows'[j])]
      BY <3>2 DEF Known, Seen
    <3> QED
      BY <3>3, <3>4
  <2>6. PICK j, a : j = k /\ a = c.agent
    OBVIOUS
  <2>7. Contract!Recorded(j, a)
    <3>1. j \notin DOMAIN Known
      BY <2>1, <2>6, KnownFacts
    <3>2. Cardinality({i \in DOMAIN Known : ScopeOf[i] = ScopeOf[j]}) < ScopeQuota
      BY <2>3, <2>6
    <3>3. Known' = [i \in DOMAIN Known \cup {j} |->
                      IF i = j THEN Contract!Fresh(a) ELSE Known[i]]
      BY <2>5, <2>6 DEF Contract!Fresh
    <3> QED
      BY <2>4, <3>1, <3>2, <3>3, SameCount DEF Contract!Recorded, Known, Seen
  <2>8. \E i \in Keys, b \in Agents : Contract!Recorded(i, b)
    BY <2>2, <2>6, <2>7
  <2> QED
    BY <2>8 DEF Contract!Next, Known, Seen
<1> QED
  BY <1>1, <1>2

LEMMA UpdateRefines ==
    ASSUME TableInv, NEW s \in Slots, ClaimUpdate(s)
    PROVE  Contract!Next \/ Known' = Known
<1>0. TypeInv /\ SessionInv
  BY DEF TableInv
<1>1. PICK S, at : S = session[s].selected /\ at = session[s].at
  OBVIOUS
<1>2. /\ rows' = [k \in DOMAIN rows |->
                    IF k \in S THEN [rows[k] EXCEPT !.attempts = @ + 1,
                                                    !.last_delivered_millis = at]
                    ELSE rows[k]]
      /\ Claiming(session[s])
  BY <1>0, <1>1, UpdateFacts
<1>3. PICK a \in Agents : \A k \in S : /\ k \in DOMAIN rows /\ rows[k].agent = a
                                       /\ Due(rows[k]) /\ ScopeOf[k] \in AgentScopes[a]
  BY <1>1, <1>2 DEF Claiming
<1>4. Known' = [k \in DOMAIN Known |->
                  IF k \in S THEN [Known[k] EXCEPT !.attempts = @ + 1] ELSE Known[k]]
  <2>1. DOMAIN rows' = DOMAIN Known
    BY <1>2, KnownFacts
  <2>2. ASSUME NEW r \in Stored
        PROVE  Seen([r EXCEPT !.attempts = @ + 1, !.last_delivered_millis = at])
                 = [Seen(r) EXCEPT !.attempts = @ + 1]
    BY DEF Seen, Stored
  <2>3. ASSUME NEW k \in DOMAIN Known
        PROVE  Seen(rows'[k]) =
                 IF k \in S THEN [Known[k] EXCEPT !.attempts = @ + 1] ELSE Known[k]
    <3>1. rows[k] \in Stored /\ Known[k] = Seen(rows[k])
      BY <1>0, KnownFacts DEF TypeInv
    <3>2. rows'[k] = IF k \in S THEN [rows[k] EXCEPT !.attempts = @ + 1,
                                                     !.last_delivered_millis = at]
                     ELSE rows[k]
      BY <1>2, KnownFacts
    <3> QED
      BY <2>2, <3>1, <3>2
  <2>4. Known' = [k \in DOMAIN Known |-> Seen(rows'[k])]
    BY <2>1 DEF Known, Seen
  <2> QED
    BY <2>3, <2>4
<1>5. CASE S = {}
  <2>1. Known' = [k \in DOMAIN Known |-> Known[k]]
    BY <1>4, <1>5
  <2> QED
    BY <2>1 DEF Known
<1>6. CASE S # {}
  <2>1. S \in SUBSET DOMAIN Known
    BY <1>3, KnownFacts
  <2>2. \A k \in S : /\ Known[k].agent = a /\ ScopeOf[k] \in AgentScopes[a]
                     /\ Contract!Open(Known[k])
    BY <1>3, KnownFacts DEF Contract!Open, Due
  <2>3. Contract!HandedOut(a, S)
    BY <1>4, <1>6, <2>2 DEF Contract!HandedOut, Known, Seen
  <2>4. \E b \in Agents, T \in SUBSET DOMAIN Known : Contract!HandedOut(b, T)
    BY <2>1, <2>3
  <2> QED
    BY <2>4 DEF Contract!Next, Known, Seen
<1> QED
  BY <1>5, <1>6

LEMMA AcknowledgeRefines ==
    ASSUME TableInv, NEW a \in Agents, NEW k \in Keys, NEW n \in 0..MaxAttempts,
           Acknowledge(a, k, n)
    PROVE  Contract!Next
<1>1. /\ k \in DOMAIN rows /\ rows[k].agent = a /\ ~rows[k].acknowledged
      /\ n > 0 /\ rows[k].attempts >= n
      /\ rows' = [rows EXCEPT ![k] = [rows[k] EXCEPT !.acknowledged = TRUE]]
  BY DEF Acknowledge
<1>2. rows[k] \in Stored
  BY <1>1 DEF TableInv, TypeInv
<1>3. rows[k].attempts > 0
  BY <1>1, <1>2, BoundsAssumption DEF Stored
<1>4. PICK r : r = rows[k]
  OBVIOUS
<1>5. PICK q : q = [r EXCEPT !.acknowledged = TRUE]
  OBVIOUS
<1>6. Seen(q) = [Seen(r) EXCEPT !.acknowledged = TRUE]
  <2>1. /\ q.agent = r.agent /\ q.attempts = r.attempts /\ q.acknowledged = TRUE
        /\ q.cancelled_at_millis = r.cancelled_at_millis
    BY <1>2, <1>4, <1>5 DEF Stored
  <2> DEFINE g == [agent |-> r.agent, attempts |-> r.attempts, acknowledged |-> TRUE,
                   cancelled |-> r.cancelled_at_millis # NoTime]
  <2>2. [Seen(r) EXCEPT !.acknowledged = TRUE] = g
    BY SeenChange, Zenon
  <2>3. Seen(q) = g
    BY <2>1, Zenon DEF Seen
  <2> QED
    BY <2>2, <2>3, Zenon
<1>7. Known' = [Known EXCEPT ![k] = Seen(q)]
  BY <1>1, <1>4, <1>5, KnownUpdate
<1>8. Known' = [Known EXCEPT ![k].acknowledged = TRUE]
  BY <1>1, <1>4, <1>6, <1>7, KnownFacts
<1>9. Contract!Acknowledged(a, k) /\ k \in DOMAIN Known
  BY <1>1, <1>3, <1>8, KnownFacts DEF Contract!Acknowledged, Known, Seen
<1> QED
  BY <1>9 DEF Contract!Next, Known, Seen

LEMMA CancelRefines ==
    ASSUME TableInv, NEW k \in Keys, Cancel(k)
    PROVE  Contract!Next
<1>1. PICK t \in Readings :
        rows' = [rows EXCEPT ![k] = [rows[k] EXCEPT !.cancelled_at_millis = t]]
  BY DEF Cancel
<1>2. k \in DOMAIN rows /\ rows[k].cancelled_at_millis = NoTime /\ rows[k].attempts = 0
  BY DEF Cancel
<1>3. rows[k] \in Stored /\ t # NoTime
  BY <1>2, ClockAssumption DEF TableInv, TypeInv, Readings, NoTime
<1>4. PICK r : r = rows[k]
  OBVIOUS
<1>5. PICK q : q = [r EXCEPT !.cancelled_at_millis = t]
  OBVIOUS
<1>6. Seen(q) = [Seen(r) EXCEPT !.cancelled = TRUE]
  <2>1. /\ q.agent = r.agent /\ q.attempts = r.attempts /\ q.acknowledged = r.acknowledged
        /\ q.cancelled_at_millis = t
    BY <1>3, <1>4, <1>5 DEF Stored
  <2>2. (q.cancelled_at_millis # NoTime) = TRUE
    BY <1>3, <2>1
  <2> DEFINE g == [agent |-> r.agent, attempts |-> r.attempts,
                   acknowledged |-> r.acknowledged, cancelled |-> TRUE]
  <2>3. [Seen(r) EXCEPT !.cancelled = TRUE] = g
    BY SeenChange, Zenon
  <2>4. Seen(q) = g
    BY <2>1, <2>2, Zenon DEF Seen
  <2> QED
    BY <2>3, <2>4, Zenon
<1>7. Known' = [Known EXCEPT ![k] = Seen(q)]
  BY <1>1, <1>2, <1>4, <1>5, KnownUpdate
<1>8. Known' = [Known EXCEPT ![k].cancelled = TRUE]
  BY <1>2, <1>4, <1>6, <1>7, KnownFacts
<1>9. Contract!Cancelled(k) /\ k \in DOMAIN Known
  BY <1>2, <1>8, KnownFacts DEF Contract!Cancelled, Known, Seen
<1> QED
  BY <1>9 DEF Contract!Next, Known, Seen

LEMMA SweepRefines == ASSUME TableInv, Sweep PROVE Contract!Next
<1>1. PICK at \in Readings :
        rows' = [k \in DOMAIN rows \ {j \in DOMAIN rows : PastRetention(rows[j], at)} |-> rows[k]]
  BY DEF Sweep
<1>2. PICK S : S = {j \in DOMAIN rows : PastRetention(rows[j], at)}
  OBVIOUS
<1>3. \A k \in S : k \in DOMAIN Known /\ Contract!Closed(Known[k])
  <2> SUFFICES ASSUME NEW k \in S PROVE k \in DOMAIN Known /\ Contract!Closed(Known[k])
    OBVIOUS
  <2>1. k \in DOMAIN rows /\ rows[k] \in Stored
    BY <1>2 DEF TableInv, TypeInv
  <2>2. rows[k].cancelled_at_millis # NoTime \/ rows[k].acknowledged
        \/ rows[k].attempts >= MaxAttempts
    BY <1>2 DEF PastRetention
  <2>3. rows[k].attempts >= MaxAttempts => rows[k].attempts = MaxAttempts
    BY <2>1, BoundsAssumption DEF Stored
  <2> QED
    BY <2>1, <2>2, <2>3, KnownFacts DEF Contract!Closed
<1>4. Known' = [k \in DOMAIN Known \ S |-> Known[k]]
  <2>1. DOMAIN rows' = DOMAIN Known \ S /\ \A k \in DOMAIN rows' : rows'[k] = rows[k]
    BY <1>1, <1>2, KnownFacts
  <2>2. Known' = [k \in DOMAIN Known \ S |-> Seen(rows'[k])]
    BY <2>1 DEF Known, Seen
  <2> QED
    BY <2>1, <2>2, KnownFacts
<1>5. S \in SUBSET DOMAIN Known /\ Contract!Forgotten(S)
  BY <1>3, <1>4 DEF Contract!Forgotten, Known, Seen
<1>6. \E T \in SUBSET DOMAIN Known : Contract!Forgotten(T)
  BY <1>5
<1> QED
  BY <1>6 DEF Contract!Next, Known, Seen

\* The Postgres inbox implements the contract of the trait with one command of
\* slack per further connection: for any number of connections and in every
\* interleaving of their statements the quota of a scope is exact, only due
\* commands of the agent are handed out, a handed-out command is not cancelled,
\* and only closed commands are deleted.
THEOREM ContractCorrect == Spec => ImplementsContract
<1>1. Init => Contract!Init
  BY DEF Init, Contract!Init
<1>2. TableInv /\ [Next]_vars => Contract!Next \/ Known' = Known
  <2> SUFFICES ASSUME TableInv, [Next]_vars PROVE Contract!Next \/ Known' = Known
    OBVIOUS
  <2>1. ASSUME UNCHANGED rows PROVE Known' = Known
    BY <2>1 DEF Known, Seen
  <2> QED
    BY <2>1, InsertRefines, UpdateRefines, AcknowledgeRefines, CancelRefines, SweepRefines
       DEF Next, RecordLookup, RecordCount, ClaimBegin, ClaimScan, Lost, Tick, vars
<1>3. TableInv /\ [Next]_vars
        => [Contract!Next]_([k \in DOMAIN rows |->
                               [agent |-> rows[k].agent, attempts |-> rows[k].attempts,
                                acknowledged |-> rows[k].acknowledged,
                                cancelled |-> rows[k].cancelled_at_millis # NoTime]])
  BY <1>2 DEF Known, Seen
<1> QED
  BY <1>1, <1>3, TableHolds, PTL DEF Spec, ImplementsContract, Contract!Spec
=============================================================================
