------------------------- MODULE ServingGrantsProofs -------------------------
(***************************************************************************)
(* Proofs about ServingGrants and, on top of it, CallAdmission: for any    *)
(* number of operations, renewals and calls, any length of a grant, any    *)
(* number of decisions kept and any limit.                                 *)
(***************************************************************************)
EXTENDS CallAdmission, FiniteSetTheorems, TLAPS

RowType ==
    [known : BOOLEAN, mode : Modes, terminated : BOOLEAN, highest : Nat, lastServe : Nat,
     applied : Nat, appliedMode : Modes \cup {"none"}, admitting : BOOLEAN, active : Nat,
     readyUntil : Nat]

AckType      == [seq : Nat, epoch : Nat, admitting : BOOLEAN, active : Nat]
SentType     == [inst : Instances, seq : Nat \ {0}, ack : AckType]
DecisionType == [seq : Nat \ {0}, epoch : Nat, mode : Modes, until : Nat]
ReplyType    == [inst : Instances, seq : Nat \ {0}, epoch : Nat, mode : Modes, validFor : Nat]
OwnerType    == [state : {"up", "stopped", "dead"}, seq : Nat, pending : BOOLEAN, started : Nat,
                 held : Nat, epoch : Nat, mode : Modes, expires : Nat]

TypeInv ==
    /\ now \in Nat /\ stoppedAt \in Nat
    /\ target \in [gen : Nat, serving : BOOLEAN]
    /\ selection \in [epoch : Nat, instance : 0..MaxGen]
    /\ deployed \in [Instances -> RowType]
    /\ decisions \in [Instances -> SUBSET DecisionType]
    /\ sent \subseteq SentType /\ replies \subseteq ReplyType
    /\ owner \in [Instances -> OwnerType]
    /\ active \in [Instances -> Nat]

-----------------------------------------------------------------------------
(* Rows, decisions and owners: what the records of the model hold.         *)

LEMMA NewRecords ==
    /\ NoDeployment \in RowType /\ NewOwner \in OwnerType /\ Stopped \in OwnerType
    /\ NoAck \in AckType
    /\ ~NoDeployment.known /\ ~NoDeployment.terminated /\ NoDeployment.mode = "closed"
    /\ NoDeployment.highest = 0 /\ NoDeployment.lastServe = 0 /\ NoDeployment.applied = 0
    /\ NoDeployment.appliedMode = "none" /\ ~NoDeployment.admitting /\ NoDeployment.active = 0
    /\ NewOwner.state = "up" /\ NewOwner.held = 0 /\ ~NewOwner.pending /\ NewOwner.started = 0
    /\ Stopped.state = "stopped" /\ Stopped.held = 0 /\ ~Stopped.pending /\ Stopped.started = 0
    /\ NoAck.seq = 0 /\ ~NoAck.admitting /\ NoAck.active = 0
<1>1. FALSE \in BOOLEAN /\ "closed" \in Modes /\ "none" \in Modes \cup {"none"} /\ 0 \in Nat
  BY DEF Modes
<1>2. \A b \in BOOLEAN :
        /\ [known |-> b, mode |-> "closed", terminated |-> b, highest |-> 0, lastServe |-> 0,
            applied |-> 0, appliedMode |-> "none", admitting |-> b, active |-> 0,
            readyUntil |-> 0] \in RowType
        /\ [seq |-> 0, epoch |-> 0, admitting |-> b, active |-> 0] \in AckType
        /\ \A s \in {"up", "stopped", "dead"} :
             [state |-> s, seq |-> 0, pending |-> b, started |-> 0, held |-> 0, epoch |-> 0,
              mode |-> "closed", expires |-> 0] \in OwnerType
  BY <1>1 DEF RowType, AckType, OwnerType
<1>3. Stopped = [state |-> "stopped", seq |-> 0, pending |-> FALSE, started |-> 0, held |-> 0,
                 epoch |-> 0, mode |-> "closed", expires |-> 0]
  <2>1. ASSUME NEW b
        PROVE  [[state |-> "up", seq |-> 0, pending |-> b, started |-> 0, held |-> 0, epoch |-> 0,
                 mode |-> "closed", expires |-> 0] EXCEPT !.state = "stopped"]
               = [state |-> "stopped", seq |-> 0, pending |-> b, started |-> 0, held |-> 0,
                  epoch |-> 0, mode |-> "closed", expires |-> 0]
    OBVIOUS
  <2> QED
    BY <2>1, Zenon DEF Stopped, NewOwner
<1> QED
  BY <1>1, <1>2, <1>3, Zenon DEF NoDeployment, NewOwner, NoAck

\* What a step of the controller keeps of a row.
Steady(a, b) ==
    /\ b.highest = a.highest /\ b.lastServe = a.lastServe
    /\ b.applied = a.applied /\ b.appliedMode = a.appliedMode
    /\ b.admitting => a.admitting
    /\ b.active # 0 => a.active # 0
    /\ b.terminated \/ b.active = a.active

LEMMA ReadyRow ==
    ASSUME NEW d \in RowType, NEW n \in Nat
    PROVE  LET e == [d EXCEPT !.readyUntil = n] IN
           /\ e \in RowType /\ Steady(d, e)
           /\ e.known = d.known /\ e.terminated = d.terminated /\ e.mode = d.mode
BY DEF RowType, Steady

LEMMA ModeRow ==
    ASSUME NEW d \in RowType, NEW m \in Modes, NEW n \in Nat
    PROVE  LET e == [d EXCEPT !.mode = m, !.readyUntil = n] IN
           /\ e \in RowType /\ Steady(d, e)
           /\ e.known = d.known /\ e.terminated = d.terminated /\ e.mode = m
BY DEF RowType, Steady

LEMMA ClosedRow ==
    ASSUME NEW d \in RowType
    PROVE  /\ Closed(d) \in RowType /\ Steady(d, Closed(d))
           /\ Closed(d).known = d.known /\ Closed(d).terminated = d.terminated
           /\ Closed(d).mode = "closed" /\ (d.mode = "closed" => Closed(d) = d)
           /\ Closed(d).active = d.active
<1>1. "closed" \in Modes /\ 0 \in Nat
  BY DEF Modes
<1>2. CASE d.mode = "closed"
  BY <1>2 DEF Closed, Steady
<1>3. CASE d.mode # "closed"
  <2> DEFINE e == [d EXCEPT !.mode = "closed", !.readyUntil = 0]
  <2>1. Closed(d) = e
    BY <1>3 DEF Closed
  <2>2. /\ e \in RowType /\ Steady(d, e)
        /\ e.known = d.known /\ e.terminated = d.terminated /\ e.mode = "closed"
    BY <1>1, ModeRow
  <2>3. e.active = d.active
    BY DEF RowType
  <2> HIDE DEF e
  <2> QED
    BY <1>3, <2>1, <2>2, <2>3
<1> QED
  BY <1>2, <1>3

LEMMA TerminatedRow ==
    ASSUME NEW d \in RowType
    PROVE  LET e == [d EXCEPT !.mode = "closed", !.terminated = TRUE, !.admitting = FALSE,
                              !.active = 0, !.readyUntil = 0] IN
           /\ e \in RowType /\ Steady(d, e)
           /\ e.known = d.known /\ e.terminated /\ e.mode = "closed"
<1>1. ASSUME NEW b \in BOOLEAN, NEW c \in BOOLEAN
      PROVE  LET e == [d EXCEPT !.mode = "closed", !.terminated = b, !.admitting = c,
                                !.active = 0, !.readyUntil = 0] IN
             /\ e \in RowType /\ e.highest = d.highest /\ e.lastServe = d.lastServe
             /\ e.applied = d.applied /\ e.appliedMode = d.appliedMode
             /\ e.admitting = c /\ e.active = 0
             /\ e.known = d.known /\ e.terminated = b /\ e.mode = "closed"
  BY DEF RowType, Modes
<1>2. TRUE \in BOOLEAN /\ FALSE \in BOOLEAN
  OBVIOUS
<1> QED
  BY <1>1, <1>2, Zenon DEF Steady

LEMMA RegisteredRow ==
    LET e == [NoDeployment EXCEPT !.known = TRUE, !.mode = "prepare"] IN
    /\ e \in RowType /\ Steady(NoDeployment, e)
    /\ e.known /\ ~e.terminated /\ e.mode = "prepare"
<1>1. ASSUME NEW d \in RowType, NEW b \in BOOLEAN
      PROVE  LET e == [d EXCEPT !.known = b, !.mode = "prepare"] IN
             /\ e \in RowType /\ e.highest = d.highest /\ e.lastServe = d.lastServe
             /\ e.applied = d.applied /\ e.appliedMode = d.appliedMode
             /\ e.admitting = d.admitting /\ e.active = d.active
             /\ e.known = b /\ e.terminated = d.terminated /\ e.mode = "prepare"
  BY DEF RowType, Modes
<1>2. TRUE \in BOOLEAN
  OBVIOUS
<1> QED
  BY <1>1, <1>2, NewRecords, Zenon DEF Steady

-----------------------------------------------------------------------------
(* Rows and processes.                                                     *)

\* A row that was not registered is empty, one that is terminated belongs to a
\* process that is dead, and the selected deployment is one that serves; a
\* process that is not up holds nothing.
RowInv ==
    \A i \in Instances :
        /\ ~Registered(i) => deployed[i] = NoDeployment
        /\ deployed[i].terminated => deployed[i].mode = "closed" /\ owner[i].state = "dead"
        /\ selection.instance = i => deployed[i].mode = "serve"
        /\ owner[i].state = "dead" => active[i] = 0
        /\ owner[i].state # "up" => owner[i].held = 0 /\ ~owner[i].pending

\* What a step of the controller does to a row, and to the selection.
Carried(j) ==
    /\ deployed'[j] \in RowType /\ Steady(deployed[j], deployed'[j])
    /\ deployed'[j] = deployed[j] \/ deployed'[j].known
    /\ deployed[j].known => deployed'[j].known
    /\ deployed[j].known /\ deployed[j].mode = "closed" => deployed'[j].mode = "closed"
    /\ deployed[j].terminated => deployed'[j] = deployed[j]
    /\ deployed'[j].terminated => deployed'[j].mode = "closed" /\ owner[j].state = "dead"
    /\ deployed'[j].mode = "serve" => deployed[j].mode = "serve" \/ Select(j)

Moves ==
    /\ selection' \in [epoch : Nat, instance : 0..MaxGen]
    /\ selection'.epoch >= selection.epoch
    /\ selection'.instance # selection.instance => selection'.epoch > selection.epoch
    /\ \A j \in Instances : selection'.instance = j => deployed'[j].mode = "serve"

LEMMA SameRow ==
    ASSUME TypeInv, RowInv, NEW j \in Instances, deployed'[j] = deployed[j]
    PROVE  Carried(j)
<1>1. deployed[j] \in RowType
  BY DEF TypeInv
<1> QED
  BY <1>1 DEF Carried, Steady, RowInv

LEMMA InstanceFacts == MaxGen \in Nat /\ Instances = 1..MaxGen /\ None \notin Instances
BY GrantAssumption DEF Instances, None

LEMMA SelectionFacts ==
    ASSUME TypeInv
    PROVE  /\ selection.epoch \in Nat /\ selection.instance \in 0..MaxGen
           /\ \A i \in 0..MaxGen :
                /\ Advanced(i) \in [epoch : Nat, instance : 0..MaxGen]
                /\ Advanced(i).epoch = selection.epoch + 1 /\ Advanced(i).instance = i
BY DEF TypeInv, Advanced

LEMMA Unselected ==
    ASSUME TypeInv, selection' = Advanced(None)
    PROVE  Moves
<1>1. selection.epoch \in Nat /\ 0 \in 0..MaxGen /\ Advanced(None).instance = 0
      /\ Advanced(None).epoch = selection.epoch + 1
      /\ Advanced(None) \in [epoch : Nat, instance : 0..MaxGen]
  BY SelectionFacts, InstanceFacts DEF None
<1> QED
  BY <1>1, InstanceFacts DEF Moves

LEMMA SelectionSame ==
    ASSUME TypeInv, selection' = selection,
           \A j \in Instances : selection.instance = j => deployed'[j].mode = "serve"
    PROVE  Moves
<1>1. selection.epoch \in Nat
  BY SelectionFacts
<1> QED
  BY <1>1 DEF Moves, TypeInv

\* Every deployment closed: the rows, and the selection that goes with them.
LEMMA ClosingFacts ==
    ASSUME TypeInv, RowInv
    PROVE  /\ DeployedWhenClosed \in [Instances -> RowType]
           /\ \A j \in Instances : DeployedWhenClosed[j] = Closed(deployed[j])
           /\ SelectionWhenClosed \in {selection, Advanced(None)}
           /\ SelectionWhenClosed.instance \notin Instances
<1>1. \A j \in Instances : deployed[j] \in RowType /\ Closed(deployed[j]) \in RowType
  BY ClosedRow DEF TypeInv
<1>2. Advanced(None).instance \notin Instances
  BY InstanceFacts DEF Advanced
<1>3. AllClosed => selection.instance \notin Instances
  BY DEF AllClosed, RowInv
<1> QED
  BY <1>1, <1>2, <1>3 DEF DeployedWhenClosed, SelectionWhenClosed

LEMMA CloseAllRows ==
    ASSUME TypeInv, RowInv,
           selection' = SelectionWhenClosed, deployed' = DeployedWhenClosed
    PROVE  Moves /\ \A j \in Instances : Carried(j)
<1>1. Moves
  BY ClosingFacts, Unselected, SelectionSame
<1>2. ASSUME NEW j \in Instances PROVE Carried(j)
  <2>1. deployed[j] \in RowType /\ deployed'[j] = Closed(deployed[j])
    BY ClosingFacts DEF TypeInv
  <2>2. CASE deployed[j].mode = "closed"
    BY <2>1, <2>2, ClosedRow, SameRow
  <2>3. CASE deployed[j].mode # "closed"
    <3>1. deployed[j].known /\ ~deployed[j].terminated
      BY <2>3, NewRecords DEF RowInv, Registered
    <3> QED
      BY <2>1, <2>3, <3>1, ClosedRow DEF Carried
  <2> QED
    BY <2>2, <2>3
<1> QED
  BY <1>1, <1>2

LEMMA ControllerRows ==
    ASSUME TypeInv, RowInv, CloseAll \/ \E i \in Instances : Controller(i)
    PROVE  Moves /\ \A j \in Instances : Carried(j)
<1>0. \A j \in Instances : deployed[j] \in RowType
  BY DEF TypeInv
<1>1. CASE CloseAll
  BY <1>1, CloseAllRows DEF CloseAll
<1>2. ASSUME NEW i \in Instances, Register(i) PROVE Moves /\ \A j \in Instances : Carried(j)
  <2> DEFINE e == [NoDeployment EXCEPT !.known = TRUE, !.mode = "prepare"]
  <2>1. /\ selection' = selection /\ deployed' = [deployed EXCEPT ![i] = e]
        /\ ~deployed[i].known
    BY <1>2 DEF Register, Registered
  <2>2. /\ e \in RowType /\ Steady(NoDeployment, e)
        /\ e.known /\ ~e.terminated /\ e.mode = "prepare"
    BY RegisteredRow
  <2> HIDE DEF e
  <2>3. deployed'[i] = e /\ \A j \in Instances : j # i => deployed'[j] = deployed[j]
    BY <2>1 DEF TypeInv
  <2>4. deployed[i] = NoDeployment
    BY <2>1 DEF RowInv, Registered
  <2>5. Carried(i)
    BY <2>1, <2>2, <2>3, <2>4, NewRecords DEF Carried
  <2>6. Moves
    BY <2>1, <2>3, <2>4, NewRecords, SelectionSame DEF RowInv
  <2> QED
    BY <2>3, <2>5, <2>6, SameRow
<1>3. ASSUME NEW i \in Instances, NEW until \in 1..(MaxTime + GrantTime), Record(i, until)
      PROVE  Moves /\ \A j \in Instances : Carried(j)
  <2> DEFINE e == [deployed[i] EXCEPT !.readyUntil = until]
  <2>1. /\ selection' = selection /\ deployed' = [deployed EXCEPT ![i] = e]
        /\ deployed[i].known /\ deployed[i].mode = "prepare"
    BY <1>3 DEF Record, Registered, Candidate
  <2>2. /\ e \in RowType /\ Steady(deployed[i], e)
        /\ e.known = deployed[i].known /\ e.terminated = deployed[i].terminated
        /\ e.mode = deployed[i].mode
    <3>1. until \in Nat
      BY GrantAssumption
    <3> QED
      BY <1>0, <3>1, ReadyRow
  <2> HIDE DEF e
  <2>3. deployed'[i] = e /\ \A j \in Instances : j # i => deployed'[j] = deployed[j]
    BY <2>1 DEF TypeInv
  <2>4. Carried(i)
    BY <2>1, <2>2, <2>3 DEF Carried, RowInv
  <2>5. Moves
    BY <2>1, <2>2, <2>3, SelectionSame DEF RowInv
  <2> QED
    BY <2>3, <2>4, <2>5, SameRow
<1>4. ASSUME NEW i \in Instances, NEW m \in Modes,
             (Select(i) /\ m = "serve") \/ (Withdraw(i) /\ m = "closed")
      PROVE  Moves /\ \A j \in Instances : Carried(j)
  <2> DEFINE e == [deployed[i] EXCEPT !.mode = m, !.readyUntil = 0]
  <2>1. /\ deployed' = [deployed EXCEPT ![i] = e] /\ deployed[i].known
        /\ m = "serve" => Select(i) /\ deployed[i].mode = "prepare" /\ selection' = Advanced(i)
        /\ m = "closed" => selection' = Advanced(None) /\ selection.instance = i
    BY <1>4 DEF Select, Withdraw, Registered, Candidate
  <2>2. /\ e \in RowType /\ Steady(deployed[i], e)
        /\ e.known = deployed[i].known /\ e.terminated = deployed[i].terminated /\ e.mode = m
    <3>1. deployed[i] \in RowType /\ 0 \in Nat
      BY <1>0
    <3> QED
      BY <3>1, ModeRow
  <2> HIDE DEF e
  <2>3. deployed'[i] = e /\ \A j \in Instances : j # i => deployed'[j] = deployed[j]
    BY <2>1 DEF TypeInv
  <2>4. ~deployed[i].terminated
    BY <1>4, <2>1 DEF RowInv
  <2>5. Carried(i)
    BY <1>4, <2>1, <2>2, <2>3, <2>4 DEF Carried
  <2>6. Moves
    <3>1. CASE m = "closed"
      BY <2>1, <3>1, Unselected
    <3>2. CASE m = "serve"
      <4>1. selection.epoch \in Nat /\ i \in 0..MaxGen
        BY SelectionFacts, InstanceFacts
      <4> QED
        BY <2>1, <2>2, <2>3, <3>2, <4>1, SelectionFacts DEF Moves
    <3> QED
      BY <1>4, <3>1, <3>2
  <2> QED
    BY <2>3, <2>5, <2>6, SameRow
<1>5. ASSUME NEW i \in Instances, Terminate(i) PROVE Moves /\ \A j \in Instances : Carried(j)
  <2> DEFINE e == [deployed[i] EXCEPT !.mode = "closed", !.terminated = TRUE,
                       !.admitting = FALSE, !.active = 0, !.readyUntil = 0]
  <2>1. /\ deployed' = [deployed EXCEPT ![i] = e]
        /\ deployed[i].known /\ ~deployed[i].terminated /\ owner[i].state = "dead"
        /\ selection' = IF selection.instance = i THEN Advanced(None) ELSE selection
    BY <1>5 DEF Terminate, Registered
  <2>2. /\ e \in RowType /\ Steady(deployed[i], e)
        /\ e.known = deployed[i].known /\ e.terminated /\ e.mode = "closed"
    BY <1>0, TerminatedRow
  <2> HIDE DEF e
  <2>3. deployed'[i] = e /\ \A j \in Instances : j # i => deployed'[j] = deployed[j]
    BY <2>1 DEF TypeInv
  <2>4. Carried(i)
    BY <2>1, <2>2, <2>3 DEF Carried
  <2>5. Moves
    <3>1. CASE selection.instance = i
      BY <2>1, <3>1, Unselected
    <3>2. CASE selection.instance # i
      BY <2>1, <2>3, <3>2, SelectionSame DEF RowInv
    <3> QED
      BY <3>1, <3>2
  <2> QED
    BY <2>3, <2>4, <2>5, SameRow
<1>6. ASSUME NEW i \in Instances, Select(i) \/ Withdraw(i)
      PROVE  Moves /\ \A j \in Instances : Carried(j)
  <2>1. "serve" \in Modes /\ "closed" \in Modes
    BY DEF Modes
  <2> QED
    BY <1>4, <1>6, <2>1
<1> QED
  BY <1>1, <1>2, <1>3, <1>5, <1>6 DEF Controller

-----------------------------------------------------------------------------
(* A renewal.                                                              *)

\* The rows and the selection a renewal starts from.
Rows   == IF ~target.serving THEN DeployedWhenClosed ELSE deployed
Chosen == IF ~target.serving THEN SelectionWhenClosed ELSE selection

LEMMA RowsFacts ==
    ASSUME TypeInv, RowInv
    PROVE  /\ Rows \in [Instances -> RowType]
           /\ \A j \in Instances :
                /\ Steady(deployed[j], Rows[j])
                /\ Rows[j].known = deployed[j].known
                /\ Rows[j].terminated = deployed[j].terminated
                /\ Rows[j].mode \in {deployed[j].mode, "closed"}
                /\ Rows[j].active = deployed[j].active
                /\ Rows[j].mode = "serve" => target.serving
                /\ deployed[j].mode = "closed" => Rows[j] = deployed[j]
           /\ Chosen \in {selection, Advanced(None)}
           /\ \A j \in Instances : Chosen.instance = j => Rows[j].mode = "serve"
<1>1. \A j \in Instances : deployed[j] \in RowType /\ Steady(deployed[j], deployed[j])
  BY DEF TypeInv, Steady
<1>2. CASE target.serving
  BY <1>1, <1>2 DEF Rows, Chosen, TypeInv, RowInv
<1>3. CASE ~target.serving
  <2>1. Rows = DeployedWhenClosed /\ Chosen = SelectionWhenClosed
    BY <1>3 DEF Rows, Chosen
  <2> QED
    BY <1>1, <1>3, <2>1, ClosedRow, ClosingFacts
<1> QED
  BY <1>2, <1>3

LEMMA AckFacts ==
    ASSUME TypeInv, NEW i \in Instances, NEW dep \in RowType, NEW ack \in AckType,
           AckAllowed(i, dep, ack)
    PROVE  LET e == Acknowledged(i, dep, ack) IN
           /\ e \in RowType /\ e.known = dep.known /\ e.mode = dep.mode
           /\ e.terminated = dep.terminated /\ e.highest = dep.highest
           /\ e.lastServe = dep.lastServe /\ e.applied >= dep.applied
           /\ \/ e.appliedMode = dep.appliedMode /\ e.active = dep.active
              \/ /\ ack.seq # 0 /\ e.active = ack.active
                 /\ \E d \in decisions[i] : d.seq = ack.seq /\ e.appliedMode = d.mode
           /\ e.admitting => dep.admitting \/ ack.admitting
           /\ e.active # 0 => dep.active # 0 \/ ack.active # 0
           /\ dep.terminated => e = dep
<1>1. ack.seq \in Nat /\ ack.admitting \in BOOLEAN /\ ack.active \in Nat
  BY DEF AckType
<1>2. dep.applied \in Nat /\ dep.readyUntil \in Nat
  BY DEF RowType
<1>3. CASE ack.seq = 0 \/ ack.seq < dep.applied \/ dep.terminated
  <2>1. Acknowledged(i, dep, ack) = dep
    BY <1>3 DEF Acknowledged
  <2> QED
    BY <1>2, <2>1
<1>4. CASE ~(ack.seq = 0 \/ ack.seq < dep.applied \/ dep.terminated)
  <2> DEFINE m == ModeOf(i, ack.seq)
             u == IF m # "prepare" \/ ack.admitting \/ ack.active # 0 THEN 0 ELSE dep.readyUntil
             e == [dep EXCEPT !.applied = ack.seq, !.appliedMode = m, !.admitting = ack.admitting,
                              !.active = ack.active, !.readyUntil = u]
  <2>1. \E d \in decisions[i] : d.seq = ack.seq
    BY <1>4 DEF AckAllowed
  <2>2. \E d \in decisions[i] : d.seq = ack.seq /\ m = d.mode
    BY <2>1 DEF ModeOf
  <2>3. m \in Modes /\ u \in Nat
    BY <1>2, <2>2 DEF TypeInv, DecisionType
  <2>4. Acknowledged(i, dep, ack) = e
    BY <1>4 DEF Acknowledged
  <2> HIDE DEF m, u
  <2>5. /\ e \in RowType /\ e.known = dep.known /\ e.mode = dep.mode
        /\ e.terminated = dep.terminated /\ e.highest = dep.highest
        /\ e.lastServe = dep.lastServe /\ e.applied = ack.seq /\ e.appliedMode = m
        /\ e.admitting = ack.admitting /\ e.active = ack.active
    BY <1>1, <2>3 DEF RowType
  <2> HIDE DEF e
  <2> QED
    BY <1>1, <1>2, <1>4, <2>2, <2>4, <2>5
<1> QED
  BY <1>3, <1>4

\* What a new decision leaves of those there were.
LEMMA PrunedFacts ==
    ASSUME NEW ds, NEW n
    PROVE  Pruned(ds, n) \subseteq ds
BY DEF Pruned

LEMMA RenewNextFacts ==
    ASSUME TypeInv, RowInv, NEW q \in sent, RenewNext(q.inst, q)
    PROVE  LET i == q.inst
               a == deployed[i]
               b == deployed'[i] IN
           /\ i \in Instances /\ Moves
           /\ deployed' \in [Instances -> RowType]
           /\ \A j \in Instances : j # i =>
                /\ Steady(deployed[j], deployed'[j])
                /\ deployed'[j].known = deployed[j].known
                /\ deployed'[j].terminated = deployed[j].terminated
                /\ deployed'[j].mode \in {deployed[j].mode, "closed"}
                /\ deployed[j].mode = "closed" => deployed'[j] = deployed[j]
           /\ b.known = a.known /\ b.terminated = a.terminated /\ b.mode \in {a.mode, "closed"}
           /\ b.highest = q.seq /\ q.seq > a.highest
           /\ b.lastServe = IF b.mode = "serve" THEN q.seq ELSE a.lastServe
           /\ b.mode = "serve" => target.serving
           /\ b.applied >= a.applied
           /\ \/ b.appliedMode = a.appliedMode /\ b.active = a.active
              \/ /\ q.ack.seq # 0 /\ b.active = q.ack.active
                 /\ \E d \in decisions[i] : d.seq = q.ack.seq /\ b.appliedMode = d.mode
           /\ b.admitting => a.admitting \/ q.ack.admitting
           /\ b.active # 0 => a.active # 0 \/ q.ack.active # 0
           /\ a.terminated /\ a.mode = "closed" => b = [a EXCEPT !.highest = b.highest]
           /\ \E d \in DecisionType :
                /\ d.seq = q.seq /\ d.mode = b.mode /\ d.until = now + GrantTime
                /\ decisions' \in [Instances -> SUBSET DecisionType]
                /\ decisions'[i] \subseteq decisions[i] \cup {d}
                /\ \A j \in Instances : j # i => decisions'[j] = decisions[j]
                /\ Answered(i, d)
<1> DEFINE i == q.inst
           dep == Rows[i]
           acked == Acknowledged(i, dep, q.ack)
           k == IF dep.mode = "serve" THEN q.seq ELSE acked.lastServe
           b == [acked EXCEPT !.highest = q.seq, !.lastServe = k]
           d == [seq |-> q.seq, epoch |-> Chosen.epoch, mode |-> dep.mode, until |-> now + GrantTime]
<1>1. q \in SentType
  BY DEF TypeInv
<1>2. i \in Instances /\ q.seq \in Nat \ {0} /\ q.ack \in AckType
  BY <1>1 DEF SentType
<1>3. dep \in RowType
  BY <1>2, RowsFacts
<1>4. /\ q.seq > dep.highest /\ AckAllowed(i, dep, q.ack)
      /\ selection' = Chosen
      /\ deployed' = [Rows EXCEPT ![i] = b]
      /\ decisions' = [decisions EXCEPT ![i] = Pruned(@ \cup {d}, acked.applied)]
      /\ Answered(i, d)
  BY DEF RenewNext, Decided, Rows, Chosen
<1>5. /\ acked \in RowType /\ acked.known = dep.known /\ acked.mode = dep.mode
      /\ acked.terminated = dep.terminated /\ acked.highest = dep.highest
      /\ acked.lastServe = dep.lastServe /\ acked.applied >= dep.applied
      /\ \/ acked.appliedMode = dep.appliedMode /\ acked.active = dep.active
         \/ /\ q.ack.seq # 0 /\ acked.active = q.ack.active
            /\ \E x \in decisions[i] : x.seq = q.ack.seq /\ acked.appliedMode = x.mode
      /\ acked.admitting => dep.admitting \/ q.ack.admitting
      /\ acked.active # 0 => dep.active # 0 \/ q.ack.active # 0
      /\ dep.terminated => acked = dep
  BY <1>2, <1>3, <1>4, AckFacts
<1>6. k \in Nat /\ dep.mode \in Modes
  BY <1>2, <1>3, <1>5 DEF RowType
<1>7. d \in DecisionType /\ d.seq = q.seq /\ d.mode = dep.mode /\ d.until = now + GrantTime
  <2>1. Chosen.epoch \in Nat
    BY RowsFacts, SelectionFacts, InstanceFacts DEF None
  <2>2. now + GrantTime \in Nat
    BY GrantAssumption DEF TypeInv
  <2> QED
    BY <1>2, <1>6, <2>1, <2>2 DEF DecisionType
<1>8. /\ b \in RowType /\ b.known = acked.known /\ b.mode = acked.mode
      /\ b.terminated = acked.terminated /\ b.highest = q.seq /\ b.lastServe = k
      /\ b.applied = acked.applied /\ b.appliedMode = acked.appliedMode
      /\ b.admitting = acked.admitting /\ b.active = acked.active
  <2> HIDE DEF acked, k
  <2> QED
    BY <1>2, <1>5, <1>6 DEF RowType
<1>9. ASSUME deployed[i].terminated, deployed[i].mode = "closed"
      PROVE  b = [deployed[i] EXCEPT !.highest = b.highest]
  <2>1. dep = deployed[i] /\ acked = deployed[i] /\ k = deployed[i].lastServe
    BY <1>2, <1>5, <1>9, RowsFacts
  <2>2. deployed[i] \in RowType
    BY <1>2 DEF TypeInv
  <2> HIDE DEF acked, k, dep
  <2> QED
    BY <1>8, <2>1, <2>2 DEF RowType
<1> HIDE DEF acked, k, b, d
<1>10. /\ deployed' \in [Instances -> RowType] /\ deployed'[i] = b
       /\ \A j \in Instances : j # i => deployed'[j] = Rows[j]
  BY <1>2, <1>4, <1>8, RowsFacts
<1>11. Moves
  <2>1. CASE Chosen = Advanced(None)
    BY <1>4, <2>1, Unselected
  <2>2. CASE Chosen = selection
    <3>1. \A j \in Instances : selection.instance = j => deployed'[j].mode = "serve"
      BY <1>5, <1>8, <1>10, <2>2, RowsFacts
    <3> QED
      BY <1>4, <2>2, <3>1, SelectionSame
  <2> QED
    BY <2>1, <2>2, RowsFacts
<1>12. /\ decisions' \in [Instances -> SUBSET DecisionType]
       /\ decisions'[i] \subseteq decisions[i] \cup {d}
       /\ \A j \in Instances : j # i => decisions'[j] = decisions[j]
  <2>1. decisions[i] \cup {d} \in SUBSET DecisionType
    BY <1>2, <1>7 DEF TypeInv
  <2>2. Pruned(decisions[i] \cup {d}, acked.applied) \in SUBSET DecisionType
    BY <2>1, PrunedFacts
  <2> QED
    BY <1>2, <1>4, <2>2, PrunedFacts DEF TypeInv
<1>13. \E x \in DecisionType :
         /\ x.seq = q.seq /\ x.mode = b.mode /\ x.until = now + GrantTime
         /\ decisions' \in [Instances -> SUBSET DecisionType]
         /\ decisions'[i] \subseteq decisions[i] \cup {x}
         /\ \A j \in Instances : j # i => decisions'[j] = decisions[j]
         /\ Answered(i, x)
  BY <1>4, <1>5, <1>7, <1>8, <1>12
<1>14. /\ Steady(deployed[i], dep) /\ dep.known = deployed[i].known /\ dep.active = deployed[i].active
       /\ dep.terminated = deployed[i].terminated /\ dep.mode \in {deployed[i].mode, "closed"}
       /\ dep.mode = "serve" => target.serving
  BY <1>2, RowsFacts
<1> HIDE DEF dep
<1>15. /\ b.known = deployed[i].known /\ b.terminated = deployed[i].terminated
       /\ b.mode \in {deployed[i].mode, "closed"}
       /\ b.highest = q.seq /\ q.seq > deployed[i].highest
       /\ b.lastServe = IF b.mode = "serve" THEN q.seq ELSE deployed[i].lastServe
       /\ b.mode = "serve" => target.serving
       /\ b.applied >= deployed[i].applied
       /\ \/ b.appliedMode = deployed[i].appliedMode /\ b.active = deployed[i].active
          \/ /\ q.ack.seq # 0 /\ b.active = q.ack.active
             /\ \E x \in decisions[i] : x.seq = q.ack.seq /\ b.appliedMode = x.mode
       /\ b.admitting => deployed[i].admitting \/ q.ack.admitting
       /\ b.active # 0 => deployed[i].active # 0 \/ q.ack.active # 0
  BY <1>4, <1>5, <1>8, <1>14 DEF Steady, k
<1>16. \A j \in Instances : j # i =>
                /\ Steady(deployed[j], deployed'[j])
                /\ deployed'[j].known = deployed[j].known
                /\ deployed'[j].terminated = deployed[j].terminated
                /\ deployed'[j].mode \in {deployed[j].mode, "closed"}
                /\ deployed[j].mode = "closed" => deployed'[j] = deployed[j]
  BY <1>10, RowsFacts
<1> QED
  BY <1>2, <1>9, <1>10, <1>11, <1>13, <1>15, <1>16

\* A grant given in answer.
LEMMA AnswerFacts ==
    ASSUME TypeInv, NEW i \in Instances, NEW d \in DecisionType, d.until >= now, Answered(i, d)
    PROVE  /\ replies' \subseteq ReplyType
           /\ \A r \in replies' :
                \/ r \in replies
                \/ /\ r.inst = i /\ owner[i].pending /\ r.seq = d.seq /\ r.mode = d.mode
                   /\ r.validFor = d.until - now
<1>1. d.until - now \in Nat /\ d.seq \in Nat \ {0} /\ d.epoch \in Nat /\ d.mode \in Modes
  BY DEF TypeInv, DecisionType
<1>2. /\ Grant(i, d) \in ReplyType /\ Grant(i, d).inst = i /\ Grant(i, d).seq = d.seq
      /\ Grant(i, d).mode = d.mode /\ Grant(i, d).validFor = d.until - now
  BY <1>1 DEF Grant, ReplyType
<1> QED
  BY <1>2 DEF Answered, TypeInv

\* Renew, of a request decided before: the decision it is answered from.
LEMMA RenewAgainFacts ==
    ASSUME TypeInv, NEW q \in sent, RenewAgain(q.inst, q)
    PROVE  /\ q.inst \in Instances /\ UNCHANGED <<selection, deployed, decisions>>
           /\ \E d \in decisions[q.inst] :
                /\ d \in DecisionType /\ d.until > now /\ Answered(q.inst, d)
                /\ d.mode = deployed[q.inst].mode
                /\ d.mode = "serve" => target.serving
<1>1. q.inst \in Instances
  BY DEF TypeInv, SentType
<1>2. PICK d \in decisions[q.inst] :
        /\ d.mode = deployed[q.inst].mode /\ now < d.until /\ Answered(q.inst, d)
  BY DEF RenewAgain
<1>3. d \in DecisionType
  BY <1>1 DEF TypeInv
<1>4. d.until > now
  BY <1>2, <1>3 DEF DecisionType, TypeInv
<1>5. d.mode = "serve" => target.serving
  BY <1>1, <1>2 DEF RenewAgain, AllClosed
<1> QED
  BY <1>1, <1>2, <1>3, <1>4, <1>5 DEF RenewAgain

-----------------------------------------------------------------------------
(* The process.                                                            *)

LEMMA AskFacts ==
    ASSUME TypeInv, NEW i \in Instances, NEW ready \in BOOLEAN, Ask(i, ready)
    PROVE  LET o == owner[i]
               p == owner'[i] IN
           /\ UNCHANGED <<now, store, replies, active>>
           /\ owner' \in [Instances -> OwnerType]
           /\ \A j \in Instances : j # i => owner'[j] = owner[j]
           /\ o.state = "up" /\ p.state = "up" /\ ~o.pending /\ p.pending
           /\ p.started = now /\ p.held = o.held /\ p.mode = o.mode /\ p.expires = o.expires
           /\ \E x \in SentType :
                /\ sent' = sent \cup {x} /\ x.inst = i
                /\ x.ack.seq # 0 => x.ack.seq = o.held
                /\ x.ack.admitting => o.held # 0 /\ o.mode = "serve"
                /\ x.ack.active # 0 => active[i] # 0
                /\ x.ack.seq # 0 => x.ack.active = active[i]
<1> DEFINE o == owner[i]
           ack == IF o.held = 0 THEN NoAck
                  ELSE [seq |-> o.held, epoch |-> o.epoch, active |-> active[i],
                        admitting |-> ready /\ Mode(i) = "serve"]
           x == [inst |-> i, seq |-> o.seq + 1, ack |-> ack]
           p == [o EXCEPT !.seq = o.seq + 1, !.pending = TRUE, !.started = now]
<1>1. /\ o \in OwnerType /\ active[i] \in Nat /\ now \in Nat
  BY DEF TypeInv
<1>2. /\ sent' = sent \cup {x} /\ o.state = "up" /\ ~o.pending
      /\ UNCHANGED <<now, store, replies, active>>
  BY DEF Ask
<1>3. owner' = [owner EXCEPT ![i] = p]
  BY DEF Ask, TypeInv
<1>4. /\ p \in OwnerType /\ p.state = o.state /\ p.pending /\ p.started = now
      /\ p.held = o.held /\ p.mode = o.mode /\ p.expires = o.expires
  <2>1. o.seq + 1 \in Nat
    BY <1>1 DEF OwnerType
  <2>2. ASSUME NEW b \in BOOLEAN
        PROVE  LET y == [o EXCEPT !.seq = o.seq + 1, !.pending = b, !.started = now] IN
               /\ y \in OwnerType /\ y.state = o.state /\ y.pending = b /\ y.started = now
               /\ y.held = o.held /\ y.mode = o.mode /\ y.expires = o.expires
    BY <1>1, <2>1 DEF OwnerType
  <2>3. TRUE \in BOOLEAN
    OBVIOUS
  <2> QED
    BY <2>2, <2>3, Zenon
<1>5. /\ ack \in AckType /\ (ack.seq # 0 => ack.seq = o.held)
      /\ ack.admitting => o.held # 0 /\ o.mode = "serve"
      /\ ack.active # 0 => active[i] # 0
      /\ ack.seq # 0 => ack.active = active[i]
  <2>1. CASE o.held = 0
    BY <2>1, NewRecords
  <2>2. CASE o.held # 0
    <3>1. ASSUME NEW b \in BOOLEAN
          PROVE  LET y == [seq |-> o.held, epoch |-> o.epoch, active |-> active[i],
                           admitting |-> b] IN
                 y \in AckType /\ y.seq = o.held /\ y.admitting = b /\ y.active = active[i]
      BY <1>1 DEF AckType, OwnerType
    <3>2. (ready /\ Mode(i) = "serve") \in BOOLEAN
      OBVIOUS
    <3>3. /\ ack \in AckType /\ ack.seq = o.held /\ ack.active = active[i]
          /\ ack.admitting = (ready /\ Mode(i) = "serve")
      BY <2>2, <3>1, <3>2, Zenon
    <3>4. Mode(i) = "serve" => o.mode = "serve"
      BY DEF Mode
    <3> QED
      BY <2>2, <3>3, <3>4, Zenon
  <2> QED
    BY <2>1, <2>2
<1>6. x \in SentType /\ x.inst = i /\ x.ack = ack
  <2>1. o.seq + 1 \in Nat \ {0}
    BY <1>1 DEF OwnerType
  <2> HIDE DEF ack
  <2> QED
    BY <1>5, <2>1 DEF SentType
<1> HIDE DEF p, x, ack
<1>7. /\ owner'[i] = p /\ owner' \in [Instances -> OwnerType]
      /\ \A j \in Instances : j # i => owner'[j] = owner[j]
  BY <1>3, <1>4 DEF TypeInv
<1>8. \E y \in SentType :
        /\ sent' = sent \cup {y} /\ y.inst = i
        /\ y.ack.seq # 0 => y.ack.seq = o.held
        /\ y.ack.admitting => o.held # 0 /\ o.mode = "serve"
        /\ y.ack.active # 0 => active[i] # 0
        /\ y.ack.seq # 0 => y.ack.active = active[i]
  BY <1>2, <1>5, <1>6
<1> QED
  BY <1>2, <1>4, <1>7, <1>8

LEMMA ReceiveFacts ==
    ASSUME TypeInv, RowInv, NEW i \in Instances, NEW r \in replies, Receive(i, r)
    PROVE  LET o == owner[i]
               p == owner'[i] IN
           /\ UNCHANGED <<now, store, active>>
           /\ owner' \in [Instances -> OwnerType]
           /\ \A j \in Instances : j # i => owner'[j] = owner[j]
           /\ sent' \subseteq sent /\ replies' = {x \in replies : x.inst # i}
           /\ r \in ReplyType /\ r.inst = i /\ o.state = "up" /\ p.state = "up"
           /\ p.started = 0 /\ p.held = r.seq /\ p.held # 0
           /\ p.mode = r.mode /\ p.expires = o.started + r.validFor
<1> DEFINE o == owner[i]
           e == o.started + r.validFor
           p == [o EXCEPT !.pending = FALSE, !.started = 0, !.held = r.seq, !.epoch = r.epoch,
                          !.mode = r.mode, !.expires = e]
<1>1. o \in OwnerType /\ r \in ReplyType
  BY DEF TypeInv
<1>2. e \in Nat /\ r.seq \in Nat /\ r.epoch \in Nat /\ r.mode \in Modes
  BY <1>1 DEF OwnerType, ReplyType
<1>3. /\ UNCHANGED <<now, store, active>> /\ o.pending /\ r.inst = i
      /\ sent' \subseteq sent /\ replies' = {x \in replies : x.inst # i}
      /\ owner' = [owner EXCEPT ![i] = p]
  BY DEF Receive, EndExchange, Expiry
<1>4. o.state = "up"
  BY <1>3 DEF RowInv
<1>5. /\ p \in OwnerType /\ p.state = o.state /\ p.started = 0 /\ p.held = r.seq
      /\ p.mode = r.mode /\ p.expires = e
  <2> HIDE DEF e
  <2>1. ASSUME NEW b \in BOOLEAN
        PROVE  LET y == [o EXCEPT !.pending = b, !.started = 0, !.held = r.seq,
                                  !.epoch = r.epoch, !.mode = r.mode, !.expires = e] IN
               /\ y \in OwnerType /\ y.state = o.state /\ y.started = 0 /\ y.held = r.seq
               /\ y.mode = r.mode /\ y.expires = e
    BY <1>1, <1>2 DEF OwnerType
  <2>2. FALSE \in BOOLEAN
    OBVIOUS
  <2> QED
    BY <2>1, <2>2, Zenon
<1> HIDE DEF p
<1>6. /\ owner'[i] = p /\ owner' \in [Instances -> OwnerType]
      /\ \A j \in Instances : j # i => owner'[j] = owner[j]
  BY <1>3, <1>5 DEF TypeInv
<1>7. r.seq # 0
  BY <1>1 DEF ReplyType
<1> QED
  BY <1>1, <1>3, <1>4, <1>5, <1>6, <1>7

LEMMA EndFacts ==
    ASSUME TypeInv, NEW i \in Instances, Stop(i) \/ Die(i)
    PROVE  LET p == owner'[i] IN
           /\ UNCHANGED <<now, store>>
           /\ owner' \in [Instances -> OwnerType] /\ active' \in [Instances -> Nat]
           /\ \A j \in Instances : j # i => owner'[j] = owner[j] /\ active'[j] = active[j]
           /\ sent' \subseteq sent /\ replies' = {x \in replies : x.inst # i}
           /\ p.held = 0 /\ ~p.pending /\ p.started = 0 /\ p.state # "up"
           /\ owner[i].state # "dead"
           /\ active'[i] \in {0, active[i]} /\ (p.state = "dead" => active'[i] = 0)
<1>1. CASE Stop(i)
  BY <1>1, NewRecords DEF Stop, EndExchange, TypeInv
<1>2. CASE Die(i)
  <2> DEFINE p == [NewOwner EXCEPT !.state = "dead"]
  <2>1. p \in OwnerType /\ p.state = "dead" /\ p.held = 0 /\ ~p.pending /\ p.started = 0
    <3>1. ASSUME NEW o \in OwnerType
          PROVE  LET y == [o EXCEPT !.state = "dead"] IN
                 /\ y \in OwnerType /\ y.state = "dead" /\ y.held = o.held
                 /\ y.pending = o.pending /\ y.started = o.started
      BY DEF OwnerType
    <3> QED
      BY <3>1, NewRecords, Zenon
  <2>2. /\ owner' = [owner EXCEPT ![i] = p] /\ active' = [active EXCEPT ![i] = 0]
        /\ owner[i].state = "stopped" /\ UNCHANGED <<now, store>>
        /\ sent' \subseteq sent /\ replies' = {x \in replies : x.inst # i}
    BY <1>2 DEF Die, EndExchange
  <2> HIDE DEF p
  <2> QED
    BY <2>1, <2>2 DEF TypeInv
<1> QED
  BY <1>1, <1>2

LEMMA CallFacts ==
    ASSUME TypeInv, NEW i \in Instances, BeginCall(i) \/ EndCall(i)
    PROVE  /\ UNCHANGED <<now, store, sent, replies, owner>>
           /\ active' \in [Instances -> Nat]
           /\ \A j \in Instances : j # i => active'[j] = active[j]
           /\ active[i] # 0 \/ Mode(i) = "serve"
           /\ active'[i] <= active[i] \/ Mode(i) = "serve"
<1>1. active[i] \in Nat
  BY DEF TypeInv
<1> QED
  BY <1>1 DEF BeginCall, EndCall, TypeInv

LEMMA ControllerFrame ==
    ASSUME TypeInv, RowInv, CloseAll \/ \E i \in Instances : Controller(i)
    PROVE  /\ UNCHANGED <<now, target, decisions, stoppedAt, sent, replies, owner, active>>
           /\ deployed' \in [Instances -> RowType]
<1>1. UNCHANGED <<now, target, decisions, stoppedAt, sent, replies, owner, active>>
  BY DEF CloseAll, Controller, Register, Record, Select, Withdraw, Terminate, process
<1>2. deployed' = [j \in Instances |-> deployed'[j]]
  <2>1. CASE CloseAll
    BY <2>1 DEF CloseAll, DeployedWhenClosed
  <2>2. ASSUME NEW i \in Instances, NEW e, deployed' = [deployed EXCEPT ![i] = e]
        PROVE  deployed' = [j \in Instances |-> deployed'[j]]
    BY <2>2 DEF TypeInv
  <2>3. ASSUME NEW i \in Instances, Controller(i)
        PROVE  \E e : deployed' = [deployed EXCEPT ![i] = e]
    BY <2>3 DEF Controller, Register, Record, Select, Withdraw, Terminate
  <2> QED
    BY <2>1, <2>2, <2>3
<1>3. \A j \in Instances : deployed'[j] \in RowType
  BY ControllerRows DEF Carried
<1> QED
  BY <1>1, <1>2, <1>3

LEMMA BaseInit == Init => TypeInv /\ RowInv
<1> SUFFICES ASSUME Init PROVE TypeInv /\ RowInv
  OBVIOUS
<1>1. TypeInv
  <2>1. /\ [gen |-> 1, serving |-> TRUE] \in [gen : Nat, serving : BOOLEAN]
    <3>1. \A b \in BOOLEAN : [gen |-> 1, serving |-> b] \in [gen : Nat, serving : BOOLEAN]
      OBVIOUS
    <3> QED
      BY <3>1
  <2>2. [epoch |-> 1, instance |-> None] \in [epoch : Nat, instance : 0..MaxGen]
    BY InstanceFacts DEF None
  <2> QED
    BY <2>1, <2>2, NewRecords DEF Init, TypeInv
<1>2. RowInv
  <2>1. \A i \in Instances : selection.instance # i
    BY InstanceFacts DEF Init
  <2> QED
    BY <2>1, NewRecords DEF Init, RowInv
<1> QED
  BY <1>1, <1>2

LEMMA BaseNext == TypeInv /\ RowInv /\ [Next]_vars => TypeInv' /\ RowInv'
<1> SUFFICES ASSUME TypeInv, RowInv, [Next]_vars PROVE TypeInv' /\ RowInv'
  OBVIOUS
<1>1. CASE UNCHANGED vars
  BY <1>1 DEF vars, TypeInv, RowInv, Registered
<1>2. CASE Tick
  <2>1. now' \in Nat /\ UNCHANGED <<target, selection, deployed, decisions, stoppedAt, sent,
                                    replies, owner, active>>
    BY <1>2 DEF Tick, store, process, TypeInv
  <2> QED
    BY <2>1 DEF TypeInv, RowInv, Registered
<1>3. ASSUME NEW serving \in BOOLEAN, Decide(serving) PROVE TypeInv' /\ RowInv'
  <2>1. /\ target' \in [gen : Nat, serving : BOOLEAN] /\ stoppedAt' \in Nat
        /\ UNCHANGED <<now, selection, deployed, decisions, sent, replies, owner, active>>
    <3>1. target.gen + 1 \in Nat
      BY DEF TypeInv
    <3>2. [gen |-> target.gen + 1, serving |-> serving] \in [gen : Nat, serving : BOOLEAN]
      BY <3>1
    <3> QED
      BY <1>3, <3>2 DEF Decide, process, TypeInv
  <2> QED
    BY <2>1 DEF TypeInv, RowInv, Registered
<1>4. ASSUME CloseAll \/ \E i \in Instances : Controller(i) PROVE TypeInv' /\ RowInv'
  <2>1. Moves /\ \A j \in Instances : Carried(j)
    BY <1>4, ControllerRows
  <2>2. /\ UNCHANGED <<now, target, decisions, stoppedAt, sent, replies, owner, active>>
        /\ deployed' \in [Instances -> RowType]
    BY <1>4, ControllerFrame
  <2>3. TypeInv'
    BY <2>1, <2>2 DEF TypeInv, Moves
  <2> QED
    BY <2>1, <2>2, <2>3 DEF RowInv, Registered, Moves, Carried
<1>5. ASSUME NEW q \in sent, Renew(q) PROVE TypeInv' /\ RowInv'
  <2>0. UNCHANGED <<now, target, stoppedAt, sent, owner, active>> /\ deployed[q.inst].known
    BY <1>5 DEF Renew, process, Registered
  <2>1. CASE RenewNext(q.inst, q)
    <3>1. /\ q.inst \in Instances /\ Moves /\ deployed' \in [Instances -> RowType]
          /\ \A j \in Instances : j # q.inst =>
                /\ deployed'[j].known = deployed[j].known
                /\ deployed'[j].terminated = deployed[j].terminated
                /\ deployed'[j].mode \in {deployed[j].mode, "closed"}
                /\ deployed[j].mode = "closed" => deployed'[j] = deployed[j]
          /\ deployed'[q.inst].known = deployed[q.inst].known
          /\ deployed'[q.inst].terminated = deployed[q.inst].terminated
          /\ deployed'[q.inst].mode \in {deployed[q.inst].mode, "closed"}
      BY <2>1, RenewNextFacts
    <3>2. /\ decisions' \in [Instances -> SUBSET DecisionType]
          /\ \E d \in DecisionType : d.until = now + GrantTime /\ Answered(q.inst, d)
      BY <2>1, RenewNextFacts
    <3>3. replies' \subseteq ReplyType
      <4>1. PICK d \in DecisionType : d.until = now + GrantTime /\ Answered(q.inst, d)
        BY <3>2
      <4>2. d.until >= now
        BY <4>1, GrantAssumption DEF TypeInv
      <4> QED
        BY <3>1, <4>1, <4>2, AnswerFacts
    <3>4. TypeInv'
      BY <2>0, <3>1, <3>2, <3>3 DEF TypeInv, Moves
    <3>5. \A j \in Instances : ~deployed'[j].known => deployed'[j] = NoDeployment
      <4> SUFFICES ASSUME NEW j \in Instances, ~deployed'[j].known
                   PROVE  deployed'[j] = NoDeployment
        OBVIOUS
      <4>1. j # q.inst
        BY <2>0, <3>1, Zenon
      <4>2. ~deployed[j].known
        BY <3>1, <4>1, Zenon
      <4>3. deployed[j] = NoDeployment
        BY <4>2 DEF RowInv, Registered
      <4> QED
        BY <3>1, <4>1, <4>3, NewRecords
    <3>6. \A j \in Instances : deployed'[j].terminated =>
             deployed'[j].mode = "closed" /\ owner[j].state = "dead"
      BY <3>1 DEF RowInv
    <3> QED
      BY <2>0, <3>1, <3>4, <3>5, <3>6 DEF RowInv, Registered, Moves
  <2>2. CASE RenewAgain(q.inst, q)
    <3>1. UNCHANGED <<selection, deployed, decisions>> /\ replies' \subseteq ReplyType
      <4>1. PICK d \in decisions[q.inst] : d \in DecisionType /\ d.until > now /\ Answered(q.inst, d)
        BY <2>2, RenewAgainFacts
      <4>2. d.until >= now
        BY <4>1 DEF TypeInv, DecisionType
      <4> QED
        BY <2>2, <4>1, <4>2, AnswerFacts, RenewAgainFacts
    <3> QED
      BY <2>0, <3>1 DEF TypeInv, RowInv, Registered
  <2> QED
    BY <1>5, <2>1, <2>2 DEF Renew
<1>6. ASSUME NEW i \in Instances, NEW ready \in BOOLEAN, Ask(i, ready) PROVE TypeInv' /\ RowInv'
  <2>1. /\ UNCHANGED <<now, target, selection, deployed, decisions, stoppedAt, replies, active>>
        /\ owner' \in [Instances -> OwnerType] /\ sent' \subseteq SentType
        /\ \A j \in Instances : j # i => owner'[j] = owner[j]
        /\ owner[i].state = "up" /\ owner'[i].state = "up"
    BY <1>6, AskFacts DEF store, TypeInv
  <2> QED
    BY <2>1 DEF TypeInv, RowInv, Registered
<1>7. ASSUME NEW i \in Instances, NEW r \in replies, Receive(i, r) PROVE TypeInv' /\ RowInv'
  <2>1. /\ UNCHANGED <<now, target, selection, deployed, decisions, stoppedAt, active>>
        /\ owner' \in [Instances -> OwnerType] /\ sent' \subseteq SentType
        /\ replies' \subseteq ReplyType
        /\ \A j \in Instances : j # i => owner'[j] = owner[j]
        /\ owner[i].state = "up" /\ owner'[i].state = "up"
    BY <1>7, ReceiveFacts DEF store, TypeInv
  <2> QED
    BY <2>1 DEF TypeInv, RowInv, Registered
<1>8. ASSUME NEW i \in Instances, Stop(i) \/ Die(i) PROVE TypeInv' /\ RowInv'
  <2>1. /\ UNCHANGED <<now, target, selection, deployed, decisions, stoppedAt>>
        /\ owner' \in [Instances -> OwnerType] /\ active' \in [Instances -> Nat]
        /\ sent' \subseteq SentType /\ replies' \subseteq ReplyType
        /\ \A j \in Instances : j # i => owner'[j] = owner[j] /\ active'[j] = active[j]
        /\ owner'[i].held = 0 /\ ~owner'[i].pending /\ owner[i].state # "dead"
        /\ owner'[i].state = "dead" => active'[i] = 0
    BY <1>8, EndFacts DEF store, TypeInv
  <2> QED
    BY <2>1 DEF TypeInv, RowInv, Registered
<1>9. ASSUME NEW i \in Instances, BeginCall(i) \/ EndCall(i) PROVE TypeInv' /\ RowInv'
  <2>1. /\ UNCHANGED <<now, target, selection, deployed, decisions, stoppedAt, sent, replies, owner>>
        /\ active' \in [Instances -> Nat]
        /\ \A j \in Instances : j # i => active'[j] = active[j]
        /\ active[i] # 0 \/ Mode(i) = "serve"
    BY <1>9, CallFacts DEF store
  <2>2. owner[i].state # "dead"
    BY <2>1 DEF RowInv, Mode
  <2> QED
    BY <2>1, <2>2 DEF TypeInv, RowInv, Registered
<1> QED
  BY <1>1, <1>2, <1>3, <1>4, <1>5, <1>6, <1>7, <1>8, <1>9 DEF Next, Grants, Gateway

LEMMA BaseCorrect == Spec => [](TypeInv /\ RowInv)
BY BaseInit, BaseNext, PTL DEF Spec

-----------------------------------------------------------------------------
(* An identity that is closed is not opened again.                         *)

\* What NeverRevived asks of one row in one step, and of the selection.
StaysClosed(i) ==
    Registered(i) =>
        /\ deployed[i].mode = "closed" => deployed'[i].mode = "closed"
        /\ deployed[i].terminated => deployed'[i] = [deployed[i] EXCEPT !.highest = deployed'[i].highest]
        /\ deployed'[i].applied >= deployed[i].applied
EpochGrows ==
    /\ selection'.epoch >= selection.epoch
    /\ selection'.instance # selection.instance => selection'.epoch > selection.epoch

LEMMA SameStaysClosed ==
    ASSUME TypeInv, NEW i \in Instances, deployed'[i] = deployed[i]
    PROVE  StaysClosed(i)
<1>1. deployed[i] \in RowType
  BY DEF TypeInv
<1>2. deployed[i].applied \in Nat /\ deployed[i] = [deployed[i] EXCEPT !.highest = deployed[i].highest]
  BY <1>1 DEF RowType
<1> QED
  BY <1>2 DEF StaysClosed

LEMMA RevivedNext ==
    TypeInv /\ RowInv /\ [Next]_vars => EpochGrows /\ \A i \in Instances : StaysClosed(i)
<1> SUFFICES ASSUME TypeInv, RowInv, [Next]_vars
             PROVE  EpochGrows /\ \A i \in Instances : StaysClosed(i)
  OBVIOUS
<1>1. CASE selection' = selection /\ deployed' = deployed
  <2>1. selection.epoch \in Nat
    BY SelectionFacts
  <2> QED
    BY <1>1, <2>1, SameStaysClosed DEF EpochGrows
<1>2. ASSUME CloseAll \/ \E i \in Instances : Controller(i)
      PROVE  EpochGrows /\ \A i \in Instances : StaysClosed(i)
  <2>1. Moves /\ \A j \in Instances : Carried(j)
    BY <1>2, ControllerRows
  <2>2. ASSUME NEW i \in Instances PROVE StaysClosed(i)
    <3>1. CASE deployed[i].terminated
      BY <2>1, <3>1, SameStaysClosed DEF Carried
    <3>2. CASE ~deployed[i].terminated
      <4>1. deployed[i].applied \in Nat
        BY DEF TypeInv, RowType
      <4> QED
        BY <2>1, <3>2, <4>1 DEF Carried, Steady, StaysClosed, Registered
    <3> QED
      BY <3>1, <3>2
  <2> QED
    BY <2>1, <2>2 DEF Moves, EpochGrows
<1>3. ASSUME NEW q \in sent, RenewNext(q.inst, q)
      PROVE  EpochGrows /\ \A i \in Instances : StaysClosed(i)
  <2>1. /\ q.inst \in Instances /\ Moves
        /\ \A j \in Instances : j # q.inst =>
                /\ Steady(deployed[j], deployed'[j])
                /\ deployed'[j].mode \in {deployed[j].mode, "closed"}
                /\ deployed[j].mode = "closed" => deployed'[j] = deployed[j]
        /\ deployed'[q.inst].mode \in {deployed[q.inst].mode, "closed"}
        /\ deployed'[q.inst].applied >= deployed[q.inst].applied
        /\ deployed[q.inst].terminated /\ deployed[q.inst].mode = "closed" =>
             deployed'[q.inst] = [deployed[q.inst] EXCEPT !.highest = deployed'[q.inst].highest]
    BY <1>3, RenewNextFacts
  <2>2. StaysClosed(q.inst)
    BY <2>1 DEF RowInv, StaysClosed
  <2>3. ASSUME NEW j \in Instances, j # q.inst PROVE StaysClosed(j)
    <3>1. CASE deployed[j].mode = "closed"
      BY <2>1, <2>3, <3>1, SameStaysClosed
    <3>2. CASE deployed[j].mode # "closed"
      <4>1. deployed[j].applied \in Nat
        BY DEF TypeInv, RowType
      <4> QED
        BY <2>1, <2>3, <3>2, <4>1 DEF Steady, StaysClosed, RowInv
    <3> QED
      BY <3>1, <3>2
  <2> QED
    BY <2>1, <2>2, <2>3 DEF Moves, EpochGrows
<1>4. ASSUME NEW q \in sent, Renew(q)
      PROVE  EpochGrows /\ \A i \in Instances : StaysClosed(i)
  BY <1>1, <1>3, <1>4, RenewAgainFacts DEF Renew
<1>5. ASSUME NEW i \in Instances, Gateway(i) \/ BeginCall(i) \/ EndCall(i) \/ Die(i)
      PROVE  selection' = selection /\ deployed' = deployed
  BY <1>5 DEF Gateway, Ask, Receive, Stop, Die, BeginCall, EndCall, store
<1>6. ASSUME Tick \/ (\E serving \in BOOLEAN : Decide(serving)) \/ UNCHANGED vars
      PROVE  selection' = selection /\ deployed' = deployed
  BY <1>6 DEF Tick, Decide, vars, store
<1> QED
  BY <1>1, <1>2, <1>4, <1>5, <1>6 DEF Next, Grants

\* A deployment that was closed or terminated stays so, and epochs and
\* acknowledged sequences only grow (serving/transitions.rs, renewals.rs).
THEOREM RevivedCorrect == Spec => NeverRevived
<1>1. TypeInv /\ RowInv /\ [Next]_vars =>
        [/\ selection'.epoch >= selection.epoch
         /\ selection'.instance # selection.instance => selection'.epoch > selection.epoch
         /\ \A i \in Instances : Registered(i) =>
              /\ deployed[i].mode = "closed" => deployed'[i].mode = "closed"
              /\ deployed[i].terminated =>
                   deployed'[i] = [deployed[i] EXCEPT !.highest = deployed'[i].highest]
              /\ deployed'[i].applied >= deployed[i].applied]_vars
  BY RevivedNext DEF StaysClosed, EpochGrows
<1> QED
  BY <1>1, BaseCorrect, PTL DEF Spec, NeverRevived

-----------------------------------------------------------------------------
(* What is under way agrees with the store.                                *)

\* Decision n of a deployment is of mode m, as far as the store still knows it,
\* and if that is SERVE then the row says that SERVE was given.
Says(i, n, m) ==
    /\ n <= deployed[i].highest
    /\ \A d \in decisions[i] : d.seq = n => d.mode = m
    /\ m = "serve" => deployed[i].lastServe > 0

\* A process that has ended, or holds a closed grant, begins no call any more.
Quiet(i) == owner[i].state # "up" \/ (owner[i].held # 0 /\ owner[i].mode = "closed")
Shut(i)  == deployed[i].known /\ deployed[i].mode = "closed"

RowWire(i) ==
    /\ deployed[i].appliedMode = "closed" => Quiet(i) /\ active[i] <= deployed[i].active
    /\ deployed[i].admitting \/ deployed[i].active # 0 \/ active[i] # 0 => deployed[i].lastServe > 0
    /\ \A d \in decisions[i] :
        /\ d.seq <= deployed[i].highest
        /\ d.mode = "serve" => deployed[i].lastServe > 0
        /\ \A e \in decisions[i] : d.seq = e.seq => d = e
OwnerWire(i) ==
    owner[i].held # 0 => /\ Says(i, owner[i].held, owner[i].mode)
                         /\ owner[i].mode = "closed" => Shut(i)
ReplyWire(r) ==
    /\ owner[r.inst].pending /\ Says(r.inst, r.seq, r.mode)
    /\ r.mode = "closed" => Shut(r.inst)
    /\ owner[r.inst].held # 0 /\ owner[r.inst].mode = "closed" => r.mode = "closed"
SentWire(q) ==
    /\ q.ack.seq # 0 => \E m \in Modes :
            /\ Says(q.inst, q.ack.seq, m)
            /\ m = "closed" => Quiet(q.inst) /\ active[q.inst] <= q.ack.active
    /\ q.ack.admitting \/ q.ack.active # 0 => deployed[q.inst].lastServe > 0

\* Why a process that may be busy is always seen by the store: whoever holds, is
\* sent or acknowledges SERVE has a row whose lastServe says so; and what was
\* acknowledged of a closed grant still bounds the calls in progress, since the
\* process has begun none after it.
WireInv ==
    /\ \A i \in Instances : RowWire(i) /\ OwnerWire(i)
    /\ \A r \in replies : ReplyWire(r)
    /\ \A q \in sent : SentWire(q)

LEMMA WireInit == Init => WireInv
BY NewRecords DEF Init, WireInv, RowWire, OwnerWire

\* A step that changes no process, and whose new decisions have new sequences.
NewDecisions(i) == \A d \in decisions'[i] : d \in decisions[i] \/ d.seq > deployed[i].highest
RowGrows(i) ==
    /\ deployed'[i].highest >= deployed[i].highest
    /\ deployed[i].lastServe > 0 => deployed'[i].lastServe > 0
    /\ Shut(i) => Shut(i)'

LEMMA SaysKept ==
    ASSUME TypeInv, TypeInv', NEW i \in Instances, NewDecisions(i), RowGrows(i)
    PROVE  \A n \in Nat : \A m : Says(i, n, m) => Says(i, n, m)'
<1>1. deployed[i].highest \in Nat /\ deployed'[i].highest \in Nat
  BY DEF TypeInv, RowType
<1>2. \A d \in decisions'[i] : d.seq \in Nat
  BY DEF TypeInv, DecisionType
<1> QED
  BY <1>1, <1>2 DEF Says, NewDecisions, RowGrows

LEMMA StoreKeeps ==
    ASSUME TypeInv, WireInv, TypeInv', owner' = owner, active' = active,
           \A i \in Instances : NewDecisions(i) /\ RowGrows(i)
    PROVE  /\ \A i \in Instances : OwnerWire(i)'
           /\ \A r \in replies : ReplyWire(r)'
           /\ \A q \in sent : SentWire(q)'
<1>1. ASSUME NEW i \in Instances PROVE OwnerWire(i)'
  <2>1. owner[i].held \in Nat /\ OwnerWire(i)
    BY DEF TypeInv, OwnerType, WireInv
  <2>2. Says(i, owner[i].held, owner[i].mode) => Says(i, owner[i].held, owner[i].mode)'
    BY <2>1, SaysKept DEF Says
  <2> QED
    BY <2>1, <2>2 DEF OwnerWire, RowGrows
<1>2. ASSUME NEW r \in replies PROVE ReplyWire(r)'
  <2>1. r.inst \in Instances /\ r.seq \in Nat /\ ReplyWire(r)
    BY DEF TypeInv, ReplyType, WireInv
  <2>2. Says(r.inst, r.seq, r.mode)'
    BY <2>1, SaysKept DEF ReplyWire
  <2> QED
    BY <2>1, <2>2 DEF ReplyWire, RowGrows
<1>3. ASSUME NEW q \in sent PROVE SentWire(q)'
  <2>1. q.inst \in Instances /\ q.ack.seq \in Nat /\ SentWire(q)
    BY DEF TypeInv, SentType, AckType, WireInv
  <2>2. \A m : Says(q.inst, q.ack.seq, m) => Says(q.inst, q.ack.seq, m)'
    BY <2>1, SaysKept
  <2>3. deployed[q.inst].lastServe > 0 => deployed'[q.inst].lastServe > 0
    BY <2>1 DEF RowGrows
  <2>4. Quiet(q.inst)' <=> Quiet(q.inst)
    BY DEF Quiet
  <2> QED
    BY <2>1, <2>2, <2>3, <2>4 DEF SentWire
<1> QED
  BY <1>1, <1>2, <1>3

LEMMA SteadyWire ==
    ASSUME TypeInv, RowInv', NEW i \in Instances, RowWire(i), Steady(deployed[i], deployed'[i]),
           Shut(i) => Shut(i)', owner' = owner, active' = active,
           decisions'[i] = decisions[i], deployed'[i] \in RowType
    PROVE  RowWire(i)' /\ NewDecisions(i) /\ RowGrows(i)
<1>1. deployed[i].highest \in Nat /\ deployed[i].lastServe \in Nat
  BY DEF TypeInv, RowType
<1>2. deployed'[i].appliedMode = "closed" => Quiet(i)' /\ active'[i] <= deployed'[i].active
  <2>1. Quiet(i)' <=> Quiet(i)
    BY DEF Quiet
  <2>2. active[i] \in Nat /\ deployed'[i].active \in Nat
    BY DEF TypeInv, RowType
  <2>3. CASE deployed'[i].terminated
    <3>1. active[i] = 0
      BY <2>3 DEF RowInv
    <3> QED
      BY <2>1, <2>2, <3>1 DEF RowWire, Steady
  <2>4. CASE ~deployed'[i].terminated
    BY <2>1, <2>4 DEF RowWire, Steady
  <2> QED
    BY <2>3, <2>4
<1> QED
  BY <1>1, <1>2 DEF RowWire, Steady, NewDecisions, RowGrows

LEMMA RenewNextWire ==
    ASSUME TypeInv, RowInv, WireInv, TypeInv', RowInv', NEW q \in sent, RenewNext(q.inst, q),
           Registered(q.inst), UNCHANGED <<sent, owner, active>>
    PROVE  WireInv'
<1> DEFINE i == q.inst
<1>1. PICK d \in DecisionType :
        /\ d.seq = q.seq /\ d.mode = deployed'[i].mode
        /\ decisions'[i] \subseteq decisions[i] \cup {d}
        /\ \A j \in Instances : j # i => decisions'[j] = decisions[j]
        /\ d.until = now + GrantTime /\ Answered(i, d)
  BY RenewNextFacts
<1>2. /\ i \in Instances
      /\ \A j \in Instances : j # i => /\ Steady(deployed[j], deployed'[j])
                                       /\ deployed'[j].known = deployed[j].known
                                       /\ deployed'[j].mode \in {deployed[j].mode, "closed"}
      /\ deployed'[i].known = deployed[i].known
      /\ deployed'[i].mode \in {deployed[i].mode, "closed"}
      /\ deployed'[i].highest = q.seq /\ q.seq > deployed[i].highest
      /\ deployed'[i].lastServe = IF deployed'[i].mode = "serve" THEN q.seq ELSE deployed[i].lastServe
      /\ \/ deployed'[i].appliedMode = deployed[i].appliedMode /\ deployed'[i].active = deployed[i].active
         \/ /\ q.ack.seq # 0 /\ deployed'[i].active = q.ack.active
            /\ \E x \in decisions[i] : x.seq = q.ack.seq /\ deployed'[i].appliedMode = x.mode
      /\ deployed'[i].admitting => deployed[i].admitting \/ q.ack.admitting
      /\ deployed'[i].active # 0 => deployed[i].active # 0 \/ q.ack.active # 0
  BY RenewNextFacts
<1>3. /\ q.seq \in Nat \ {0} /\ deployed[i].highest \in Nat /\ deployed[i].lastServe \in Nat
      /\ deployed'[i].lastServe \in Nat
  BY <1>2 DEF TypeInv, SentType, RowType
<1>4. RowGrows(i) /\ NewDecisions(i) /\ (deployed'[i].mode = "serve" => deployed'[i].lastServe > 0)
  BY <1>1, <1>2, <1>3 DEF RowGrows, NewDecisions, Shut
<1>5. ASSUME NEW j \in Instances, j # i PROVE RowWire(j)' /\ NewDecisions(j) /\ RowGrows(j)
  <2>1. /\ RowWire(j) /\ Steady(deployed[j], deployed'[j]) /\ decisions'[j] = decisions[j]
        /\ deployed'[j] \in RowType /\ (Shut(j) => Shut(j)')
    BY <1>1, <1>2, <1>5 DEF WireInv, TypeInv, Shut
  <2> QED
    BY <2>1, SteadyWire
<1>6. RowWire(i)'
  <2>1. RowWire(i) /\ SentWire(q)
    BY <1>2 DEF WireInv
  <2>2. deployed'[i].appliedMode = "closed" => Quiet(i)' /\ active'[i] <= deployed'[i].active
    <3>0. Quiet(i)' <=> Quiet(i)
      BY DEF Quiet
    <3>1. CASE deployed'[i].appliedMode = deployed[i].appliedMode /\ deployed'[i].active = deployed[i].active
      BY <2>1, <3>0, <3>1 DEF RowWire
    <3>2. CASE /\ q.ack.seq # 0 /\ deployed'[i].active = q.ack.active
               /\ \E x \in decisions[i] : x.seq = q.ack.seq /\ deployed'[i].appliedMode = x.mode
      <4>1. PICK x \in decisions[i] : x.seq = q.ack.seq /\ deployed'[i].appliedMode = x.mode
        BY <3>2
      <4>2. PICK m \in Modes : /\ Says(i, q.ack.seq, m)
                               /\ m = "closed" => Quiet(i) /\ active[i] <= q.ack.active
        BY <2>1, <3>2 DEF SentWire
      <4> QED
        BY <3>0, <3>2, <4>1, <4>2 DEF Says
    <3> QED
      BY <1>2, <3>1, <3>2
  <2>3. deployed[i].lastServe > 0 => deployed'[i].lastServe > 0
    BY <1>4 DEF RowGrows
  <2>4. deployed'[i].admitting \/ deployed'[i].active # 0 \/ active'[i] # 0 => deployed'[i].lastServe > 0
    BY <1>2, <2>1, <2>3 DEF RowWire, SentWire
  <2>5. \A x \in decisions'[i] : x.seq <= deployed'[i].highest
                                 /\ (x.mode = "serve" => deployed'[i].lastServe > 0)
    <3> SUFFICES ASSUME NEW x \in decisions'[i]
                 PROVE  x.seq <= deployed'[i].highest /\ (x.mode = "serve" => deployed'[i].lastServe > 0)
      OBVIOUS
    <3>1. CASE x = d
      BY <1>1, <1>2, <1>3, <1>4, <3>1
    <3>2. CASE x \in decisions[i]
      <4>1. x.seq \in Nat
        BY <1>2, <3>2 DEF TypeInv, DecisionType
      <4> QED
        BY <1>2, <1>3, <2>1, <2>3, <3>2, <4>1 DEF RowWire
    <3> QED
      BY <1>1, <3>1, <3>2
  <2>6. \A x, y \in decisions'[i] : x.seq = y.seq => x = y
    <3>1. \A x \in decisions[i] : x.seq # d.seq
      <4>1. \A x \in decisions[i] : x.seq \in Nat /\ x.seq <= deployed[i].highest
        BY <1>2, <2>1 DEF TypeInv, DecisionType, RowWire
      <4> QED
        BY <1>1, <1>2, <1>3, <4>1
    <3> QED
      BY <1>1, <2>1, <3>1 DEF RowWire
  <2> QED
    BY <2>2, <2>4, <2>5, <2>6 DEF RowWire
<1>7. /\ \A j \in Instances : OwnerWire(j)'
      /\ \A r \in replies : ReplyWire(r)'
      /\ \A x \in sent : SentWire(x)'
  BY <1>4, <1>5, StoreKeeps
<1>8. \A r \in replies' : ReplyWire(r)'
  <2> SUFFICES ASSUME NEW r \in replies', r \notin replies PROVE ReplyWire(r)'
    BY <1>7
  <2>1. d.until >= now
    BY <1>1, GrantAssumption DEF TypeInv
  <2>2. r.inst = i /\ owner[i].pending /\ r.seq = d.seq /\ r.mode = d.mode
    BY <1>1, <1>2, <2>1, AnswerFacts
  <2>3. Says(i, d.seq, d.mode)'
    <3>1. \A x \in decisions'[i] : x.seq = d.seq => x.mode = d.mode
      <4>1. \A x \in decisions[i] : x.seq \in Nat /\ x.seq <= deployed[i].highest
        BY <1>2 DEF TypeInv, DecisionType, RowWire, WireInv
      <4> QED
        BY <1>1, <1>2, <1>3, <4>1
    <3> QED
      BY <1>1, <1>2, <1>3, <1>4, <3>1 DEF Says
  <2>4. d.mode = "closed" => Shut(i)'
    <3>1. deployed[i].known
      BY DEF Registered
    <3> QED
      BY <1>1, <1>2, <3>1 DEF Shut
  <2>5. owner[i].held # 0 /\ owner[i].mode = "closed" => d.mode = "closed"
    BY <1>1, <1>2 DEF WireInv, OwnerWire, Shut
  <2> QED
    BY <2>2, <2>3, <2>4, <2>5 DEF ReplyWire
<1> QED
  BY <1>5, <1>6, <1>7, <1>8 DEF WireInv

LEMMA ProcessWire ==
    ASSUME TypeInv, RowInv, WireInv, NEW i \in Instances,
           \/ \E ready \in BOOLEAN : Ask(i, ready)
           \/ \E r \in replies : Receive(i, r)
           \/ Stop(i) \/ Die(i) \/ BeginCall(i) \/ EndCall(i)
    PROVE  WireInv'
<1>0. ASSUME deployed' = deployed, decisions' = decisions
      PROVE  \A j, n, m : Says(j, n, m)' <=> Says(j, n, m)
  BY <1>0 DEF Says
<1>1. ASSUME NEW ready \in BOOLEAN, Ask(i, ready) PROVE WireInv'
  <2>1. /\ UNCHANGED <<deployed, decisions, replies, active>>
        /\ \A j \in Instances : j # i => owner'[j] = owner[j]
        /\ ~owner[i].pending /\ owner[i].state = "up" /\ owner'[i].state = "up"
        /\ owner'[i].held = owner[i].held /\ owner'[i].mode = owner[i].mode
    BY <1>1, AskFacts DEF store
  <2>2. PICK x \in SentType :
          /\ sent' = sent \cup {x} /\ x.inst = i
          /\ x.ack.seq # 0 => x.ack.seq = owner[i].held
          /\ x.ack.admitting => owner[i].held # 0 /\ owner[i].mode = "serve"
          /\ x.ack.active # 0 => active[i] # 0
          /\ x.ack.seq # 0 => x.ack.active = active[i]
    BY <1>1, AskFacts
  <2>3. \A j, n, m : Says(j, n, m)' <=> Says(j, n, m)
    BY <1>0, <2>1
  <2>q. \A j \in Instances : (Quiet(j)' <=> Quiet(j)) /\ (Shut(j)' <=> Shut(j))
    BY <2>1 DEF Quiet, Shut
  <2>4. ASSUME NEW j \in Instances PROVE RowWire(j)' /\ OwnerWire(j)'
    <3>1. owner'[j].held = owner[j].held /\ owner'[j].mode = owner[j].mode
      BY <2>1
    <3> QED
      BY <2>1, <2>3, <2>q, <3>1 DEF WireInv, RowWire, OwnerWire
  <2>5. \A r \in replies' : ReplyWire(r)'
    <3> SUFFICES ASSUME NEW r \in replies PROVE ReplyWire(r)'
      BY <2>1
    <3>1. ReplyWire(r) /\ r.inst \in Instances
      BY DEF WireInv, TypeInv, ReplyType
    <3>2. r.inst # i
      BY <2>1, <3>1 DEF ReplyWire
    <3> QED
      BY <2>1, <2>3, <2>q, <3>1, <3>2 DEF ReplyWire
  <2>6. SentWire(x)'
    <3>1. OwnerWire(i) /\ RowWire(i) /\ owner[i].mode \in Modes /\ active[i] \in Nat
      BY DEF WireInv, TypeInv, OwnerType
    <3>2. x.ack.seq # 0 => \E m \in Modes : /\ Says(i, x.ack.seq, m)
                                            /\ m = "closed" => Quiet(i) /\ active[i] <= x.ack.active
      BY <2>2, <3>1 DEF OwnerWire, Quiet
    <3>3. x.ack.admitting \/ x.ack.active # 0 => deployed[i].lastServe > 0
      BY <2>2, <3>1 DEF OwnerWire, RowWire, Says
    <3> QED
      BY <2>1, <2>2, <2>3, <2>q, <3>2, <3>3 DEF SentWire
  <2>7. ASSUME NEW q \in sent PROVE SentWire(q)'
    <3>1. q.inst \in Instances /\ SentWire(q)
      BY DEF WireInv, TypeInv, SentType
    <3> QED
      BY <2>1, <2>3, <2>q, <3>1 DEF SentWire
  <2> QED
    BY <2>2, <2>4, <2>5, <2>6, <2>7 DEF WireInv
<1>2. ASSUME NEW r \in replies, Receive(i, r) PROVE WireInv'
  <2>1. /\ UNCHANGED <<deployed, decisions, active>>
        /\ \A j \in Instances : j # i => owner'[j] = owner[j]
        /\ sent' \subseteq sent /\ replies' = {x \in replies : x.inst # i} /\ r.inst = i
        /\ owner[i].state = "up" /\ owner'[i].held # 0
        /\ owner'[i].held = r.seq /\ owner'[i].mode = r.mode
    BY <1>2, ReceiveFacts DEF store
  <2>2. \A j, n, m : Says(j, n, m)' <=> Says(j, n, m)
    BY <1>0, <2>1
  <2>w. ReplyWire(r)
    BY DEF WireInv
  <2>q. \A j \in Instances : (Quiet(j) => Quiet(j)') /\ (Shut(j)' <=> Shut(j))
    BY <2>1, <2>w DEF Quiet, Shut, ReplyWire
  <2>3. \A j \in Instances : RowWire(j)'
    BY <2>1, <2>q DEF WireInv, RowWire
  <2>4. OwnerWire(i)'
    BY <2>1, <2>2, <2>q, <2>w DEF OwnerWire, ReplyWire
  <2>5. ASSUME NEW j \in Instances, j # i PROVE OwnerWire(j)'
    BY <2>1, <2>2, <2>q, <2>5 DEF WireInv, OwnerWire
  <2>6. ASSUME NEW x \in replies' PROVE ReplyWire(x)'
    <3>1. x.inst \in Instances /\ x.inst # i /\ ReplyWire(x)
      BY <2>1 DEF WireInv, TypeInv, ReplyType
    <3> QED
      BY <2>1, <2>2, <2>q, <3>1 DEF ReplyWire
  <2>7. ASSUME NEW q \in sent' PROVE SentWire(q)'
    <3>1. q.inst \in Instances /\ SentWire(q)
      BY <2>1 DEF WireInv, TypeInv, SentType
    <3> QED
      BY <2>1, <2>2, <2>q, <3>1 DEF SentWire
  <2> QED
    BY <2>3, <2>4, <2>5, <2>6, <2>7 DEF WireInv
<1>3. ASSUME Stop(i) \/ Die(i) PROVE WireInv'
  <2>1. /\ UNCHANGED <<deployed, decisions>>
        /\ \A j \in Instances : j # i => owner'[j] = owner[j] /\ active'[j] = active[j]
        /\ sent' \subseteq sent /\ replies' = {x \in replies : x.inst # i}
        /\ owner'[i].held = 0 /\ owner'[i].state # "up" /\ active'[i] \in {0, active[i]}
    BY <1>3, EndFacts DEF store
  <2>2. \A j, n, m : Says(j, n, m)' <=> Says(j, n, m)
    BY <1>0, <2>1
  <2>q. \A j \in Instances : (Quiet(j) => Quiet(j)') /\ (Shut(j)' <=> Shut(j))
    BY <2>1 DEF Quiet, Shut
  <2>n. \A j \in Instances : active[j] \in Nat /\ active'[j] \in Nat /\ active'[j] <= active[j]
    BY <2>1 DEF TypeInv
  <2>3. ASSUME NEW j \in Instances PROVE RowWire(j)'
    <3>1. RowWire(j) /\ deployed[j].active \in Nat
      BY DEF WireInv, TypeInv, RowType
    <3> QED
      BY <2>1, <2>q, <2>n, <3>1 DEF RowWire
  <2>4. \A j \in Instances : OwnerWire(j)'
    BY <2>1, <2>2, <2>q DEF WireInv, OwnerWire
  <2>5. ASSUME NEW x \in replies' PROVE ReplyWire(x)'
    <3>1. x.inst \in Instances /\ x.inst # i /\ ReplyWire(x)
      BY <2>1 DEF WireInv, TypeInv, ReplyType
    <3> QED
      BY <2>1, <2>2, <2>q, <3>1 DEF ReplyWire
  <2>6. ASSUME NEW q \in sent' PROVE SentWire(q)'
    <3>1. q.inst \in Instances /\ q.ack.active \in Nat /\ SentWire(q)
      BY <2>1 DEF WireInv, TypeInv, SentType, AckType
    <3> QED
      BY <2>1, <2>2, <2>q, <2>n, <3>1 DEF SentWire
  <2> QED
    BY <2>3, <2>4, <2>5, <2>6 DEF WireInv
<1>4. ASSUME BeginCall(i) \/ EndCall(i) PROVE WireInv'
  <2>1. /\ UNCHANGED <<deployed, decisions, sent, replies, owner>>
        /\ \A j \in Instances : j # i => active'[j] = active[j]
        /\ active[i] # 0 \/ Mode(i) = "serve"
        /\ active'[i] <= active[i] \/ Mode(i) = "serve"
    BY <1>4, CallFacts DEF store
  <2>2. \A j, n, m : Says(j, n, m)' <=> Says(j, n, m)
    BY <1>0, <2>1
  <2>3. deployed[i].lastServe > 0
    <3>1. CASE active[i] # 0
      BY <3>1 DEF WireInv, RowWire
    <3>2. CASE Mode(i) = "serve"
      <4>1. owner[i].held # 0 /\ owner[i].mode = "serve"
        BY <3>2 DEF Mode
      <4> QED
        BY <4>1 DEF WireInv, OwnerWire, Says
    <3> QED
      BY <2>1, <3>1, <3>2
  <2>q. \A j \in Instances : (Quiet(j)' <=> Quiet(j)) /\ (Shut(j)' <=> Shut(j))
    BY <2>1 DEF Quiet, Shut
  <2>n. ASSUME NEW j \in Instances, Quiet(j)
        PROVE  active[j] \in Nat /\ active'[j] \in Nat /\ active'[j] <= active[j]
    <3>1. active[j] \in Nat /\ active'[j] \in Nat
      BY <1>4, CallFacts DEF TypeInv
    <3>2. CASE j = i
      BY <2>1, <2>n, <3>1, <3>2 DEF Quiet, Mode
    <3>3. CASE j # i
      BY <2>1, <3>1, <3>3
    <3> QED
      BY <3>2, <3>3
  <2>4. ASSUME NEW j \in Instances PROVE RowWire(j)'
    <3>1. RowWire(j) /\ deployed[j].active \in Nat
      BY DEF WireInv, TypeInv, RowType
    <3>2. deployed'[j].appliedMode = "closed" => Quiet(j)' /\ active'[j] <= deployed'[j].active
      BY <2>1, <2>q, <2>n, <3>1 DEF RowWire
    <3> QED
      BY <2>1, <2>3, <3>1, <3>2 DEF RowWire
  <2>5. \A j \in Instances : OwnerWire(j)'
    BY <2>1, <2>2, <2>q DEF WireInv, OwnerWire
  <2>6. ASSUME NEW x \in replies PROVE ReplyWire(x)'
    <3>1. x.inst \in Instances /\ ReplyWire(x)
      BY DEF WireInv, TypeInv, ReplyType
    <3> QED
      BY <2>1, <2>2, <2>q, <3>1 DEF ReplyWire
  <2>7. ASSUME NEW q \in sent PROVE SentWire(q)'
    <3>1. q.inst \in Instances /\ q.ack.active \in Nat /\ SentWire(q)
      BY DEF WireInv, TypeInv, SentType, AckType
    <3> QED
      BY <2>1, <2>2, <2>q, <2>n, <3>1 DEF SentWire
  <2> QED
    BY <2>1, <2>4, <2>5, <2>6, <2>7 DEF WireInv
<1> QED
  BY <1>1, <1>2, <1>3, <1>4

LEMMA WireNext == TypeInv /\ RowInv /\ WireInv /\ TypeInv' /\ RowInv' /\ [Next]_vars => WireInv'
<1> SUFFICES ASSUME TypeInv, RowInv, WireInv, TypeInv', RowInv', [Next]_vars PROVE WireInv'
  OBVIOUS
<1>1. ASSUME UNCHANGED <<deployed, decisions, sent, replies, owner, active>> PROVE WireInv'
  BY <1>1 DEF WireInv, RowWire, OwnerWire, ReplyWire, SentWire, Says, Quiet, Shut
<1>2. CASE Tick \/ (\E serving \in BOOLEAN : Decide(serving)) \/ UNCHANGED vars
  BY <1>1, <1>2 DEF Tick, Decide, vars, store, process
<1>3. ASSUME CloseAll \/ \E i \in Instances : Controller(i) PROVE WireInv'
  <2>1. UNCHANGED <<decisions, sent, replies, owner, active>>
    BY <1>3, ControllerFrame
  <2>2. ASSUME NEW j \in Instances PROVE RowWire(j)' /\ NewDecisions(j) /\ RowGrows(j)
    <3>1. Carried(j) /\ RowWire(j)
      BY <1>3, ControllerRows DEF WireInv
    <3>2. /\ Steady(deployed[j], deployed'[j]) /\ deployed'[j] \in RowType
          /\ Shut(j) => Shut(j)'
      BY <3>1 DEF Carried, Shut
    <3> QED
      BY <2>1, <3>1, <3>2, SteadyWire
  <2> QED
    BY <2>1, <2>2, StoreKeeps DEF WireInv
<1>4. ASSUME NEW q \in sent, Renew(q) PROVE WireInv'
  <2>1. UNCHANGED <<sent, owner, active>>
    BY <1>4 DEF Renew, process
  <2>2. CASE RenewNext(q.inst, q)
    BY <1>4, <2>1, <2>2, RenewNextWire DEF Renew
  <2>3. CASE RenewAgain(q.inst, q)
    <3>1. /\ UNCHANGED <<deployed, decisions>> /\ q.inst \in Instances
          /\ deployed[q.inst].known
      BY <1>4, <2>3, RenewAgainFacts DEF Renew, Registered
    <3>2. PICK d \in decisions[q.inst] : /\ d \in DecisionType /\ d.until > now /\ Answered(q.inst, d)
                                         /\ d.mode = deployed[q.inst].mode
      BY <2>3, RenewAgainFacts
    <3>3. d.until >= now
      BY <3>2 DEF DecisionType, TypeInv
    <3>4. ASSUME NEW r \in replies' PROVE ReplyWire(r)'
      <4>1. CASE r \in replies
        BY <2>1, <3>1, <4>1 DEF WireInv, ReplyWire, Says, Shut
      <4>2. CASE r \notin replies
        <5>1. r.inst = q.inst /\ owner[q.inst].pending /\ r.seq = d.seq /\ r.mode = d.mode
          BY <3>1, <3>2, <3>3, <4>2, AnswerFacts
        <5>2. Says(q.inst, d.seq, d.mode)
          BY <3>1, <3>2 DEF WireInv, RowWire, Says
        <5>3. /\ d.mode = "closed" => Shut(q.inst)
              /\ owner[q.inst].held # 0 /\ owner[q.inst].mode = "closed" => d.mode = "closed"
          BY <3>1, <3>2 DEF WireInv, OwnerWire, Shut
        <5> QED
          BY <2>1, <3>1, <5>1, <5>2, <5>3 DEF ReplyWire, Says, Shut
      <4> QED
        BY <4>1, <4>2
    <3> QED
      BY <2>1, <3>1, <3>4 DEF WireInv, RowWire, OwnerWire, SentWire, Says, Quiet, Shut
  <2> QED
    BY <1>4, <2>2, <2>3 DEF Renew
<1> QED
  BY <1>2, <1>3, <1>4, ProcessWire DEF Next, Grants, Gateway

LEMMA WireCorrect == Spec => []WireInv
BY WireInit, WireNext, BaseCorrect, PTL DEF Spec

-----------------------------------------------------------------------------
(* At most one process serves.                                             *)

\* A process that serves or may still be told to, or has calls in progress: its
\* row stands for it until the process is quiet and idle, or terminated.
May(i) ==
    /\ deployed[i].known /\ ~deployed[i].terminated
    /\ deployed[i].mode = "serve" \/ deployed[i].lastServe > 0
    /\ deployed[i].mode = "serve" \/ ~Quiet(i) \/ active[i] # 0

OnlyInv == \A i, j \in Instances : i # j => ~(May(i) /\ May(j))

\* What may serve keeps a candidate from being selected: a deployment stops
\* blocking only once it has acknowledged a closed grant with no call left.
LEMMA MayBlocks ==
    ASSUME TypeInv, NEW i \in Instances, RowWire(i), May(i)
    PROVE  Blocks(i)
<1>1. active[i] \in Nat
  BY DEF TypeInv
<1>2. deployed[i].appliedMode = "closed" /\ deployed[i].active = 0 => Quiet(i) /\ active[i] = 0
  BY <1>1 DEF RowWire
<1> QED
  BY <1>2 DEF Blocks, May, Registered

LEMMA OnlyInit == Init => OnlyInv
BY NewRecords DEF Init, OnlyInv, May

\* A process that is quiet and idle stays so.
LEMMA StaysQuiet ==
    ASSUME TypeInv, RowInv, WireInv, [Next]_vars, NEW i \in Instances, Quiet(i), active[i] = 0
    PROVE  Quiet(i)' /\ active'[i] = 0
<1>1. CASE owner' = owner /\ active' = active
  BY <1>1 DEF Quiet
<1>2. ASSUME NEW j \in Instances, NEW ready \in BOOLEAN, Ask(j, ready)
      PROVE  Quiet(i)' /\ active'[i] = 0
  <2>1. /\ active' = active /\ \A k \in Instances : k # j => owner'[k] = owner[k]
        /\ owner[j].state = "up" /\ owner'[j].held = owner[j].held /\ owner'[j].mode = owner[j].mode
    BY <1>2, AskFacts
  <2> QED
    BY <2>1 DEF Quiet
<1>3. ASSUME NEW j \in Instances, NEW r \in replies, Receive(j, r)
      PROVE  Quiet(i)' /\ active'[i] = 0
  <2>1. /\ active' = active /\ \A k \in Instances : k # j => owner'[k] = owner[k]
        /\ owner[j].state = "up" /\ owner'[j].held # 0 /\ owner'[j].mode = r.mode /\ r.inst = j
    BY <1>3, ReceiveFacts
  <2>2. ReplyWire(r)
    BY DEF WireInv
  <2> QED
    BY <2>1, <2>2 DEF Quiet, ReplyWire
<1>4. ASSUME NEW j \in Instances, Stop(j) \/ Die(j) PROVE Quiet(i)' /\ active'[i] = 0
  <2>1. /\ \A k \in Instances : k # j => owner'[k] = owner[k] /\ active'[k] = active[k]
        /\ owner'[j].state # "up" /\ active'[j] \in {0, active[j]}
    BY <1>4, EndFacts
  <2> QED
    BY <2>1 DEF Quiet
<1>5. ASSUME NEW j \in Instances, BeginCall(j) \/ EndCall(j) PROVE Quiet(i)' /\ active'[i] = 0
  <2>1. /\ owner' = owner /\ \A k \in Instances : k # j => active'[k] = active[k]
        /\ active[j] # 0 \/ Mode(j) = "serve"
    BY <1>5, CallFacts
  <2>2. i # j
    BY <2>1 DEF Quiet, Mode
  <2> QED
    BY <2>1, <2>2 DEF Quiet
<1>6. ASSUME CloseAll \/ \E j \in Instances : Controller(j) PROVE owner' = owner /\ active' = active
  BY <1>6, ControllerFrame
<1>7. ASSUME \/ Tick \/ (\E serving \in BOOLEAN : Decide(serving))
             \/ (\E q \in sent : Renew(q)) \/ UNCHANGED vars
      PROVE  owner' = owner /\ active' = active
  BY <1>7 DEF Tick, Decide, Renew, process, vars
<1> QED
  BY <1>1, <1>2, <1>3, <1>4, <1>5, <1>6, <1>7 DEF Next, Grants, Gateway

LEMMA OnlyNext ==
    TypeInv /\ RowInv /\ WireInv /\ OnlyInv /\ [Next]_vars => OnlyInv'
<1> SUFFICES ASSUME TypeInv, RowInv, WireInv, OnlyInv, [Next]_vars PROVE OnlyInv'
  OBVIOUS
<1>1. ASSUME NEW i \in Instances, May(i)', deployed[i].known, ~deployed[i].terminated,
             deployed'[i].mode = "serve" => deployed[i].mode = "serve",
             deployed'[i].lastServe > 0 => deployed[i].mode = "serve" \/ deployed[i].lastServe > 0
      PROVE  May(i)
  <2>1. CASE deployed[i].mode = "serve"
    BY <1>1, <2>1 DEF May
  <2>2. CASE deployed[i].mode # "serve"
    BY <1>1, <2>2, StaysQuiet DEF May
  <2> QED
    BY <2>1, <2>2
<1>2. ASSUME \A i \in Instances : May(i)' => May(i) PROVE OnlyInv'
  BY <1>2 DEF OnlyInv
<1>3. ASSUME UNCHANGED deployed PROVE OnlyInv'
  <2>1. ASSUME NEW i \in Instances, May(i)' PROVE May(i)
    BY <1>1, <1>3, <2>1 DEF May
  <2> QED
    BY <1>2, <2>1
<1>4. ASSUME CloseAll \/ (\E i \in Instances : Controller(i)),
             \A k \in Instances : ~Select(k)
      PROVE  OnlyInv'
  <2>1. ASSUME NEW i \in Instances, May(i)' PROVE May(i)
    <3>1. Carried(i)
      BY <1>4, ControllerRows
    <3>2. ~deployed[i].terminated
      BY <2>1, <3>1 DEF Carried, May
    <3>3. /\ deployed'[i].mode = "serve" => deployed[i].mode = "serve"
          /\ deployed'[i].lastServe > 0 => deployed[i].lastServe > 0
          /\ deployed[i].mode = "serve" \/ deployed[i].lastServe > 0
      BY <1>4, <2>1, <3>1 DEF Carried, Steady, May
    <3>4. deployed[i].known
      BY <3>3, NewRecords DEF RowInv, Registered
    <3> QED
      BY <1>1, <2>1, <3>2, <3>3, <3>4
  <2> QED
    BY <1>2, <2>1
<1>5. ASSUME NEW k \in Instances, Select(k) PROVE OnlyInv'
  <2>1. \A j \in Instances : j # k => deployed'[j] = deployed[j] /\ ~Blocks(j)
    BY <1>5 DEF Select, TypeInv
  <2>2. ASSUME NEW j \in Instances, j # k PROVE ~May(j)'
    <3>1. ~May(j)
      BY <2>1, <2>2, MayBlocks DEF WireInv
    <3>2. deployed'[j] = deployed[j]
      BY <2>1, <2>2
    <3> QED
      BY <1>1, <3>1, <3>2 DEF May
  <2> QED
    BY <2>2 DEF OnlyInv
<1>6. ASSUME NEW q \in sent, RenewNext(q.inst, q) PROVE OnlyInv'
  <2>1. /\ q.inst \in Instances
        /\ \A j \in Instances : j # q.inst =>
              /\ Steady(deployed[j], deployed'[j])
              /\ deployed'[j].known = deployed[j].known
              /\ deployed'[j].terminated = deployed[j].terminated
              /\ deployed'[j].mode \in {deployed[j].mode, "closed"}
        /\ deployed'[q.inst].known = deployed[q.inst].known
        /\ deployed'[q.inst].terminated = deployed[q.inst].terminated
        /\ deployed'[q.inst].mode \in {deployed[q.inst].mode, "closed"}
        /\ deployed'[q.inst].lastServe = IF deployed'[q.inst].mode = "serve" THEN q.seq
                                         ELSE deployed[q.inst].lastServe
    BY <1>6, RenewNextFacts
  <2>2. ASSUME NEW i \in Instances, May(i)' PROVE May(i)
    <3>1. /\ deployed'[i].mode = "serve" => deployed[i].mode = "serve"
          /\ deployed'[i].lastServe > 0 => deployed[i].mode = "serve" \/ deployed[i].lastServe > 0
      BY <2>1 DEF Steady
    <3>2. deployed'[i].known /\ ~deployed'[i].terminated
      BY <2>2 DEF May
    <3>3. deployed'[i].known = deployed[i].known /\ deployed'[i].terminated = deployed[i].terminated
      BY <2>1
    <3>4. deployed[i].known /\ ~deployed[i].terminated
      BY <3>2, <3>3, Zenon
    <3> QED
      BY <1>1, <2>2, <3>1, <3>4
  <2> QED
    BY <1>2, <2>2
<1>7. ASSUME NEW q \in sent, Renew(q) PROVE OnlyInv'
  BY <1>3, <1>6, <1>7, RenewAgainFacts DEF Renew
<1>8. ASSUME NEW i \in Instances, Gateway(i) \/ BeginCall(i) \/ EndCall(i) \/ Die(i)
      PROVE  UNCHANGED deployed
  BY <1>8 DEF Gateway, Ask, Receive, Stop, Die, BeginCall, EndCall, store
<1>9. ASSUME Tick \/ (\E serving \in BOOLEAN : Decide(serving)) \/ UNCHANGED vars
      PROVE  UNCHANGED deployed
  BY <1>9 DEF Tick, Decide, vars, store
<1> QED
  BY <1>3, <1>4, <1>5, <1>7, <1>8, <1>9 DEF Next, Grants

\* One process serves at most, and no call of another is in progress while it
\* does: for any number of generations, any delays and repetitions of renewals,
\* and any times at which processes stop and die (serving/transitions.rs, select
\* and its blockers; grant-owner.ts).
THEOREM ServesCorrect == Spec => []OneServes
<1>1. TypeInv /\ RowInv /\ WireInv /\ OnlyInv => OneServes
  <2> SUFFICES ASSUME TypeInv, RowInv, WireInv, OnlyInv, NEW i \in Instances, NEW j \in Instances,
                      i # j, Serves(i), Serves(j) \/ active[j] # 0
               PROVE  FALSE
    BY DEF OneServes
  <2>1. ASSUME NEW k \in Instances, Serves(k) \/ active[k] # 0 PROVE May(k)
    <3>1. deployed[k].lastServe > 0
      <4>1. CASE Serves(k)
        <5>1. owner[k].held # 0 /\ owner[k].mode = "serve"
          BY <4>1 DEF Serves, Mode
        <5> QED
          BY <5>1 DEF WireInv, OwnerWire, Says
      <4>2. CASE active[k] # 0
        BY <4>2 DEF WireInv, RowWire
      <4> QED
        BY <2>1, <4>1, <4>2
    <3>2. deployed[k].known
      BY <3>1, NewRecords DEF RowInv, Registered
    <3>3. owner[k].state # "dead"
      BY <2>1 DEF RowInv, Serves, Mode
    <3>4. ~deployed[k].terminated
      BY <3>3 DEF RowInv
    <3>5. ~Quiet(k) \/ active[k] # 0
      BY <2>1 DEF Quiet, Serves, Mode
    <3> QED
      BY <3>1, <3>2, <3>4, <3>5 DEF May
  <2> QED
    BY <2>1 DEF OnlyInv
<1>2. Spec => []OnlyInv
  BY OnlyInit, OnlyNext, BaseCorrect, WireCorrect, PTL DEF Spec
<1> QED
  BY <1>1, <1>2, BaseCorrect, WireCorrect, PTL

-----------------------------------------------------------------------------
(* Grants end in time.                                                     *)

\* A grant that a process counts until `until`: not beyond what the store said,
\* nor beyond one grant's length from now, nor, if it is SERVE and the proxy is
\* told to stop, from that moment.
Until(i, n, m, until) ==
    /\ until <= now + GrantTime
    /\ m = "serve" /\ ~target.serving => until <= stoppedAt + GrantTime
    /\ \A d \in decisions[i] : d.seq = n => until <= d.until

OwnerTime(i) == owner[i].held # 0 => Until(i, owner[i].held, owner[i].mode, owner[i].expires)
ReplyTime(r) == Until(r.inst, r.seq, r.mode, owner[r.inst].started + r.validFor)

TimeInv ==
    /\ stoppedAt <= now
    /\ \A i \in Instances :
        /\ \A d \in decisions[i] : d.until <= now + GrantTime
        /\ owner[i].started <= now
        /\ OwnerTime(i)
    /\ \A r \in replies : ReplyTime(r)

LEMMA TimeInit == Init => TimeInv
BY NewRecords, GrantAssumption DEF Init, TimeInv, OwnerTime

\* A step that keeps the decisions of a sequence that was given, and under which
\* neither the clock nor the moment of stopping goes back.
LEMMA UntilKept ==
    ASSUME TypeInv, TypeInv', TimeInv, now' >= now, NEW i \in Instances, NewDecisions(i),
           \/ stoppedAt' = stoppedAt /\ (target.serving => target'.serving)
           \/ stoppedAt' = now /\ target.serving
    PROVE  \A n \in Nat : \A m : \A u \in Nat :
              n <= deployed[i].highest /\ Until(i, n, m, u) => Until(i, n, m, u)'
<1>1. /\ now \in Nat /\ now' \in Nat /\ stoppedAt \in Nat /\ stoppedAt' \in Nat /\ GrantTime \in Nat
      /\ deployed[i].highest \in Nat
  BY GrantAssumption DEF TypeInv, RowType
<1>2. \A d \in decisions'[i] : d.seq \in Nat
  BY DEF TypeInv, DecisionType
<1> SUFFICES ASSUME NEW n \in Nat, NEW m, NEW u \in Nat, n <= deployed[i].highest, Until(i, n, m, u)
             PROVE  Until(i, n, m, u)'
  OBVIOUS
<1>3. u <= now' + GrantTime
  <2>1. u <= now + GrantTime
    BY DEF Until
  <2>2. \A a, b, c, d \in Nat : a <= b + c /\ d >= b => a <= d + c
    OBVIOUS
  <2> QED
    BY <1>1, <2>1, <2>2, Zenon
<1>4. m = "serve" /\ ~target'.serving => u <= stoppedAt' + GrantTime
  <2> SUFFICES ASSUME m = "serve", ~target'.serving PROVE u <= stoppedAt' + GrantTime
    OBVIOUS
  <2>1. CASE stoppedAt' = stoppedAt /\ (target.serving => target'.serving)
    <3>1. ~target.serving
      BY <2>1, Zenon
    <3>2. u <= stoppedAt + GrantTime
      BY <3>1 DEF Until
    <3> QED
      BY <2>1, <3>2
  <2>2. CASE stoppedAt' = now /\ target.serving
    BY <2>2 DEF Until
  <2> QED
    BY <2>1, <2>2
<1>5. \A d \in decisions'[i] : d.seq = n => u <= d.until
  BY <1>1, <1>2 DEF Until, NewDecisions
<1> QED
  BY <1>3, <1>4, <1>5 DEF Until

LEMMA TimeKept ==
    ASSUME TypeInv, TypeInv', WireInv, TimeInv, now' >= now, owner' = owner,
           \A i \in Instances : NewDecisions(i),
           \/ stoppedAt' = stoppedAt /\ (target.serving => target'.serving)
           \/ stoppedAt' = now /\ target.serving
    PROVE  /\ stoppedAt' <= now'
           /\ \A i \in Instances : owner'[i].started <= now' /\ OwnerTime(i)'
           /\ \A i \in Instances : \A d \in decisions[i] : d.until <= now' + GrantTime
           /\ \A r \in replies : ReplyTime(r)'
<1>1. /\ now \in Nat /\ now' \in Nat /\ stoppedAt \in Nat /\ stoppedAt' \in Nat /\ GrantTime \in Nat
  BY GrantAssumption DEF TypeInv
<1>2. stoppedAt' <= now'
  <2>1. stoppedAt <= now
    BY DEF TimeInv
  <2>2. \A a, b, c \in Nat : a <= b /\ c >= b => a <= c
    OBVIOUS
  <2>3. \A a, b \in Nat : a >= b => b <= a
    OBVIOUS
  <2> QED
    BY <1>1, <2>1, <2>2, <2>3, Zenon
<1>3. ASSUME NEW i \in Instances PROVE owner'[i].started <= now' /\ OwnerTime(i)'
  <2>1. /\ owner[i].held \in Nat /\ owner[i].expires \in Nat /\ owner[i].started \in Nat
        /\ owner[i].started <= now /\ OwnerTime(i) /\ OwnerWire(i)
    BY DEF TypeInv, OwnerType, TimeInv, WireInv
  <2>2. owner[i].held # 0 =>
          /\ owner[i].held <= deployed[i].highest
          /\ Until(i, owner[i].held, owner[i].mode, owner[i].expires)
    BY <2>1 DEF OwnerTime, OwnerWire, Says
  <2>3. PICK h \in Nat : h = owner[i].held
    BY <2>1
  <2>4. PICK m : m = owner[i].mode
    OBVIOUS
  <2>5. PICK u \in Nat : u = owner[i].expires
    BY <2>1
  <2>6. h # 0 => Until(i, h, m, u)'
    BY <2>2, <2>3, <2>4, <2>5, UntilKept
  <2>7. OwnerTime(i)'
    BY <2>3, <2>4, <2>5, <2>6 DEF OwnerTime, Until
  <2>8. \A a, b, c \in Nat : a <= b /\ c >= b => a <= c
    OBVIOUS
  <2>9. owner[i].started <= now'
    BY <1>1, <2>1, <2>8, Zenon
  <2> QED
    BY <2>7, <2>9
<1>4. ASSUME NEW i \in Instances, NEW d \in decisions[i] PROVE d.until <= now' + GrantTime
  <2>1. d.until \in Nat /\ d.until <= now + GrantTime
    BY DEF TypeInv, DecisionType, TimeInv
  <2>2. \A a, b, c, e \in Nat : a <= b + c /\ e >= b => a <= e + c
    OBVIOUS
  <2> QED
    BY <1>1, <2>1, <2>2, Zenon
<1>5. ASSUME NEW r \in replies PROVE ReplyTime(r)'
  <2>1. /\ r.inst \in Instances /\ r.seq \in Nat /\ owner[r.inst].started + r.validFor \in Nat
        /\ r.seq <= deployed[r.inst].highest
    BY DEF TypeInv, ReplyType, OwnerType, WireInv, ReplyWire, Says
  <2>2. Until(r.inst, r.seq, r.mode, owner[r.inst].started + r.validFor)
    BY DEF TimeInv, ReplyTime
  <2>3. PICK u \in Nat : u = owner[r.inst].started + r.validFor
    BY <2>1
  <2>4. Until(r.inst, r.seq, r.mode, u)'
    BY <2>1, <2>2, <2>3, UntilKept
  <2> QED
    BY <2>3, <2>4 DEF ReplyTime, Until
<1> QED
  BY <1>2, <1>3, <1>4, <1>5

\* The grant given in answer ends with the decision, counted from a request
\* that came before it.
LEMMA AnswerTime ==
    ASSUME TypeInv, TypeInv', TimeInv, NEW i \in Instances, NEW d \in DecisionType, Answered(i, d),
           UNCHANGED <<now, target, stoppedAt, owner>>,
           d.until > now, d.until <= now + GrantTime, d.mode = "serve" => target.serving,
           \A x \in decisions'[i] : x.seq = d.seq => x = d,
           NEW r \in replies', r \notin replies
    PROVE  ReplyTime(r)'
<1>1. now \in Nat /\ d.until \in Nat /\ owner[i].started \in Nat /\ owner[i].started <= now
      /\ GrantTime \in Nat
  BY GrantAssumption DEF TypeInv, DecisionType, OwnerType, TimeInv
<1>2. r.inst = i /\ r.seq = d.seq /\ r.mode = d.mode /\ r.validFor = d.until - now
  <2>1. d.until >= now
    BY <1>1
  <2> QED
    BY <2>1, AnswerFacts
<1>3. owner[i].started + r.validFor <= d.until
  BY <1>1, <1>2
<1>4. owner[i].started + r.validFor <= now + GrantTime
  BY <1>1, <1>2
<1>5. Until(i, r.seq, r.mode, owner[i].started + r.validFor)'
  BY <1>2, <1>3, <1>4 DEF Until
<1> QED
  BY <1>2, <1>5 DEF ReplyTime

LEMMA ProcessTime ==
    ASSUME TypeInv, TypeInv', RowInv, WireInv, TimeInv, NEW i \in Instances,
           \/ \E ready \in BOOLEAN : Ask(i, ready)
           \/ \E r \in replies : Receive(i, r)
           \/ Stop(i) \/ Die(i)
    PROVE  TimeInv'
<1>0. UNCHANGED <<now, target, stoppedAt, deployed, decisions>>
  BY DEF Ask, Receive, Stop, Die, store
<1>1. \A j, n, m, u : Until(j, n, m, u)' <=> Until(j, n, m, u)
  BY <1>0 DEF Until
<1>2. ASSUME \A j \in Instances : j # i => owner'[j] = owner[j],
             replies' \subseteq {x \in replies : x.inst # i},
             owner'[i].started <= now', OwnerTime(i)'
      PROVE  TimeInv'
  <2>1. ASSUME NEW j \in Instances, j # i PROVE OwnerTime(j)' /\ owner'[j].started <= now'
    BY <1>0, <1>1, <1>2, <2>1 DEF TimeInv, OwnerTime, Until
  <2>2. ASSUME NEW r \in replies' PROVE ReplyTime(r)'
    <3>1. r \in replies /\ r.inst \in Instances /\ owner'[r.inst] = owner[r.inst]
      BY <1>2 DEF TypeInv, ReplyType
    <3>2. Until(r.inst, r.seq, r.mode, owner[r.inst].started + r.validFor)
      BY <3>1 DEF TimeInv, ReplyTime
    <3> QED
      BY <1>0, <3>1, <3>2 DEF ReplyTime, Until
  <2> QED
    BY <1>0, <1>2, <2>1, <2>2 DEF TimeInv
<1>3. ASSUME NEW ready \in BOOLEAN, Ask(i, ready) PROVE TimeInv'
  <2>1. /\ \A j \in Instances : j # i => owner'[j] = owner[j]
        /\ replies' = replies /\ ~owner[i].pending /\ owner'[i].started = now
        /\ owner'[i].held = owner[i].held /\ owner'[i].mode = owner[i].mode
        /\ owner'[i].expires = owner[i].expires
    BY <1>3, AskFacts
  <2>2. \A x \in replies : x.inst # i
    BY <2>1 DEF WireInv, ReplyWire
  <2>3. owner'[i].started <= now'
    BY <1>0, <2>1 DEF TypeInv
  <2>4. OwnerTime(i)'
    <3>1. owner[i].held # 0 => Until(i, owner[i].held, owner[i].mode, owner[i].expires)
      BY DEF TimeInv, OwnerTime
    <3> QED
      BY <1>0, <2>1, <3>1 DEF OwnerTime, Until
  <2> QED
    BY <1>2, <2>1, <2>2, <2>3, <2>4
<1>4. ASSUME NEW r \in replies, Receive(i, r) PROVE TimeInv'
  <2>1. /\ \A j \in Instances : j # i => owner'[j] = owner[j]
        /\ replies' = {x \in replies : x.inst # i} /\ r.inst = i
        /\ owner'[i].started = 0 /\ owner'[i].held = r.seq /\ owner'[i].mode = r.mode
        /\ owner'[i].expires = owner[i].started + r.validFor
    BY <1>4, ReceiveFacts
  <2>2. owner'[i].started <= now'
    BY <1>0, <2>1 DEF TypeInv
  <2>3. Until(i, r.seq, r.mode, owner[i].started + r.validFor)
    BY <2>1 DEF TimeInv, ReplyTime
  <2>4. OwnerTime(i)'
    BY <1>0, <2>1, <2>3 DEF OwnerTime, Until
  <2> QED
    BY <1>2, <2>1, <2>2, <2>4
<1>5. ASSUME Stop(i) \/ Die(i) PROVE TimeInv'
  <2>1. /\ \A j \in Instances : j # i => owner'[j] = owner[j]
        /\ replies' = {x \in replies : x.inst # i}
        /\ owner'[i].held = 0 /\ owner'[i].started = 0
    BY <1>5, EndFacts
  <2>2. owner'[i].started <= now' /\ OwnerTime(i)'
    BY <1>0, <2>1 DEF OwnerTime, TypeInv
  <2> QED
    BY <1>2, <2>1, <2>2
<1> QED
  BY <1>3, <1>4, <1>5

LEMMA TimeNext ==
    TypeInv /\ RowInv /\ WireInv /\ TimeInv /\ TypeInv' /\ [Next]_vars => TimeInv'
<1> SUFFICES ASSUME TypeInv, RowInv, WireInv, TimeInv, TypeInv', [Next]_vars PROVE TimeInv'
  OBVIOUS
<1>0. now \in Nat /\ now >= now
  BY DEF TypeInv
<1>1. ASSUME now' >= now, UNCHANGED <<decisions, owner, replies>>,
             \/ stoppedAt' = stoppedAt /\ (target.serving => target'.serving)
             \/ stoppedAt' = now /\ target.serving
      PROVE  TimeInv'
  <2>1. \A i \in Instances : NewDecisions(i)
    BY <1>1 DEF NewDecisions
  <2>2. /\ stoppedAt' <= now'
        /\ \A i \in Instances : owner'[i].started <= now' /\ OwnerTime(i)'
        /\ \A i \in Instances : \A d \in decisions[i] : d.until <= now' + GrantTime
        /\ \A r \in replies : ReplyTime(r)'
    BY <1>1, <2>1, TimeKept
  <2> QED
    BY <1>1, <2>2 DEF TimeInv
<1>2. ASSUME UNCHANGED <<now, target, stoppedAt, decisions, owner, replies>> PROVE TimeInv'
  BY <1>0, <1>1, <1>2
<1>3. CASE Tick
  <2>1. now' >= now
    BY <1>0, <1>3 DEF Tick
  <2> QED
    BY <1>1, <1>3, <2>1 DEF Tick, store, process
<1>4. ASSUME NEW serving \in BOOLEAN, Decide(serving) PROVE TimeInv'
  <2>1. /\ now' = now /\ UNCHANGED <<decisions, owner, replies>>
        /\ stoppedAt' = IF target.serving THEN now ELSE stoppedAt
    BY <1>4 DEF Decide, process
  <2>2. CASE target.serving
    BY <1>0, <1>1, <2>1, <2>2
  <2>3. CASE ~target.serving
    BY <1>0, <1>1, <2>1, <2>3
  <2> QED
    BY <2>2, <2>3
<1>5. CASE UNCHANGED vars
  BY <1>2, <1>5 DEF vars
<1>6. ASSUME CloseAll \/ \E i \in Instances : Controller(i) PROVE TimeInv'
  BY <1>2, <1>6, ControllerFrame
<1>7. ASSUME NEW i \in Instances, BeginCall(i) \/ EndCall(i) PROVE TimeInv'
  BY <1>2, <1>7 DEF BeginCall, EndCall, store
<1>8. ASSUME NEW q \in sent, Renew(q) PROVE TimeInv'
  <2> DEFINE i == q.inst
  <2>0. UNCHANGED <<now, target, stoppedAt, owner>>
    BY <1>8 DEF Renew, process
  <2>1. \E d \in DecisionType :
          /\ i \in Instances /\ Answered(i, d) /\ d.until > now /\ d.until <= now + GrantTime
          /\ d.mode = "serve" => target.serving
          /\ \A x \in decisions'[i] : x.seq = d.seq => x = d
          /\ decisions'[i] \subseteq decisions[i] \cup {d}
          /\ \A j \in Instances : NewDecisions(j) /\ (j # i => decisions'[j] = decisions[j])
    <3>1. CASE RenewNext(i, q)
      <4>1. PICK d \in DecisionType :
              /\ d.seq = q.seq /\ d.mode = deployed'[i].mode /\ d.until = now + GrantTime
              /\ decisions'[i] \subseteq decisions[i] \cup {d}
              /\ \A j \in Instances : j # i => decisions'[j] = decisions[j]
              /\ Answered(i, d)
        BY <3>1, RenewNextFacts
      <4>2. /\ i \in Instances /\ q.seq > deployed[i].highest
            /\ deployed'[i].mode = "serve" => target.serving
        BY <3>1, RenewNextFacts
      <4>3. \A x \in decisions[i] : x.seq # q.seq
        <5>1. /\ \A x \in decisions[i] : x.seq \in Nat /\ x.seq <= deployed[i].highest
              /\ q.seq \in Nat /\ deployed[i].highest \in Nat
          BY <4>2 DEF WireInv, RowWire, TypeInv, DecisionType, SentType, RowType
        <5> QED
          BY <4>2, <5>1
      <4>4. d.until > now /\ d.until <= now + GrantTime
        BY <1>0, <4>1, GrantAssumption
      <4>5. \A j \in Instances : NewDecisions(j)
        BY <4>1, <4>2 DEF NewDecisions
      <4>6. \A x \in decisions'[i] : x.seq = d.seq => x = d
        BY <4>1, <4>3
      <4> QED
        BY <4>1, <4>2, <4>4, <4>5, <4>6
    <3>2. CASE RenewAgain(i, q)
      <4>1. PICK d \in decisions[i] :
              /\ d \in DecisionType /\ d.until > now /\ Answered(i, d)
              /\ d.mode = "serve" => target.serving
        BY <3>2, RenewAgainFacts
      <4>2. i \in Instances /\ decisions' = decisions
        BY <3>2, RenewAgainFacts
      <4>3. d.until <= now + GrantTime /\ \A x \in decisions[i] : x.seq = d.seq => x = d
        BY <4>1, <4>2 DEF TimeInv, WireInv, RowWire
      <4> QED
        BY <4>1, <4>2, <4>3 DEF NewDecisions
    <3> QED
      BY <1>8, <3>1, <3>2 DEF Renew
  <2>2. PICK d \in DecisionType :
          /\ i \in Instances /\ Answered(i, d) /\ d.until > now /\ d.until <= now + GrantTime
          /\ d.mode = "serve" => target.serving
          /\ \A x \in decisions'[i] : x.seq = d.seq => x = d
          /\ decisions'[i] \subseteq decisions[i] \cup {d}
          /\ \A j \in Instances : NewDecisions(j) /\ (j # i => decisions'[j] = decisions[j])
    BY <2>1
  <2>3. now' >= now /\ stoppedAt' = stoppedAt /\ (target.serving => target'.serving)
    BY <1>0, <2>0
  <2>4. /\ stoppedAt' <= now'
        /\ \A j \in Instances : owner'[j].started <= now' /\ OwnerTime(j)'
        /\ \A j \in Instances : \A x \in decisions[j] : x.until <= now' + GrantTime
        /\ \A r \in replies : ReplyTime(r)'
    BY <2>0, <2>2, <2>3, TimeKept
  <2>5. \A j \in Instances : \A x \in decisions'[j] : x.until <= now' + GrantTime
    BY <2>0, <2>2, <2>4
  <2>6. \A r \in replies' : r \notin replies => ReplyTime(r)'
    BY <2>0, <2>2, AnswerTime
  <2> QED
    BY <2>4, <2>5, <2>6 DEF TimeInv
<1> QED
  BY <1>3, <1>4, <1>5, <1>6, <1>7, <1>8, ProcessTime DEF Next, Grants, Gateway

LEMMA TimeCorrect == Spec => []TimeInv
BY TimeInit, TimeNext, BaseCorrect, WireCorrect, PTL DEF Spec

\* A process never counts a grant longer than the store does, however long the
\* answer was under way (grant-owner.ts, receive; serving/renewals.rs).
THEOREM ValidCorrect == Spec => []HeldIsValid
<1>1. TimeInv => HeldIsValid
  <2> SUFFICES ASSUME TimeInv, NEW i \in Instances, Mode(i) # "closed",
                      NEW d \in decisions[i], d.seq = owner[i].held
               PROVE  owner[i].expires <= d.until
    BY DEF HeldIsValid
  <2>1. owner[i].held # 0 /\ OwnerTime(i)
    BY DEF Mode, TimeInv
  <2> QED
    BY <2>1 DEF OwnerTime, Until
<1> QED
  BY <1>1, TimeCorrect, PTL

\* A proxy that is told to stop serves for one grant's length at most, with or
\* without its controller (serving/renewals.rs; grant-owner.ts, snapshot).
THEOREM StopCorrect == Spec => []StopsInTime
<1>1. TypeInv /\ TimeInv => StopsInTime
  <2> SUFFICES ASSUME TypeInv, TimeInv, ~target.serving, now >= stoppedAt + GrantTime,
                      NEW i \in Instances, Serves(i)
               PROVE  FALSE
    BY DEF StopsInTime
  <2>1. owner[i].held # 0 /\ owner[i].mode = "serve" /\ now < owner[i].expires /\ OwnerTime(i)
    BY DEF Serves, Mode, TimeInv
  <2>2. owner[i].expires <= stoppedAt + GrantTime
    BY <2>1 DEF OwnerTime, Until
  <2>3. owner[i].expires \in Nat /\ stoppedAt \in Nat /\ now \in Nat /\ GrantTime \in Nat
    BY GrantAssumption DEF TypeInv, OwnerType
  <2> QED
    BY <2>1, <2>2, <2>3
<1> QED
  BY <1>1, BaseCorrect, TimeCorrect, PTL

-----------------------------------------------------------------------------
(* Calls.                                                                  *)

CallType ==
    [inst : 0..MaxGen, epoch : Nat, started : Nat,
     step : {"none", "asking", "allowed", "upstream", "unknown", "completing", "done", "gone"}]
ReservationType == [state : {"none", "held", "released"}, epoch : Nat, deadline : Nat]

HeldRows == {c \in Calls : row[c].state = "held"}

\* The reservations are counted; a call that may yet go upstream, or is there,
\* has one of its own epoch, and its process is not dead.
CallInv ==
    /\ call \in [Calls -> CallType] /\ row \in [Calls -> ReservationType]
    /\ IsFiniteSet(HeldRows) /\ counter = Cardinality(HeldRows) /\ counter <= Limit
    /\ \A c \in Calls :
        /\ call[c].step \in {"asking", "allowed", "upstream"} =>
            call[c].inst \in Instances /\ owner[call[c].inst].state # "dead"
        /\ call[c].step \in {"allowed", "upstream"} =>
            row[c].state = "held" /\ row[c].epoch = call[c].epoch

\* Every step of a call, or of a process with its calls, is a step of the grants.
LEMMA CallStep == CallInv /\ [CallNext]_allVars => [Next]_vars
<1> SUFFICES ASSUME CallInv, [CallNext]_allVars PROVE [Next]_vars
  OBVIOUS
<1>1. CASE Grants \/ UNCHANGED allVars
  BY <1>1 DEF Next, allVars
<1>2. ASSUME NEW i \in Instances, Gone(i) \/ ReleaseTerminated(i) \/ \E c \in Calls : Start(c, i)
      PROVE  [Next]_vars
  BY <1>2 DEF Gone, ReleaseTerminated, Start, Next
<1>3. ASSUME NEW c \in Calls, Refuse(c) \/ Close(c) PROVE [Next]_vars
  <2>1. call[c].inst \in Instances
    BY <1>3 DEF Refuse, Close, CallInv
  <2> QED
    BY <1>3, <2>1 DEF Refuse, Close, Next
<1>4. ASSUME NEW c \in Calls,
             Reserve(c) \/ Authorize(c) \/ Dispatch(c) \/ Complete(c) \/ Confirm(c)
      PROVE  [Next]_vars
  BY <1>4 DEF Reserve, Authorize, Dispatch, Complete, Confirm
<1> QED
  BY <1>1, <1>2, <1>3, <1>4 DEF CallNext

LEMMA CallInit0 == CallInit => CallInv
<1> SUFFICES ASSUME CallInit PROVE CallInv
  OBVIOUS
<1>1. NoCall \in CallType /\ NoRow \in ReservationType /\ NoCall.step = "none" /\ NoRow.state = "none"
  BY InstanceFacts DEF NoCall, NoRow, CallType, ReservationType, None
<1>2. HeldRows = {}
  BY <1>1 DEF CallInit, HeldRows
<1> QED
  BY <1>1, <1>2, FS_EmptySet, CallAssumption DEF CallInit, CallInv

\* Only the death of a process makes it dead.
LEMMA GrantsAlive ==
    ASSUME TypeInv, RowInv, Grants, NEW i \in Instances, owner[i].state # "dead"
    PROVE  owner'[i].state # "dead"
<1>1. CASE owner' = owner
  BY <1>1
<1>2. ASSUME NEW j \in Instances, Gateway(j) PROVE owner'[i].state # "dead"
  <2>1. ASSUME NEW ready \in BOOLEAN, Ask(j, ready) PROVE owner'[i].state # "dead"
    BY <2>1, AskFacts
  <2>2. ASSUME NEW r \in replies, Receive(j, r) PROVE owner'[i].state # "dead"
    BY <2>2, ReceiveFacts
  <2>3. CASE Stop(j)
    BY <2>3, NewRecords DEF Stop, TypeInv
  <2> QED
    BY <1>2, <2>1, <2>2, <2>3 DEF Gateway
<1>3. ASSUME CloseAll \/ \E j \in Instances : Controller(j) PROVE owner' = owner
  BY <1>3, ControllerFrame
<1>4. ASSUME Tick \/ (\E serving \in BOOLEAN : Decide(serving)) \/ (\E q \in sent : Renew(q))
      PROVE  owner' = owner
  BY <1>4 DEF Tick, Decide, Renew, process
<1> QED
  BY <1>1, <1>2, <1>3, <1>4 DEF Grants

\* A call goes one step further, and what is reserved stays.
LEMMA StepOn ==
    ASSUME CallInv, NEW c \in Calls, UNCHANGED <<row, counter>>, owner' = owner,
           NEW s \in {"allowed", "upstream", "unknown", "completing", "done"},
           call' = [call EXCEPT ![c].step = s],
           s \in {"allowed", "upstream"} =>
             /\ call[c].step \in {"asking", "allowed"}
             /\ row[c].state = "held" /\ row[c].epoch = call[c].epoch
    PROVE  CallInv'
<1> DEFINE e == [call[c] EXCEPT !.step = s]
<1>1. call[c] \in CallType /\ call \in [Calls -> CallType]
  BY DEF CallInv
<1>2. /\ e \in CallType /\ e.step = s /\ e.inst = call[c].inst /\ e.epoch = call[c].epoch
  BY <1>1 DEF CallType
<1>3. call' = [call EXCEPT ![c] = e]
  BY <1>1
<1> HIDE DEF e
<1>4. /\ call' \in [Calls -> CallType] /\ call'[c] = e
      /\ \A x \in Calls : x # c => call'[x] = call[x]
  BY <1>1, <1>2, <1>3
<1>5. HeldRows' = HeldRows
  BY DEF HeldRows
<1>6. ASSUME NEW x \in Calls
      PROVE  /\ call'[x].step \in {"asking", "allowed", "upstream"} =>
                  call'[x].inst \in Instances /\ owner'[call'[x].inst].state # "dead"
             /\ call'[x].step \in {"allowed", "upstream"} =>
                  row'[x].state = "held" /\ row'[x].epoch = call'[x].epoch
  <2>1. CASE x = c
    BY <1>2, <1>4, <2>1 DEF CallInv
  <2>2. CASE x # c
    BY <1>4, <2>2 DEF CallInv
  <2> QED
    BY <2>1, <2>2
<1> QED
  BY <1>4, <1>5, <1>6 DEF CallInv

LEMMA ReserveInv ==
    ASSUME TypeInv, CallInv, NEW c \in Calls, Reserve(c)
    PROVE  CallInv'
<1>1. /\ call[c].step \in {"asking", "unknown", "gone"} /\ row[c].state = "none"
      /\ counter < Limit /\ counter' = counter + 1 /\ call' = call /\ owner' = owner
  BY DEF Reserve, vars
<1>2. PICK e \in ReservationType : e.state = "held" /\ row' = [row EXCEPT ![c] = e]
  <2>1. PICK until \in 1..(MaxTime + GrantTime) :
          /\ Admittable(call[c].inst, until)
          /\ row' = [row EXCEPT ![c] = [state |-> "held", epoch |-> selection.epoch,
                                        deadline |-> call[c].started + (until - now)]]
    BY DEF Reserve
  <2>2. now < until /\ now \in Nat /\ selection.epoch \in Nat /\ call[c].started \in Nat
        /\ until \in Nat
    BY <2>1, GrantAssumption, SelectionFacts DEF Admittable, TypeInv, CallInv, CallType
  <2>3. call[c].started + (until - now) \in Nat
    BY <2>2
  <2>4. [state |-> "held", epoch |-> selection.epoch,
         deadline |-> call[c].started + (until - now)] \in ReservationType
    BY <2>2, <2>3 DEF ReservationType
  <2> QED
    BY <2>1, <2>4
<1>3. /\ row' \in [Calls -> ReservationType] /\ row'[c] = e
      /\ \A x \in Calls : x # c => row'[x] = row[x]
  BY <1>2 DEF CallInv
<1>4. HeldRows' = HeldRows \cup {c} /\ c \notin HeldRows
  BY <1>1, <1>2, <1>3 DEF HeldRows
<1>5. IsFiniteSet(HeldRows)' /\ Cardinality(HeldRows)' = Cardinality(HeldRows) + 1
      /\ Cardinality(HeldRows) \in Nat
  <2>1. IsFiniteSet(HeldRows)
    BY DEF CallInv
  <2>2. IsFiniteSet(HeldRows \cup {c}) /\ Cardinality(HeldRows \cup {c}) = Cardinality(HeldRows) + 1
    BY <1>4, <2>1, FS_AddElement
  <2> QED
    BY <1>4, <2>1, <2>2, FS_CardinalityType
<1>6. counter' = Cardinality(HeldRows)' /\ counter' <= Limit
  BY <1>1, <1>5, CallAssumption DEF CallInv
<1>7. ASSUME NEW x \in Calls, call[x].step \in {"allowed", "upstream"}
      PROVE  row'[x].state = "held" /\ row'[x].epoch = call[x].epoch
  BY <1>1, <1>3, <1>7 DEF CallInv
<1> QED
  BY <1>1, <1>3, <1>5, <1>6, <1>7 DEF CallInv

\* Reservations of calls that are not, and will not be, upstream are released.
LEMMA ReleaseInv ==
    ASSUME CallInv, NEW S \in SUBSET HeldRows, call' = call, owner' = owner,
           row' \in [Calls -> ReservationType],
           \A c \in Calls : c \notin S => row'[c] = row[c],
           \A c \in S : row'[c].state = "released" /\ call[c].step \notin {"allowed", "upstream"},
           counter' = counter - Cardinality(S)
    PROVE  CallInv'
<1>1. IsFiniteSet(HeldRows) /\ counter = Cardinality(HeldRows) /\ counter <= Limit
  BY DEF CallInv
<1>2. IsFiniteSet(S) /\ Cardinality(S) \in Nat /\ Cardinality(HeldRows) \in Nat
  BY <1>1, FS_Subset, FS_CardinalityType
<1>3. HeldRows' = HeldRows \ S
  BY DEF HeldRows
<1>4. IsFiniteSet(HeldRows \ S)
      /\ Cardinality(HeldRows \ S) = Cardinality(HeldRows) - Cardinality(S)
  <2>1. HeldRows \cap S = S
    OBVIOUS
  <2>2. IsFiniteSet(HeldRows \ S)
        /\ Cardinality(HeldRows \ S) = Cardinality(HeldRows) - Cardinality(HeldRows \cap S)
    BY <1>1, FS_Difference, Zenon
  <2> QED
    BY <2>1, <2>2, Zenon
<1>5. IsFiniteSet(HeldRows)' /\ counter' = Cardinality(HeldRows)' /\ counter' <= Limit
  BY <1>1, <1>2, <1>3, <1>4, CallAssumption
<1>6. ASSUME NEW x \in Calls, call[x].step \in {"allowed", "upstream"}
      PROVE  row'[x] = row[x]
  BY <1>6
<1> QED
  BY <1>5, <1>6 DEF CallInv

LEMMA CallInvNext ==
    TypeInv /\ RowInv /\ CallInv /\ [CallNext]_allVars => CallInv'
<1> SUFFICES ASSUME TypeInv, RowInv, CallInv, [CallNext]_allVars PROVE CallInv'
  OBVIOUS
<1>1. ASSUME call' = call, row' = row, counter' = counter,
             \A i \in Instances : owner[i].state # "dead" => owner'[i].state # "dead"
      PROVE  CallInv'
  <2>1. HeldRows' = HeldRows
    BY <1>1 DEF HeldRows
  <2>2. \A c \in Calls : call'[c].step \in {"asking", "allowed", "upstream"} =>
           call'[c].inst \in Instances /\ owner'[call'[c].inst].state # "dead"
    BY <1>1 DEF CallInv
  <2> QED
    BY <1>1, <2>1, <2>2 DEF CallInv
<1>2. CASE Grants /\ UNCHANGED callVars
  BY <1>1, <1>2, GrantsAlive DEF callVars
<1>3. CASE UNCHANGED allVars
  BY <1>1, <1>3 DEF allVars, vars, callVars
<1>4. ASSUME NEW i \in Instances, NEW c \in Calls, Start(c, i) PROVE CallInv'
  <2> DEFINE e == [inst |-> i, step |-> "asking", epoch |-> owner[i].epoch, started |-> now]
  <2>1. /\ call' = [call EXCEPT ![c] = e] /\ UNCHANGED <<row, counter, owner>>
        /\ owner[i].state = "up"
    BY <1>4 DEF Start, BeginCall, Mode
  <2>2. e \in CallType /\ e.step = "asking" /\ e.inst = i
    <3>1. now \in Nat /\ owner[i].epoch \in Nat /\ i \in 0..MaxGen
      BY InstanceFacts DEF TypeInv, OwnerType
    <3> QED
      BY <3>1 DEF CallType
  <2> HIDE DEF e
  <2>3. /\ call' \in [Calls -> CallType] /\ call'[c] = e
        /\ \A x \in Calls : x # c => call'[x] = call[x]
    BY <2>1, <2>2 DEF CallInv
  <2>4. HeldRows' = HeldRows
    BY <2>1 DEF HeldRows
  <2>5. ASSUME NEW x \in Calls
        PROVE  /\ call'[x].step \in {"asking", "allowed", "upstream"} =>
                    call'[x].inst \in Instances /\ owner'[call'[x].inst].state # "dead"
               /\ call'[x].step \in {"allowed", "upstream"} =>
                    row'[x].state = "held" /\ row'[x].epoch = call'[x].epoch
    <3>1. CASE x = c
      BY <2>1, <2>2, <2>3, <3>1
    <3>2. CASE x # c
      BY <2>1, <2>3, <3>2 DEF CallInv
    <3> QED
      BY <3>1, <3>2
  <2> QED
    BY <2>1, <2>3, <2>4, <2>5 DEF CallInv
<1>5. ASSUME NEW i \in Instances, Gone(i) PROVE CallInv'
  <2>1. /\ UNCHANGED <<row, counter>>
        /\ call' = [c \in Calls |-> IF call[c].inst = i /\ call[c].step # "done"
                                    THEN [call[c] EXCEPT !.step = "gone"] ELSE call[c]]
        /\ \A j \in Instances : j # i => owner'[j] = owner[j]
    BY <1>5, EndFacts DEF Gone
  <2>2. \A c \in Calls : /\ [call[c] EXCEPT !.step = "gone"] \in CallType
                         /\ [call[c] EXCEPT !.step = "gone"].step = "gone"
    <3>1. \A c \in Calls : call[c] \in CallType
      BY DEF CallInv
    <3> QED
      BY <3>1 DEF CallType
  <2>3. call' \in [Calls -> CallType]
    BY <2>1, <2>2 DEF CallInv
  <2>4. HeldRows' = HeldRows
    BY <2>1 DEF HeldRows
  <2>5. ASSUME NEW x \in Calls
        PROVE  /\ call'[x].step \in {"asking", "allowed", "upstream"} =>
                    call'[x].inst \in Instances /\ owner'[call'[x].inst].state # "dead"
               /\ call'[x].step \in {"allowed", "upstream"} =>
                    row'[x].state = "held" /\ row'[x].epoch = call'[x].epoch
    <3>1. CASE call[x].inst = i /\ call[x].step # "done"
      <4>1. call'[x].step = "gone"
        BY <2>1, <2>2, <3>1
      <4> QED
        BY <4>1
    <3>2. CASE ~(call[x].inst = i /\ call[x].step # "done")
      <4>1. call'[x] = call[x] /\ (call[x].inst # i \/ call[x].step = "done")
        BY <2>1, <3>2
      <4> QED
        BY <2>1, <4>1 DEF CallInv
    <3> QED
      BY <3>1, <3>2
  <2> QED
    BY <2>1, <2>3, <2>4, <2>5 DEF CallInv
<1>6. ASSUME NEW i \in Instances, ReleaseTerminated(i) PROVE CallInv'
  <2>1. /\ deployed[i].terminated /\ call' = call /\ owner' = owner
        /\ row' = [c \in Calls |-> IF c \in HeldBy(i) THEN [row[c] EXCEPT !.state = "released"] ELSE row[c]]
        /\ counter' = counter - Cardinality(HeldBy(i))
    BY <1>6 DEF ReleaseTerminated, vars
  <2>2. owner[i].state = "dead"
    BY <2>1 DEF RowInv
  <2>3. HeldBy(i) \in SUBSET HeldRows
    BY DEF HeldBy, HeldRows
  <2>4. \A c \in HeldBy(i) : call[c].step \notin {"allowed", "upstream"}
    BY <2>2 DEF HeldBy, CallInv
  <2>5. \A c \in Calls : /\ [row[c] EXCEPT !.state = "released"] \in ReservationType
                         /\ [row[c] EXCEPT !.state = "released"].state = "released"
    <3>1. \A c \in Calls : row[c] \in ReservationType
      BY DEF CallInv
    <3> QED
      BY <3>1 DEF ReservationType
  <2>6. row' \in [Calls -> ReservationType]
    BY <2>1, <2>5 DEF CallInv
  <2>7. \A c \in HeldBy(i) : c \in Calls /\ row'[c].state = "released"
    BY <2>1, <2>5 DEF HeldBy
  <2> QED
    BY <2>1, <2>3, <2>4, <2>6, <2>7, ReleaseInv
<1>7. ASSUME NEW c \in Calls, Authorize(c) \/ Dispatch(c) \/ Refuse(c) \/ Close(c) \/ Confirm(c)
      PROVE  CallInv'
  <2>1. CASE Authorize(c)
    <3>1. /\ call' = [call EXCEPT ![c].step = "allowed"] /\ UNCHANGED <<row, counter, owner>>
          /\ call[c].step = "asking" /\ row[c].state = "held" /\ row[c].epoch = call[c].epoch
      BY <2>1 DEF Authorize, vars
    <3> QED
      BY <3>1, StepOn
  <2>2. CASE Dispatch(c)
    <3>1. /\ call' = [call EXCEPT ![c].step = "upstream"] /\ UNCHANGED <<row, counter, owner>>
          /\ call[c].step = "allowed"
      BY <2>2 DEF Dispatch, vars
    <3>2. row[c].state = "held" /\ row[c].epoch = call[c].epoch
      BY <3>1 DEF CallInv
    <3> QED
      BY <3>1, <3>2, StepOn
  <2>3. CASE Refuse(c) \/ Close(c) \/ Confirm(c)
    <3>1. /\ UNCHANGED <<row, counter, owner>>
          /\ \E s \in {"unknown", "completing", "done"} : call' = [call EXCEPT ![c].step = s]
      BY <2>3 DEF Refuse, Close, Confirm, EndCall, vars
    <3>2. PICK s \in {"unknown", "completing", "done"} : call' = [call EXCEPT ![c].step = s]
      BY <3>1
    <3> QED
      BY <3>1, <3>2, StepOn
  <2> QED
    BY <1>7, <2>1, <2>2, <2>3
<1>8. ASSUME NEW c \in Calls, Complete(c) PROVE CallInv'
  <2> DEFINE e == [row[c] EXCEPT !.state = "released"]
  <2>1. /\ call[c].step \in {"completing", "gone"} /\ row[c].state = "held"
        /\ counter' = counter - 1 /\ call' = call /\ owner' = owner
    BY <1>8 DEF Complete, vars
  <2>2. row[c] \in ReservationType /\ row \in [Calls -> ReservationType]
    BY DEF CallInv
  <2>3. e \in ReservationType /\ e.state = "released"
    BY <2>2 DEF ReservationType
  <2>4. row' = [row EXCEPT ![c] = e]
    BY <1>8, <2>2 DEF Complete
  <2> HIDE DEF e
  <2>5. /\ row' \in [Calls -> ReservationType] /\ row'[c].state = "released"
        /\ \A x \in Calls : x \notin {c} => row'[x] = row[x]
    BY <2>2, <2>3, <2>4
  <2>6. {c} \in SUBSET HeldRows /\ Cardinality({c}) = 1
    BY <2>1, FS_Singleton DEF HeldRows
  <2> QED
    BY <2>1, <2>5, <2>6, ReleaseInv
<1> QED
  BY <1>2, <1>3, <1>4, <1>5, <1>6, <1>7, <1>8, ReserveInv DEF CallNext

LEMMA CallInvCorrect == CallSpec => [](TypeInv /\ RowInv /\ CallInv)
<1>1. CallInit => TypeInv /\ RowInv /\ CallInv
  BY BaseInit, CallInit0 DEF CallInit
<1>2. TypeInv /\ RowInv /\ CallInv /\ [CallNext]_allVars => TypeInv' /\ RowInv' /\ CallInv'
  BY BaseNext, CallStep, CallInvNext
<1> QED
  BY <1>1, <1>2, PTL DEF CallSpec

\* Calls, with their reservations, keep to the specification of the grants: what
\* is proved of Spec above holds of the processes with their calls too.
THEOREM CallsCorrect == CallSpec => Spec
<1>1. CallInit => Init
  BY DEF CallInit
<1> QED
  BY <1>1, CallStep, CallInvCorrect, PTL DEF CallSpec, Spec

\* The concurrency limit holds of what is really upstream, for any number of
\* calls and processes, whatever is lost, repeated or left by a dead process
\* (store/postgres/admissions; call-owner.ts).
THEOREM LimitCorrect == CallSpec => []LimitHolds
<1>1. CallInv => LimitHolds
  BY DEF CallInv, LimitHolds, InFlight, HeldRows
<1> QED
  BY <1>1, CallInvCorrect, PTL

=============================================================================
