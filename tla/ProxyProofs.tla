------------------------------ MODULE ProxyProofs ------------------------------
(***************************************************************************)
(* Proofs about ProxyOperations, and about RuntimeAgent, which composes it   *)
(* with the agent and its container engine: for any number of generations,  *)
(* revisions, leases and clock values, and any number of commands a record  *)
(* keeps. Init, Next, vars and Spec are ProxyOperations'; AgentInit,        *)
(* AgentNext, agentVars and AgentSpec are those of the composition.         *)
(***************************************************************************)
EXTENDS RuntimeAgent, TLAPS

(***************************************************************************)
(* The store: ProxyOperations.                                              *)
(***************************************************************************)
OpType  == [revision : 1..MaxRevisions, desired : Desired, observed : Observed]
JobType == [step : {"none", "leased", "prepared", "observed"},
            gen : 0..MaxGen, command : Commands \cup {0}]

\* The invariant that is inductive: types, the agreement of row and journal, and
\* the order of the fences.
IInv == TypeOK /\ RowMatchesJournal /\ FenceInv /\ CommandsFollowFences

-----------------------------------------------------------------------------
(* What the actions rest on. *)

LEMMA ActionTypes ==
    ASSUME NEW action \in Actions
    PROVE  /\ DesiredBy(action) \in Desired
           /\ Projection(action) \in Lives
           /\ Projection(action) = LifeOf(DesiredBy(action), "pending")
BY DEF Actions, DesiredBy, Desired, Projection, Lives, LifeOf, Terminal

LEMMA LifeTypes ==
    ASSUME NEW d \in Desired, NEW s \in Observed
    PROVE  /\ LifeOf(d, s) \in Lives
           /\ LifeOf(d, s) = "retired" => s \in Terminal
BY DEF Desired, Observed, Terminal, LifeOf, Lives

LEMMA AnswerTypes ==
    ASSUME NEW r \in Answers
    PROVE  StateOf(r) \in Observed /\ r \in Observed \cup {"none"}
BY DEF Answers, StateOf, Observed, Terminal

\* The types the order of the fences rests on, in the form arithmetic needs.
LEMMA NumberFacts ==
    ASSUME IInv
    PROVE  /\ proxy.gen \in Nat /\ lease.gen \in Nat /\ lease.fence \in 0..MaxFence
           /\ attempt.fence \in 0..MaxFence /\ attempt.command \in Nat
           /\ \A f \in Fences : f \in Nat /\ jobs[f] \in JobType
           /\ \A f \in Fences : jobs[f].gen \in Nat /\ jobs[f].command \in Nat
<1> USE ProxyAssumption
<1>1. \A n \in Commands \cup {0} : n \in Nat
  BY DEF Commands
<1>2. proxy.gen \in Nat /\ lease.gen \in Nat /\ lease.fence \in 0..MaxFence
  BY DEF IInv, TypeOK
<1>3. attempt.fence \in 0..MaxFence /\ attempt.command \in Nat
  BY <1>1 DEF IInv, TypeOK
<1>4. jobs \in [Fences -> JobType] /\ \A f \in Fences : f \in Nat
  BY DEF IInv, TypeOK, JobType, Fences
<1>5. ASSUME NEW j \in JobType PROVE j.gen \in Nat /\ j.command \in Nat
  BY <1>1 DEF JobType
<1> QED
  BY <1>2, <1>3, <1>4, <1>5

\* A change of one field of a job changes no other.
LEMMA JobFields ==
    ASSUME NEW j \in JobType, NEW s \in {"none", "leased", "prepared", "observed"},
           NEW c \in Commands
    PROVE  /\ [j EXCEPT !.step = s] \in JobType
           /\ [j EXCEPT !.step = s].step = s
           /\ [j EXCEPT !.step = s].gen = j.gen
           /\ [j EXCEPT !.step = s].command = j.command
           /\ [j EXCEPT !.step = s, !.command = c] \in JobType
           /\ [j EXCEPT !.step = s, !.command = c].step = s
           /\ [j EXCEPT !.step = s, !.command = c].gen = j.gen
           /\ [j EXCEPT !.step = s, !.command = c].command = c
BY DEF JobType

\* Only the newest generation is current, under the newest fence.
LEMMA CurrentIsNewest ==
    ASSUME IInv, NEW f \in Fences, Current(f)
    PROVE  /\ f = lease.fence /\ jobs[f].gen = proxy.gen /\ lease.gen = proxy.gen
           /\ proxy.gen \in 1..MaxGen /\ proxy.gen \in DOMAIN ops
           /\ ops[proxy.gen] \in OpType /\ ops[proxy.gen].observed \notin Terminal
<1>1. lease.fence = f /\ lease.gen = jobs[f].gen /\ jobs[f].gen = proxy.gen
      /\ proxy.gen \in DOMAIN ops /\ ops[proxy.gen].observed \notin Terminal
  BY DEF Current, LiveLease, MatchesLiveTarget
<1>2. ops \in Seq(OpType) /\ proxy.gen \in 0..MaxGen
  BY DEF IInv, TypeOK, OpType
<1> QED
  BY <1>1, <1>2

LEMMA IncreasingFacts ==
    ASSUME NEW prior \in Nat, NEW clock \in Clocks
    PROVE  /\ Increasing(prior, clock) \in Nat
           /\ Increasing(prior, clock) > prior
           /\ Increasing(prior, clock) <= MaxClock \/ Increasing(prior, clock) = prior + 1
BY ProxyAssumption DEF Increasing, Clocks

-----------------------------------------------------------------------------
LEMMA ProxyInit == Init => IInv
<1> SUFFICES ASSUME Init PROVE IInv
  OBVIOUS
<1> USE ProxyAssumption
<1>1. TypeOK
  <2>1. NoJob \in JobType
    BY DEF NoJob, JobType
  <2>2. jobs \in [Fences -> JobType]
    BY <2>1 DEF Init
  <2>3. /\ proxy \in [life : Lives, active : 0..MaxRevisions,
                      desired : Lives \cup Desired, gen : 0..MaxGen]
        /\ lease \in [gen : 0..MaxGen, fence : 0..MaxFence, live : BOOLEAN]
        /\ attempt \in [gen : 0..MaxGen, fence : 0..MaxFence, command : Commands \cup {0},
                        response : Observed \cup {"none"}]
    BY DEF Init, Lives
  <2>4. /\ ops \in Seq(OpType) /\ intents \in Seq(Intent)
        /\ drafted \in BOOLEAN /\ published \in 0..MaxRevisions
        /\ outbox \in Nat /\ enqueued \in Nat
    <3>1. << >> \in Seq(OpType) /\ << >> \in Seq(Intent)
      OBVIOUS
    <3>2. 0 \in 0..MaxRevisions /\ 0 \in Nat
      OBVIOUS
    <3> QED
      BY <3>1, <3>2, Zenon DEF Init
  <2> QED
    BY <2>2, <2>3, <2>4 DEF TypeOK, JobType, OpType
<1>2. RowMatchesJournal
  BY DEF Init, RowMatchesJournal
<1>3. FenceInv /\ CommandsFollowFences
  BY DEF Init, FenceInv, CommandsFollowFences, NoJob, Fences
<1> QED
  BY <1>1, <1>2, <1>3 DEF IInv

-----------------------------------------------------------------------------
(* One lemma per action that writes the row, the journal or the jobs. *)

LEMMA UpdateDraftInv == IInv /\ UpdateDraft => IInv'
BY DEF IInv, TypeOK, RowMatchesJournal, MatchesLiveTarget, FenceInv, CommandsFollowFences,
       UpdateDraft, journal, evidence

LEMMA PublishInv == IInv /\ Publish => IInv'
<1> SUFFICES ASSUME IInv, Publish PROVE IInv'
  OBVIOUS
<1> USE ProxyAssumption
<1>1. /\ UNCHANGED <<ops, lease, attempt, jobs, intents, outbox, enqueued, drafted>>
      /\ proxy'.gen = proxy.gen /\ proxy'.life = proxy.life
      /\ proxy.gen > 0 => proxy' = proxy
  BY DEF Publish, journal, evidence, IInv, TypeOK
<1>2. TypeOK'
  <2>1. published' = published + 1 /\ published < MaxRevisions
        /\ published \in 0..MaxRevisions
    BY DEF Publish, IInv, TypeOK
  <2>2. proxy' \in [life : Lives, active : 0..MaxRevisions,
                    desired : Lives \cup Desired, gen : 0..MaxGen]
    <3>1. proxy' \in {proxy, [proxy EXCEPT !.active = published + 1]}
      BY DEF Publish
    <3>2. proxy \in [life : Lives, active : 0..MaxRevisions,
                     desired : Lives \cup Desired, gen : 0..MaxGen]
      BY DEF IInv, TypeOK
    <3>3. published + 1 \in 0..MaxRevisions
      BY <2>1
    <3> QED
      BY <3>1, <3>2, <3>3
  <2> QED
    BY <1>1, <2>1, <2>2 DEF IInv, TypeOK
<1>3. RowMatchesJournal'
  BY <1>1 DEF IInv, TypeOK, RowMatchesJournal, MatchesLiveTarget
<1>4. FenceInv' /\ CommandsFollowFences'
  BY <1>1 DEF IInv, FenceInv, CommandsFollowFences
<1> QED
  BY <1>2, <1>3, <1>4 DEF IInv

LEMMA TransitionInv ==
    ASSUME IInv, NEW from, NEW to \in {"validating", "awaiting_approval"}, Transition(from, to)
    PROVE  IInv'
<1> USE ProxyAssumption
<1>1. /\ UNCHANGED <<ops, lease, attempt, jobs, intents, outbox, enqueued, drafted, published>>
      /\ proxy'.gen = proxy.gen /\ proxy.gen = 0
  BY DEF Transition, journal, evidence, IInv, TypeOK
<1>2. TypeOK'
  BY <1>1 DEF IInv, TypeOK, Transition, Lives
<1>3. RowMatchesJournal'
  BY <1>1 DEF IInv, TypeOK, RowMatchesJournal
<1>4. FenceInv' /\ CommandsFollowFences'
  BY <1>1 DEF IInv, FenceInv, CommandsFollowFences
<1> QED
  BY <1>2, <1>3, <1>4 DEF IInv

LEMMA AcceptInv ==
    ASSUME IInv, NEW action \in Actions, NEW revision \in 1..MaxRevisions,
           Accept(action, revision)
    PROVE  IInv'
<1> USE ProxyAssumption
<1> DEFINE op == [revision |-> revision, desired |-> DesiredBy(action), observed |-> "pending"]
<1>1. /\ proxy' = [life |-> Projection(action), active |-> revision,
                   desired |-> DesiredBy(action), gen |-> proxy.gen + 1]
      /\ ops' = Append(ops, op) /\ proxy.gen < MaxGen
      /\ intents' = Append(intents, [gen |-> proxy.gen + 1, fence |-> 0, state |-> "pending"])
      /\ published' \in {published, revision}
      /\ UNCHANGED <<drafted, lease, attempt, jobs, enqueued, outbox>>
  BY DEF Accept, SubmitOperation
<1>2. op \in OpType
  BY ActionTypes DEF OpType, Observed
<1>3. Len(ops) = proxy.gen /\ proxy.gen \in Nat /\ ops \in Seq(OpType)
  BY DEF IInv, TypeOK, RowMatchesJournal, OpType
<1>4. /\ ops' \in Seq(OpType) /\ Len(ops') = proxy.gen + 1
      /\ DOMAIN ops' = 1..(proxy.gen + 1) /\ ops'[proxy.gen + 1] = op
  BY <1>1, <1>2, <1>3
<1>5. TypeOK'
  <2>1. [gen |-> proxy.gen + 1, fence |-> 0, state |-> "pending"] \in Intent
    BY <1>1, <1>3 DEF Intent, Observed
  <2>2. intents' \in Seq(Intent)
    BY <1>1, <2>1 DEF IInv, TypeOK
  <2>3. proxy' \in [life : Lives, active : 0..MaxRevisions,
                    desired : Lives \cup Desired, gen : 0..MaxGen]
    BY <1>1, <1>3, ActionTypes
  <2> QED
    BY <1>1, <1>4, <2>2, <2>3 DEF IInv, TypeOK, OpType
<1>6. RowMatchesJournal'
  <2>1. proxy'.gen = proxy.gen + 1 /\ proxy'.active = revision
        /\ proxy'.desired = DesiredBy(action) /\ proxy'.life = Projection(action)
    BY <1>1
  <2> QED
    BY <2>1, <1>3, <1>4, ActionTypes DEF RowMatchesJournal, MatchesLiveTarget
<1>7. FenceInv' /\ CommandsFollowFences'
  BY <1>1, <1>3 DEF IInv, TypeOK, FenceInv, CommandsFollowFences
<1> QED
  BY <1>5, <1>6, <1>7 DEF IInv

LEMMA LeaseInv == IInv /\ Lease => IInv'
<1> SUFFICES ASSUME IInv, Lease PROVE IInv'
  OBVIOUS
<1> USE ProxyAssumption
<1> DEFINE n == lease.fence + 1
           taken == [step |-> "leased", gen |-> proxy.gen, command |-> 0]
<1>1. /\ UNCHANGED <<proxy, drafted, published, ops, attempt, intents, outbox, enqueued>>
      /\ lease' = [gen |-> proxy.gen, fence |-> n, live |-> TRUE]
      /\ jobs' = [jobs EXCEPT ![n] = taken]
      /\ lease.fence < MaxFence
  BY DEF Lease, evidence
<1>2. n \in Fences /\ lease.fence \in Nat /\ n > lease.fence
  BY <1>1 DEF IInv, TypeOK, Fences
<1>3. \A f \in Fences : jobs'[f] = IF f = n THEN taken ELSE jobs[f]
  BY <1>1, <1>2 DEF IInv, TypeOK
<1>4. TypeOK'
  <2>1. taken \in JobType
    BY DEF IInv, TypeOK, JobType
  <2>2. jobs' \in [Fences -> JobType]
    BY <1>1, <1>2, <2>1 DEF IInv, TypeOK, JobType
  <2>3. lease' \in [gen : 0..MaxGen, fence : 0..MaxFence, live : BOOLEAN]
    BY <1>1, <1>2 DEF IInv, TypeOK, Fences
  <2> QED
    BY <1>1, <2>2, <2>3 DEF IInv, TypeOK, JobType
<1>5. RowMatchesJournal'
  BY <1>1 DEF IInv, RowMatchesJournal, MatchesLiveTarget
<1>6. FenceInv'
  <2>1. lease'.gen = proxy.gen /\ lease'.fence = n /\ lease.gen <= proxy.gen
    BY <1>1 DEF IInv, FenceInv
  <2>2. attempt.fence # n /\ attempt.fence <= n
    BY <1>2 DEF IInv, TypeOK, FenceInv
  <2>3. attempt.fence # 0 => jobs'[attempt.fence].step \in {"prepared", "observed"}
    BY <1>3, <2>2, NumberFacts DEF IInv, FenceInv, Fences
  <2>4. ASSUME NEW f \in Fences
        PROVE  /\ f > n => jobs'[f] = NoJob
               /\ jobs'[f].gen <= proxy.gen
               /\ jobs'[f].command <= attempt.command
               /\ jobs'[f].step \in {"none", "leased"} => jobs'[f].command = 0
    <3>1. CASE f = n
      BY <3>1, <1>2, <1>3, NumberFacts
    <3>2. CASE f # n
      BY <3>2, <1>2, <1>3, <2>1, NumberFacts DEF IInv, FenceInv
    <3> QED
      BY <3>1, <3>2
  <2>5. ASSUME NEW e \in Fences, NEW f \in Fences, e < f, f <= n
        PROVE  jobs'[e].gen <= jobs'[f].gen
    <3>1. CASE f = n
      BY <3>1, <1>3, <2>1, <2>4, <2>5, NumberFacts
    <3>2. CASE f # n
      BY <3>2, <1>2, <1>3, <2>5, NumberFacts DEF IInv, FenceInv
    <3> QED
      BY <3>1, <3>2
  <2> QED
    <3>1. proxy' = proxy /\ attempt' = attempt /\ attempt.command <= MaxClock + attempt.fence
      BY <1>1 DEF IInv, FenceInv
    <3> QED
      <4>1. lease'.gen <= proxy'.gen /\ attempt'.fence <= lease'.fence
        BY <3>1, <2>1, <2>2, NumberFacts
      <4>2. attempt'.command <= MaxClock + attempt'.fence
        BY <3>1
      <4>3. attempt'.fence # 0 => jobs'[attempt'.fence].step \in {"prepared", "observed"}
        BY <3>1, <2>3
      <4>4. \A f \in Fences :
              /\ f > lease'.fence => jobs'[f] = NoJob
              /\ jobs'[f].gen <= lease'.gen
              /\ jobs'[f].command <= attempt'.command
              /\ jobs'[f].step \in {"none", "leased"} => jobs'[f].command = 0
        BY <3>1, <2>1, <2>4
      <4>5. \A e, f \in Fences : e < f /\ f <= lease'.fence => jobs'[e].gen <= jobs'[f].gen
        BY <2>1, <2>5
      <4> QED
        BY <4>1, <4>2, <4>3, <4>4, <4>5 DEF FenceInv
<1>7. CommandsFollowFences'
  BY <1>3 DEF IInv, CommandsFollowFences
<1> QED
  BY <1>4, <1>5, <1>6, <1>7 DEF IInv

LEMMA ExpireInv == IInv /\ Expire => IInv'
<1> SUFFICES ASSUME IInv, Expire PROVE IInv'
  OBVIOUS
<1>1. /\ UNCHANGED <<proxy, drafted, published, ops, attempt, jobs, intents, outbox, enqueued>>
      /\ lease' = [lease EXCEPT !.live = FALSE]
  BY DEF Expire, evidence
<1>2. TypeOK' /\ lease'.gen = lease.gen /\ lease'.fence = lease.fence
  BY <1>1 DEF IInv, TypeOK
<1>3. RowMatchesJournal'
  BY <1>1 DEF IInv, RowMatchesJournal, MatchesLiveTarget
<1> QED
  BY <1>1, <1>2, <1>3 DEF IInv, FenceInv, CommandsFollowFences

LEMMA PrepareInv ==
    ASSUME IInv, NEW f \in Fences, NEW clock \in Clocks, Prepare(f, clock)
    PROVE  IInv'
<1> USE ProxyAssumption
<1> DEFINE command == Increasing(attempt.command, clock)
<1>1. /\ UNCHANGED <<proxy, drafted, published, ops, lease, intents, outbox, enqueued>>
      /\ jobs' = [jobs EXCEPT ![f].step = "prepared", ![f].command = command]
      /\ attempt' = [gen |-> jobs[f].gen, fence |-> f, command |-> command, response |-> "none"]
      /\ jobs[f].step = "leased" /\ Current(f)
  BY DEF Prepare, evidence
<1>2. f = lease.fence /\ f \in Nat
  BY <1>1, CurrentIsNewest DEF Fences
<1>3. attempt.command \in Nat /\ attempt.fence \in Nat /\ attempt.fence < f
  <2>1. attempt.fence # f
    BY <1>1 DEF IInv, FenceInv, Fences
  <2> QED
    BY <2>1, <1>2, NumberFacts DEF IInv, FenceInv
<1> HIDE DEF command
<1>4. command \in Nat /\ command > attempt.command /\ command <= MaxClock + f
  BY <1>3, <1>2, IncreasingFacts DEF command, IInv, FenceInv
<1>5. command \in Commands
  BY <1>3, <1>4, <1>2 DEF Commands, Fences
<1>6. /\ jobs' \in [Fences -> JobType]
      /\ jobs'[f].step = "prepared" /\ jobs'[f].gen = jobs[f].gen /\ jobs'[f].command = command
      /\ \A g \in Fences : g # f => jobs'[g] = jobs[g]
      /\ \A g \in Fences : jobs'[g].gen = jobs[g].gen
  <2>1. jobs \in [Fences -> JobType]
    BY DEF IInv, TypeOK, JobType
  <2>2. jobs' = [jobs EXCEPT ![f] = [jobs[f] EXCEPT !.step = "prepared", !.command = command]]
    BY <1>1, <2>1
  <2> DEFINE j == [jobs[f] EXCEPT !.step = "prepared", !.command = command]
  <2>3. /\ j \in JobType /\ j.step = "prepared" /\ j.gen = jobs[f].gen /\ j.command = command
    <3>1. jobs[f] \in JobType
      BY <2>1
    <3> HIDE DEF j
    <3> QED
      BY <1>5, <3>1 DEF j, JobType
  <2> HIDE DEF j
  <2> QED
    BY <2>1, <2>2, <2>3 DEF j
<1>7. TypeOK'
  <2>2. attempt' \in [gen : 0..MaxGen, fence : 0..MaxFence, command : Commands \cup {0},
                      response : Observed \cup {"none"}]
    BY <1>1, <1>5 DEF IInv, TypeOK, Fences
  <2> QED
    BY <1>1, <1>6, <2>2 DEF IInv, TypeOK, JobType
<1>8. RowMatchesJournal'
  BY <1>1 DEF IInv, RowMatchesJournal, MatchesLiveTarget
<1>9. FenceInv'
  <2>1. attempt'.fence = f /\ attempt'.command = command
    BY <1>1
  <2>2. ASSUME NEW g \in Fences
        PROVE  /\ g > lease.fence => jobs'[g] = NoJob
               /\ jobs'[g].gen <= lease.gen
               /\ jobs'[g].command <= command
               /\ jobs'[g].step \in {"none", "leased"} => jobs'[g].command = 0
    <3>1. CASE g = f
      BY <3>1, <1>2, <1>4, <1>6 DEF IInv, FenceInv
    <3>2. CASE g # f
      BY <3>2, <1>3, <1>4, <1>6, NumberFacts DEF IInv, FenceInv
    <3> QED
      BY <3>1, <3>2
  <2>3. ASSUME NEW e \in Fences, NEW g \in Fences, e < g, g <= lease.fence
        PROVE  jobs'[e].gen <= jobs'[g].gen
    BY <1>6, <2>3 DEF IInv, FenceInv
  <2> QED
    BY <1>1, <1>2, <1>4, <1>6, <2>1, <2>2, <2>3 DEF IInv, FenceInv
<1>10. CommandsFollowFences'
  <2> SUFFICES ASSUME NEW e \in Fences, NEW g \in Fences, e < g,
                      jobs'[e].command # 0, jobs'[g].command # 0
               PROVE  jobs'[e].command < jobs'[g].command /\ jobs'[e].gen <= jobs'[g].gen
    BY DEF CommandsFollowFences
  <2>1. g <= f
    <3>1. ASSUME g > f PROVE FALSE
      BY <3>1, <1>2, <1>6 DEF IInv, FenceInv, NoJob, Fences
    <3> QED
      BY <3>1, <1>2 DEF Fences
  <2>2. jobs'[e].gen <= jobs'[g].gen
    BY <2>1, <1>2, <1>6 DEF IInv, FenceInv
  <2>3. CASE g = f
    BY <2>2, <2>3, <1>3, <1>4, <1>6, NumberFacts DEF IInv, FenceInv
  <2>4. CASE g # f
    BY <2>1, <2>4, <1>2, <1>6 DEF IInv, CommandsFollowFences, Fences
  <2> QED
    BY <2>3, <2>4
<1> QED
  BY <1>7, <1>8, <1>9, <1>10 DEF IInv

LEMMA ObserveInv ==
    ASSUME IInv, NEW f \in Fences, NEW r \in Answers, Observe(f, r)
    PROVE  IInv'
<1> USE ProxyAssumption
<1> DEFINE g == proxy.gen
           s == StateOf(r)
<1>1. jobs[f].step = "prepared" /\ Current(f)
  BY DEF Observe, MayObserve
<1>2. /\ jobs[f].gen = g /\ g \in 1..MaxGen /\ g \in DOMAIN ops
      /\ ops[g] \in OpType
  BY <1>1, CurrentIsNewest
<1>3. /\ attempt' = [attempt EXCEPT !.response = r]
      /\ ops' = [ops EXCEPT ![g].observed = s]
      /\ proxy' = [proxy EXCEPT !.life = LifeOf(ops[g].desired, s)]
      /\ intents' = Append(intents, [gen |-> g, fence |-> f, state |-> s])
      /\ jobs' = [jobs EXCEPT ![f].step = "observed"]
      /\ UNCHANGED <<drafted, published, lease, enqueued, outbox>>
  BY <1>2 DEF Observe, ObserveOperation
<1>4. s \in Observed /\ r \in Observed \cup {"none"}
  BY AnswerTypes
<1> HIDE DEF g, s
<1>5. ops \in Seq(OpType) /\ Len(ops) = g
  BY DEF g, IInv, TypeOK, RowMatchesJournal, OpType
<1>6. /\ ops' \in Seq(OpType) /\ Len(ops') = g /\ DOMAIN ops' = DOMAIN ops
      /\ ops'[g] = [ops[g] EXCEPT !.observed = s]
  <2>1. [ops[g] EXCEPT !.observed = s] \in OpType
    BY <1>2, <1>4 DEF OpType
  <2> QED
    BY <1>2, <1>3, <1>5, <2>1
<1>7. \A h \in Fences : jobs'[h] = IF h = f THEN [jobs[f] EXCEPT !.step = "observed"] ELSE jobs[h]
  BY <1>3 DEF IInv, TypeOK
<1>8. /\ proxy'.gen = g /\ proxy'.active = proxy.active /\ proxy'.desired = proxy.desired
      /\ proxy'.life = LifeOf(ops[g].desired, s)
  BY <1>3 DEF g, IInv, TypeOK
<1>9. TypeOK'
  <2>1. intents' \in Seq(Intent)
    <3>1. [gen |-> g, fence |-> f, state |-> s] \in Intent
      BY <1>2, <1>4 DEF Intent, Fences
    <3> QED
      BY <1>3, <3>1 DEF IInv, TypeOK
  <2>2. LifeOf(ops[g].desired, s) \in Lives
    BY <1>2, <1>4, LifeTypes DEF OpType
  <2>3. proxy' \in [life : Lives, active : 0..MaxRevisions,
                    desired : Lives \cup Desired, gen : 0..MaxGen]
    BY <1>3, <2>2 DEF IInv, TypeOK
  <2>4. jobs' \in [Fences -> JobType]
    BY <1>3 DEF IInv, TypeOK, JobType
  <2>5. attempt' \in [gen : 0..MaxGen, fence : 0..MaxFence, command : Commands \cup {0},
                      response : Observed \cup {"none"}]
    BY <1>3, <1>4 DEF IInv, TypeOK
  <2> QED
    BY <1>3, <1>6, <2>1, <2>3, <2>4, <2>5 DEF IInv, TypeOK, OpType, JobType
<1>10. RowMatchesJournal'
  <2>1. ops[g].revision = proxy.active /\ ops[g].desired = proxy.desired
    BY <1>1, <1>2 DEF g, Current, MatchesLiveTarget
  <2>2. ops'[g].revision = ops[g].revision /\ ops'[g].desired = ops[g].desired
        /\ ops'[g].observed = s
    BY <1>2, <1>6 DEF OpType
  <2> QED
    BY <1>2, <1>6, <1>8, <2>1, <2>2 DEF RowMatchesJournal, MatchesLiveTarget
<1>11. \A h \in Fences : /\ jobs'[h].gen = jobs[h].gen /\ jobs'[h].command = jobs[h].command
                         /\ h # f => jobs'[h] = jobs[h]
  BY <1>7 DEF IInv, TypeOK
<1>12. attempt'.gen = attempt.gen /\ attempt'.fence = attempt.fence
       /\ attempt'.command = attempt.command
  BY <1>3 DEF IInv, TypeOK
<1>13. jobs'[f].step = "observed"
  BY <1>7 DEF IInv, TypeOK
<1>14. f = lease.fence
  BY <1>1, CurrentIsNewest
<1>15. FenceInv'
  <2>1. attempt.fence # 0 => jobs'[attempt.fence].step \in {"prepared", "observed"}
    BY <1>11, <1>13, NumberFacts DEF IInv, FenceInv, Fences
  <2>2. ASSUME NEW h \in Fences
        PROVE  /\ h > lease.fence => jobs'[h] = NoJob
               /\ jobs'[h].gen <= lease.gen
               /\ jobs'[h].command <= attempt.command
               /\ jobs'[h].step \in {"none", "leased"} => jobs'[h].command = 0
    BY <1>11, <1>13, <1>14 DEF IInv, FenceInv, Fences
  <2> QED
    BY <1>3, <1>8, <1>11, <1>12, <2>1, <2>2 DEF g, IInv, FenceInv
<1>16. CommandsFollowFences'
  BY <1>11 DEF IInv, CommandsFollowFences
<1> QED
  BY <1>9, <1>10, <1>15, <1>16 DEF IInv

LEMMA RelayInv == IInv /\ (Submit \/ Mark \/ UNCHANGED vars) => IInv'
<1> SUFFICES ASSUME IInv, Submit \/ Mark \/ UNCHANGED vars PROVE IInv'
  OBVIOUS
<1>1. /\ UNCHANGED <<proxy, drafted, published, ops, lease, attempt, jobs, intents>>
      /\ outbox' \in Nat /\ enqueued' \in Nat
  BY DEF Submit, Mark, vars, journal, IInv, TypeOK
<1>2. TypeOK'
  BY <1>1 DEF IInv, TypeOK
<1> QED
  BY <1>1, <1>2 DEF IInv, RowMatchesJournal, MatchesLiveTarget, FenceInv, CommandsFollowFences

LEMMA ProxyNext == IInv /\ [Next]_vars => IInv'
BY UpdateDraftInv, PublishInv, TransitionInv, AcceptInv, LeaseInv, ExpireInv, PrepareInv,
   ObserveInv, RelayInv
   DEF Next, Operator, Controller, Relay, StartValidation, FinishValidation

LEMMA ProxyInvariant == Spec => []IInv
BY ProxyInit, ProxyNext, PTL DEF Spec

-----------------------------------------------------------------------------
\* Types hold in every reachable state; the commands of all jobs stay within the
\* clock's range and one successor per fence (attempts.rs, increasing).
THEOREM TypeCorrect == Spec => []TypeOK
<1>1. IInv => TypeOK
  BY DEF IInv
<1> QED
  BY <1>1, ProxyInvariant, PTL

\* The proxy's row and the journal of operations agree in every reachable state
\* (operation_journal.rs and managed.rs, each with its part of the writes).
THEOREM RowCorrect == Spec => []RowMatchesJournal
<1>1. IInv => RowMatchesJournal
  BY DEF IInv
<1> QED
  BY <1>1, ProxyInvariant, PTL

\* Commands are ordered as the fences of their jobs, whatever the clocks say
\* (attempts.rs, prepare_checked).
THEOREM FencesCorrect == Spec => []CommandsFollowFences
<1>1. IInv => CommandsFollowFences
  BY DEF IInv
<1> QED
  BY <1>1, ProxyInvariant, PTL

\* Completed and superseded operations, and a retired proxy, are never written
\* again (operation_journal.rs, recheck_observation_lease; managed.rs, eligibility).
THEOREM FinalCorrect == Spec => OutcomesAreFinal
<1> DEFINE Final == /\ \A g \in DOMAIN ops :
                        (ops[g].observed \in Terminal \/ g < proxy.gen) => ops'[g] = ops[g]
                    /\ proxy.life = "retired" => proxy' = proxy
<1>1. ASSUME IInv, Next PROVE Final
  <2>0. ops \in Seq(OpType) /\ Len(ops) = proxy.gen
    BY <1>1 DEF IInv, TypeOK, RowMatchesJournal, OpType
  <2>1. ASSUME UpdateDraft \/ Lease \/ Expire \/ Submit \/ Mark PROVE Final
    BY <2>1 DEF UpdateDraft, Lease, Expire, Submit, Mark, journal
  <2>2. ASSUME Publish PROVE Final
    BY <2>2 DEF Publish, journal
  <2>3. ASSUME StartValidation \/ FinishValidation PROVE Final
    BY <2>3 DEF StartValidation, FinishValidation, Transition, journal
  <2>4. ASSUME NEW action \in Actions, NEW revision \in 1..MaxRevisions, Accept(action, revision)
        PROVE  Final
    <3>1. proxy.life # "retired"
      BY <2>4 DEF Accept, Eligible
    <3>2. PICK op : ops' = Append(ops, op)
      BY <2>4 DEF Accept, SubmitOperation
    <3> QED
      BY <2>0, <3>1, <3>2
  <2>5. ASSUME NEW f \in Fences, NEW clock \in Clocks, Prepare(f, clock) PROVE Final
    BY <2>5 DEF Prepare
  <2>6. ASSUME NEW f \in Fences, NEW r \in Answers, Observe(f, r) PROVE Final
    <3>1. Current(f)
      BY <2>6 DEF Observe, MayObserve
    <3>2. /\ jobs[f].gen = proxy.gen /\ proxy.gen \in 1..MaxGen
          /\ ops[proxy.gen] \in OpType /\ ops[proxy.gen].observed \notin Terminal
      BY <1>1, <3>1, CurrentIsNewest
    <3>3. proxy.life # "retired"
      BY <1>1, <3>2, LifeTypes DEF IInv, RowMatchesJournal, OpType
    <3>4. ops' = [ops EXCEPT ![proxy.gen].observed = StateOf(r)]
      BY <2>6, <3>2 DEF Observe, ObserveOperation
    <3> QED
      BY <2>0, <3>2, <3>3, <3>4
  <2> QED
    BY <1>1, <2>1, <2>2, <2>3, <2>4, <2>5, <2>6 DEF Next, Operator, Controller, Relay
<1>2. IInv /\ [Next]_vars => [Final]_vars
  BY <1>1
<1> QED
  BY <1>2, ProxyInvariant, PTL DEF Spec, OutcomesAreFinal

(***************************************************************************)
(* The agent: RuntimeAgent.                                                 *)
(***************************************************************************)
EntryType == [inst : 0..MaxGen, phase : Phases, known : BOOLEAN]

ServeSteps == {"install", "prove", "plan", "write", "seal", "verify", "intend", "create",
               "inspect"}
CleanSteps == {"clean", "remove", "gone", "wipe", "mark"}
Steps      == ServeSteps \cup CleanSteps \cup {"idle", "start", "answer"}

\* A record's shape, and the types the proofs need; which commands it keeps is not
\* one of them.
IsRecord(r) ==
    /\ r = [gen |-> r.gen, fence |-> r.fence, instance |-> r.instance, commands |-> r.commands,
            floor |-> r.floor, installed |-> r.installed, predecessor |-> r.predecessor]
    /\ r.gen \in 0..MaxGen /\ r.instance \in 0..MaxGen
    /\ r.installed \in EntryType /\ r.predecessor \in EntryType

EngineType ==
    /\ containers \subseteq Instances /\ creating \subseteq Instances
    /\ disk \in [Instances -> {"absent", "partial", "complete"}]
    /\ dispatched \in [Instances -> Nat]

AgentType ==
    /\ IsRecord(record) /\ EngineType
    /\ job \in [fence : 0..MaxFence, step : Steps, slot : Slots, ok : BOOLEAN]

\* An instance is named by a generation no later than the record's; the slots
\* hold the newest one and an older one.
NameInv ==
    /\ record = NoRecord \/ record.instance # 0
    /\ record.instance <= record.gen
    /\ record.installed.inst \in {0, record.instance}
    /\ record.predecessor.inst # 0 => record.predecessor.inst < record.instance
    /\ \A s \in Slots : record[s].inst = 0 => record[s] = Nothing

\* The engine may have, or get, a container of this instance.
Exists(i) == i \in containers \cup creating

\* Nothing was ever done for an instance no slot names.
FreshInv ==
    \A i \in Instances : (\A s \in Slots : record[s].inst # i) =>
        dispatched[i] = 0 /\ ~Exists(i) /\ disk[i] = "absent"

\* What the journal's phase says about the engine.
PhaseInv ==
    \A s \in Slots : LET e == record[s] IN e.inst # 0 =>
        /\ dispatched[e.inst] <= 1
        /\ ~(e.inst \in containers /\ e.inst \in creating)
        /\ e.phase \in {"intent", "proof_intent", "stage_intent", "staged"} =>
            dispatched[e.inst] = 0 /\ ~Exists(e.inst)
        /\ e.phase \in {"stage_remove_intent", "removed"} => ~Exists(e.inst)
        /\ e.phase # "create_intent" => e.inst \notin creating

\* The phase each step of the job relies on having saved.
StepPhase(step) ==
    CASE step = "prove" -> {"intent"} [] step = "plan" -> {"proof_intent"}
      [] step \in {"write", "seal"} -> {"stage_intent"} [] step = "intend" -> {"staged"}
      [] step = "create" -> {"create_intent"} [] step \in {"remove", "gone"} -> {"remove_intent"}
      [] step \in {"wipe", "mark"} -> {"stage_remove_intent"} [] OTHER -> Phases

\* The request the guard is held for, and what the job knows at each step.
JobInv ==
    /\ job.step = "idle" <=> job.fence = 0
    /\ job.step = "idle" => ~job.ok
    /\ job.step \in ServeSteps \cup {"start", "answer"} => job.slot = "installed"
    /\ job.step \notin {"idle", "start"} => record.instance # 0
    /\ job.step \notin {"idle", "start", "install", "clean", "answer"} =>
        Entry.inst # 0 /\ Entry.phase \in StepPhase(job.step)
    /\ job.step = "create" => dispatched[Entry.inst] = 0 /\ ~Exists(Entry.inst)
    /\ job.step = "mark" => disk[Entry.inst] = "absent"

\* A prepared job has a command, and a generation the journal has.
ReadyInv ==
    \A f \in Fences : jobs[f].step \in {"prepared", "observed"} =>
        jobs[f].command # 0 /\ jobs[f].gen \in DOMAIN ops

RequestInv ==
    job.fence # 0 =>
        /\ Request.step \in {"prepared", "observed"} /\ Request.command # 0
        /\ Request.gen \in DOMAIN ops
        /\ \A a \in answers : a.command # Request.command
        /\ job.step \in ServeSteps => Wants = "serving"
        /\ job.step \in CleanSteps => Wants # "serving"

\* Nothing is outstanding for a slot, and nothing is left when it retires.
Cleaned(s) ==
    record[s].inst # 0 =>
        /\ record[s].inst \notin creating
        /\ Wants = "retired" => record[s].inst \notin containers /\ disk[record[s].inst] = "absent"

CleanInv ==
    /\ job.step \in CleanSteps /\ job.slot = "predecessor" => Cleaned("installed")
    /\ job.step = "answer" /\ Wants # "serving" => \A s \in Slots : Cleaned(s)

AnswerInv ==
    \A a \in answers : /\ a.command \in Nat \ {0} /\ a.command <= attempt.command
                       /\ a.state \in {"not_serving", "paused", "retired"}

\* The host is as it was reported, and the guard is not held by a job that may
\* change it.
Settled(s) ==
    /\ creating = {} /\ job.step \in {"idle", "start"} /\ ~job.ok
    /\ s = "retired" => containers = {} /\ \A i \in Instances : disk[i] = "absent"

\* A state is reported, or the answer that reports it can still be observed.
Reported(s) ==
    \/ proxy.life = s
    \/ \E a \in answers : /\ a.state = s /\ lease.fence # 0
                          /\ a.command = jobs[lease.fence].command

SettledInv == \A s \in {"paused", "retired"} : Reported(s) => Settled(s)

\* The record and the engine; the job and its request; what is reported.
HostInv  == NameInv /\ FreshInv /\ PhaseInv
AgentInv == /\ IInv /\ ReadyInv /\ AgentType /\ HostInv /\ JobInv /\ RequestInv /\ CleanInv
            /\ AnswerInv /\ SettledInv

-----------------------------------------------------------------------------
(* How a step writes the record and the job. *)

\* A save of a phase, as the other parts of the record see it.
Wrote(s, p) ==
    /\ IsRecord(record')
    /\ record'.gen = record.gen /\ record'.instance = record.instance
    /\ record'[s].inst = record[s].inst /\ record'[s].phase = p
    /\ \A t \in Slots : t # s => record'[t] = record[t]

LEMMA EntryFields ==
    ASSUME NEW e \in EntryType, NEW p \in Phases, NEW k \in BOOLEAN
    PROVE  /\ [e EXCEPT !.phase = p] \in EntryType
           /\ [e EXCEPT !.phase = p].inst = e.inst /\ [e EXCEPT !.phase = p].phase = p
           /\ [e EXCEPT !.phase = p, !.known = k] \in EntryType
           /\ [e EXCEPT !.phase = p, !.known = k].inst = e.inst
           /\ [e EXCEPT !.phase = p, !.known = k].phase = p
BY DEF EntryType

LEMMA PutEntry ==
    ASSUME IsRecord(record), NEW s \in Slots, NEW e \in EntryType,
           e.inst = record[s].inst, record' = [record EXCEPT ![s] = e]
    PROVE  Wrote(s, e.phase)
<1>1. CASE s = "installed"
  BY <1>1 DEF IsRecord, Wrote, Slots
<1>2. CASE s = "predecessor"
  BY <1>2 DEF IsRecord, Wrote, Slots
<1> QED
  BY <1>1, <1>2 DEF Slots

LEMMA SaveWrites ==
    ASSUME IsRecord(record), NEW s \in Slots, NEW p \in Phases, NEW k \in BOOLEAN,
           \/ record' = [record EXCEPT ![s].phase = p]
           \/ record' = [record EXCEPT ![s].phase = p, ![s].known = k]
    PROVE  Wrote(s, p)
<1>1. record[s] \in EntryType
  BY DEF IsRecord, Slots
<1>2. CASE record' = [record EXCEPT ![s].phase = p]
  <2> DEFINE e == [record[s] EXCEPT !.phase = p]
  <2>1. e \in EntryType /\ e.inst = record[s].inst /\ e.phase = p
    <3>1. PICK b \in EntryType : b = record[s]
      BY <1>1
    <3> QED
      BY <3>1, EntryFields
  <2>2. record' = [record EXCEPT ![s] = e]
    BY <1>2
  <2> HIDE DEF e
  <2> QED
    BY <2>1, <2>2, PutEntry
<1>3. CASE record' = [record EXCEPT ![s].phase = p, ![s].known = k]
  <2> DEFINE e == [record[s] EXCEPT !.phase = p, !.known = k]
  <2>1. e \in EntryType /\ e.inst = record[s].inst /\ e.phase = p
    <3>1. PICK b \in EntryType : b = record[s]
      BY <1>1
    <3>2. /\ [b EXCEPT !.phase = p, !.known = k] \in EntryType
          /\ [b EXCEPT !.phase = p, !.known = k].inst = b.inst
          /\ [b EXCEPT !.phase = p, !.known = k].phase = p
      BY EntryFields
    <3> QED
      BY <3>1, <3>2, Zenon
  <2>2. record' = [record EXCEPT ![s] = e]
    BY <1>3
  <2> HIDE DEF e
  <2> QED
    BY <2>1, <2>2, PutEntry
<1> QED
  BY <1>2, <1>3

LEMMA ToFields ==
    ASSUME AgentType, NEW step \in Steps, To(step)
    PROVE  /\ job' \in [fence : 0..MaxFence, step : Steps, slot : Slots, ok : BOOLEAN]
           /\ job'.fence = job.fence /\ job'.step = step /\ job'.slot = job.slot
           /\ job'.ok = FALSE
BY DEF AgentType, To

LEMMA IdleFields ==
    ASSUME job' = Idle
    PROVE  /\ job' \in [fence : 0..MaxFence, step : Steps, slot : Slots, ok : BOOLEAN]
           /\ job'.fence = 0 /\ job'.step = "idle" /\ job'.slot = "installed"
           /\ job'.ok = FALSE
BY ProxyAssumption DEF Idle, Steps, Slots

\* The instance a slot names is one, and no other slot names it.
LEMMA SlotInstances ==
    ASSUME AgentType, NameInv, NEW s \in Slots, record[s].inst # 0
    PROVE  /\ record[s].inst \in Instances /\ record.instance # 0
           /\ \A t \in Slots : t # s => record[t].inst # record[s].inst
<1>1. record.installed.inst \in 0..MaxGen /\ record.predecessor.inst \in 0..MaxGen
      /\ record.instance \in 0..MaxGen
  BY DEF AgentType, IsRecord, EntryType
<1> QED
  BY <1>1, ProxyAssumption DEF NameInv, Slots, Instances

\* A save that agrees with the engine keeps the record and the engine in step.
LEMMA WroteHost ==
    ASSUME AgentType, HostInv, NEW s \in Slots, NEW p \in Phases, Wrote(s, p),
           record[s].inst # 0, UNCHANGED <<containers, creating, disk, dispatched>>,
           p \in {"intent", "proof_intent", "stage_intent", "staged"} =>
               dispatched[record[s].inst] = 0 /\ ~Exists(record[s].inst),
           p \in {"stage_remove_intent", "removed"} => ~Exists(record[s].inst),
           p # "create_intent" => record[s].inst \notin creating
    PROVE  HostInv' /\ IsRecord(record)' /\ EngineType'
<1>1. record.instance # 0
  BY SlotInstances DEF HostInv
<1>2. \A t \in Slots : record'[t].inst = record[t].inst
  BY DEF Wrote
<1>3. NameInv'
  <2>1. \A t \in Slots : record'[t].inst = 0 => record'[t] = Nothing
    BY <1>2 DEF Wrote, HostInv, NameInv
  <2> QED
    BY <1>1, <1>2, <2>1 DEF Wrote, HostInv, NameInv, Slots
<1>4. FreshInv'
  BY <1>2 DEF HostInv, FreshInv, Exists
<1>5. PhaseInv'
  <2> SUFFICES ASSUME NEW t \in Slots, record'[t].inst # 0
               PROVE  /\ dispatched[record'[t].inst] <= 1
                      /\ ~(record'[t].inst \in containers /\ record'[t].inst \in creating)
                      /\ record'[t].phase \in {"intent", "proof_intent", "stage_intent", "staged"} =>
                          dispatched[record'[t].inst] = 0 /\ ~Exists(record'[t].inst)
                      /\ record'[t].phase \in {"stage_remove_intent", "removed"} =>
                          ~Exists(record'[t].inst)
                      /\ record'[t].phase # "create_intent" => record'[t].inst \notin creating
    BY DEF PhaseInv, Exists
  <2>1. CASE t = s
    BY <2>1, <1>2 DEF Wrote, HostInv, PhaseInv
  <2>2. CASE t # s
    BY <2>2 DEF Wrote, HostInv, PhaseInv
  <2> QED
    BY <2>1, <2>2
<1> QED
  BY <1>3, <1>4, <1>5 DEF Wrote, HostInv, AgentType, EngineType

-----------------------------------------------------------------------------
(* Steps of the control plane. *)

\* What the agent relies on in the control plane never goes back: a prepared job
\* keeps its generation and command, an operation what it desires.
Forward ==
    /\ \A f \in Fences : jobs[f].step \in {"prepared", "observed"} =>
        /\ jobs'[f].step \in {"prepared", "observed"}
        /\ jobs'[f].gen = jobs[f].gen /\ jobs'[f].command = jobs[f].command
    /\ \A f \in Fences : jobs'[f].step \in {"prepared", "observed"} =>
        \/ jobs[f].step \in {"prepared", "observed"}
        \/ jobs'[f].command # 0 /\ jobs'[f].gen \in DOMAIN ops'
    /\ \A g \in DOMAIN ops : g \in DOMAIN ops' /\ ops'[g].desired = ops[g].desired
    /\ attempt.command <= attempt'.command
    /\ \A s \in {"paused", "retired"} : Reported(s)' => Reported(s)

LEMMA QuietForward ==
    ASSUME AgentInv, UNCHANGED agent, UpdateDraft \/ Publish \/ Expire
    PROVE  Forward
<1>1. /\ UNCHANGED <<ops, attempt, jobs>> /\ lease'.fence = lease.fence
      /\ proxy'.life = proxy.life
  BY DEF UpdateDraft, Publish, Expire, journal, AgentInv, IInv, TypeOK
<1>2. attempt.command \in Nat
  BY NumberFacts DEF AgentInv
<1> QED
  BY <1>1, <1>2 DEF Forward, Reported, agent

LEMMA TransitionForward ==
    ASSUME AgentInv, UNCHANGED agent, StartValidation \/ FinishValidation
    PROVE  Forward
<1>1. /\ UNCHANGED <<ops, attempt, jobs, lease>>
      /\ proxy'.life \in {"validating", "awaiting_approval"}
  BY DEF StartValidation, FinishValidation, Transition, journal, AgentInv, IInv, TypeOK
<1>2. attempt.command \in Nat
  BY NumberFacts DEF AgentInv
<1> QED
  BY <1>1, <1>2 DEF Forward, Reported, agent

LEMMA AcceptForward ==
    ASSUME AgentInv, UNCHANGED agent, NEW action \in Actions, NEW revision \in 1..MaxRevisions,
           Accept(action, revision)
    PROVE  Forward
<1>1. /\ UNCHANGED <<attempt, jobs, lease>>
      /\ proxy'.life = Projection(action)
      /\ ops' = Append(ops, [revision |-> revision, desired |-> DesiredBy(action),
                             observed |-> "pending"])
  BY DEF Accept, SubmitOperation
<1>2. attempt.command \in Nat /\ ops \in Seq(OpType)
  BY NumberFacts DEF AgentInv, IInv, TypeOK, OpType
<1>3. proxy'.life \notin {"paused", "retired"}
  BY <1>1 DEF Projection
<1>4. \A g \in DOMAIN ops : g \in DOMAIN ops' /\ ops'[g] = ops[g]
  BY <1>1, <1>2
<1> QED
  BY <1>1, <1>2, <1>3, <1>4 DEF Forward, Reported, agent

LEMMA LeaseForward ==
    ASSUME AgentInv, UNCHANGED agent, Lease
    PROVE  Forward
<1> DEFINE n == lease.fence + 1
<1>1. /\ UNCHANGED <<attempt, proxy, ops>> /\ lease'.fence = n /\ lease.fence < MaxFence
      /\ jobs' = [jobs EXCEPT ![n] = [step |-> "leased", gen |-> proxy.gen, command |-> 0]]
  BY DEF Lease
<1>2. n \in Fences /\ n > lease.fence /\ attempt.command \in Nat
  BY <1>1, NumberFacts, ProxyAssumption DEF AgentInv, Fences
<1>3. jobs[n] = NoJob
  BY <1>2 DEF AgentInv, IInv, FenceInv
<1>4. \A f \in Fences : f # n => jobs'[f] = jobs[f]
  BY <1>1
<1>5. jobs'[n].command = 0 /\ jobs'[n].step = "leased"
  BY <1>1, <1>2 DEF AgentInv, IInv, TypeOK
<1>6. ASSUME NEW s \in {"paused", "retired"}, Reported(s)' PROVE Reported(s)
  BY <1>1, <1>5, <1>6 DEF Reported, agent, AgentInv, AnswerInv
<1> HIDE DEF n
<1> QED
  BY <1>1, <1>2, <1>3, <1>4, <1>5, <1>6 DEF Forward, NoJob

LEMMA PrepareForward ==
    ASSUME AgentInv, UNCHANGED agent, NEW f \in Fences, NEW clock \in Clocks, Prepare(f, clock)
    PROVE  Forward
<1> DEFINE c == Increasing(attempt.command, clock)
<1>1. /\ UNCHANGED <<proxy, ops, lease>> /\ jobs[f].step = "leased" /\ Current(f)
      /\ jobs' = [jobs EXCEPT ![f].step = "prepared", ![f].command = c]
      /\ attempt' = [gen |-> jobs[f].gen, fence |-> f, command |-> c, response |-> "none"]
  BY DEF Prepare
<1>2. attempt.command \in Nat /\ jobs \in [Fences -> JobType]
  BY NumberFacts DEF AgentInv, IInv, TypeOK, JobType
<1>3. c \in Nat /\ c > attempt.command /\ f = lease.fence
  BY <1>1, <1>2, IncreasingFacts, CurrentIsNewest DEF AgentInv
<1> HIDE DEF c
<1>4. attempt'.command = c /\ jobs'[f].command = c /\ jobs'[f].gen \in DOMAIN ops
  BY <1>1, <1>2 DEF JobType, Current, MatchesLiveTarget
<1>5. \A g \in Fences : g # f => jobs'[g] = jobs[g]
  BY <1>1, <1>2
<1>6. ASSUME NEW s \in {"paused", "retired"}, Reported(s)' PROVE Reported(s)
  <2>1. ASSUME NEW a \in answers PROVE a.command # jobs'[lease.fence].command
    BY <1>2, <1>3, <1>4 DEF AgentInv, AnswerInv
  <2> QED
    BY <1>1, <1>6, <2>1 DEF Reported, agent
<1> QED
  BY <1>1, <1>2, <1>3, <1>4, <1>5, <1>6 DEF Forward

LEMMA ObserveForward ==
    ASSUME AgentInv, UNCHANGED agent, NEW f \in Fences, NEW r, Observe(f, r),
           r = "none" \/ \E a \in answers : a.command = jobs[f].command /\ a.state = r
    PROVE  Forward /\ r \in Answers
<1>1. /\ Current(f) /\ jobs[f].step = "prepared" /\ UNCHANGED lease
      /\ attempt' = [attempt EXCEPT !.response = r]
      /\ jobs' = [jobs EXCEPT ![f].step = "observed"]
      /\ ops' = [ops EXCEPT ![jobs[f].gen].observed = StateOf(r)]
      /\ proxy' = [proxy EXCEPT !.life = LifeOf(ops[jobs[f].gen].desired, StateOf(r))]
  BY DEF Observe, ObserveOperation, MayObserve
<1>2. /\ f = lease.fence /\ jobs[f].gen \in DOMAIN ops /\ ops \in Seq(OpType)
      /\ ops[jobs[f].gen].desired \in Desired
  BY <1>1, CurrentIsNewest DEF AgentInv, IInv, TypeOK, OpType
<1>3. attempt'.command = attempt.command /\ attempt.command \in Nat
  BY <1>1, NumberFacts DEF AgentInv, IInv, TypeOK
<1>4. r \in {"none", "not_serving", "paused", "retired"}
  BY DEF AgentInv, AnswerInv
<1>5. \A g \in Fences : /\ jobs'[g].gen = jobs[g].gen /\ jobs'[g].command = jobs[g].command
                        /\ g # f => jobs'[g] = jobs[g]
  <2>1. jobs \in [Fences -> JobType]
    BY DEF AgentInv, IInv, TypeOK, JobType
  <2> QED
    BY <1>1, <2>1 DEF JobType
<1>6. jobs'[f].step = "observed"
  BY <1>1 DEF AgentInv, IInv, TypeOK
<1>7. \A g \in DOMAIN ops : g \in DOMAIN ops' /\ ops'[g].desired = ops[g].desired
  <2>1. \A g \in DOMAIN ops : ops[g] \in OpType
    BY <1>2
  <2>2. DOMAIN ops' = DOMAIN ops
    BY <1>1
  <2>3. ASSUME NEW g \in DOMAIN ops
        PROVE  ops'[g] = IF g = jobs[f].gen THEN [ops[g] EXCEPT !.observed = StateOf(r)] ELSE ops[g]
    BY <1>1
  <2>4. ASSUME NEW o \in OpType, NEW t PROVE [o EXCEPT !.observed = t].desired = o.desired
    BY DEF OpType
  <2> QED
    <3> SUFFICES ASSUME NEW g \in DOMAIN ops
                 PROVE  g \in DOMAIN ops' /\ ops'[g].desired = ops[g].desired
      OBVIOUS
    <3>1. [ops[g] EXCEPT !.observed = StateOf(r)].desired = ops[g].desired
      BY <2>1, <2>4
    <3>2. CASE g = jobs[f].gen
      <4>1. ops'[g] = [ops[g] EXCEPT !.observed = StateOf(r)]
        BY <3>2, <2>3
      <4> QED
        BY <4>1, <3>1, <2>2, Zenon
    <3>3. CASE g # jobs[f].gen
      BY <3>3, <2>2, <2>3
    <3> QED
      BY <3>2, <3>3
<1>8. proxy'.life = LifeOf(ops[jobs[f].gen].desired, StateOf(r))
  BY <1>1 DEF AgentInv, IInv, TypeOK
<1>9. ASSUME NEW s \in {"paused", "retired"}, Reported(s)' PROVE Reported(s)
  <2>1. CASE proxy'.life = s
    <3>1. r = s
      BY <2>1, <1>2, <1>4, <1>8 DEF LifeOf, StateOf, Terminal, Desired
    <3> QED
      BY <3>1, <1>2 DEF Reported, Fences
  <2>2. CASE proxy'.life # s
    BY <2>2, <1>1, <1>2, <1>5, <1>9 DEF Reported, agent
  <2> QED
    BY <2>1, <2>2
<1>10. r \in Answers
  BY <1>4 DEF Answers, Observed, Terminal
<1>11. ASSUME NEW g \in Fences
       PROVE  jobs'[g].step \in {"prepared", "observed"} <=> jobs[g].step \in {"prepared", "observed"}
  <2>1. CASE g = f
    BY <2>1, <1>1, <1>6
  <2>2. CASE g # f
    BY <2>2, <1>5
  <2> QED
    BY <2>1, <2>2
<1> QED
  BY <1>3, <1>5, <1>7, <1>9, <1>10, <1>11 DEF Forward

\* The agent's invariant holds again when the control plane moved forward.
LEMMA ForwardInv ==
    ASSUME AgentInv, UNCHANGED agent, Forward, IInv'
    PROVE  AgentInv'
<1>1. AgentType' /\ HostInv' /\ JobInv'
  BY DEF agent, AgentInv, AgentType, IsRecord, EngineType, HostInv, NameInv, FreshInv, PhaseInv,
         JobInv, Exists, Entry
<1>2. AnswerInv'
  <2>1. attempt.command \in Nat /\ attempt'.command \in Nat
    <3>1. attempt.command \in Nat
      BY NumberFacts DEF AgentInv
    <3>2. \A n \in Commands \cup {0} : n \in Nat
      BY ProxyAssumption DEF Commands
    <3>3. attempt'.command \in Commands \cup {0}
      BY DEF IInv, TypeOK
    <3> QED
      BY <3>1, <3>2, <3>3
  <2> QED
    BY <2>1 DEF agent, AgentInv, AnswerInv, Forward
<1>3. SettledInv'
  BY DEF agent, AgentInv, SettledInv, Settled, Forward
<1>4. ASSUME job.fence # 0
      PROVE  /\ Request.step' \in {"prepared", "observed"} /\ Request'.command = Request.command
             /\ Request'.gen = Request.gen /\ Wants' = Wants
             /\ Request'.gen \in DOMAIN ops'
  <2>1. job.fence \in Fences
    BY <1>4, ProxyAssumption DEF AgentInv, AgentType, Fences
  <2> QED
    BY <1>4, <2>1 DEF AgentInv, RequestInv, Request, Wants, Forward, agent
<1>5. RequestInv'
  BY <1>4 DEF agent, AgentInv, RequestInv
<1>6. CleanInv'
  <2>1. CASE job.fence = 0
    <3>1. job.step = "idle"
      BY <2>1 DEF AgentInv, JobInv
    <3> QED
      BY <3>1 DEF CleanInv, CleanSteps, agent
  <2>2. CASE job.fence # 0
    BY <2>2, <1>4 DEF agent, AgentInv, CleanInv, Cleaned
  <2> QED
    BY <2>1, <2>2
<1>7. ReadyInv'
  BY DEF AgentInv, ReadyInv, Forward
<1> QED
  BY <1>1, <1>2, <1>3, <1>5, <1>6, <1>7 DEF AgentInv

LEMMA ControlInv ==
    ASSUME AgentInv, ((Operator \/ Controller) /\ UNCHANGED agent) \/ Conclude
    PROVE  AgentInv'
<1>1. ASSUME UNCHANGED agent, Operator \/ Controller PROVE Forward
  BY <1>1, QuietForward, TransitionForward, AcceptForward, LeaseForward, PrepareForward
     DEF Operator, Controller
<1>2. ASSUME Operator \/ Controller PROVE IInv'
  BY <1>2, ProxyNext DEF AgentInv, Next
<1>3. ASSUME Conclude PROVE Forward /\ IInv' /\ UNCHANGED agent
  <2>0. PICK f \in Fences :
            \E r : /\ Observe(f, r) /\ UNCHANGED agent
                   /\ r = "none" \/ \E a \in answers : a.command = jobs[f].command /\ a.state = r
    BY <1>3 DEF Conclude
  <2>1. PICK r : /\ Observe(f, r) /\ UNCHANGED agent
                 /\ r = "none" \/ \E a \in answers : a.command = jobs[f].command /\ a.state = r
    BY <2>0
  <2>2. Forward /\ r \in Answers
    BY <2>1, ObserveForward
  <2> QED
    BY <2>1, <2>2, ObserveInv DEF AgentInv
<1> QED
  BY <1>1, <1>2, <1>3, ForwardInv

-----------------------------------------------------------------------------
LEMMA AgentInitInv == AgentInit => AgentInv
<1> SUFFICES ASSUME AgentInit PROVE AgentInv
  OBVIOUS
<1> USE ProxyAssumption
<1>1. IInv /\ ReadyInv
  BY ProxyInit DEF AgentInit, Init, ReadyInv, NoJob
<1>2. Nothing \in EntryType /\ Nothing.inst = 0
  BY DEF Nothing, EntryType, Phases
<1>3. /\ IsRecord(NoRecord) /\ NoRecord.gen = 0 /\ NoRecord.instance = 0
      /\ NoRecord.installed = Nothing /\ NoRecord.predecessor = Nothing
  BY <1>2 DEF NoRecord, IsRecord
<1>4. /\ Idle \in [fence : 0..MaxFence, step : Steps, slot : Slots, ok : BOOLEAN]
      /\ Idle.fence = 0 /\ Idle.step = "idle" /\ ~Idle.ok /\ Idle.slot = "installed"
  BY DEF Idle, Steps, Slots
<1>5. AgentType
  BY <1>3, <1>4 DEF AgentInit, AgentType, EngineType
<1>6. HostInv
  BY <1>2, <1>3 DEF AgentInit, HostInv, NameInv, FreshInv, PhaseInv, Exists, Slots
<1>7. JobInv /\ RequestInv /\ CleanInv
  BY <1>4 DEF AgentInit, JobInv, RequestInv, CleanInv, ServeSteps, CleanSteps
<1>8. AnswerInv
  BY DEF AgentInit, AnswerInv
<1>9. SettledInv
  <2>1. proxy.life = "draft"
    BY DEF AgentInit, Init
  <2> QED
    BY <2>1 DEF SettledInv, Reported, AgentInit
<1> QED
  BY <1>1, <1>5, <1>6, <1>7, <1>8, <1>9 DEF AgentInv

-----------------------------------------------------------------------------
(* Steps of the agent. *)

\* What holds of the job's request.
LEMMA RequestFacts ==
    ASSUME AgentInv, job.fence # 0
    PROVE  /\ job.fence \in Fences /\ Request.gen \in 1..MaxGen /\ Wants \in Desired
           /\ Request.command \in Nat \ {0} /\ Request.command <= attempt.command
<1>1. job.fence \in Fences
  BY ProxyAssumption DEF AgentInv, AgentType, Fences
<1>2. /\ Request.gen \in Nat /\ Request.command \in Nat /\ Request.command <= attempt.command
      /\ Request.command # 0 /\ Request.gen \in DOMAIN ops
  BY <1>1, NumberFacts DEF AgentInv, RequestInv, IInv, FenceInv, Request
<1>3. ops \in Seq(OpType) /\ Len(ops) \in 0..MaxGen
  BY DEF AgentInv, IInv, TypeOK, RowMatchesJournal, OpType
<1>4. Request.gen \in 1..MaxGen /\ ops[Request.gen] \in OpType
  BY <1>2, <1>3, ProxyAssumption
<1> QED
  BY <1>1, <1>2, <1>4 DEF Wants, OpType

LEMMA SameControl ==
    ASSUME AgentInv, UNCHANGED vars
    PROVE  IInv' /\ ReadyInv'
<1>1. IInv'
  BY RelayInv DEF AgentInv
<1> QED
  BY <1>1 DEF vars, AgentInv, ReadyInv

\* A job that is under way, or has the checkpoint it needs, reports nothing yet;
\* what a step of it leaves of the invariant to its own proof.
LEMMA JobStep ==
    ASSUME AgentInv, UNCHANGED <<vars, answers>>, job.ok \/ job.step \notin {"idle", "start"},
           job.fence # 0,
           \/ job' = Idle
           \/ /\ job'.fence = job.fence
              /\ job'.step \in ServeSteps => Wants = "serving"
              /\ job'.step \in CleanSteps => Wants # "serving"
    PROVE  IInv' /\ ReadyInv' /\ RequestInv' /\ AnswerInv' /\ SettledInv'
<1>1. IInv' /\ ReadyInv'
  BY SameControl DEF AgentInv
<1>2. RequestInv'
  <2>1. CASE job' = Idle
    BY <2>1, IdleFields DEF RequestInv
  <2>2. CASE job' # Idle
    BY <2>2 DEF vars, AgentInv, RequestInv, Request, Wants
  <2> QED
    BY <2>1, <2>2
<1>3. AnswerInv'
  BY DEF vars, AgentInv, AnswerInv
<1>4. SettledInv'
  BY DEF vars, AgentInv, SettledInv, Settled, Reported
<1> QED
  BY <1>1, <1>2, <1>3, <1>4

\* A step at which the job ends leaves only the host to prove.
LEMMA JobEnds ==
    ASSUME AgentInv, UNCHANGED <<vars, answers>>, job.ok \/ job.step \notin {"idle", "start"},
           job.fence # 0, job' = Idle, IsRecord(record)', EngineType', HostInv'
    PROVE  AgentInv'
<1>1. JobInv' /\ CleanInv' /\ AgentType'
  BY IdleFields DEF JobInv, CleanInv, ServeSteps, CleanSteps, AgentType
<1> QED
  BY <1>1, JobStep DEF AgentInv

\* Nothing but the job changes.
LEMMA SameHost ==
    ASSUME AgentInv, UNCHANGED <<record, containers, creating, disk, dispatched>>
    PROVE  IsRecord(record)' /\ EngineType' /\ HostInv'
BY DEF AgentInv, AgentType, IsRecord, EngineType, HostInv, NameInv, FreshInv, PhaseInv, Exists

LEMMA DeliverInv ==
    ASSUME AgentInv, NEW f \in Fences, Deliver(f)
    PROVE  AgentInv'
<1> USE ProxyAssumption
<1>1. /\ job = Idle /\ jobs[f].step = "prepared" /\ \A a \in answers : a.command # jobs[f].command
      /\ UNCHANGED <<vars, record, containers, creating, disk, answers, dispatched>>
      /\ job' = [Idle EXCEPT !.fence = f, !.step = "start"]
  BY DEF Deliver, Effects
<1>2. /\ job' \in [fence : 0..MaxFence, step : Steps, slot : Slots, ok : BOOLEAN]
      /\ job'.fence = f /\ job'.step = "start" /\ job'.slot = "installed" /\ job'.ok = FALSE
      /\ f # 0
  <2>1. f \in 0..MaxFence /\ f # 0 /\ "start" \in Steps /\ "installed" \in Slots
    BY DEF Steps, Slots, Fences
  <2>2. job' = [fence |-> f, step |-> "start", slot |-> "installed", ok |-> FALSE]
    BY <1>1 DEF Idle
  <2> QED
    BY <2>1, <2>2
<1>3. IInv' /\ ReadyInv' /\ AgentType' /\ HostInv'
  BY <1>1, <1>2, SameHost, SameControl DEF AgentInv, AgentType
<1>4. JobInv' /\ CleanInv'
  BY <1>2 DEF JobInv, CleanInv, ServeSteps, CleanSteps
<1>5. jobs[f].command # 0 /\ jobs[f].gen \in DOMAIN ops
  BY <1>1 DEF AgentInv, ReadyInv
<1>6. RequestInv'
  BY <1>1, <1>2, <1>5 DEF vars, RequestInv, Request, ServeSteps, CleanSteps
<1>7. AnswerInv' /\ SettledInv'
  BY <1>1, <1>2 DEF vars, AgentInv, AnswerInv, SettledInv, Settled, Reported
<1> QED
  BY <1>3, <1>4, <1>6, <1>7 DEF AgentInv

LEMMA CheckpointInv ==
    ASSUME AgentInv, Checkpoint
    PROVE  AgentInv'
<1>1. /\ job.fence # 0 /\ Current(job.fence) /\ ~job.ok
      /\ UNCHANGED <<vars, record, containers, creating, disk, answers, dispatched>>
      /\ job' = [job EXCEPT !.ok = TRUE]
  BY DEF Checkpoint, Effects
<1>2. /\ job' \in [fence : 0..MaxFence, step : Steps, slot : Slots, ok : BOOLEAN]
      /\ job'.fence = job.fence /\ job'.step = job.step /\ job'.slot = job.slot
  BY <1>1 DEF AgentInv, AgentType
<1>3. IInv' /\ ReadyInv' /\ AgentType' /\ HostInv'
  BY <1>1, <1>2, SameHost, SameControl DEF AgentInv, AgentType
<1>4. Entry' = Entry /\ Request' = Request /\ Wants' = Wants
  BY <1>1, <1>2 DEF Entry, Request, Wants, vars
<1>5. JobInv'
  <2>1. job.fence # 0 /\ (job.step = "idle" => FALSE)
    <3>1. ASSUME job.step = "idle" PROVE FALSE
      BY <3>1, <1>1 DEF AgentInv, JobInv
    <3> QED
      BY <3>1, <1>1
  <2> QED
    BY <1>1, <1>2, <1>4, <2>1 DEF AgentInv, JobInv, Exists
<1>6. RequestInv' /\ AnswerInv'
  BY <1>1, <1>2, <1>4 DEF vars, AgentInv, RequestInv, AnswerInv
<1>7. CleanInv'
  BY <1>1, <1>2, <1>4 DEF AgentInv, CleanInv, Cleaned
<1>8. SettledInv'
  <2>1. /\ job.fence \in Fences /\ job.fence = lease.fence
        /\ ops[proxy.gen].observed \notin Terminal /\ ops[proxy.gen] \in OpType
        /\ proxy.gen \in 1..MaxGen
    BY <1>1, RequestFacts, CurrentIsNewest DEF AgentInv
  <2>2. proxy.life \notin {"paused", "retired"}
    BY <2>1 DEF AgentInv, IInv, RowMatchesJournal, LifeOf, Terminal
  <2>3. \A a \in answers : a.command # jobs[lease.fence].command
    BY <1>1, <2>1 DEF AgentInv, RequestInv, Request
  <2> QED
    BY <1>1, <2>2, <2>3 DEF vars, SettledInv, Reported
<1> QED
  BY <1>3, <1>5, <1>6, <1>7, <1>8 DEF AgentInv

LEMMA GiveUpInv ==
    ASSUME AgentInv, GiveUp
    PROVE  AgentInv'
<1>1. /\ job' = Idle
      /\ UNCHANGED <<vars, record, containers, creating, disk, answers, dispatched>>
  BY DEF GiveUp, Effects
<1>2. IInv' /\ ReadyInv' /\ AgentType' /\ HostInv'
  BY <1>1, IdleFields, SameHost, SameControl DEF AgentInv, AgentType
<1>3. JobInv' /\ RequestInv' /\ CleanInv'
  BY <1>1, IdleFields DEF JobInv, RequestInv, CleanInv, ServeSteps, CleanSteps
<1>4. AnswerInv' /\ SettledInv'
  BY <1>1, IdleFields DEF vars, AgentInv, AnswerInv, SettledInv, Settled, Reported
<1> QED
  BY <1>2, <1>3, <1>4 DEF AgentInv

\* A create of unknown outcome takes effect, or is lost.
LEMMA LateInv ==
    ASSUME AgentInv, NEW i \in Instances, LateCreate(i) \/ LateLoss(i)
    PROVE  AgentInv'
<1>1. /\ UNCHANGED <<vars, record, job, disk, answers, dispatched>>
      /\ i \in creating /\ creating' = creating \ {i}
      /\ containers' = containers \cup {i} \/ containers' = containers
  BY DEF LateCreate, LateLoss
<1>2. IInv' /\ ReadyInv' /\ AgentType'
  <2>1. EngineType' /\ IsRecord(record)'
    BY <1>1 DEF AgentInv, AgentType, EngineType, IsRecord
  <2> QED
    BY <1>1, <2>1, SameControl DEF AgentInv, AgentType
<1>3. \A h \in Instances : ~Exists(h) => ~Exists(h)' /\ h # i
  BY <1>1 DEF Exists
<1>4. HostInv'
  <2>1. NameInv'
    BY <1>1 DEF AgentInv, HostInv, NameInv
  <2>2. FreshInv'
    BY <1>1, <1>3 DEF AgentInv, HostInv, FreshInv
  <2>3. PhaseInv'
    <3> SUFFICES ASSUME NEW s \in Slots, record[s].inst # 0
                 PROVE  /\ dispatched[record[s].inst] <= 1
                        /\ ~(record[s].inst \in containers' /\ record[s].inst \in creating')
                        /\ record[s].phase \in {"intent", "proof_intent", "stage_intent", "staged"}
                            => dispatched[record[s].inst] = 0 /\ ~Exists(record[s].inst)'
                        /\ record[s].phase \in {"stage_remove_intent", "removed"}
                            => ~Exists(record[s].inst)'
                        /\ record[s].phase # "create_intent" => record[s].inst \notin creating'
      BY <1>1 DEF PhaseInv, Exists
    <3>1. record[s].inst \in Instances
      BY SlotInstances DEF AgentInv, HostInv
    <3> QED
      BY <1>1, <1>3, <3>1 DEF AgentInv, HostInv, PhaseInv, Exists
  <2> QED
    BY <2>1, <2>2, <2>3 DEF HostInv
<1>5. JobInv'
  <2>1. ASSUME job.step = "create" PROVE ~Exists(Entry.inst)'
    <3>1. Entry.inst # 0 /\ ~Exists(Entry.inst) /\ job.slot \in Slots
      BY <2>1 DEF AgentInv, JobInv, AgentType
    <3>2. Entry.inst \in Instances
      BY <3>1, SlotInstances DEF AgentInv, HostInv, Entry
    <3> QED
      BY <1>1, <3>1, <3>2 DEF Exists, Entry
  <2> QED
    BY <1>1, <2>1 DEF AgentInv, JobInv, Entry
<1>6. RequestInv' /\ AnswerInv'
  BY <1>1 DEF vars, AgentInv, RequestInv, Request, Wants, AnswerInv
<1>7. CleanInv'
  <2>1. ASSUME NEW s \in Slots, Cleaned(s) PROVE Cleaned(s)'
    BY <1>1, <2>1 DEF Cleaned, vars, Request, Wants
  <2> QED
    BY <1>1, <2>1 DEF AgentInv, CleanInv, vars, Request, Wants, Slots
<1>8. SettledInv'
  BY <1>1 DEF vars, AgentInv, SettledInv, Settled, Reported
<1> QED
  BY <1>2, <1>4, <1>5, <1>6, <1>7, <1>8 DEF AgentInv

-----------------------------------------------------------------------------
(* Adoption *)

LEMMA RecordOf ==
    ASSUME NEW r, NEW g \in 0..MaxGen, NEW f, NEW n \in 0..MaxGen, NEW c, NEW m,
           NEW e \in EntryType, NEW p \in EntryType,
           r = [gen |-> g, fence |-> f, instance |-> n, commands |-> c, floor |-> m,
                installed |-> e, predecessor |-> p]
    PROVE  /\ IsRecord(r) /\ r.gen = g /\ r.instance = n
           /\ r.installed = e /\ r.predecessor = p
<1>1. /\ r.gen = g /\ r.fence = f /\ r.instance = n /\ r.commands = c /\ r.floor = m
      /\ r.installed = e /\ r.predecessor = p
  OBVIOUS
<1> QED
  BY <1>1 DEF IsRecord

LEMMA RetainedFields ==
    ASSUME IsRecord(record), NEW c
    PROVE  /\ IsRecord(Retained(c))
           /\ Retained(c).gen = record.gen /\ Retained(c).instance = record.instance
           /\ Retained(c).installed = record.installed
           /\ Retained(c).predecessor = record.predecessor
<1> DEFINE Of(cs, m) == [gen |-> record.gen, fence |-> record.fence,
                         instance |-> record.instance, commands |-> cs, floor |-> m,
                         installed |-> record.installed, predecessor |-> record.predecessor]
           a == record.commands \cup {c}
           b == (record.commands \ {Min(record.commands)}) \cup {c}
           d == Min(record.commands)
<1>0. record = Of(record.commands, record.floor)
  BY DEF IsRecord
<1>1. ASSUME NEW cs, NEW m
      PROVE  /\ [Of(record.commands, record.floor) EXCEPT !.commands = cs] = Of(cs, record.floor)
             /\ [Of(record.commands, record.floor) EXCEPT !.commands = cs, !.floor = m] = Of(cs, m)
  <2>1. [Of(record.commands, record.floor) EXCEPT !.commands = cs] = Of(cs, record.floor)
    OBVIOUS
  <2>2. [Of(cs, record.floor) EXCEPT !.floor = m] = Of(cs, m)
    OBVIOUS
  <2>3. [Of(record.commands, record.floor) EXCEPT !.commands = cs, !.floor = m]
          = [[Of(record.commands, record.floor) EXCEPT !.commands = cs] EXCEPT !.floor = m]
    OBVIOUS
  <2> QED
    BY <2>1, <2>2, <2>3, Zenon
<1>2. ASSUME NEW cs, NEW m
      PROVE  /\ [record EXCEPT !.commands = cs] = Of(cs, record.floor)
             /\ [record EXCEPT !.commands = cs, !.floor = m] = Of(cs, m)
  BY <1>0, <1>1, Zenon
<1> HIDE DEF Of
<1>3. Retained(c) = Of(a, record.floor) \/ Retained(c) = Of(b, d)
  <2>1. \/ Retained(c) = [record EXCEPT !.commands = a]
        \/ Retained(c) = [record EXCEPT !.commands = b, !.floor = d]
    BY DEF Retained
  <2> HIDE DEF a, b, d
  <2> QED
    BY <2>1, <1>2
<1> HIDE DEF a, b, d
<1>4. ASSUME NEW cs, NEW m, NEW r, r = Of(cs, m)
      PROVE  /\ IsRecord(r) /\ r.gen = record.gen /\ r.instance = record.instance
             /\ r.installed = record.installed /\ r.predecessor = record.predecessor
  <2>1. /\ record.gen \in 0..MaxGen /\ record.instance \in 0..MaxGen
        /\ record.installed \in EntryType /\ record.predecessor \in EntryType
    BY DEF IsRecord
  <2> QED
    BY <1>4, <2>1, RecordOf DEF Of
<1> QED
  BY <1>3, <1>4

\* What adoption makes of the record: the instances it names stay the same, and
\* the newest has a name of its own.
LEMMA AdoptRecord ==
    ASSUME AgentInv, Adopt
    PROVE  /\ IsRecord(record') /\ record'.instance # 0 /\ record'.instance <= record'.gen
           /\ record'.installed.inst \in {0, record'.instance}
           /\ record'.predecessor.inst # 0 => record'.predecessor.inst < record'.instance
           /\ \A t \in Slots : record'[t] = Nothing \/ \E s \in Slots : record[s] = record'[t]
           /\ \A s \in Slots : record[s] = Nothing \/ \E t \in Slots : record'[t] = record[s]
<1> USE ProxyAssumption
<1> DEFINE r == Request
           f == job.fence
           kept == Retained(r.command)
<1>0. job.fence # 0
  BY DEF Adopt, At, AgentInv, JobInv
<1>1. r.gen \in 1..MaxGen
  BY <1>0, RequestFacts
<1>2. /\ record.gen \in 0..MaxGen /\ record.instance \in 0..MaxGen
      /\ record.installed.inst \in 0..MaxGen /\ record.predecessor.inst \in 0..MaxGen
      /\ record.installed \in EntryType /\ record.predecessor \in EntryType
  BY DEF AgentInv, AgentType, IsRecord, EntryType
<1>3. /\ IsRecord(kept) /\ kept.gen = record.gen /\ kept.instance = record.instance
      /\ kept.installed = record.installed /\ kept.predecessor = record.predecessor
  BY RetainedFields DEF AgentInv, AgentType
<1>4. Nothing \in EntryType /\ Nothing.inst = 0
  BY DEF Nothing, EntryType, Phases
<1>5. \/ /\ record = NoRecord /\ record' = Selected(r, f)
      \/ /\ record.gen = r.gen /\ record' = Selected(r, f)
      \/ /\ record # NoRecord /\ r.gen > record.gen /\ record' = Advanced(r, f)
         /\ Wants = "serving" => record.predecessor = Nothing
  BY DEF Adopt
<1>6. NoRecord.gen = 0 /\ NoRecord.installed = Nothing /\ NoRecord.predecessor = Nothing
  BY DEF NoRecord
<1> HIDE DEF r, f, kept
<1>7. CASE record = NoRecord
  <2>1. record' = [NoRecord EXCEPT !.gen = r.gen, !.fence = f, !.instance = r.gen,
                                   !.commands = {r.command}]
    BY <1>1, <1>5, <1>6, <1>7 DEF Selected
  <2>2. /\ IsRecord(record') /\ record'.instance = r.gen /\ record'.gen = r.gen
        /\ record'.installed = Nothing /\ record'.predecessor = Nothing
    <3>1. record' = [gen |-> r.gen, fence |-> f, instance |-> r.gen, commands |-> {r.command},
                     floor |-> 0, installed |-> Nothing, predecessor |-> Nothing]
      BY <2>1 DEF NoRecord
    <3> QED
      BY <1>1, <1>4, <3>1, RecordOf
  <2> QED
    BY <1>1, <1>4, <1>6, <1>7, <2>2 DEF Slots
<1>8. CASE record # NoRecord
  <2>1. /\ record.instance # 0 /\ record.instance <= record.gen
        /\ record.installed.inst \in {0, record.instance}
        /\ record.predecessor.inst # 0 => record.predecessor.inst < record.instance
    BY <1>8 DEF AgentInv, HostInv, NameInv
  <2>2. CASE record' = Selected(r, f)
    <3>1. record' = [kept EXCEPT !.fence = f]
      BY <1>8, <2>2 DEF Selected, kept
    <3>2. /\ IsRecord(record') /\ record'.instance = record.instance /\ record'.gen = record.gen
          /\ record'.installed = record.installed /\ record'.predecessor = record.predecessor
      BY <1>3, <3>1 DEF IsRecord
    <3> QED
      BY <2>1, <3>2 DEF Slots
  <2>3. CASE record' # Selected(r, f) /\ Wants # "serving"
    <3>1. record' = [kept EXCEPT !.gen = r.gen, !.fence = f] /\ r.gen > record.gen
      BY <1>5, <2>3 DEF Advanced, kept
    <3>2. /\ IsRecord(record') /\ record'.instance = record.instance /\ record'.gen = r.gen
          /\ record'.installed = record.installed /\ record'.predecessor = record.predecessor
      <4>1. record' = [gen |-> r.gen, fence |-> f, instance |-> kept.instance,
                       commands |-> kept.commands, floor |-> kept.floor,
                       installed |-> kept.installed, predecessor |-> kept.predecessor]
        BY <1>3, <3>1 DEF IsRecord
      <4> QED
        BY <1>1, <1>2, <1>3, <4>1, RecordOf
    <3> QED
      BY <1>1, <1>2, <2>1, <3>1, <3>2 DEF Slots
  <2>4. CASE record' # Selected(r, f) /\ Wants = "serving"
    <3>1. /\ record' = [[kept EXCEPT !.gen = r.gen, !.fence = f] EXCEPT
                            !.predecessor = record.installed, !.installed = Nothing,
                            !.instance = r.gen]
          /\ r.gen > record.gen /\ record.predecessor = Nothing
      BY <1>5, <2>4 DEF Advanced, kept
    <3>2. /\ IsRecord(record') /\ record'.instance = r.gen /\ record'.gen = r.gen
          /\ record'.installed = Nothing /\ record'.predecessor = record.installed
      <4>1. record' = [gen |-> r.gen, fence |-> f, instance |-> r.gen,
                       commands |-> kept.commands, floor |-> kept.floor,
                       installed |-> Nothing, predecessor |-> record.installed]
        BY <1>3, <3>1 DEF IsRecord
      <4> QED
        BY <1>1, <1>2, <1>4, <4>1, RecordOf
    <3> QED
      BY <1>1, <1>2, <1>4, <2>1, <3>1, <3>2 DEF Slots
  <2> QED
    BY <2>2, <2>3, <2>4
<1> QED
  BY <1>7, <1>8

LEMMA AdoptInv ==
    ASSUME AgentInv, Adopt
    PROVE  AgentInv'
<1>1. /\ At("start") /\ UNCHANGED <<vars, containers, creating, disk, answers, dispatched>>
      /\ To(IF Wants = "serving" THEN "install" ELSE "clean")
  BY DEF Adopt, Effects
<1>2. job.step = "start" /\ job.ok /\ job.fence # 0 /\ job.slot = "installed"
  BY <1>1 DEF At, AgentInv, JobInv
<1>3. /\ job' \in [fence : 0..MaxFence, step : Steps, slot : Slots, ok : BOOLEAN]
      /\ job'.fence = job.fence /\ job'.slot = "installed" /\ job'.ok = FALSE
      /\ job'.step = IF Wants = "serving" THEN "install" ELSE "clean"
  <2>1. (IF Wants = "serving" THEN "install" ELSE "clean") \in Steps
    BY DEF Steps, ServeSteps, CleanSteps
  <2> QED
    BY <1>1, <1>2, <2>1, ToFields DEF AgentInv
<1>4. IInv' /\ ReadyInv' /\ RequestInv' /\ AnswerInv' /\ SettledInv'
  BY <1>1, <1>2, <1>3, JobStep DEF ServeSteps, CleanSteps
<1>5. AgentType'
  BY <1>1, <1>3, AdoptRecord DEF AgentInv, AgentType, EngineType
<1>6. HostInv'
  <2>0. Nothing.inst = 0
    BY DEF Nothing
  <2>1. NameInv'
    <3>1. ASSUME NEW t \in Slots, record'[t].inst = 0 PROVE record'[t] = Nothing
      BY <3>1, AdoptRecord DEF AgentInv, HostInv, NameInv
    <3> QED
      BY <3>1, AdoptRecord DEF NameInv
  <2>2. FreshInv'
    <3> SUFFICES ASSUME NEW i \in Instances, \A t \in Slots : record'[t].inst # i
                 PROVE  \A s \in Slots : record[s].inst # i
      BY <1>1 DEF AgentInv, HostInv, FreshInv, Exists
    <3>1. i # 0
      BY DEF Instances
    <3> QED
      BY <2>0, <3>1, AdoptRecord
  <2>3. PhaseInv'
    BY <1>1, <2>0, AdoptRecord DEF AgentInv, HostInv, PhaseInv, Exists
  <2> QED
    BY <2>1, <2>2, <2>3 DEF HostInv
<1>7. JobInv' /\ CleanInv'
  BY <1>2, <1>3, AdoptRecord DEF JobInv, CleanInv, ServeSteps, CleanSteps
<1> QED
  BY <1>4, <1>5, <1>6, <1>7 DEF AgentInv

-----------------------------------------------------------------------------
(* A serving operation *)

\* A step of a serving job that goes on, given the record and the host it leaves.
LEMMA ServeTo ==
    ASSUME AgentInv, NEW step \in ServeSteps \cup {"answer"}, To(step),
           job.step \in ServeSteps, UNCHANGED <<vars, answers>>,
           IsRecord(record)', EngineType', HostInv', record'.instance # 0,
           step \notin {"install", "answer"} =>
               record'.installed.inst # 0 /\ record'.installed.phase \in StepPhase(step),
           step = "create" => (dispatched[record.installed.inst] = 0 /\ ~Exists(record.installed.inst))'
    PROVE  AgentInv'
<1>1. /\ job.step \notin {"idle", "start"} /\ job.slot = "installed" /\ job.fence # 0
      /\ Wants = "serving"
  BY DEF AgentInv, JobInv, RequestInv, ServeSteps
<1>2. /\ job' \in [fence : 0..MaxFence, step : Steps, slot : Slots, ok : BOOLEAN]
      /\ job'.fence = job.fence /\ job'.step = step /\ job'.slot = "installed" /\ job'.ok = FALSE
  BY <1>1, ToFields DEF AgentInv, Steps
<1>3. IInv' /\ ReadyInv' /\ RequestInv' /\ AnswerInv' /\ SettledInv'
  BY <1>1, <1>2, JobStep DEF ServeSteps, CleanSteps
<1>4. Wants' = "serving"
  BY <1>1, <1>2 DEF Wants, Request, vars
<1>5. AgentType' /\ CleanInv'
  BY <1>2, <1>4 DEF AgentType, CleanInv, ServeSteps, CleanSteps
<1>6. JobInv'
  BY <1>1, <1>2 DEF JobInv, Entry, ServeSteps, CleanSteps
<1> QED
  BY <1>3, <1>5, <1>6 DEF AgentInv

\* What holds of the entry of a serving job past its first step.
LEMMA ServeEntry ==
    ASSUME AgentInv, job.step \in ServeSteps \ {"install"}
    PROVE  /\ job.slot = "installed" /\ Entry = record.installed /\ Entry.inst # 0
           /\ Entry.inst \in Instances /\ Entry.phase \in Phases
           /\ Entry.phase \in StepPhase(job.step) /\ record.instance # 0 /\ job.fence # 0
<1>1. /\ job.slot = "installed" /\ Entry.inst # 0 /\ Entry.phase \in StepPhase(job.step)
      /\ job.fence # 0
  BY DEF AgentInv, JobInv, ServeSteps
<1>2. Entry = record["installed"] /\ "installed" \in Slots
  BY <1>1 DEF Entry, Slots
<1>3. Entry.inst \in Instances /\ record.instance # 0
  BY <1>1, <1>2, SlotInstances DEF AgentInv, HostInv
<1>4. Entry.phase \in Phases
  BY <1>2 DEF AgentInv, AgentType, IsRecord, EntryType
<1> QED
  BY <1>1, <1>2, <1>3, <1>4

\* A serving job saves a phase and goes on.
LEMMA ServeSave ==
    ASSUME AgentInv, NEW step \in ServeSteps \cup {"answer"}, To(step), NEW p \in Phases,
           job.step \in ServeSteps \ {"install"}, step # "install",
           UNCHANGED <<vars, containers, creating, disk, answers, dispatched>>,
           Wrote("installed", p), p \in StepPhase(step),
           p \in {"intent", "proof_intent", "stage_intent", "staged"} =>
               dispatched[Entry.inst] = 0 /\ ~Exists(Entry.inst),
           p \notin {"stage_remove_intent", "removed"},
           p # "create_intent" => Entry.inst \notin creating,
           step = "create" => dispatched[Entry.inst] = 0 /\ ~Exists(Entry.inst)
    PROVE  AgentInv'
<1>1. Entry = record["installed"] /\ "installed" \in Slots /\ Entry.inst # 0
      /\ record.instance # 0
  BY ServeEntry DEF Slots
<1>2. HostInv' /\ IsRecord(record)' /\ EngineType'
  BY <1>1, WroteHost DEF AgentInv
<1>3. /\ record'.installed.inst = Entry.inst /\ record'.installed.phase = p
      /\ record'.instance # 0
  BY <1>1 DEF Wrote
<1>4. step = "create" => (dispatched[record.installed.inst] = 0 /\ ~Exists(record.installed.inst))'
  BY <1>3 DEF Exists
<1> QED
  BY <1>1, <1>2, <1>3, <1>4, ServeTo

\* Nothing is known of the engine for an instance that is not created yet.
LEMMA BeforeCreate ==
    ASSUME AgentInv, NEW s \in Slots, record[s].inst # 0,
           record[s].phase \in {"intent", "proof_intent", "stage_intent", "staged"}
    PROVE  /\ dispatched[record[s].inst] = 0 /\ ~Exists(record[s].inst)
           /\ record[s].inst \notin creating
BY DEF AgentInv, HostInv, PhaseInv, Exists

LEMMA InstallInv ==
    ASSUME AgentInv, Install
    PROVE  AgentInv'
<1> USE ProxyAssumption
<1> DEFINE i == record.instance
           e == [Nothing EXCEPT !.inst = record.instance]
<1>1. /\ job.step = "install" /\ record.installed = Nothing /\ To("prove")
      /\ record' = [record EXCEPT !.installed = e]
      /\ UNCHANGED <<vars, containers, creating, disk, answers, dispatched>>
  BY DEF Install, At, Effects
<1>2. i # 0 /\ i \in 0..MaxGen /\ i \in Instances
  BY <1>1 DEF AgentInv, AgentType, IsRecord, JobInv, Instances
<1>3. e \in EntryType /\ e.inst = i /\ e.phase = "intent"
  BY <1>2 DEF Nothing, EntryType, Phases
<1> HIDE DEF e, i
<1>4. /\ IsRecord(record') /\ record'.gen = record.gen /\ record'.instance = i
      /\ record'.installed = e /\ record'.predecessor = record.predecessor
  BY <1>1, <1>3 DEF AgentInv, AgentType, IsRecord, i
<1>5. \A s \in Slots : record[s].inst # i
  <2>1. record.predecessor.inst \in 0..MaxGen
    BY DEF AgentInv, AgentType, IsRecord, EntryType
  <2>2. record.installed.inst = 0
    BY <1>1 DEF Nothing
  <2> QED
    BY <1>2, <2>1, <2>2 DEF AgentInv, HostInv, NameInv, Slots, i
<1>6. dispatched[i] = 0 /\ ~Exists(i)
  BY <1>2, <1>5 DEF AgentInv, HostInv, FreshInv
<1>7. NameInv'
  <2>1. record'.installed.inst # 0 /\ record'.installed.inst = record'.instance
    BY <1>2, <1>3, <1>4
  <2>2. record.predecessor.inst = 0 => record.predecessor = Nothing
    BY DEF AgentInv, HostInv, NameInv, Slots
  <2>3. record.instance <= record.gen
        /\ (record.predecessor.inst # 0 => record.predecessor.inst < record.instance)
    BY DEF AgentInv, HostInv, NameInv
  <2> QED
    BY <1>2, <1>4, <2>1, <2>2, <2>3 DEF NameInv, Slots, i
<1>8. FreshInv'
  <2> SUFFICES ASSUME NEW h \in Instances, \A s \in Slots : record'[s].inst # h
               PROVE  \A s \in Slots : record[s].inst # h
    BY <1>1 DEF AgentInv, HostInv, FreshInv, Exists
  <2>1. record.installed.inst = 0 /\ h # 0
    BY <1>1 DEF Nothing, Instances
  <2> QED
    BY <1>4, <2>1 DEF Slots
<1>9. PhaseInv'
  <2> SUFFICES ASSUME NEW t \in Slots, record'[t].inst # 0
               PROVE  /\ dispatched[record'[t].inst] <= 1
                      /\ ~(record'[t].inst \in containers /\ record'[t].inst \in creating)
                      /\ record'[t].phase \in {"intent", "proof_intent", "stage_intent", "staged"} =>
                          dispatched[record'[t].inst] = 0 /\ ~Exists(record'[t].inst)
                      /\ record'[t].phase \in {"stage_remove_intent", "removed"} =>
                          ~Exists(record'[t].inst)
                      /\ record'[t].phase # "create_intent" => record'[t].inst \notin creating
    BY <1>1 DEF PhaseInv, Exists
  <2>1. CASE t = "installed"
    BY <2>1, <1>3, <1>4, <1>6 DEF Exists
  <2>2. CASE t = "predecessor"
    BY <2>2, <1>4 DEF AgentInv, HostInv, PhaseInv
  <2> QED
    BY <2>1, <2>2 DEF Slots
<1>10. EngineType'
  BY <1>1 DEF AgentInv, AgentType, EngineType
<1>11. HostInv' /\ IsRecord(record)'
  BY <1>4, <1>7, <1>8, <1>9 DEF HostInv
<1>12. record'.installed.inst # 0 /\ record'.installed.phase \in StepPhase("prove")
  BY <1>2, <1>3, <1>4 DEF StepPhase
<1> QED
  BY <1>1, <1>2, <1>4, <1>10, <1>11, <1>12, ServeTo DEF ServeSteps

LEMMA ResumeInv ==
    ASSUME AgentInv, Resume
    PROVE  AgentInv'
<1> DEFINE step == IF Entry.phase = "intent" THEN "prove" ELSE "verify"
<1>1. /\ job.step = "install" /\ record.installed # Nothing /\ To(step)
      /\ UNCHANGED <<vars, record, containers, creating, disk, answers, dispatched>>
  BY DEF Resume, At, Effects
<1>2. job.slot = "installed" /\ record.instance # 0
  BY <1>1 DEF AgentInv, JobInv, ServeSteps
<1>3. record.installed.inst # 0 /\ Entry = record.installed /\ Entry.phase \in Phases
  BY <1>1, <1>2 DEF AgentInv, HostInv, NameInv, Slots, Entry, AgentType, IsRecord, EntryType
<1>4. step \in ServeSteps /\ Entry.phase \in StepPhase(step) /\ step \notin {"install", "answer", "create"}
  BY <1>3 DEF ServeSteps, StepPhase
<1> HIDE DEF step
<1>5. record'.installed.phase = Entry.phase
  BY <1>1, <1>3
<1> QED
  BY <1>1, <1>2, <1>3, <1>4, <1>5, SameHost, ServeTo DEF ServeSteps

LEMMA SavedWrites ==
    ASSUME AgentInv, NEW p \in Phases, Saved(p)
    PROVE  Wrote(job.slot, p)
<1>1. job.slot \in Slots /\ IsRecord(record)
  BY DEF AgentInv, AgentType
<1>2. record' = [record EXCEPT ![job.slot].phase = p]
  BY DEF Saved
<1>3. TRUE \in BOOLEAN
  OBVIOUS
<1> QED
  BY <1>1, <1>2, <1>3, SaveWrites, Zenon

\* prove, plan, seal: the phases before the create is intended.
LEMMA StageInv ==
    ASSUME AgentInv, Prove \/ Plan \/ Seal
    PROVE  AgentInv'
<1>1. /\ job.step \in {"prove", "plan", "seal"}
      /\ UNCHANGED <<vars, containers, creating, disk, answers, dispatched>>
  BY DEF Prove, Plan, Seal, At, Effects
<1>2. /\ job.slot = "installed" /\ Entry = record.installed /\ Entry.inst # 0
      /\ Entry.phase \in StepPhase(job.step)
  BY <1>1, ServeEntry DEF ServeSteps
<1>3. Entry.phase \in {"intent", "proof_intent", "stage_intent", "staged"}
  BY <1>1, <1>2 DEF StepPhase
<1>4. dispatched[Entry.inst] = 0 /\ ~Exists(Entry.inst) /\ Entry.inst \notin creating
  BY <1>2, <1>3, BeforeCreate DEF Slots
<1>5. PICK p \in {"proof_intent", "stage_intent", "staged"}, step \in {"plan", "write", "intend"} :
        Saved(p) /\ To(step) /\ p \in StepPhase(step)
  BY DEF Prove, Plan, Seal, StepPhase
<1>6. Wrote("installed", p) /\ p \in Phases
  BY <1>2, <1>5, SavedWrites DEF Phases
<1> QED
  BY <1>1, <1>4, <1>5, <1>6, ServeSave DEF ServeSteps

\* A change of one instance's files keeps the record and the engine in step.
LEMMA DiskHost ==
    ASSUME AgentInv, NEW s \in Slots, record[s].inst # 0, NEW d \in {"absent", "partial", "complete"},
           disk' = [disk EXCEPT ![record[s].inst] = d],
           UNCHANGED <<record, containers, creating, dispatched>>
    PROVE  /\ HostInv' /\ IsRecord(record)' /\ EngineType'
           /\ disk'[record[s].inst] = d
           /\ \A i \in Instances : i # record[s].inst => disk'[i] = disk[i]
<1>1. record[s].inst \in Instances
  BY SlotInstances DEF AgentInv, HostInv
<1>2. EngineType' /\ IsRecord(record)'
  BY DEF AgentInv, AgentType, EngineType, IsRecord
<1>3. disk \in [Instances -> {"absent", "partial", "complete"}]
  BY DEF AgentInv, AgentType, EngineType
<1>4. disk'[record[s].inst] = d /\ \A i \in Instances : i # record[s].inst => disk'[i] = disk[i]
  BY <1>1, <1>3
<1>5. NameInv' /\ PhaseInv'
  BY DEF AgentInv, HostInv, NameInv, PhaseInv, Exists
<1>6. FreshInv'
  BY <1>4 DEF AgentInv, HostInv, FreshInv, Exists
<1> QED
  BY <1>2, <1>4, <1>5, <1>6 DEF HostInv

LEMMA WriteInv ==
    ASSUME AgentInv, Write
    PROVE  AgentInv'
<1>1. /\ job.step = "write" /\ UNCHANGED <<vars, record, containers, creating, answers, dispatched>>
  BY DEF Write, At
<1>2. /\ job.slot = "installed" /\ Entry = record.installed /\ Entry.inst # 0
      /\ Entry.phase = "stage_intent" /\ record.instance # 0 /\ job.fence # 0
  BY <1>1, ServeEntry DEF ServeSteps, StepPhase
<1>3. PICK d \in {"partial", "complete"} :
        /\ disk' = [disk EXCEPT ![record["installed"].inst] = d]
        /\ To("seal") \/ job' = Idle
  BY <1>2 DEF Write
<1>4. HostInv' /\ IsRecord(record)' /\ EngineType'
  BY <1>1, <1>2, <1>3, DiskHost DEF Slots
<1>5. CASE job' = Idle
  BY <1>1, <1>2, <1>4, <1>5, JobEnds
<1>6. CASE To("seal")
  <2>1. "stage_intent" \in StepPhase("seal")
    BY DEF StepPhase
  <2> QED
    BY <1>1, <1>2, <1>4, <1>6, <2>1, ServeTo DEF ServeSteps
<1> QED
  BY <1>3, <1>5, <1>6

LEMMA VerifyInv ==
    ASSUME AgentInv, Verify
    PROVE  AgentInv'
<1> DEFINE step == IF Entry.phase \in {"stage_intent", "staged"} THEN "intend" ELSE "inspect"
<1>1. /\ job.step = "verify" /\ To(step)
      /\ IF Entry.phase = "stage_intent" THEN Saved("staged") ELSE UNCHANGED record
      /\ UNCHANGED <<vars, containers, creating, disk, answers, dispatched>>
  BY DEF Verify, At, Effects
<1>2. /\ job.slot = "installed" /\ Entry = record.installed /\ Entry.inst # 0
      /\ Entry.phase \in Phases /\ record.instance # 0
  BY <1>1, ServeEntry DEF ServeSteps
<1>3. step \in ServeSteps /\ step \notin {"install", "answer", "create"}
  BY DEF ServeSteps
<1>4. CASE Entry.phase = "stage_intent"
  <2>1. Wrote("installed", "staged") /\ "staged" \in Phases
    BY <1>1, <1>2, <1>4, SavedWrites DEF Phases
  <2>2. dispatched[Entry.inst] = 0 /\ ~Exists(Entry.inst) /\ Entry.inst \notin creating
    BY <1>2, <1>4, BeforeCreate DEF Slots
  <2>3. "staged" \in StepPhase(step)
    BY <1>4 DEF StepPhase
  <2> HIDE DEF step
  <2> QED
    BY <1>1, <1>3, <2>1, <2>2, <2>3, ServeSave DEF ServeSteps
<1>5. CASE Entry.phase # "stage_intent"
  <2>1. UNCHANGED record
    BY <1>1, <1>5
  <2>2. Entry.phase \in StepPhase(step)
    BY <1>2, <1>5 DEF StepPhase
  <2> HIDE DEF step
  <2> QED
    BY <1>1, <1>2, <1>3, <2>1, <2>2, SameHost, ServeTo DEF ServeSteps
<1> QED
  BY <1>4, <1>5

LEMMA IntendInv ==
    ASSUME AgentInv, Intend
    PROVE  AgentInv'
<1>1. /\ job.step = "intend" /\ Saved("create_intent") /\ To("create")
      /\ UNCHANGED <<vars, containers, creating, disk, answers, dispatched>>
  BY DEF Intend, At, Effects
<1>2. /\ job.slot = "installed" /\ Entry = record.installed /\ Entry.inst # 0
      /\ Entry.phase = "staged"
  BY <1>1, ServeEntry DEF ServeSteps, StepPhase
<1>3. dispatched[Entry.inst] = 0 /\ ~Exists(Entry.inst)
  BY <1>2, BeforeCreate DEF Slots
<1>4. Wrote("installed", "create_intent") /\ "create_intent" \in Phases
  BY <1>1, <1>2, SavedWrites DEF Phases
<1>5. "create_intent" \in StepPhase("create")
  BY DEF StepPhase
<1> QED
  BY <1>1, <1>3, <1>4, <1>5, ServeSave DEF ServeSteps

LEMMA RefuseCreateInv ==
    ASSUME AgentInv, RefuseCreate
    PROVE  AgentInv'
<1>1. /\ job.step = "create" /\ Saved("staged") /\ job' = Idle
      /\ UNCHANGED <<vars, containers, creating, disk, answers, dispatched>>
  BY DEF RefuseCreate, Effects
<1>2. /\ job.slot = "installed" /\ Entry = record["installed"] /\ Entry.inst # 0 /\ job.fence # 0
  BY <1>1, ServeEntry DEF ServeSteps
<1>3. dispatched[Entry.inst] = 0 /\ ~Exists(Entry.inst) /\ Entry.inst \notin creating
  BY <1>1 DEF AgentInv, JobInv, Exists
<1>4. Wrote("installed", "staged") /\ "staged" \in Phases /\ "installed" \in Slots
  BY <1>1, <1>2, SavedWrites DEF Phases, Slots
<1>5. HostInv' /\ IsRecord(record)' /\ EngineType'
  BY <1>1, <1>2, <1>3, <1>4, WroteHost DEF AgentInv
<1> QED
  BY <1>1, <1>2, <1>5, JobEnds

LEMMA CreateInv ==
    ASSUME AgentInv, Create
    PROVE  AgentInv'
<1> DEFINE i == record.installed.inst
<1>1. /\ job.step = "create" /\ job.ok /\ UNCHANGED <<vars, record, disk, answers>>
  BY DEF Create, At
<1>2. /\ job.slot = "installed" /\ Entry = record.installed /\ Entry.inst # 0 /\ job.fence # 0
      /\ i \in Instances /\ Entry.phase = "create_intent" /\ record.instance # 0
  BY <1>1, ServeEntry DEF ServeSteps, StepPhase
<1>3. dispatched[i] = 0 /\ i \notin containers /\ i \notin creating
  BY <1>1, <1>2 DEF AgentInv, JobInv, Exists
<1>4. /\ dispatched' = [dispatched EXCEPT ![i] = @ + 1]
      /\ \/ containers' = containers \cup {i} /\ creating' = creating
         \/ containers' = containers /\ creating' = creating \cup {i}
      /\ To("inspect") \/ job' = Idle
  BY <1>2 DEF Create
<1> HIDE DEF i
<1>5. /\ dispatched \in [Instances -> Nat]
      /\ containers \subseteq Instances /\ creating \subseteq Instances
  BY DEF AgentInv, AgentType, EngineType
<1>6. dispatched' \in [Instances -> Nat] /\ dispatched'[i] = 1
      /\ \A h \in Instances : h # i => dispatched'[h] = dispatched[h]
  BY <1>2, <1>3, <1>4, <1>5
<1>7. \A h \in Instances : h # i => /\ h \in containers' <=> h \in containers
                                    /\ h \in creating' <=> h \in creating
  BY <1>4
<1>8. EngineType' /\ IsRecord(record)' /\ NameInv'
  BY <1>1, <1>2, <1>4, <1>5, <1>6
     DEF AgentInv, AgentType, EngineType, IsRecord, HostInv, NameInv
<1>9. FreshInv'
  <2> SUFFICES ASSUME NEW h \in Instances, \A s \in Slots : record[s].inst # h
               PROVE  dispatched'[h] = 0 /\ ~Exists(h)' /\ disk[h] = "absent"
    BY <1>1 DEF FreshInv
  <2>1. h # i
    BY DEF Slots, i
  <2> QED
    BY <2>1, <1>6, <1>7 DEF AgentInv, HostInv, FreshInv, Exists
<1>10. PhaseInv'
  <2> SUFFICES ASSUME NEW t \in Slots, record[t].inst # 0
               PROVE  /\ dispatched'[record[t].inst] <= 1
                      /\ ~(record[t].inst \in containers' /\ record[t].inst \in creating')
                      /\ record[t].phase \in {"intent", "proof_intent", "stage_intent", "staged"} =>
                          dispatched'[record[t].inst] = 0 /\ ~Exists(record[t].inst)'
                      /\ record[t].phase \in {"stage_remove_intent", "removed"} =>
                          ~Exists(record[t].inst)'
                      /\ record[t].phase # "create_intent" => record[t].inst \notin creating'
    BY <1>1 DEF PhaseInv, Exists
  <2>1. CASE t = "installed"
    BY <2>1, <1>2, <1>3, <1>4, <1>6 DEF i
  <2>2. CASE t = "predecessor"
    <3>1. record[t].inst # i /\ record[t].inst \in Instances
      BY <2>2, <1>2, SlotInstances DEF Slots, i, AgentInv, HostInv
    <3> QED
      BY <3>1, <1>1, <1>6, <1>7 DEF AgentInv, HostInv, PhaseInv, Exists
  <2> QED
    BY <2>1, <2>2 DEF Slots
<1>11. HostInv'
  BY <1>8, <1>9, <1>10 DEF HostInv
<1>12. CASE job' = Idle
  BY <1>1, <1>2, <1>8, <1>11, <1>12, JobEnds
<1>13. CASE To("inspect")
  <2>1. Entry.phase \in StepPhase("inspect")
    BY <1>2 DEF StepPhase, Phases
  <2> QED
    BY <1>1, <1>2, <1>8, <1>11, <1>13, <2>1, ServeTo DEF ServeSteps
<1> QED
  BY <1>4, <1>12, <1>13

LEMMA InspectInv ==
    ASSUME AgentInv, Inspect
    PROVE  AgentInv'
<1>1. /\ job.step = "inspect" /\ Entry.inst \in containers /\ To("answer")
      /\ record' = [record EXCEPT !.installed.phase = "installed", !.installed.known = TRUE]
      /\ UNCHANGED <<vars, containers, creating, disk, answers, dispatched>>
  BY DEF Inspect, At, Effects
<1>2. /\ job.slot = "installed" /\ Entry = record["installed"] /\ Entry.inst # 0
      /\ "installed" \in Slots /\ "installed" \in Phases
  BY <1>1, ServeEntry DEF ServeSteps, Slots, Phases
<1>3. Wrote("installed", "installed")
  BY <1>1, <1>2, SaveWrites DEF AgentInv, AgentType
<1>4. Entry.inst \notin creating
  BY <1>1, <1>2 DEF AgentInv, HostInv, PhaseInv
<1>5. "installed" \in StepPhase("answer")
  BY DEF StepPhase, Phases
<1> QED
  BY <1>1, <1>2, <1>3, <1>4, <1>5, ServeSave DEF ServeSteps

LEMMA ServeInv ==
    ASSUME AgentInv, Serve
    PROVE  AgentInv'
BY InstallInv, ResumeInv, StageInv, WriteInv, VerifyInv, IntendInv, RefuseCreateInv, CreateInv,
   InspectInv DEF Serve

-----------------------------------------------------------------------------
(* Pausing and retiring *)

LEMMA CleanJob ==
    ASSUME AgentInv, job.step \in CleanSteps
    PROVE  /\ job.fence # 0 /\ Wants # "serving" /\ job.slot \in Slots /\ record.instance # 0
           /\ job.step \notin {"idle", "start"}
           /\ job.step # "clean" => Entry.inst # 0 /\ Entry.phase \in StepPhase(job.step)
BY DEF AgentInv, AgentType, JobInv, RequestInv, CleanSteps

\* A cleanup that goes on, given the record and the host it leaves.
LEMMA CleanTo ==
    ASSUME AgentInv, job.step \in CleanSteps, NEW step \in CleanSteps \cup {"answer"},
           NEW slot \in Slots, UNCHANGED <<vars, answers>>,
           job' \in [fence : 0..MaxFence, step : Steps, slot : Slots, ok : BOOLEAN],
           job'.fence = job.fence, job'.step = step, job'.slot = slot, job'.ok = FALSE,
           IsRecord(record)', EngineType', HostInv', record'.instance # 0,
           step \notin {"clean", "answer"} =>
               record'[slot].inst # 0 /\ record'[slot].phase \in StepPhase(step),
           step = "mark" => disk'[record'[slot].inst] = "absent",
           step # "answer" /\ slot = "predecessor" => Cleaned("installed")',
           step = "answer" => slot = "installed" /\ \A s \in Slots : Cleaned(s)'
    PROVE  AgentInv'
<1>1. IInv' /\ ReadyInv' /\ RequestInv' /\ AnswerInv' /\ SettledInv'
  BY CleanJob, JobStep DEF ServeSteps, CleanSteps
<1>2. AgentType' /\ CleanInv'
  BY DEF AgentType, CleanInv, CleanSteps
<1>3. JobInv'
  BY CleanJob DEF JobInv, Entry, ServeSteps, CleanSteps
<1> QED
  BY <1>1, <1>2, <1>3 DEF AgentInv

\* A slot that is cleaned stays so when nothing is added to the host.
LEMMA StaysCleaned ==
    ASSUME NEW s \in Slots, Cleaned(s), UNCHANGED vars, job'.fence = job.fence,
           record'[s].inst = record[s].inst,
           creating' \subseteq creating, containers' \subseteq containers,
           \/ record[s].inst = 0
           \/ disk'[record[s].inst] \in {"absent", disk[record[s].inst]}
    PROVE  Cleaned(s)'
<1>1. Wants' = Wants
  BY DEF vars, Wants, Request
<1> QED
  BY <1>1 DEF Cleaned

\* The job is done with a slot.
LEMMA NextSlotInv ==
    ASSUME AgentInv, job.step \in CleanSteps, NextSlot, UNCHANGED <<vars, answers>>,
           IsRecord(record)', EngineType', HostInv', record'.instance # 0,
           \A s \in Slots : s = job.slot \/ job.slot = "predecessor" => Cleaned(s)'
    PROVE  AgentInv'
<1>1. job \in [fence : 0..MaxFence, step : Steps, slot : Slots, ok : BOOLEAN] /\ job.slot \in Slots
  BY DEF AgentInv, AgentType
<1>2. "clean" \in Steps /\ "answer" \in Steps /\ "installed" \in Slots /\ "predecessor" \in Slots
      /\ "clean" \in CleanSteps
  BY DEF Steps, CleanSteps, Slots
<1>3. CASE job.slot = "installed"
  <2>1. job' = [job EXCEPT !.slot = "predecessor", !.step = "clean", !.ok = FALSE]
    BY <1>3 DEF NextSlot
  <2>2. /\ job' \in [fence : 0..MaxFence, step : Steps, slot : Slots, ok : BOOLEAN]
        /\ job'.fence = job.fence /\ job'.step = "clean" /\ job'.slot = "predecessor"
        /\ job'.ok = FALSE
    BY <1>1, <1>2, <2>1
  <2> QED
    BY <1>2, <1>3, <2>2, CleanTo
<1>4. CASE job.slot = "predecessor"
  <2>1. job' = [job EXCEPT !.slot = "installed", !.step = "answer", !.ok = FALSE]
    BY <1>4 DEF NextSlot
  <2>2. /\ job' \in [fence : 0..MaxFence, step : Steps, slot : Slots, ok : BOOLEAN]
        /\ job'.fence = job.fence /\ job'.step = "answer" /\ job'.slot = "installed"
        /\ job'.ok = FALSE
    BY <1>1, <1>2, <2>1
  <2> QED
    BY <1>2, <1>4, <2>2, CleanTo
<1> QED
  BY <1>1, <1>3, <1>4 DEF Slots

\* The slot before this one was cleaned.
LEMMA EarlierSlot ==
    ASSUME AgentInv, job.step \in CleanSteps, job.slot = "predecessor"
    PROVE  Cleaned("installed")
BY DEF AgentInv, CleanInv

\* The container is gone, and the removal of the files is saved.
LEMMA UnstageInv ==
    ASSUME AgentInv, job.step \in CleanSteps, Entry.inst # 0, ~Exists(Entry.inst), Unstage,
           UNCHANGED <<vars, containers, creating, disk, answers, dispatched>>
    PROVE  AgentInv'
<1>1. Saved("stage_remove_intent") /\ To("wipe") /\ "stage_remove_intent" \in Phases
  BY DEF Unstage, Phases
<1>2. Wrote(job.slot, "stage_remove_intent") /\ Entry = record[job.slot] /\ job.slot \in Slots
  BY <1>1, SavedWrites, CleanJob DEF Entry
<1>3. HostInv' /\ IsRecord(record)' /\ EngineType'
  BY <1>1, <1>2, WroteHost DEF AgentInv, Exists
<1>4. /\ job' \in [fence : 0..MaxFence, step : Steps, slot : Slots, ok : BOOLEAN]
      /\ job'.fence = job.fence /\ job'.step = "wipe" /\ job'.slot = job.slot /\ job'.ok = FALSE
  BY <1>1, ToFields DEF AgentInv, Steps, CleanSteps
<1>5. /\ record'[job.slot].inst # 0 /\ record'[job.slot].phase \in StepPhase("wipe")
      /\ record'.instance # 0
  BY <1>2, CleanJob DEF Wrote, StepPhase
<1>6. job.slot = "predecessor" => Cleaned("installed")'
  <2>1. \A s \in Slots : record'[s].inst = record[s].inst
    BY <1>2 DEF Wrote
  <2> QED
    BY <1>4, <2>1, EarlierSlot, StaysCleaned DEF Slots
<1>7. "wipe" \in CleanSteps
  BY DEF CleanSteps
<1> QED
  BY <1>2, <1>3, <1>4, <1>5, <1>6, <1>7, CleanTo

\* A step that only passes a slot.
LEMMA PassSlot ==
    ASSUME AgentInv, job.step \in CleanSteps, NextSlot, Cleaned(job.slot),
           UNCHANGED <<vars, record, containers, creating, disk, answers, dispatched>>
    PROVE  AgentInv'
<1>1. job'.fence = job.fence
  BY DEF AgentInv, AgentType, NextSlot
<1>2. ASSUME NEW s \in Slots, s = job.slot \/ job.slot = "predecessor" PROVE Cleaned(s)'
  <2>1. Cleaned(s)
    BY <1>2, EarlierSlot DEF Slots
  <2> QED
    BY <1>1, <2>1, StaysCleaned
<1> QED
  BY <1>2, SameHost, CleanJob, NextSlotInv

LEMMA CleanNothingInv ==
    ASSUME AgentInv, CleanNothing
    PROVE  AgentInv'
<1>1. /\ job.step = "clean" /\ Entry = Nothing /\ NextSlot
      /\ UNCHANGED <<vars, record, containers, creating, disk, answers, dispatched>>
  BY DEF CleanNothing, Effects
<1>2. Cleaned(job.slot)
  BY <1>1 DEF Cleaned, Entry, Nothing
<1> QED
  BY <1>1, <1>2, PassSlot DEF CleanSteps

\* An entry that is there names an instance.
LEMMA FoundEntry ==
    ASSUME AgentInv, job.step = "clean", Entry # Nothing
    PROVE  /\ job.step \in CleanSteps /\ job.slot \in Slots /\ Entry = record[job.slot]
           /\ Entry.inst # 0
BY CleanJob DEF AgentInv, HostInv, NameInv, Entry, CleanSteps

LEMMA CleanStagedInv ==
    ASSUME AgentInv, CleanStaged
    PROVE  AgentInv'
<1>1. /\ job.step = "clean" /\ Entry # Nothing /\ Entry.phase = "staged"
      /\ IF Wants = "retired" THEN Unstage ELSE UNCHANGED record /\ NextSlot
      /\ UNCHANGED <<vars, containers, creating, disk, answers, dispatched>>
  BY DEF CleanStaged, At, Effects
<1>2. ~Exists(Entry.inst) /\ Entry.inst # 0 /\ job.step \in CleanSteps
  BY <1>1, FoundEntry, BeforeCreate
<1>3. CASE Wants = "retired"
  BY <1>1, <1>2, <1>3, UnstageInv
<1>4. CASE Wants # "retired"
  <2>1. Cleaned(job.slot)
    BY <1>2, <1>4 DEF Cleaned, Exists, Entry
  <2> QED
    BY <1>1, <1>2, <1>4, <2>1, PassSlot
<1> QED
  BY <1>3, <1>4

LEMMA CleanGoneInv ==
    ASSUME AgentInv, CleanGone \/ Gone
    PROVE  AgentInv'
<1>1. /\ Entry.inst \notin containers /\ Unstage
      /\ UNCHANGED <<vars, containers, creating, disk, answers, dispatched>>
      /\ \/ job.step = "clean" /\ Entry # Nothing /\ Entry.phase \in Removing
         \/ job.step = "gone"
  BY DEF CleanGone, Gone, At, Effects
<1>2. job.step \in CleanSteps
  BY <1>1 DEF CleanSteps
<1>3. Entry.inst # 0 /\ Entry.phase \in Removing /\ job.slot \in Slots
  BY <1>1, <1>2, FoundEntry, CleanJob DEF StepPhase, Removing
<1>4. Entry.inst \notin creating
  BY <1>3 DEF AgentInv, HostInv, PhaseInv, Entry, Removing
<1> QED
  BY <1>1, <1>2, <1>3, <1>4, UnstageInv DEF Exists

LEMMA CleanFoundInv ==
    ASSUME AgentInv, CleanFound
    PROVE  AgentInv'
<1>1. /\ job.step = "clean" /\ Entry # Nothing /\ Entry.inst \in containers
      /\ IF Wants = "retired"
         THEN /\ record' = [record EXCEPT ![job.slot].phase = "remove_intent",
                                          ![job.slot].known = TRUE]
              /\ To("remove")
         ELSE UNCHANGED record /\ NextSlot
      /\ UNCHANGED <<vars, containers, creating, disk, answers, dispatched>>
  BY DEF CleanFound, At, Effects
<1>2. /\ job.step \in CleanSteps /\ job.slot \in Slots /\ Entry = record[job.slot]
      /\ Entry.inst # 0 /\ Entry.inst \notin creating
  BY <1>1, FoundEntry DEF AgentInv, HostInv, PhaseInv
<1>3. CASE Wants = "retired"
  <2>1. "remove_intent" \in Phases /\ "remove" \in CleanSteps
    BY DEF Phases, CleanSteps
  <2>2. Wrote(job.slot, "remove_intent")
    BY <1>1, <1>2, <1>3, <2>1, SaveWrites DEF AgentInv, AgentType
  <2>3. HostInv' /\ IsRecord(record)' /\ EngineType'
    BY <1>1, <1>2, <2>1, <2>2, WroteHost DEF AgentInv
  <2>4. /\ job' \in [fence : 0..MaxFence, step : Steps, slot : Slots, ok : BOOLEAN]
        /\ job'.fence = job.fence /\ job'.step = "remove" /\ job'.slot = job.slot
        /\ job'.ok = FALSE
    BY <1>1, <1>3, ToFields DEF AgentInv, Steps, CleanSteps
  <2>5. /\ record'[job.slot].inst # 0 /\ record'[job.slot].phase \in StepPhase("remove")
        /\ record'.instance # 0
    BY <1>2, <2>2, CleanJob DEF Wrote, StepPhase
  <2>6. job.slot = "predecessor" => Cleaned("installed")'
    <3>1. \A s \in Slots : record'[s].inst = record[s].inst
      BY <2>2 DEF Wrote
    <3> QED
      BY <1>1, <1>2, <2>4, <3>1, EarlierSlot, StaysCleaned DEF Slots
  <2> QED
    BY <1>1, <1>2, <2>1, <2>3, <2>4, <2>5, <2>6, CleanTo
<1>4. CASE Wants # "retired"
  <2>1. Cleaned(job.slot)
    BY <1>2, <1>4 DEF Cleaned
  <2> QED
    BY <1>1, <1>2, <1>4, <2>1, PassSlot
<1> QED
  BY <1>3, <1>4

LEMMA RemoveInv ==
    ASSUME AgentInv, Remove
    PROVE  AgentInv'
<1>1. /\ job.step = "remove" /\ containers' = containers \ {Entry.inst}
      /\ To("gone") \/ job' = Idle
      /\ UNCHANGED <<vars, record, creating, disk, answers, dispatched>>
  BY DEF Remove, At
<1>2. job.step \in CleanSteps /\ "gone" \in CleanSteps
  BY <1>1 DEF CleanSteps
<1>3. HostInv' /\ IsRecord(record)' /\ EngineType'
  <2>1. IsRecord(record)' /\ EngineType' /\ NameInv'
    BY <1>1 DEF AgentInv, AgentType, IsRecord, EngineType, HostInv, NameInv
  <2>2. \A h : ~Exists(h) => ~Exists(h)'
    BY <1>1 DEF Exists
  <2>3. FreshInv'
    BY <1>1, <2>2 DEF AgentInv, HostInv, FreshInv
  <2>4. PhaseInv'
    BY <1>1, <2>2 DEF AgentInv, HostInv, PhaseInv
  <2> QED
    BY <2>1, <2>3, <2>4 DEF HostInv
<1>4. CASE job' = Idle
  BY <1>1, <1>2, <1>3, <1>4, CleanJob, JobEnds
<1>5. CASE To("gone")
  <2>1. /\ job' \in [fence : 0..MaxFence, step : Steps, slot : Slots, ok : BOOLEAN]
        /\ job'.fence = job.fence /\ job'.step = "gone" /\ job'.slot = job.slot /\ job'.ok = FALSE
    BY <1>5, ToFields DEF AgentInv, Steps, CleanSteps
  <2>2. /\ record[job.slot].inst # 0 /\ record[job.slot].phase \in StepPhase("gone")
        /\ record.instance # 0 /\ job.slot \in Slots
    BY <1>1, <1>2, CleanJob DEF Entry, StepPhase
  <2>3. job.slot = "predecessor" => Cleaned("installed")'
    BY <1>1, <1>2, <2>1, EarlierSlot, StaysCleaned DEF Slots
  <2> QED
    BY <1>1, <1>2, <1>3, <2>1, <2>2, <2>3, CleanTo
<1> QED
  BY <1>1, <1>4, <1>5

LEMMA WipeInv ==
    ASSUME AgentInv, Wipe
    PROVE  AgentInv'
<1>1. /\ job.step = "wipe" /\ UNCHANGED <<vars, record, containers, creating, answers, dispatched>>
  BY DEF Wipe, At
<1>2. job.step \in CleanSteps /\ "mark" \in CleanSteps
  BY <1>1 DEF CleanSteps
<1>3. /\ record[job.slot].inst # 0 /\ record[job.slot].phase \in StepPhase("mark")
      /\ record.instance # 0 /\ job.slot \in Slots /\ job.fence # 0
  BY <1>1, <1>2, CleanJob DEF Entry, StepPhase
<1>4. CASE disk' = [disk EXCEPT ![record[job.slot].inst] = "absent"] /\ To("mark")
  <2>1. /\ HostInv' /\ IsRecord(record)' /\ EngineType' /\ disk'[record[job.slot].inst] = "absent"
        /\ \A i \in Instances : i # record[job.slot].inst => disk'[i] = disk[i]
    BY <1>1, <1>3, <1>4, DiskHost
  <2>2. /\ job' \in [fence : 0..MaxFence, step : Steps, slot : Slots, ok : BOOLEAN]
        /\ job'.fence = job.fence /\ job'.step = "mark" /\ job'.slot = job.slot /\ job'.ok = FALSE
    BY <1>4, ToFields DEF AgentInv, Steps, CleanSteps
  <2>3. job.slot = "predecessor" => Cleaned("installed")'
    <3>1. record["installed"].inst = 0 \/ record["installed"].inst \in Instances
      BY SlotInstances DEF AgentInv, HostInv, Slots
    <3>2. \/ record["installed"].inst = 0
          \/ disk'[record["installed"].inst] \in {"absent", disk[record["installed"].inst]}
      BY <2>1, <3>1
    <3> QED
      BY <1>1, <1>2, <2>2, <3>2, EarlierSlot, StaysCleaned DEF Slots
  <2> QED
    BY <1>1, <1>2, <1>3, <2>1, <2>2, <2>3, CleanTo
<1>5. CASE disk' = [disk EXCEPT ![record[job.slot].inst] = "partial"] /\ job' = Idle
  <2>1. HostInv' /\ IsRecord(record)' /\ EngineType'
    BY <1>1, <1>3, <1>5, DiskHost
  <2> QED
    BY <1>1, <1>3, <1>5, <2>1, JobEnds
<1> QED
  BY <1>4, <1>5 DEF Wipe, Entry

LEMMA MarkRemovedInv ==
    ASSUME AgentInv, MarkRemoved
    PROVE  AgentInv'
<1>1. /\ job.step = "mark" /\ Saved("removed") /\ NextSlot
      /\ UNCHANGED <<vars, containers, creating, disk, answers, dispatched>>
  BY DEF MarkRemoved, Effects
<1>2. job.step \in CleanSteps /\ "removed" \in Phases
  BY <1>1 DEF CleanSteps, Phases
<1>3. /\ Entry.inst # 0 /\ Entry.phase = "stage_remove_intent" /\ job.slot \in Slots
      /\ record.instance # 0 /\ disk[Entry.inst] = "absent" /\ Entry = record[job.slot]
  BY <1>1, <1>2, CleanJob DEF Entry, StepPhase, AgentInv, JobInv
<1>4. ~Exists(Entry.inst)
  BY <1>3 DEF AgentInv, HostInv, PhaseInv, Entry
<1>5. Wrote(job.slot, "removed")
  BY <1>1, <1>2, SavedWrites
<1>6. HostInv' /\ IsRecord(record)' /\ EngineType'
  BY <1>1, <1>2, <1>3, <1>4, <1>5, WroteHost DEF AgentInv, Exists
<1>7. job'.fence = job.fence
  BY <1>1 DEF AgentInv, AgentType, NextSlot
<1>8. ASSUME NEW s \in Slots, s = job.slot \/ job.slot = "predecessor" PROVE Cleaned(s)'
  <2>1. record'[s].inst = record[s].inst
    BY <1>5 DEF Wrote
  <2>2. Cleaned(s)
    <3>1. CASE s = job.slot
      BY <3>1, <1>3, <1>4 DEF Cleaned, Exists
    <3>2. CASE s # job.slot
      BY <3>2, <1>2, <1>8, EarlierSlot DEF Slots
    <3> QED
      BY <3>1, <3>2
  <2> QED
    BY <1>1, <1>7, <2>1, <2>2, StaysCleaned
<1> QED
  BY <1>1, <1>2, <1>3, <1>5, <1>6, <1>8, NextSlotInv DEF Wrote

LEMMA CleanupInv ==
    ASSUME AgentInv, Cleanup
    PROVE  AgentInv'
BY CleanNothingInv, CleanStagedInv, CleanGoneInv, CleanFoundInv, RemoveInv, WipeInv,
   MarkRemovedInv DEF Cleanup

-----------------------------------------------------------------------------
\* The answer is sent when nothing of what it says can change any more, short of a
\* job under a newer fence.
LEMMA AnswerStep ==
    ASSUME AgentInv, Answer
    PROVE  AgentInv'
<1> DEFINE a == [command |-> Request.command,
                 state |-> IF Wants = "serving" THEN "not_serving" ELSE Wants]
<1>1. /\ job.step = "answer" /\ job' = Idle /\ answers' = answers \cup {a}
      /\ UNCHANGED <<vars, record, containers, creating, disk, dispatched>>
  BY DEF Answer, At
<1>2. /\ job.fence # 0 /\ Wants \in Desired /\ Request.command \in Nat \ {0}
      /\ Request.command <= attempt.command
  BY <1>1, RequestFacts DEF AgentInv, JobInv
<1>3. a.command = Request.command /\ a.state = IF Wants = "serving" THEN "not_serving" ELSE Wants
  OBVIOUS
<1> HIDE DEF a
<1>4. IInv' /\ ReadyInv' /\ AgentType' /\ HostInv'
  BY <1>1, IdleFields, SameHost, SameControl DEF AgentInv, AgentType
<1>5. JobInv' /\ RequestInv' /\ CleanInv'
  BY <1>1, IdleFields DEF JobInv, RequestInv, CleanInv, ServeSteps, CleanSteps
<1>6. AnswerInv'
  BY <1>1, <1>2, <1>3 DEF vars, AgentInv, AnswerInv, Desired
<1>7. SettledInv'
  <2> SUFFICES ASSUME NEW s \in {"paused", "retired"}, Reported(s)' PROVE Settled(s)'
    BY DEF SettledInv
  <2>1. ~Reported(s)
    BY <1>1 DEF AgentInv, SettledInv, Settled
  <2>2. a.state = s
    BY <1>1, <2>1 DEF Reported, vars
  <2>3. Wants = s /\ \A t \in Slots : Cleaned(t)
    BY <1>1, <1>3, <2>2 DEF AgentInv, CleanInv
  <2>4. ASSUME NEW i \in Instances
        PROVE  /\ i \notin creating
               /\ s = "retired" => i \notin containers /\ disk[i] = "absent"
    <3>1. CASE \A t \in Slots : record[t].inst # i
      BY <3>1 DEF AgentInv, HostInv, FreshInv, Exists
    <3>2. ASSUME NEW t \in Slots, record[t].inst = i
          PROVE  /\ i \notin creating
                 /\ s = "retired" => i \notin containers /\ disk[i] = "absent"
      BY <2>3, <3>2 DEF Cleaned, Instances
    <3> QED
      BY <3>1, <3>2
  <2>5. containers \subseteq Instances /\ creating \subseteq Instances
    BY DEF AgentInv, AgentType, EngineType
  <2> QED
    BY <1>1, <2>4, <2>5, IdleFields DEF Settled
<1> QED
  BY <1>4, <1>5, <1>6, <1>7 DEF AgentInv

LEMMA AgentStutter ==
    ASSUME AgentInv, UNCHANGED agentVars
    PROVE  AgentInv'
<1>1. UNCHANGED vars /\ UNCHANGED agent
  BY DEF agentVars
<1>2. IInv' /\ ReadyInv' /\ attempt.command \in Nat
  BY <1>1, SameControl, NumberFacts DEF AgentInv
<1>3. Forward
  BY <1>1, <1>2 DEF vars, agent, Forward, Reported
<1> QED
  BY <1>1, <1>2, <1>3, ForwardInv

LEMMA AgentNextInv == AgentInv /\ [AgentNext]_agentVars => AgentInv'
BY ControlInv, DeliverInv, CheckpointInv, GiveUpInv, AdoptInv, ServeInv, CleanupInv, AnswerStep,
   LateInv, AgentStutter DEF AgentNext

LEMMA AgentInvariant == AgentSpec => []AgentInv
BY AgentInitInv, AgentNextInv, PTL DEF AgentSpec

-----------------------------------------------------------------------------
\* No instance is ever created twice, whatever crashes, is refused or comes late
\* (provision.rs, CreateIntent).
THEOREM CreatedCorrect == AgentSpec => []CreatedOnce
<1>1. AgentInv => CreatedOnce
  <2> SUFFICES ASSUME AgentInv, NEW i \in Instances PROVE dispatched[i] <= 1
    BY DEF CreatedOnce
  <2>1. CASE \A s \in Slots : record[s].inst # i
    BY <2>1 DEF AgentInv, HostInv, FreshInv
  <2>2. ASSUME NEW s \in Slots, record[s].inst = i PROVE dispatched[i] <= 1
    BY <2>2 DEF AgentInv, HostInv, PhaseInv, Instances
  <2> QED
    BY <2>1, <2>2
<1> QED
  BY <1>1, AgentInvariant, PTL

\* Every container, and every create that may still take effect, is one the
\* journal will look for (journal.rs; provision.rs saves before it acts).
THEOREM RecordedCorrect == AgentSpec => []ContainersAreRecorded
<1>1. AgentInv => ContainersAreRecorded
  <2> SUFFICES ASSUME AgentInv, NEW i \in containers \cup creating
               PROVE  \E s \in Slots :
                        /\ record[s].inst = i
                        /\ record[s].phase \in {"create_intent", "installed", "remove_intent"}
    BY DEF ContainersAreRecorded
  <2>1. i \in Instances /\ i # 0 /\ Exists(i)
    BY DEF AgentInv, AgentType, EngineType, Instances, Exists
  <2>2. PICK s \in Slots : record[s].inst = i
    BY <2>1 DEF AgentInv, HostInv, FreshInv
  <2>3. record[s].phase \in Phases
    BY DEF AgentInv, AgentType, IsRecord, EntryType, Slots
  <2>4. record[s].phase \notin {"intent", "proof_intent", "stage_intent", "staged",
                                "stage_remove_intent", "removed"}
    BY <2>1, <2>2 DEF AgentInv, HostInv, PhaseInv
  <2> QED
    BY <2>2, <2>3, <2>4 DEF Phases
<1> QED
  BY <1>1, AgentInvariant, PTL

\* What the control plane reports of a paused or retired proxy is what its host
\* is, across the answer, the fence and the observation (attempts.rs,
\* observe_runtime_attempt; the agent's checkpoint and cleanup).
THEOREM ReportedCorrect == AgentSpec => []ReportedIsSettled
<1>1. AgentInv => ReportedIsSettled
  BY DEF AgentInv, SettledInv, Settled, Reported, ReportedIsSettled, At
<1> QED
  BY <1>1, AgentInvariant, PTL

\* The composition does to the control plane only what ProxyOperations lets the
\* environment's answers do, so what holds of the journal's steps holds here.
THEOREM ComposedCorrect == AgentSpec => Init /\ [][Next]_vars
<1>1. AgentInit => Init
  BY DEF AgentInit
<1>2. AgentInv /\ [AgentNext]_agentVars => [Next]_vars
  <2> SUFFICES ASSUME AgentInv, [AgentNext]_agentVars PROVE [Next]_vars
    OBVIOUS
  <2>1. CASE (Operator \/ Controller) /\ UNCHANGED agent
    BY <2>1 DEF Next
  <2>2. CASE Conclude
    <3>0. PICK f \in Fences :
            \E r : /\ Observe(f, r) /\ UNCHANGED agent
                   /\ r = "none" \/ \E a \in answers : a.command = jobs[f].command /\ a.state = r
      BY <2>2 DEF Conclude
    <3>1. PICK r : /\ Observe(f, r) /\ UNCHANGED agent
                   /\ r = "none" \/ \E a \in answers : a.command = jobs[f].command /\ a.state = r
      BY <3>0
    <3>2. r \in Answers
      BY <3>1, ObserveForward
    <3> QED
      BY <3>1, <3>2 DEF Next
  <2>3. CASE UNCHANGED vars
    BY <2>3
  <2>4. ASSUME Serve PROVE UNCHANGED vars
    BY <2>4 DEF Serve, Install, Resume, Prove, Plan, Write, Seal, Verify, Intend, RefuseCreate,
                Create, Inspect
  <2>5. ASSUME Cleanup PROVE UNCHANGED vars
    BY <2>5 DEF Cleanup, CleanNothing, CleanStaged, CleanGone, CleanFound, Remove, Gone, Wipe,
                MarkRemoved
  <2>6. ASSUME \/ \E f \in Fences : Deliver(f)
               \/ Checkpoint \/ GiveUp \/ Adopt \/ Answer
               \/ \E i \in Instances : LateCreate(i) \/ LateLoss(i)
               \/ UNCHANGED agentVars
        PROVE  UNCHANGED vars
    BY <2>6 DEF Deliver, Checkpoint, GiveUp, Adopt, Answer, LateCreate, LateLoss, agentVars
  <2> QED
    BY <2>1, <2>2, <2>3, <2>4, <2>5, <2>6 DEF AgentNext
<1> QED
  BY <1>1, <1>2, AgentInvariant, PTL DEF AgentSpec
=============================================================================
