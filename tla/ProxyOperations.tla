--------------------------- MODULE ProxyOperations ---------------------------
(***************************************************************************)
(* The life of one managed MCP proxy in the control plane                  *)
(* (apps/control-plane-api/src/proxy): the store's row and revisions, the  *)
(* journal of operations, the controller's lease and attempt, and the      *)
(* evidence relay.                                                         *)
(*                                                                         *)
(*   UpdateDraft, Publish, Validate...   the operator's calls before a     *)
(*                       deployment; Publish also later                    *)
(*   Accept              accept_managed_lifecycle: one transaction that    *)
(*                       opens a generation                                *)
(*   Lease, Prepare, Observe   the three transactions of one controller    *)
(*                       job (run_job); a job that stops in between is     *)
(*                       simply not continued                              *)
(*   Expire              the lease passes its deadline                     *)
(*   Submit, Mark        the relay hands an intent to the outbox, and      *)
(*                       marks it                                          *)
(*                                                                         *)
(* Every transaction locks the proxy's row first, so each is one step.  A  *)
(* fence is given once, so a job is named by its fence, whichever replica  *)
(* runs it.  The lease is alive or not: how long it lasts (180 s, cut to   *)
(* 30 s by finish_runtime_attempt) changes only when Expire happens.       *)
(* What the runtime agent answers is any answer validate_response lets     *)
(* through; RuntimeAgent replaces it by the agent itself.                  *)
(***************************************************************************)
EXTENDS Integers, Sequences

CONSTANTS
    MaxGen,         \* bound: accepted operations
    MaxRevisions,   \* bound: published revisions
    MaxFence,       \* bound: leases given to controllers
    MaxClock        \* bound: values of the clocks that name commands

ASSUME ProxyAssumption ==
    /\ MaxGen \in Nat \ {0} /\ MaxRevisions \in Nat \ {0}
    /\ MaxFence \in Nat \ {0} /\ MaxClock \in Nat \ {0}

VARIABLES
    proxy,        \* mcp_proxies: life, active, desired, gen
    drafted,      \* whether a draft revision was ever saved
    published,    \* how many revisions are published; they are numbered
    ops,          \* mcp_proxy_operations, by generation
    lease,        \* mcp_proxy_controller_leases
    attempt,      \* mcp_proxy_runtime_attempts
    jobs,         \* by fence, what its run_job has done so far
    intents,      \* mcp_proxy_evidence_intents, in the order the relay reads them
    outbox,       \* how many of them the control outbox has
    enqueued      \* how many of them are marked with enqueued_at_micros

journal  == <<ops, lease, attempt, jobs>>
evidence == <<intents, outbox, enqueued>>
vars == <<proxy, drafted, published, ops, lease, attempt, jobs, intents, outbox, enqueued>>

Actions   == {"deploy", "resume", "pause", "retire", "rotate", "rollback"}
Desired   == {"serving", "paused", "retired"}
Terminal  == {"ready", "paused", "retired"}
Observed  == Terminal \cup {"pending", "reconciling", "failed", "not_serving"}
Lives     == {"draft", "validating", "awaiting_approval", "provisioning",
              "ready", "paused", "retiring", "retired"}

Fences   == 1..MaxFence
Clocks   == 1..MaxClock
Commands == 1..(MaxClock + MaxFence)

\* An event that must reach the outbox: of an accepted operation, or of what
\* one job observed.
Intent == [gen : 1..MaxGen, fence : 0..MaxFence, state : Observed]

NoJob == [step |-> "none", gen |-> 0, command |-> 0]

Init ==
    /\ proxy = [life |-> "draft", active |-> 0, desired |-> "draft", gen |-> 0]
    /\ drafted = FALSE /\ published = 0
    /\ ops = << >>
    /\ lease = [gen |-> 0, fence |-> 0, live |-> FALSE]
    /\ attempt = [gen |-> 0, fence |-> 0, command |-> 0, response |-> "none"]
    /\ jobs = [f \in Fences |-> NoJob]
    /\ intents = << >> /\ outbox = 0 /\ enqueued = 0

-----------------------------------------------------------------------------
(* Before the first deployment                                             *)

\* update_draft
UpdateDraft ==
    /\ ~drafted /\ drafted' = TRUE
    /\ UNCHANGED <<proxy, published, journal, evidence>>

\* Mutant of Publish: the new revision is always made the active one.
PublishActivates ==
    /\ drafted /\ proxy.life # "retired" /\ published < MaxRevisions
    /\ published' = published + 1
    /\ proxy' = [proxy EXCEPT !.active = published + 1]
    /\ UNCHANGED <<drafted, journal, evidence>>

\* publish_revision: a draft becomes a new published revision; it becomes the
\* active one only while no operation was ever accepted.
Publish ==
    /\ drafted /\ proxy.life # "retired" /\ published < MaxRevisions
    /\ published' = published + 1
    /\ proxy' = IF proxy.gen = 0 THEN [proxy EXCEPT !.active = published + 1] ELSE proxy
    /\ UNCHANGED <<drafted, journal, evidence>>

\* transition, with the two commands validate_proxy sends.  refuse_managed
\* keeps it away from a proxy that has operations.
Transition(from, to) ==
    /\ proxy.gen = 0 /\ proxy.active # 0 /\ proxy.life = from
    /\ proxy' = [proxy EXCEPT !.life = to, !.desired = to]
    /\ UNCHANGED <<drafted, published, journal, evidence>>

StartValidation  == Transition("draft", "validating")
FinishValidation == Transition("validating", "awaiting_approval")

-----------------------------------------------------------------------------
(* Acceptance                                                              *)

\* Mutant of Eligible: a retired proxy is not told from the others.
EligibleAfterRetirement(action) ==
    /\ proxy.life = "retiring" => action = "retire"
    /\ CASE action = "deploy" -> proxy.life = "awaiting_approval" \/ proxy.gen > 0
         [] action = "resume" -> proxy.life = "paused"
         [] OTHER             -> proxy.gen > 0

\* eligibility
Eligible(action) ==
    /\ proxy.life # "retired"
    /\ proxy.life = "retiring" => action = "retire"
    /\ CASE action = "deploy" -> proxy.life = "awaiting_approval" \/ proxy.gen > 0
         [] action = "resume" -> proxy.life = "paused"
         [] OTHER             -> proxy.gen > 0

\* action, and the projection eligibility returns
DesiredBy(action) ==
    CASE action = "pause" -> "paused" [] action = "retire" -> "retired" [] OTHER -> "serving"
Projection(action) == IF action = "retire" THEN "retiring" ELSE "provisioning"

\* publication::select, with the check on the revision the caller names: deploy
\* and rollback choose a published revision, rotate publishes a new one, the
\* others stay with the active one.
Selects(action, revision) ==
    CASE action \in {"deploy", "rollback"} -> revision \in 1..published
      [] action = "rotate" -> revision = published + 1 /\ revision <= MaxRevisions
      [] OTHER             -> revision = proxy.active

\* submit_operation: the next generation, its row in the journal and the
\* evidence of its acceptance; the row's lifecycle state is accept's to say.
SubmitOperation(revision, desired, life) ==
    /\ proxy.gen < MaxGen
    /\ proxy' = [life |-> life, active |-> revision, desired |-> desired, gen |-> proxy.gen + 1]
    /\ ops' = Append(ops, [revision |-> revision, desired |-> desired, observed |-> "pending"])
    /\ intents' = Append(intents, [gen |-> proxy.gen + 1, fence |-> 0, state |-> "pending"])

\* accept, for a request not seen before: one that was is answered from its
\* acceptance, or refused when its meaning differs, and changes nothing.
Accept(action, revision) ==
    /\ proxy.active # 0
    /\ Eligible(action) /\ Selects(action, revision)
    /\ SubmitOperation(revision, DesiredBy(action), Projection(action))
    /\ published' = IF action = "rotate" THEN revision ELSE published
    /\ UNCHANGED <<drafted, lease, attempt, jobs, enqueued, outbox>>

-----------------------------------------------------------------------------
(* One controller job                                                      *)

\* matches_live_target
MatchesLiveTarget(g) ==
    /\ g \in DOMAIN ops /\ g = proxy.gen
    /\ ops[g].revision = proxy.active /\ ops[g].desired = proxy.desired

\* exact_live_lease_expiry
LiveLease(f) == lease.live /\ lease.fence = f /\ lease.gen = jobs[f].gen

\* Mutant of Lease: an expired lease is renewed under its old fence.
LeaseSameFence ==
    /\ MatchesLiveTarget(proxy.gen) /\ ops[proxy.gen].observed \notin Terminal
    /\ ~lease.live \/ lease.gen < proxy.gen
    /\ lease.fence < MaxFence
    /\ LET f == IF lease.fence = 0 THEN 1 ELSE lease.fence IN
        /\ lease' = [gen |-> proxy.gen, fence |-> f, live |-> TRUE]
        /\ jobs' = [jobs EXCEPT ![f] = [step |-> "leased", gen |-> proxy.gen, command |-> 0]]
    /\ UNCHANGED <<proxy, drafted, published, ops, attempt, evidence>>

\* lease_operation: the newest operation while it is not complete, when no
\* lease is alive or the one that is belongs to an older generation.
Lease ==
    /\ MatchesLiveTarget(proxy.gen) /\ ops[proxy.gen].observed \notin Terminal
    /\ ~lease.live \/ lease.gen < proxy.gen
    /\ lease.fence < MaxFence
    /\ LET f == lease.fence + 1 IN
        /\ lease' = [gen |-> proxy.gen, fence |-> f, live |-> TRUE]
        /\ jobs' = [jobs EXCEPT ![f] = [step |-> "leased", gen |-> proxy.gen, command |-> 0]]
    /\ UNCHANGED <<proxy, drafted, published, ops, attempt, evidence>>

Expire ==
    /\ lease.live /\ lease' = [lease EXCEPT !.live = FALSE]
    /\ UNCHANGED <<proxy, drafted, published, ops, attempt, jobs, evidence>>

\* read_current_runtime_operation_checked: what the controller, and the agent
\* through the authority service, call the current operation.
Current(f) ==
    /\ LiveLease(f) /\ MatchesLiveTarget(jobs[f].gen)
    /\ ops[jobs[f].gen].observed \notin Terminal

\* Mutant of Increasing: the replica's clock is taken as it is.
IncreasingByClock(prior, candidate) == candidate

\* increasing: a command is named by the replica's clock, or by the successor of
\* the last command when that clock is behind.
Increasing(prior, candidate) == IF prior >= candidate THEN prior + 1 ELSE candidate

\* prepare_checked.  A job prepares once, so no attempt of its fence is there
\* yet; the lease is read in two transactions of which the second decides.
Prepare(f, clock) ==
    /\ jobs[f].step = "leased" /\ Current(f)
    /\ LET command == Increasing(attempt.command, clock) IN
        /\ jobs' = [jobs EXCEPT ![f].step = "prepared", ![f].command = command]
        /\ attempt' = [gen |-> jobs[f].gen, fence |-> f, command |-> command,
                       response |-> "none"]
    /\ UNCHANGED <<proxy, drafted, published, ops, lease, evidence>>

\* validate_response: what an agent may answer to an operation
ValidResponse(desired, r) ==
    \/ r \in {"not_serving", "reconciling", "failed"}
    \/ r \in {"paused", "retired"} /\ r = desired

\* The state an answer stands for; no answer is an uncertain attempt.
StateOf(r) == IF r = "none" THEN "not_serving" ELSE r

\* lifecycle_state as observe_operation derives it
LifeOf(desired, state) ==
    IF state \in Terminal THEN state
    ELSE IF desired = "retired" THEN "retiring" ELSE "provisioning"

\* The attempt is still this job's, the lease is alive, and the operation is the
\* live target: checked again before the commit.
MayObserve(f) ==
    /\ jobs[f].step = "prepared"
    /\ attempt.gen = jobs[f].gen /\ attempt.fence = f
    /\ Current(f)

\* observe_operation: the operation, the proxy's row and the evidence change
\* together.
ObserveOperation(g, f, s) ==
    /\ ops' = [ops EXCEPT ![g].observed = s]
    /\ proxy' = [proxy EXCEPT !.life = LifeOf(ops[g].desired, s)]
    /\ intents' = Append(intents, [gen |-> g, fence |-> f, state |-> s])

\* observe_runtime_attempt: in the same transaction, the answer is kept.
Observe(f, r) ==
    /\ MayObserve(f)
    /\ r # "none" => ValidResponse(ops[jobs[f].gen].desired, r)
    /\ attempt' = [attempt EXCEPT !.response = r]
    /\ ObserveOperation(jobs[f].gen, f, StateOf(r))
    /\ jobs' = [jobs EXCEPT ![f].step = "observed"]
    /\ UNCHANGED <<drafted, published, lease, enqueued, outbox>>

-----------------------------------------------------------------------------
(* The evidence relay.  Intents are read by event time, which follows the   *)
(* order they are committed in, and every replica's relay submits and marks *)
(* one before it turns to the next; so both are prefixes of the table.      *)

\* relay_proxy_evidence_cancellable, the first half for one intent: submitting
\* an event again, after a crash or by another replica, changes nothing.
Submit ==
    /\ outbox = enqueued /\ outbox < Len(intents)
    /\ outbox' = outbox + 1
    /\ UNCHANGED <<proxy, drafted, published, journal, intents, enqueued>>

\* Mutant of Mark: the intent is marked when it is read.
MarkEarly ==
    /\ enqueued < Len(intents)
    /\ enqueued' = enqueued + 1
    /\ UNCHANGED <<proxy, drafted, published, journal, intents, outbox>>

\* mark_evidence_enqueued, after the outbox accepted the event
Mark ==
    /\ enqueued < outbox
    /\ enqueued' = enqueued + 1
    /\ UNCHANGED <<proxy, drafted, published, journal, intents, outbox>>

-----------------------------------------------------------------------------
Answers == (Observed \ {"pending", "ready"}) \cup {"none"}

Operator ==
    \/ UpdateDraft \/ Publish \/ StartValidation \/ FinishValidation
    \/ \E action \in Actions, revision \in 1..MaxRevisions : Accept(action, revision)

Controller == Lease \/ Expire \/ \E f \in Fences, clock \in Clocks : Prepare(f, clock)

Relay == Submit \/ Mark

Next ==
    \/ Operator \/ Controller \/ Relay
    \/ \E f \in Fences, r \in Answers : Observe(f, r)

\* The relay sweeps forever and the outbox recovers; nothing is assumed of
\* operators and controllers.
Spec == Init /\ [][Next]_vars /\ WF_vars(Relay)

-----------------------------------------------------------------------------
(* Properties. *)

\* Type correctness; a lease is never given twice, so the commands of all jobs
\* stay within the clock's range and one successor per fence.
TypeOK ==
    /\ proxy \in [life : Lives, active : 0..MaxRevisions,
                  desired : Lives \cup Desired, gen : 0..MaxGen]
    /\ drafted \in BOOLEAN /\ published \in 0..MaxRevisions
    /\ ops \in Seq([revision : 1..MaxRevisions,
                    desired : Desired, observed : Observed])
    /\ lease \in [gen : 0..MaxGen, fence : 0..MaxFence, live : BOOLEAN]
    /\ attempt \in [gen : 0..MaxGen, fence : 0..MaxFence, command : Commands \cup {0},
                    response : Observed \cup {"none"}]
    /\ jobs \in [Fences -> [step : {"none", "leased", "prepared", "observed"},
                            gen : 0..MaxGen, command : Commands \cup {0}]]
    /\ intents \in Seq(Intent) /\ outbox \in Nat /\ enqueued \in Nat

\* The row and the journal tell one story: the row's generation is the number
\* of operations, and once there are any its lifecycle state is the one the
\* newest operation's outcome stands for, however acceptances, observations and
\* abandoned jobs interleave (operation_journal.rs and managed.rs write it).
RowMatchesJournal ==
    /\ Len(ops) = proxy.gen
    /\ proxy.gen > 0 =>
        /\ MatchesLiveTarget(proxy.gen)
        /\ proxy.life = LifeOf(ops[proxy.gen].desired, ops[proxy.gen].observed)

\* Commands the controllers send are ordered as their fences are, and never
\* belong to an older generation than an earlier one, although each replica
\* names them by a clock of its own: the agent refuses a command it has
\* outgrown (attempts.rs, increasing; record.rs, retain_command).
CommandsFollowFences ==
    \A e, f \in Fences :
        e < f /\ jobs[e].command # 0 /\ jobs[f].command # 0 =>
            jobs[e].command < jobs[f].command /\ jobs[e].gen <= jobs[f].gen

\* What makes CommandsFollowFences inductive: fences are handed out in order and
\* only the newest is ever prepared, under a generation no older than any before;
\* the stored attempt carries the greatest command so far, and each fence has
\* added at most one to it beyond the clock's range.
FenceInv ==
    /\ lease.gen <= proxy.gen
    /\ attempt.fence <= lease.fence
    /\ attempt.command <= MaxClock + attempt.fence
    /\ attempt.fence # 0 => jobs[attempt.fence].step \in {"prepared", "observed"}
    /\ \A f \in Fences :
        /\ f > lease.fence => jobs[f] = NoJob
        /\ jobs[f].gen <= lease.gen
        /\ jobs[f].command <= attempt.command
        /\ jobs[f].step \in {"none", "leased"} => jobs[f].command = 0
    /\ \A e, f \in Fences : e < f /\ f <= lease.fence => jobs[e].gen <= jobs[f].gen

\* An outcome is final: an operation that completed, or that a newer one
\* superseded, is never written again by a controller that lost its lease, and
\* a retired proxy stays as it is.
OutcomesAreFinal ==
    [][/\ \A g \in DOMAIN ops :
            (ops[g].observed \in Terminal \/ g < proxy.gen) => ops'[g] = ops[g]
       /\ proxy.life = "retired" => proxy' = proxy]_vars

\* The evidence of every acceptance and observation reaches the outbox, although
\* the relay marks an intent in a transaction of its own after the outbox has
\* accepted it and may stop between the two.
EvidenceReachesOutbox ==
    \A n \in 1..(MaxGen + MaxFence) : Len(intents) >= n ~> outbox >= n

=============================================================================
