---------------------------- MODULE ServingGrants ----------------------------
(***************************************************************************)
(* Which process may serve a managed proxy: the store's deployments and    *)
(* grants (apps/control-plane-api/src/proxy/store/postgres/serving), and   *)
(* the owner of the grant in each gateway process                          *)
(* (apps/mcp-gateway/src/managed/authority/grant-owner.ts).                *)
(*                                                                         *)
(*   Decide           the operator's next operation: it serves or it does  *)
(*                    not                                                  *)
(*   Register, Record, Select, Withdraw, CloseAll, Terminate               *)
(*                    the controller's transactions                        *)
(*   Ask, Receive, Stop, Die   the gateway process                         *)
(*   Renew            the authority serves a request that was sent, at any *)
(*                    later moment, possibly more than once                *)
(*                                                                         *)
(* Every transaction of the store locks the proxy's row first and is one   *)
(* step.  The controller's also check its lease, so the controller here is *)
(* the one that holds it (ProxyOperations).  Only durations travel between *)
(* the clock of the store and the clocks of the processes, so one `now`    *)
(* stands for all of them.                                                 *)
(***************************************************************************)
EXTENDS Integers, FiniteSets, FiniteSetsExt

CONSTANTS
    GrantTime,      \* how long a grant lasts (10 s)
    Kept,           \* decisions kept beside the applied one (63)
    MaxLive,        \* deployments that are not closed (16)
    MaxGen,         \* bound: operations of the proxy
    Budgets,        \* bound: renewals of each process, in one of several ways
    MaxTime,        \* bound: the clock
    MaxCalls        \* bound: calls of one process at a time (128)

ASSUME GrantAssumption ==
    /\ GrantTime \in Nat \ {0} /\ Kept \in Nat \ {0} /\ MaxLive \in Nat \ {0}
    /\ MaxGen \in Nat \ {0} /\ Budgets \subseteq [1..MaxGen -> Nat]
    /\ MaxTime \in Nat /\ MaxCalls \in Nat

VARIABLES
    now,
    target,      \* the proxy's row: generation, and whether it is to serve
    selection,   \* mcp_proxy_serving_selection: epoch and selected instance
    deployed,    \* mcp_proxy_deployments
    decisions,   \* mcp_proxy_grant_decisions, by instance
    sent,        \* renewal requests that left a process and may yet have an effect
    replies,     \* grants on their way to the process that waits for them
    owner,       \* DeploymentGrantOwner of each process
    active,      \* its calls in progress
    stoppedAt    \* history: when the proxy was last told to stop serving

store   == <<target, selection, deployed, decisions, stoppedAt>>
process == <<owner, active>>
vars    == <<now, target, selection, deployed, decisions, sent, replies, owner, active, stoppedAt>>

\* A generation that serves has one process, named after it.
Instances == 1..MaxGen
None == 0

Modes == {"prepare", "serve", "closed"}

\* What a process says it applied: a decision, by sequence; 0 is none.
NoAck == [seq |-> 0, epoch |-> 0, admitting |-> FALSE, active |-> 0]

NoDeployment ==
    [known |-> FALSE, mode |-> "closed", terminated |-> FALSE, highest |-> 0, lastServe |-> 0,
     applied |-> 0, appliedMode |-> "none", admitting |-> FALSE, active |-> 0, readyUntil |-> 0]

NewOwner ==
    [state |-> "up", seq |-> 0, pending |-> FALSE, started |-> 0,
     held |-> 0, epoch |-> 0, mode |-> "closed", expires |-> 0]
Stopped == [NewOwner EXCEPT !.state = "stopped"]

Init ==
    /\ now = 0 /\ stoppedAt = 0
    /\ target = [gen |-> 1, serving |-> TRUE]
    /\ selection = [epoch |-> 1, instance |-> None]
    /\ deployed = [i \in Instances |-> NoDeployment]
    /\ decisions = [i \in Instances |-> {}]
    /\ sent = {} /\ replies = {}
    /\ owner = [i \in Instances |-> NewOwner]
    /\ active = [i \in Instances |-> 0]

Registered(i) == deployed[i].known

-----------------------------------------------------------------------------
(* The store                                                               *)

\* An operation is accepted: it serves under a new generation, or it does not.
Decide(serving) ==
    /\ target.gen < MaxGen
    /\ target' = [gen |-> target.gen + 1, serving |-> serving]
    /\ stoppedAt' = IF target.serving THEN now ELSE stoppedAt
    /\ UNCHANGED <<now, selection, deployed, decisions, sent, replies, process>>

\* Mutant of Register: a closed deployment is enrolled again.
RegisterAgain(i) ==
    /\ target.serving /\ target.gen = i /\ deployed[i].mode = "closed"
    /\ deployed' = [deployed EXCEPT ![i] = [NoDeployment EXCEPT !.known = TRUE, !.mode = "prepare"]]
    /\ UNCHANGED <<now, target, selection, decisions, stoppedAt, sent, replies, process>>

\* register, of an instance the current lease launched; one that is known
\* stays as it is, closed ones too.
Register(i) ==
    /\ target.serving /\ target.gen = i /\ ~Registered(i)
    /\ Cardinality({j \in Instances : deployed[j].mode # "closed"}) < MaxLive
    /\ deployed' = [deployed EXCEPT ![i] = [NoDeployment EXCEPT !.known = TRUE, !.mode = "prepare"]]
    /\ UNCHANGED <<now, target, selection, decisions, stoppedAt, sent, replies, process>>

\* eligible
EligibleFor(i, mode) ==
    \/ mode = "closed"
    \/ target.serving /\ (mode = "prepare" => i = target.gen)

\* candidate, and applied_prepare_expiry: the process was last heard to hold a
\* PREPARE grant that has not expired, and to be quiet.
Candidate(i) ==
    /\ Registered(i) /\ deployed[i].mode = "prepare" /\ EligibleFor(i, "prepare")
    /\ deployed[i].appliedMode = "prepare" /\ ~deployed[i].admitting /\ deployed[i].active = 0
PreparedUntil(i, until) ==
    \E d \in decisions[i] :
        d.seq = deployed[i].applied /\ d.mode = "prepare" /\ d.until = until /\ until > now

\* readiness: a healthy probe lasts at most as long as the grant.
Record(i, until) ==
    /\ Candidate(i) /\ now < until
    /\ \E u \in 1..(MaxTime + GrantTime) : PreparedUntil(i, u) /\ until <= u
    /\ deployed' = [deployed EXCEPT ![i].readyUntil = until]
    /\ UNCHANGED <<now, target, selection, decisions, stoppedAt, sent, replies, process>>

\* Mutant of Blocks: a closed deployment no longer blocks.
BlocksUntilClosed(j) ==
    /\ Registered(j) /\ ~deployed[j].terminated
    /\ deployed[j].mode = "serve" \/ deployed[j].active # 0 \/ deployed[j].admitting

\* The other deployments that keep a candidate from being selected: one that
\* serves, is heard to be busy, or was ever given SERVE and has not since then
\* acknowledged that it is closed.
Blocks(j) ==
    /\ Registered(j) /\ ~deployed[j].terminated
    /\ \/ deployed[j].mode = "serve" \/ deployed[j].active # 0 \/ deployed[j].admitting
       \/ /\ deployed[j].lastServe > 0
          /\ ~(/\ deployed[j].mode = "closed" /\ deployed[j].appliedMode = "closed"
               /\ deployed[j].applied > deployed[j].lastServe)

\* advance
Advanced(i) == [epoch |-> selection.epoch + 1, instance |-> i]

\* select
Select(i) ==
    /\ Candidate(i) /\ \E u \in 1..(MaxTime + GrantTime) : PreparedUntil(i, u)
    /\ selection.instance = None /\ now < deployed[i].readyUntil
    /\ \A j \in Instances \ {i} : ~Blocks(j)
    /\ selection' = Advanced(i)
    /\ deployed' = [deployed EXCEPT ![i].mode = "serve", ![i].readyUntil = 0]
    /\ UNCHANGED <<now, target, decisions, stoppedAt, sent, replies, process>>

\* withdraw, for a replacement
Withdraw(i) ==
    /\ Registered(i) /\ target.serving /\ selection.instance = i
    /\ selection' = Advanced(None)
    /\ deployed' = [deployed EXCEPT ![i].mode = "closed", ![i].readyUntil = 0]
    /\ UNCHANGED <<now, target, decisions, stoppedAt, sent, replies, process>>

\* close_all: nothing changes when every deployment is closed already.
Closed(d) == IF d.mode = "closed" THEN d ELSE [d EXCEPT !.mode = "closed", !.readyUntil = 0]
AllClosed == \A i \in Instances : deployed[i].mode = "closed"
SelectionWhenClosed == IF AllClosed THEN selection ELSE Advanced(None)
DeployedWhenClosed == [i \in Instances |-> Closed(deployed[i])]

\* withdraw, for a pause or a retirement
CloseAll ==
    /\ ~target.serving /\ ~AllClosed
    /\ selection' = SelectionWhenClosed /\ deployed' = DeployedWhenClosed
    /\ UNCHANGED <<now, target, decisions, stoppedAt, sent, replies, process>>

\* terminate: the controller saw that the process is gone.
Terminate(i) ==
    /\ Registered(i) /\ ~deployed[i].terminated /\ owner[i].state = "dead"
    /\ selection' = IF selection.instance = i THEN Advanced(None) ELSE selection
    /\ deployed' = [deployed EXCEPT ![i] =
            [@ EXCEPT !.mode = "closed", !.terminated = TRUE, !.admitting = FALSE,
                      !.active = 0, !.readyUntil = 0]]
    /\ UNCHANGED <<now, target, decisions, stoppedAt, sent, replies, process>>

-----------------------------------------------------------------------------
(* Renewal                                                                 *)

Grant(i, d) == [inst |-> i, seq |-> d.seq, epoch |-> d.epoch, mode |-> d.mode,
                validFor |-> d.until - now]

\* A grant reaches its process only while that waits for this very request.
Answered(i, d) ==
    replies' = IF owner[i].pending /\ owner[i].seq = d.seq
               THEN replies \cup {Grant(i, d)} ELSE replies

\* acknowledge: refused unless the decision is known and says what the process
\* says; older than the applied one, or of a terminated deployment, it changes
\* nothing.
AckAllowed(i, dep, ack) ==
    ack.seq # 0 =>
        \E d \in decisions[i] :
            /\ d.seq = ack.seq /\ d.epoch = ack.epoch /\ d.seq <= dep.highest
            /\ ack.admitting => d.mode = "serve"
            /\ ~(/\ d.seq = dep.applied /\ ~dep.terminated
                 /\ d.mode = "closed" /\ ack.active > dep.active)
ModeOf(i, seq) == (CHOOSE d \in decisions[i] : d.seq = seq).mode
Acknowledged(i, dep, ack) ==
    IF ack.seq = 0 \/ ack.seq < dep.applied \/ dep.terminated THEN dep
    ELSE LET mode == ModeOf(i, ack.seq) IN
         [dep EXCEPT !.applied = ack.seq, !.appliedMode = mode, !.admitting = ack.admitting,
                     !.active = ack.active,
                     !.readyUntil = IF mode # "prepare" \/ ack.admitting \/ ack.active # 0
                                    THEN 0 ELSE @]

\* The decisions kept: the applied one and the newest of the others.
Pruned(ds, applied) ==
    {d \in ds : d.seq = applied
                \/ Cardinality({e \in ds : e.seq # applied /\ e.seq > d.seq}) < Kept}

\* renew, of a request with a sequence not seen before, from these rows: what the
\* process applied is taken in, and it is granted what its deployment is.
Decided(i, q, rows, chosen) ==
    LET mode  == rows[i].mode
        d     == [seq |-> q.seq, epoch |-> chosen.epoch, mode |-> mode, until |-> now + GrantTime]
        acked == Acknowledged(i, rows[i], q.ack)
    IN
    /\ q.seq > rows[i].highest
    /\ AckAllowed(i, rows[i], q.ack)
    /\ mode = "serve" => chosen.instance = i
    /\ selection' = chosen
    /\ deployed' = [rows EXCEPT ![i] = [acked EXCEPT
            !.highest = q.seq, !.lastServe = IF mode = "serve" THEN q.seq ELSE @]]
    /\ decisions' = [decisions EXCEPT ![i] = Pruned(@ \cup {d}, acked.applied)]
    /\ Answered(i, d)

\* Mutant of RenewNext: the proxy's own row is not looked at.
RenewNextUnaware(i, q) == Decided(i, q, deployed, selection)

\* A proxy that is not to serve has its deployments closed first.
RenewNext(i, q) ==
    LET closing == ~target.serving
        rows    == IF closing THEN DeployedWhenClosed ELSE deployed
    IN  /\ EligibleFor(i, rows[i].mode)
        /\ Decided(i, q, rows, IF closing THEN SelectionWhenClosed ELSE selection)

\* renew, of a request that was decided: the same decision, while it still says
\* what the deployment is, for the time it has left.
RenewAgain(i, q) ==
    /\ target.serving \/ AllClosed
    /\ q.seq <= deployed[i].highest
    /\ \E d \in decisions[i] :
        /\ d.seq = q.seq /\ d.epoch = selection.epoch /\ d.mode = deployed[i].mode
        /\ EligibleFor(i, d.mode) /\ now < d.until
        /\ Answered(i, d)
    /\ UNCHANGED <<selection, deployed, decisions>>

Renew(q) ==
    /\ Registered(q.inst)
    /\ RenewNext(q.inst, q) \/ RenewAgain(q.inst, q)
    /\ UNCHANGED <<now, target, stoppedAt, sent, process>>

-----------------------------------------------------------------------------
(* The process                                                             *)

\* snapshot: the mode that counts now
Mode(i) ==
    IF owner[i].state = "up" /\ owner[i].held # 0 /\ now < owner[i].expires
    THEN owner[i].mode ELSE "closed"

\* The bound on renewals: those decided, those under way, and the next one.
WithinBudget(i) ==
    \E b \in Budgets :
        /\ owner[i].seq < b[i] /\ \A j \in Instances : deployed[j].highest <= b[j]
        /\ \A q \in sent : q.seq <= b[q.inst]

\* renew, up to the request; a process that serves may not be ready to admit.
Ask(i, ready) ==
    /\ Registered(i) /\ owner[i].state = "up" /\ ~owner[i].pending /\ WithinBudget(i)
    /\ LET o == owner[i]
           ack == IF o.held = 0 THEN NoAck
                  ELSE [seq |-> o.held, epoch |-> o.epoch, active |-> active[i],
                        admitting |-> ready /\ Mode(i) = "serve"] IN
        /\ sent' = sent \cup {[inst |-> i, seq |-> o.seq + 1, ack |-> ack]}
        /\ owner' = [owner EXCEPT ![i].seq = @ + 1, ![i].pending = TRUE, ![i].started = now]
    /\ UNCHANGED <<now, store, replies, active>>

\* The exchange is over: its answer is dropped, and a request that was decided
\* has no effect any more.
EndExchange(i) ==
    /\ replies' = {r \in replies : r.inst # i}
    /\ sent' = {q \in sent : q.inst = i => q.seq > deployed[i].highest}

\* Mutant of Expiry: a grant lasts from when it arrives.
ExpiryOnArrival(i, r) == now + r.validFor

\* A grant lasts from when it was asked for.
Expiry(i, r) == owner[i].started + r.validFor

\* receive: a gap in what was held, a late answer, or a contradiction fails.
Acceptable(i, r) ==
    LET o == owner[i] IN
    /\ now < Expiry(i, r)
    /\ o.held # 0 =>
        /\ now < o.expires /\ r.epoch >= o.epoch
        /\ r.epoch = o.epoch => r.mode = o.mode

\* What the owner holds is replaced.  A closed grant is accepted like any other:
\* RuntimeGrants.renew revokes the process afterwards, which is a Stop.
Receive(i, r) ==
    /\ owner[i].pending /\ r.inst = i /\ Acceptable(i, r)
    /\ owner' = [owner EXCEPT ![i] =
            [@ EXCEPT !.pending = FALSE, !.started = 0, !.held = r.seq, !.epoch = r.epoch,
                      !.mode = r.mode, !.expires = Expiry(i, r)]]
    /\ EndExchange(i) /\ UNCHANGED <<now, store, active>>

\* close: after an error, a timeout, an answer receive refuses, a closed grant,
\* or for any other reason the runtime stops; no call begins any more, those in progress drain.
Stop(i) ==
    /\ Registered(i) /\ owner[i].state = "up"
    /\ owner' = [owner EXCEPT ![i] = Stopped]
    /\ EndExchange(i) /\ UNCHANGED <<now, store, active>>

\* The process ends.  A crash is a stop whose calls do not drain.
Die(i) ==
    /\ owner[i].state = "stopped"
    /\ owner' = [owner EXCEPT ![i] = [NewOwner EXCEPT !.state = "dead"]]
    /\ active' = [active EXCEPT ![i] = 0]
    /\ EndExchange(i) /\ UNCHANGED <<now, store>>

\* tryBeginCall and release
BeginCall(i) ==
    /\ Mode(i) = "serve" /\ active[i] < MaxCalls
    /\ active' = [active EXCEPT ![i] = @ + 1]
    /\ UNCHANGED <<now, store, sent, replies, owner>>

EndCall(i) ==
    /\ active[i] > 0
    /\ active' = [active EXCEPT ![i] = @ - 1]
    /\ UNCHANGED <<now, store, sent, replies, owner>>

Tick ==
    /\ now < MaxTime /\ now' = now + 1
    /\ UNCHANGED <<store, sent, replies, process>>

-----------------------------------------------------------------------------
Controller(i) ==
    \/ Register(i) \/ Select(i) \/ Withdraw(i) \/ Terminate(i)
    \/ \E until \in 1..(MaxTime + GrantTime) : Record(i, until)

Gateway(i) ==
    \/ \E ready \in BOOLEAN : Ask(i, ready)
    \/ \E r \in replies : Receive(i, r)
    \/ Stop(i)

Grants ==
    \/ \E serving \in BOOLEAN : Decide(serving)
    \/ CloseAll \/ Tick
    \/ \E q \in sent : Renew(q)
    \/ \E i \in Instances : Controller(i) \/ Gateway(i)

Next == Grants \/ \E i \in Instances : BeginCall(i) \/ EndCall(i) \/ Die(i)

Spec == Init /\ [][Next]_vars

-----------------------------------------------------------------------------
Serves(i) == Mode(i) = "serve"

\* At most one process of a proxy serves, and while it does no call of another
\* is still in progress, although grants, acknowledgements and selections are
\* exchanged with delays (transitions.rs select and its blockers, against
\* grant-owner.ts).
OneServes ==
    \A i, j \in Instances :
        i # j /\ Serves(i) => ~Serves(j) /\ active[j] = 0

\* A process never believes a grant longer than the store does: it counts from
\* its own request, which the store's decision follows.
HeldIsValid ==
    \A i \in Instances :
        Mode(i) # "closed" => \A d \in decisions[i] : d.seq = owner[i].held => owner[i].expires <= d.until

\* A proxy told to pause or to retire serves for the length of one grant at
\* most, whether or not the controller withdraws it.
StopsInTime ==
    ~target.serving /\ now >= stoppedAt + GrantTime => \A i \in Instances : ~Serves(i)

\* A process identity is never revived: closed stays closed, a dead process
\* stays terminated, and epochs and acknowledged sequences only grow.
NeverRevived ==
    [][/\ selection'.epoch >= selection.epoch
       /\ selection'.instance # selection.instance => selection'.epoch > selection.epoch
       /\ \A i \in Instances : Registered(i) =>
            /\ deployed[i].mode = "closed" => deployed'[i].mode = "closed"
            /\ deployed[i].terminated => deployed'[i] = [deployed[i] EXCEPT !.highest = deployed'[i].highest]
            /\ deployed'[i].applied >= deployed[i].applied]_vars

=============================================================================
