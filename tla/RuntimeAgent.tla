----------------------------- MODULE RuntimeAgent -----------------------------
(***************************************************************************)
(* The proxy runtime agent (apps/proxy-runtime-agent/src/execution)        *)
(* composed with the control plane of ProxyOperations: one proxy, one      *)
(* agent, any number of controller jobs.                                   *)
(*                                                                         *)
(*   Deliver         a reconcile request takes the proxy's guard           *)
(*   Checkpoint      the callback to the authority: the request's lease    *)
(*                   and operation are current at this moment              *)
(*   Adopt ... Answer   provision::run, one action per durable save or     *)
(*                   external effect; each effect follows a checkpoint,    *)
(*                   and anything can happen in between                    *)
(*   GiveUp          run returns an error, or the agent crashes and        *)
(*                   restarts: the journal, the engine and the disk stay   *)
(*   LateCreate, LateLoss   the engine finishes, or drops, a create whose  *)
(*                   caller was not told                                   *)
(*                                                                         *)
(* An instance is named by the generation it is created for.  The agent    *)
(* has no network catalogue here: with one, run leaves through the paired  *)
(* containers before it reaches the image, and never answers.              *)
(***************************************************************************)
EXTENDS ProxyOperations, FiniteSets, FiniteSetsExt

CONSTANT CommandCap     \* commands a record keeps (64)

ASSUME AgentAssumption == CommandCap \in Nat \ {0}

VARIABLES
    record,       \* the journal's record of this proxy
    job,          \* the request the guard is held for, and how far it is
    containers,   \* instances with a container in the engine
    creating,     \* instances whose create has an unknown outcome
    disk,         \* the staged files of each instance
    answers,      \* responses sent: command and state
    dispatched    \* history: creates sent to the engine, by instance

agent     == <<record, job, containers, creating, disk, answers, dispatched>>
agentVars == <<vars, agent>>

Instances == 1..MaxGen
Phases == {"intent", "proof_intent", "stage_intent", "staged", "create_intent",
           "installed", "remove_intent", "stage_remove_intent", "removed"}
Slots  == {"installed", "predecessor"}

\* `Installed`; instance 0 stands for None.
Nothing == [inst |-> 0, phase |-> "intent", known |-> FALSE]

NoRecord == [gen |-> 0, fence |-> 0, instance |-> 0, commands |-> {}, floor |-> 0,
             installed |-> Nothing, predecessor |-> Nothing]

Idle == [fence |-> 0, step |-> "idle", slot |-> "installed", ok |-> FALSE]

AgentInit ==
    /\ Init
    /\ record = NoRecord /\ job = Idle
    /\ containers = {} /\ creating = {} /\ answers = {}
    /\ disk = [i \in Instances |-> "absent"]
    /\ dispatched = [i \in Instances |-> 0]

Request  == jobs[job.fence]
Wants    == ops[Request.gen].desired
Entry    == record[job.slot]

\* The job goes on to a step, which its next checkpoint precedes.
To(step) == job' = [job EXCEPT !.step = step, !.ok = FALSE]

\* An effect that needs the checkpoint before it.
At(step) == job.step = step /\ job.ok

Saved(phase)  == record' = [record EXCEPT ![job.slot].phase = phase]
Effects       == <<containers, creating, disk, answers, dispatched>>

-----------------------------------------------------------------------------
\* execute, with Guard::acquire: the request of a prepared job, sent again when
\* the agent refused it, when no other request holds the proxy.
Deliver(f) ==
    /\ job = Idle /\ jobs[f].step = "prepared"
    /\ \A a \in answers : a.command # jobs[f].command
    /\ job' = [Idle EXCEPT !.fence = f, !.step = "start"]
    /\ UNCHANGED <<vars, record, Effects>>

\* checkpoint: the authority answers from the journal at this moment.
Checkpoint ==
    /\ job.fence # 0 /\ ~job.ok /\ Current(job.fence)
    /\ job.step \notin {"plan", "seal", "mark"}
    /\ job' = [job EXCEPT !.ok = TRUE]
    /\ UNCHANGED <<vars, record, Effects>>

GiveUp ==
    /\ job.fence # 0 /\ job' = Idle
    /\ UNCHANGED <<vars, record, Effects>>

-----------------------------------------------------------------------------
(* The record                                                              *)

\* retain_command
Retains(c) ==
    /\ c > record.floor
    /\ c \in record.commands \/ Cardinality(record.commands) < CommandCap
       \/ c > Min(record.commands)
Retained(c) ==
    IF c \in record.commands \/ Cardinality(record.commands) < CommandCap
    THEN [record EXCEPT !.commands = @ \cup {c}]
    ELSE [record EXCEPT !.commands = (@ \ {Min(@)}) \cup {c}, !.floor = Min(record.commands)]

\* select, for the operation the record is about, or the first one
Selected(r, f) ==
    IF record = NoRecord
    THEN [NoRecord EXCEPT !.gen = r.gen, !.fence = f, !.instance = r.gen,
                          !.commands = {r.command}]
    ELSE [Retained(r.command) EXCEPT !.fence = f]

\* Mutant of Advanced: the earlier instance is not kept.
AdvancedForgetful(r, f) ==
    LET kept == [Retained(r.command) EXCEPT !.gen = r.gen, !.fence = f] IN
    IF Wants = "serving"
    THEN [kept EXCEPT !.installed = Nothing, !.instance = r.gen]
    ELSE kept

\* advance: a newer operation; one that serves gets an instance of its own and
\* the one before is kept to be cleaned up.
Advanced(r, f) ==
    LET kept == [Retained(r.command) EXCEPT !.gen = r.gen, !.fence = f] IN
    IF Wants = "serving"
    THEN [kept EXCEPT !.predecessor = record.installed, !.installed = Nothing,
                      !.instance = r.gen]
    ELSE kept

Adopt ==
    /\ At("start")
    /\ LET r == Request
           f == job.fence IN
        \/ /\ record = NoRecord /\ Wants = "serving"
           /\ record' = Selected(r, f)
        \/ /\ record.gen = r.gen /\ f >= record.fence /\ Retains(r.command)
           /\ record' = Selected(r, f)
        \/ /\ record # NoRecord /\ r.gen > record.gen /\ f > record.fence
           /\ r.command \notin record.commands /\ Retains(r.command)
           /\ Wants = "serving" => record.predecessor = Nothing
           /\ record' = Advanced(r, f)
    /\ To(IF Wants = "serving" THEN "install" ELSE "clean")
    /\ UNCHANGED <<vars, Effects>>

-----------------------------------------------------------------------------
(* A serving operation                                                     *)

\* A new instance, or the one the record holds.  A stage whose proof may have
\* been generated by an earlier run is left alone for good.
Install ==
    /\ At("install") /\ record.installed = Nothing
    /\ record' = [record EXCEPT !.installed = [Nothing EXCEPT !.inst = record.instance]]
    /\ To("prove") /\ UNCHANGED <<vars, Effects>>

Resume ==
    /\ At("install") /\ record.installed # Nothing
    /\ Entry.phase \notin {"removed", "proof_intent"}
    /\ To(IF Entry.phase = "intent" THEN "prove" ELSE "verify")
    /\ UNCHANGED <<vars, record, Effects>>

Prove == At("prove") /\ Saved("proof_intent") /\ To("plan") /\ UNCHANGED <<vars, Effects>>

\* The files are planned, their hashes saved, and only then written.
Plan == job.step = "plan" /\ Saved("stage_intent") /\ To("write") /\ UNCHANGED <<vars, Effects>>

Write ==
    /\ At("write") /\ disk[Entry.inst] = "absent"
    /\ \/ disk' = [disk EXCEPT ![Entry.inst] = "complete"] /\ To("seal")
       \/ disk' = [disk EXCEPT ![Entry.inst] = "partial"] /\ job' = Idle
    /\ UNCHANGED <<vars, record, containers, creating, answers, dispatched>>

Seal == job.step = "seal" /\ Saved("staged") /\ To("intend") /\ UNCHANGED <<vars, Effects>>

\* Mutant of Verify: a create of unknown outcome is taken as never sent.
VerifyRecreates ==
    /\ At("verify") /\ disk[Entry.inst] = "complete"
    /\ IF Entry.phase \in {"stage_intent", "create_intent"} /\ Entry.inst \notin containers
       THEN Saved("staged") ELSE UNCHANGED record
    /\ To(IF Entry.phase \in {"stage_intent", "staged", "create_intent"}
             /\ Entry.inst \notin containers
          THEN "intend" ELSE "inspect")
    /\ UNCHANGED <<vars, Effects>>

\* A later run: the stage is read back, never written again.
Verify ==
    /\ At("verify") /\ disk[Entry.inst] = "complete"
    /\ IF Entry.phase = "stage_intent" THEN Saved("staged") ELSE UNCHANGED record
    /\ To(IF Entry.phase \in {"stage_intent", "staged"} THEN "intend" ELSE "inspect")
    /\ UNCHANGED <<vars, Effects>>

Intend ==
    /\ At("intend") /\ disk[Entry.inst] = "complete"
    /\ Saved("create_intent") /\ To("create") /\ UNCHANGED <<vars, Effects>>

\* The checkpoint before the create refuses: nothing was sent, and that is saved.
RefuseCreate ==
    /\ job.step = "create" /\ ~job.ok
    /\ Saved("staged") /\ job' = Idle /\ UNCHANGED <<vars, Effects>>

\* engine.create: done, done but not reported, or not known.
Create ==
    /\ At("create")
    /\ dispatched' = [dispatched EXCEPT ![Entry.inst] = @ + 1]
    /\ \/ /\ containers' = containers \cup {Entry.inst} /\ UNCHANGED creating
          /\ To("inspect") \/ job' = Idle
       \/ creating' = creating \cup {Entry.inst} /\ UNCHANGED containers /\ job' = Idle
    /\ UNCHANGED <<vars, record, disk, answers>>

Inspect ==
    /\ At("inspect") /\ Entry.inst \in containers
    /\ record' = [record EXCEPT !.installed.phase = "installed", !.installed.known = TRUE]
    /\ To("answer") /\ UNCHANGED <<vars, Effects>>

LateCreate(i) ==
    /\ i \in creating /\ creating' = creating \ {i} /\ containers' = containers \cup {i}
    /\ UNCHANGED <<vars, record, job, disk, answers, dispatched>>

LateLoss(i) ==
    /\ i \in creating /\ creating' = creating \ {i}
    /\ UNCHANGED <<vars, record, job, containers, disk, answers, dispatched>>

-----------------------------------------------------------------------------
(* Pausing and retiring: cleanup, for the instance and its predecessor     *)

NextSlot ==
    job' = IF job.slot = "installed"
           THEN [job EXCEPT !.slot = "predecessor", !.step = "clean", !.ok = FALSE]
           ELSE [job EXCEPT !.slot = "installed", !.step = "answer", !.ok = FALSE]

\* The container is gone: the removal of the files is saved before it starts.
Unstage == Saved("stage_remove_intent") /\ To("wipe")

CleanNothing ==
    /\ job.step = "clean" /\ Entry = Nothing
    /\ NextSlot /\ UNCHANGED <<vars, record, Effects>>

\* No create was ever sent for a staged instance; the engine confirms it.
CleanStaged ==
    /\ At("clean") /\ Entry # Nothing /\ Entry.phase = "staged"
    /\ ~Entry.known /\ Entry.inst \notin containers
    /\ IF Wants = "retired" THEN Unstage ELSE UNCHANGED record /\ NextSlot
    /\ UNCHANGED <<vars, Effects>>

\* Mutant of Removing: a create of unknown outcome counts as removed.
RemovingOrCreating == {"create_intent", "remove_intent", "stage_remove_intent", "removed"}

\* The phases in which the container's absence is what was asked for.
Removing == {"remove_intent", "stage_remove_intent", "removed"}

CleanGone ==
    /\ At("clean") /\ Entry # Nothing
    /\ Entry.phase \in Removing /\ Entry.inst \notin containers
    /\ Unstage /\ UNCHANGED <<vars, Effects>>

\* In every other phase the container must be there to be inspected.
CleanFound ==
    /\ At("clean") /\ Entry # Nothing /\ Entry.phase # "staged"
    /\ Entry.inst \in containers
    /\ IF Wants = "retired"
       THEN /\ record' = [record EXCEPT ![job.slot].phase = "remove_intent",
                                        ![job.slot].known = TRUE]
            /\ To("remove")
       ELSE UNCHANGED record /\ NextSlot
    /\ UNCHANGED <<vars, Effects>>

Remove ==
    /\ At("remove")
    /\ containers' = containers \ {Entry.inst}
    /\ To("gone") \/ job' = Idle
    /\ UNCHANGED <<vars, record, creating, disk, answers, dispatched>>

Gone == At("gone") /\ Entry.inst \notin containers /\ Unstage /\ UNCHANGED <<vars, Effects>>

Wipe ==
    /\ At("wipe")
    /\ \/ disk' = [disk EXCEPT ![Entry.inst] = "absent"] /\ To("mark")
       \/ /\ disk[Entry.inst] # "absent"
          /\ disk' = [disk EXCEPT ![Entry.inst] = "partial"] /\ job' = Idle
    /\ UNCHANGED <<vars, record, containers, creating, answers, dispatched>>

MarkRemoved == job.step = "mark" /\ Saved("removed") /\ NextSlot /\ UNCHANGED <<vars, Effects>>

\* The response: the guard is released before the caller has it.
Answer ==
    /\ At("answer")
    /\ Wants = "retired" => record.installed # Nothing \/ record.predecessor # Nothing
    /\ answers' = answers \cup {[command |-> Request.command,
                                 state |-> IF Wants = "serving" THEN "not_serving" ELSE Wants]}
    /\ job' = Idle
    /\ UNCHANGED <<vars, record, containers, creating, disk, dispatched>>

-----------------------------------------------------------------------------
Serve == Install \/ Resume \/ Prove \/ Plan \/ Write \/ Seal \/ Verify \/ Intend
         \/ RefuseCreate \/ Create \/ Inspect
Cleanup == CleanNothing \/ CleanStaged \/ CleanGone \/ CleanFound \/ Remove \/ Gone
           \/ Wipe \/ MarkRemoved

\* The controller's job ends with the agent's answer to its own command, or with
\* none.
Conclude ==
    \E f \in Fences : \E r \in {"none"} \cup {a.state : a \in {b \in answers : b.command = jobs[f].command}} :
        Observe(f, r) /\ UNCHANGED agent

AgentNext ==
    \/ (Operator \/ Controller) /\ UNCHANGED agent
    \/ Conclude
    \/ \E f \in Fences : Deliver(f)
    \/ Checkpoint \/ GiveUp \/ Adopt \/ Serve \/ Cleanup \/ Answer
    \/ \E i \in Instances : LateCreate(i) \/ LateLoss(i)

AgentSpec == AgentInit /\ [][AgentNext]_agentVars

-----------------------------------------------------------------------------
(* Properties. *)

\* A container is created at most once for an instance, whatever crashed, was
\* refused or came late: an intent of unknown outcome is never sent again
\* (provision.rs, CreateIntent).
CreatedOnce == \A i \in Instances : dispatched[i] <= 1

\* Every container, and every create that may still take effect, belongs to an
\* instance the journal holds in a phase that expects it: a crash leaves no
\* container that a later cleanup would not look for.
ContainersAreRecorded ==
    \A i \in containers \cup creating : \E slot \in Slots :
        /\ record[slot].inst = i
        /\ record[slot].phase \in {"create_intent", "installed", "remove_intent"}

\* What the control plane reports is what the host is: once a proxy is paused no
\* create is outstanding or about to be sent; once it is retired no container
\* and no staged file is left either, and none can come back.
ReportedIsSettled ==
    /\ proxy.life \in {"paused", "retired"} => creating = {} /\ ~At("create")
    /\ proxy.life = "retired" =>
        containers = {} /\ \A i \in Instances : disk[i] = "absent"

=============================================================================
