------------------------------- MODULE FileInbox -------------------------------
(***************************************************************************)
(* The journal-backed inbox (apps/control-plane-api/src/inbox/file.rs):    *)
(* the InboxState in memory, an append-only journal on disk, compaction of *)
(* the journal, crashes, and the replay of the journal at the next start.  *)
(*                                                                         *)
(* Every append is one write_all and one sync_data and can end four ways:  *)
(*   "ok"       the records are durable                                    *)
(*   "lost"     an error, and nothing reached the file                     *)
(*   "phantom"  an error, although the records are in the file (only the   *)
(*              sync failed)                                               *)
(*   "torn"     an error, and a cut-off record is left in the file (a full *)
(*              disk); CrashInAppend is the same with the process dying    *)
(* and every compaction, one snapshot and one rename, three ways: "ok",    *)
(* "lost" (the old journal stays), or "closed" (the journal, new or old,   *)
(* could not be reopened, so no later append can succeed).                 *)
(*                                                                         *)
(* The memory it keeps, its clock and settled_at are CommandInbox's: each  *)
(* File... action is the action of that name with its durable step.        *)
(*                                                                         *)
(* settled_at, handed and unsynced are history variables: when an identity *)
(* was last reported settled to a caller, how many responses carried it,   *)
(* and whether some append was a phantom.                                  *)
(***************************************************************************)
EXTENDS CommandInbox, SequencesExt

CONSTANTS
    AppendFaults,    \* subset of {"lost", "phantom", "torn"}
    CompactFaults,   \* subset of {"lost", "closed"}
    MaxFaults,       \* bound: failed appends and compactions in a behaviour
    MaxRestarts      \* bound: crashes in a behaviour

ASSUME FileInboxAssumption ==
    /\ AppendFaults \subseteq {"lost", "phantom", "torn"}
    /\ CompactFaults \subseteq {"lost", "closed"}
    /\ MaxFaults \in Nat /\ MaxRestarts \in Nat

VARIABLES
    journal,    \* the records in the journal file
    file_open,  \* FileCommandInbox.file is Some
    mode,       \* "up", "down" (crashed), or "refused" (load failed closed)
    faults, restarts,
    handed, unsynced

\* FileCommandInbox.state is `inbox`.
fileVars == <<inbox, journal, file_open, mode, now, faults, restarts, settled_at,
              handed, unsynced>>

-----------------------------------------------------------------------------
(* Journal records, and what load() makes of them. *)

CommandRec(c)           == [type |-> "Command", key |-> c.key, agent |-> c.agent]
DeliveredRec(k, n, at)  == [type |-> "Delivered", key |-> k, attempt |-> n, at |-> at]
AcknowledgedRec(k)      == [type |-> "Acknowledged", key |-> k]
RetiredRec(k, at)       == [type |-> "Retired", key |-> k, at |-> at]
CancelledRec(k, at)     == [type |-> "Cancelled", key |-> k, at |-> at]
TornRec                 == [type |-> "Torn"]

\* One line of the journal. A command is admitted again by the same check that
\* admitted it first; a refusal, like a malformed line, fails the whole load.
LoadRecord(st, r) ==
    CASE r.type = "Command" ->
           IF CheckRecordable(st, r) = "ok" THEN InsertRecorded(st, r) ELSE st
      [] r.type = "Delivered" -> ApplyDelivery(st, r.key, r.attempt, r.at)
      [] r.type = "Acknowledged" ->
           IF r.key \in DOMAIN st.entries THEN SetAcknowledged(st, r.key, TRUE) ELSE st
      [] r.type = "Retired" -> Retire(st, r.key, r.at)
      [] r.type = "Cancelled" ->
           IF r.key \in DOMAIN st.entries THEN SetCancelled(st, r.key, TRUE, r.at) ELSE st
      [] r.type = "Torn" -> st

LoadRefuses(st, r) ==
    \/ r.type = "Torn"
    \/ r.type = "Command" /\ CheckRecordable(st, r) = "capacity"

\* One turn of load()'s loop: acc holds the state so far and whether a line was
\* refused, after which nothing more is read.
LoadStep(acc, r) ==
    IF acc.refused \/ LoadRefuses(acc.st, r)
    THEN [st |-> acc.st, refused |-> TRUE]
    ELSE [st |-> LoadRecord(acc.st, r), refused |-> FALSE]

Replay(acc, jnl) ==
    LET state[i \in 0..Len(jnl)] ==
            IF i = 0 THEN acc ELSE LoadStep(state[i - 1], jnl[i])
    IN  state[Len(jnl)]

\* load(): the state replayed from the journal, and whether it was refused.
Load(jnl) == Replay([st |-> NewInbox, refused |-> FALSE], jnl)

\* Mutant of SnapshotOf: a compaction drops cancellations.
SnapshotOfUncancelled(st, k) ==
    LET e == st.entries[k]
    IN  <<CommandRec([key |-> k, agent |-> e.agent])>>
        \o (IF e.attempts > 0
            THEN <<DeliveredRec(k, e.attempts, e.last_delivered)>> ELSE <<>>)
        \o (IF e.acknowledged THEN <<AcknowledgedRec(k)>> ELSE <<>>)

\* snapshot_records(): live commands in order, then the tombstones.
SnapshotOf(st, k) ==
    LET e == st.entries[k]
    IN  <<CommandRec([key |-> k, agent |-> e.agent])>>
        \o (IF e.attempts > 0
            THEN <<DeliveredRec(k, e.attempts, e.last_delivered)>> ELSE <<>>)
        \o (IF e.acknowledged THEN <<AcknowledgedRec(k)>> ELSE <<>>)
        \o (IF e.cancelled THEN <<CancelledRec(k, e.cancelled_at)>> ELSE <<>>)

\* Mutant of Snapshot: a compaction drops the tombstones.
SnapshotLiveOnly(st) ==
    LET live == Retain(st.order, DOMAIN st.entries)
    IN  FlattenSeq([i \in DOMAIN live |-> SnapshotOf(st, live[i])])

Snapshot(st) ==
    LET live == Retain(st.order, DOMAIN st.entries)
        tombs == SetToSeq(DOMAIN st.retired)
    IN  FlattenSeq([i \in DOMAIN live |-> SnapshotOf(st, live[i])])
        \o [i \in DOMAIN tombs |-> RetiredRec(tombs[i], st.retired[tombs[i]])]

-----------------------------------------------------------------------------
(* The two durable steps. *)

\* append_batch: the outcome and what it leaves in the file.
AppendBatch(records, outcome) ==
    IF ~file_open
    THEN outcome = "lost" /\ UNCHANGED <<journal, faults, unsynced>>
    ELSE /\ \/ outcome = "ok" /\ faults' = faults
            \/ outcome \in AppendFaults /\ faults < MaxFaults /\ faults' = faults + 1
         /\ journal' = journal \o (CASE outcome \in {"ok", "phantom"} -> records
                                     [] outcome = "lost" -> <<>>
                                     [] outcome = "torn" -> <<TornRec>>)
         /\ unsynced' = (unsynced \/ outcome = "phantom")

\* compact(): what it leaves in a file that held `old`, given the state it
\* snapshots.
CompactTo(st, old, outcome) ==
    IF ~file_open
    THEN outcome = "lost" /\ UNCHANGED <<journal, file_open, faults>>
    ELSE /\ \/ outcome = "ok" /\ faults' = faults
            \/ outcome \in CompactFaults /\ faults < MaxFaults /\ faults' = faults + 1
         /\ \/ outcome \in {"ok", "closed"} /\ journal' = Snapshot(st)
            \/ outcome \in {"lost", "closed"} /\ journal' = old
         /\ file_open' = (outcome # "closed")

Outcomes == {"ok", "lost", "phantom", "torn", "closed"}

DropStaleOrder(st) ==
    [st EXCEPT !.order = Retain(@, DOMAIN st.entries)]

-----------------------------------------------------------------------------
(* The operations of FileCommandInbox. *)

FileInit ==
    /\ inbox = NewInbox /\ journal = <<>> /\ file_open = TRUE /\ mode = "up"
    /\ now = Retention /\ faults = 0 /\ restarts = 0
    /\ settled_at = [k \in Keys |-> NoTime]
    /\ handed = [k \in Keys |-> 0]
    /\ unsynced = FALSE

\* Checked, journalled, and only then inserted.
FileRecord(c, outcome) ==
    /\ mode = "up"
    /\ CheckRecordable(inbox, c) = "ok"
    /\ AppendBatch(<<CommandRec(c)>>, outcome)
    /\ inbox' = IF outcome = "ok" THEN InsertRecorded(inbox, c) ELSE inbox
    /\ UNCHANGED <<file_open, mode, now, restarts, settled_at, handed>>

\* Mutant of DeliveredRecords: the attempt before this one is journalled.
DeliveredRecordsOldCount(agent, limit) ==
    LET ks == Retain(inbox.order, Deliverable(inbox, agent, limit, now))
    IN  [i \in DOMAIN ks |-> DeliveredRec(ks[i], inbox.entries[ks[i]].attempts, now)]

\* One Delivered record per claimed command, durable before any is returned;
\* then memory; then a compaction when the thresholds say so, its error ignored.
DeliveredRecords(agent, limit) ==
    LET ks == Retain(inbox.order, Deliverable(inbox, agent, limit, now))
    IN  [i \in DOMAIN ks |-> DeliveredRec(ks[i], inbox.entries[ks[i]].attempts + 1, now)]

\* A claim that is not answered (the append failed): nothing changes in memory.
ClaimFails(agent, limit, outcome) ==
    /\ mode = "up"
    /\ Deliverable(inbox, agent, limit, now) # {}
    /\ outcome # "ok"
    /\ AppendBatch(DeliveredRecords(agent, limit), outcome)
    /\ UNCHANGED <<inbox, file_open, mode, now, restarts, settled_at, handed>>

FileClaim(agent, limit) ==
    LET taken == Deliverable(inbox, agent, limit, now)
    IN  /\ mode = "up"
        /\ taken # {}
        /\ AppendBatch(DeliveredRecords(agent, limit), "ok")
        /\ inbox' = MarkDelivered(inbox, taken, now)
        /\ handed' = [k \in Keys |-> IF k \in taken THEN handed[k] + 1 ELSE handed[k]]
        /\ settled_at' = [k \in Keys |->
                            IF k \in taken
                               /\ inbox.entries[k].attempts + 1 = MaxAttempts
                            THEN now ELSE settled_at[k]]
        /\ UNCHANGED <<file_open, mode, now, restarts>>

\* The same claim when the journal is long enough to be compacted: the Delivered
\* records are in the snapshot. (With the snapshot lost it is Claim.)
ClaimAndCompact(agent, limit, outcome) ==
    LET taken == Deliverable(inbox, agent, limit, now)
        after == MarkDelivered(inbox, taken, now)
    IN  /\ mode = "up"
        /\ taken # {}
        /\ file_open
        /\ outcome # "lost"
        /\ CompactTo(after, journal \o DeliveredRecords(agent, limit), outcome)
        /\ inbox' = IF outcome = "ok" THEN DropStaleOrder(after) ELSE after
        /\ handed' = [k \in Keys |-> IF k \in taken THEN handed[k] + 1 ELSE handed[k]]
        /\ settled_at' = [k \in Keys |->
                            IF k \in taken
                               /\ inbox.entries[k].attempts + 1 = MaxAttempts
                            THEN now ELSE settled_at[k]]
        /\ UNCHANGED <<mode, now, restarts, unsynced>>

\* Memory first, then the journal; the flag is taken back if the append fails.
FileAcknowledge(agent, key, attempt, outcome) ==
    /\ mode = "up"
    /\ AckResult(inbox, agent, key, attempt) = "acknowledged"
    /\ AppendBatch(<<AcknowledgedRec(key)>>, outcome)
    /\ inbox' = SetAcknowledged(inbox, key, outcome = "ok")
    /\ settled_at' = IF outcome = "ok" THEN [settled_at EXCEPT ![key] = now]
                                       ELSE settled_at
    /\ UNCHANGED <<file_open, mode, now, restarts, handed>>

FileCancel(key, outcome) ==
    /\ mode = "up"
    /\ CancelResult(inbox, key) = "cancelled"
    /\ AppendBatch(<<CancelledRec(key, now)>>, outcome)
    /\ inbox' = IF outcome = "ok" THEN SetCancelled(inbox, key, TRUE, now)
                ELSE SetCancelled(inbox, key, FALSE, NoTime)
    /\ settled_at' = IF outcome = "ok" THEN [settled_at EXCEPT ![key] = now]
                                       ELSE settled_at
    /\ UNCHANGED <<file_open, mode, now, restarts, handed>>

\* The sweep retires and expires in memory, then compacts; a compaction that
\* reports an error restores the state it had before.
FileSweep(outcome) ==
    /\ mode = "up"
    /\ MaintainChanges(inbox, now)
    /\ CompactTo(Maintain(inbox, now), journal, outcome)
    /\ inbox' = IF outcome = "ok" THEN Maintain(inbox, now) ELSE inbox
    /\ handed' = [k \in Keys |->
                    IF outcome = "ok" /\ k \in Expired(inbox, now) THEN 0 ELSE handed[k]]
    /\ UNCHANGED <<mode, now, restarts, settled_at, unsynced>>

\* The process dies: memory is gone, the file stays as it is ...
Die ==
    /\ mode = "up"
    /\ restarts < MaxRestarts
    /\ mode' = "down"
    /\ restarts' = restarts + 1
    /\ inbox' = NewInbox
    /\ file_open' = FALSE
    /\ UNCHANGED <<now, faults, settled_at, handed, unsynced>>

Crash == Die /\ UNCHANGED journal

\* ... or with what an operation was just appending: some whole records of it,
\* and perhaps a cut-off one. Nobody was answered.
PendingAppends ==
    {<<CommandRec(c)>> : c \in {c \in Command : CheckRecordable(inbox, c) = "ok"}}
    \cup {DeliveredRecords(a, n) : a \in Agents, n \in PollLimits}
    \cup {<<AcknowledgedRec(k)>> :
             k \in {k \in DOMAIN inbox.entries :
                      \E a \in Agents, n \in 1..MaxAttempts :
                         AckResult(inbox, a, k, n) = "acknowledged"}}
    \cup {<<CancelledRec(k, now)>> :
             k \in {k \in Keys : CancelResult(inbox, k) = "cancelled"}}

CrashInAppend ==
    /\ file_open
    /\ Die
    /\ \E recs \in PendingAppends :
         \E n \in DOMAIN recs, cut \in BOOLEAN :
            journal' = journal \o (IF cut THEN Append(SubSeq(recs, 1, n - 1), TornRec)
                                          ELSE SubSeq(recs, 1, n))

\* open() and load(): back up, or refused for good.
Restart ==
    /\ mode = "down"
    /\ LET replayed == Load(journal)
       IN  IF replayed.refused
           THEN mode' = "refused" /\ UNCHANGED <<inbox, file_open, handed>>
           ELSE /\ mode' = "up"
                /\ inbox' = replayed.st
                /\ file_open' = TRUE
                /\ handed' = [k \in Keys |->
                                IF k \in Tracked(inbox') THEN handed[k] ELSE 0]
    /\ UNCHANGED <<journal, now, faults, restarts, settled_at, unsynced>>

FileTick ==
    /\ now < MaxNow
    /\ now' = now + 1
    /\ UNCHANGED <<inbox, journal, file_open, mode, faults, restarts, settled_at,
                   handed, unsynced>>

FileNext ==
    \/ \E c \in Command, o \in Outcomes : FileRecord(c, o)
    \/ \E a \in Agents, n \in PollLimits :
          \/ FileClaim(a, n)
          \/ \E o \in Outcomes : ClaimFails(a, n, o) \/ ClaimAndCompact(a, n, o)
    \/ \E a \in Agents, k \in Keys, n \in 0..MaxAttempts, o \in Outcomes :
          FileAcknowledge(a, k, n, o)
    \/ \E k \in Keys, o \in Outcomes : FileCancel(k, o)
    \/ \E o \in Outcomes : FileSweep(o)
    \/ Crash
    \/ CrashInAppend
    \/ Restart
    \/ FileTick

FileSpec == FileInit /\ [][FileNext]_fileVars

-----------------------------------------------------------------------------
(* Properties. *)

Torn == \E i \in DOMAIN journal : journal[i].type = "Torn"

\* A restart at any moment rebuilds at least what memory would answer: every
\* command, every attempt, every acknowledgement and cancellation, and every
\* tombstone. The journal may be ahead (a phantom), it is never behind
\* ("Journal first, then mutate memory", file.rs).
DiskAheadOfMemory ==
    (mode = "up" /\ file_open /\ ~Torn) =>
        LET replayed == Load(journal)
            disk == replayed.st
        IN  /\ ~replayed.refused
            /\ DOMAIN inbox.retired \subseteq DOMAIN disk.retired
            /\ \A k \in DOMAIN inbox.entries :
                 /\ k \in DOMAIN disk.entries
                 /\ LET m == inbox.entries[k]
                        d == disk.entries[k]
                    IN  /\ d.attempts >= m.attempts
                        /\ d.last_delivered >= m.last_delivered
                        /\ m.acknowledged => d.acknowledged
                        /\ m.cancelled => d.cancelled

\* "Durable before any command is handed back": every response that carried a
\* command is accounted for by an attempt in the journal, whatever failed in
\* between and also while the process is down, so the ceiling of attempts bounds
\* the responses across restarts; and while the journal is being written, what
\* was handed out is in it, live or as a tombstone.
HandedOutIsDurable ==
    ~Torn =>
        LET disk == Load(journal).st
        IN  \A k \in Keys :
              /\ handed[k] <= MaxAttempts
              /\ k \in DOMAIN disk.entries => handed[k] <= disk.entries[k].attempts
              /\ handed[k] > 0 /\ file_open => k \in Tracked(disk)

\* What a caller was told is settled (acknowledged, cancelled, attempts spent)
\* is not handed out again inside the retention window, across failed appends,
\* failed compactions, crashes and replays. (A phantom is the exception: it can
\* leave a command both cancelled and delivered, and such a command is swept by
\* its cancellation time even when it was acknowledged later.)
SettledStaysSettled ==
    [][\A k \in Keys :
         handed'[k] > handed[k] /\ ~unsynced =>
            settled_at[k] = NoTime \/ settled_at[k] + Retention <= now]_fileVars

\* A journal without a cut-off record can be replayed by the code that wrote it:
\* load() never meets a command it has to refuse (state.rs, check_recordable:
\* "so replay never has a reason to see one").
JournalReplayable == mode = "refused" => Torn
=============================================================================
