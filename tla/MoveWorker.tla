----------------------------- MODULE MoveWorker -----------------------------
(***************************************************************************)
(* app/worker.py with app/transfer_executor.py: the poll thread and the    *)
(* API threads run cycles; a cycle snapshots the rules and the torrent     *)
(* list and runs one task per torrent, in its own thread or in a pool of   *)
(* its own.  Tasks of all cycles share the registry of active transfers    *)
(* and the locks of the sequential rules.  What a transfer does to files   *)
(* is reduced to source and delivered; Transfer.tla gives the detail.      *)
(* Torrents have names of their own here: the target of one is looked for  *)
(* by its name, so that of two with one name the second replaces, or       *)
(* renames itself beside, the copy of the first, which Transfer has.       *)
(***************************************************************************)
EXTENDS Naturals, FiniteSets, Sequences

CONSTANTS
    Torrents,       \* torrents of the Transmission client
    SingleFile,     \* those whose payload is one file, not a directory
    Rules,          \* ids of the LabelRule rows
    Poll,           \* the "move-worker" thread of _run_loop
    Callers,        \* API threads in run_once and run_torrent_now
    Labels,         \* [Torrents -> Seq(Rules)]: each label named by its rule
    RuleRows,       \* the contents a LabelRule row may be given
    Configured,     \* AppConfig.max_parallel_transfers
    MaxRestarts,    \* bound on process restarts
    MaxEdits,       \* bound on changes of rules and readiness
    LoopReadFails,  \* whether the config read of _run_loop may raise
    NoRule, All, Free

Cycles == {Poll} \cup Callers

(* label_to_rule, destination resolved: enabled stands for an enabled row  *)
(* whose destination_id names an existing destination.                     *)
RowType == [enabled : BOOLEAN, schedule : {"auto", "interval", "manual"},
            sequential : BOOLEAN, mode : {"move", "copy"},
            policy : {"overwrite", "rename", "skip"},
            remove : BOOLEAN, trash : BOOLEAN]

ASSUME RowsAssumption == RuleRows \subseteq RowType
ASSUME SingleFileAssumption == SingleFile \subseteq Torrents
ASSUME LabelsAssumption == Labels \in [Torrents -> Seq(Rules)]
ASSUME NamesAssumption == NoRule \notin Rules /\ All \notin Torrents
                          /\ Free \notin Cycles \X Torrents
ASSUME BoundsAssumption == Configured \in Nat /\ LoopReadFails \in BOOLEAN
                           /\ MaxRestarts \in Nat /\ MaxEdits \in Nat

VARIABLES
    rules,      \* the LabelRule table
    listed,     \* torrents in the Transmission client
    ready,      \* torrents Transmission reports downloaded and at rest
    source,     \* torrents whose whole payload is at the watch source
    remains,    \* torrents of which only a part is left at the source
    delivered,  \* torrents with a complete copy at their destination
    cycle,      \* per thread: the locals of _run_cycle
    task,       \* per thread and torrent: where _process_torrent is
    active,     \* _active_transfers: the keys registered
    lock,       \* _rule_locks: the task holding each rule's lock
    restarts,   \* process restarts so far
    edits       \* changes of rules and readiness so far

world == <<rules, listed, ready>>
data == <<source, remains, delivered>>
memory == <<cycle, task, active, lock>>
bounds == <<restarts, edits>>
vars == <<world, data, memory, bounds>>

-----------------------------------------------------------------------------
(* The pool size: max(1, min(configured, MAX_PARALLEL_TRANSFERS)).         *)
MaxParallel == IF Configured = 0 THEN 1
               ELSE IF Configured > 8 THEN 8 ELSE Configured

Width(c) == IF cycle[c].target = All THEN MaxParallel ELSE 1

(* The dict label_to_rule: only the rows a torrent can be routed by.       *)
LabelToRule == [r \in {s \in Rules : rules[s].enabled} |-> rules[r]]

RuleDicts == UNION {[S -> RuleRows] : S \in SUBSET Rules}

(* The rule of the first label of t that is in the dict ltr.               *)
MatchedRule(t, ltr) ==
    LET hits == {i \in DOMAIN Labels[t] : Labels[t][i] \in DOMAIN ltr}
    IN  IF hits = {} THEN NoRule
        ELSE Labels[t][CHOOSE i \in hits : \A j \in hits : i <= j]

RuleOf(c, t) == MatchedRule(t, cycle[c].ltr)
Row(c, t) == cycle[c].ltr[RuleOf(c, t)]

(* The task runs under the lock of its rule, as its snapshot has the rule. *)
NeedsLock(c, t) == RuleOf(c, t) # NoRule /\ Row(c, t).sequential

(* Wrong: a torrent passes whether or not its rule is due.                 *)
WantedUndue(c, t) == t \in cycle[c].ready /\ RuleOf(c, t) # NoRule

(* process_torrent goes past its early returns.                            *)
Wanted(c, t) ==
    /\ t \in cycle[c].ready
    /\ RuleOf(c, t) \in cycle[c].eligible

TaskPC == {"none", "queued", "registered", "transferring", "copied",
           "removing", "leaving", "popping", "done"}

Registered == {"registered", "transferring", "copied", "removing",
               "leaving", "popping"}
Locked == {"transferring", "copied", "removing", "leaving"}

(* Torrents whose task of c occupies the cycle's thread or a pool thread.  *)
Running(c) == {t \in Torrents : task[c][t] \in Registered}

IdleCycle == [pc |-> "idle", target |-> All, ltr |-> << >>,
              eligible |-> {}, ready |-> {}, aborted |-> FALSE]

NoTasks == [t \in Torrents |-> "none"]

MemoryInit ==
    /\ cycle = [c \in Cycles |-> IdleCycle]
    /\ task = [c \in Cycles |-> NoTasks]
    /\ active = {}
    /\ lock = [r \in Rules |-> Free]

Init ==
    /\ rules \in [Rules -> RuleRows]
    /\ listed = Torrents
    /\ ready \in SUBSET Torrents
    /\ source = Torrents
    /\ remains = {}
    /\ delivered = {}
    /\ MemoryInit
    /\ restarts = 0
    /\ edits = 0

-----------------------------------------------------------------------------
(* Cycles.                                                                 *)

(* Read the rules.  The cycle goes on only with a non-empty dict; run on a *)
(* schedule, only with a rule that is due.                                 *)
Begin(c, target, eligible) ==
    /\ cycle[c].pc = "idle"
    /\ eligible # {}
    /\ cycle' = [cycle EXCEPT ![c] =
                    [IdleCycle EXCEPT !.pc = "fetch", !.target = target,
                                      !.ltr = LabelToRule,
                                      !.eligible = eligible]]
    /\ UNCHANGED <<world, data, task, active, lock, bounds>>

Scheduled(s) == {r \in DOMAIN LabelToRule : LabelToRule[r].schedule = s}

(* One turn of _run_loop.  Which interval rules are due is a matter of     *)
(* time, kept out of this module: any of them may be.                      *)
PollBegin ==
    \E due \in SUBSET Scheduled("interval") :
        Begin(Poll, All, Scheduled("auto") \cup due)

RunOnce(c) == Begin(c, All, DOMAIN LabelToRule)

RunTorrentNow(c, t) == Begin(c, t, DOMAIN LabelToRule)

(* torrent-get answers: one task per torrent of the list.                  *)
FetchTorrents(c) ==
    LET found == IF cycle[c].target = All THEN listed
                 ELSE listed \cap {cycle[c].target}
    IN  /\ cycle[c].pc = "fetch"
        /\ cycle[c].target = All \/ found # {}
        /\ cycle' = [cycle EXCEPT ![c].pc = "run",
                                  ![c].ready = ready \cap found]
        /\ task' = [task EXCEPT ![c] =
                        [t \in Torrents |->
                            IF t \in found THEN "queued" ELSE "none"]]
        /\ UNCHANGED <<world, data, active, lock, bounds>>

(* The request fails, or the wanted torrent is not in the list.            *)
FetchFails(c) ==
    /\ cycle[c].pc = "fetch"
    /\ cycle' = [cycle EXCEPT ![c] = IdleCycle]
    /\ UNCHANGED <<world, data, task, active, lock, bounds>>

(* Every task is done or, after an exception in a cycle without a pool,    *)
(* the remaining ones are given up.                                        *)
EndCycle(c) ==
    /\ cycle[c].pc = "run"
    /\ Running(c) = {}
    /\ cycle[c].aborted \/ \A t \in Torrents : task[c][t] # "queued"
    /\ cycle' = [cycle EXCEPT ![c] = IdleCycle]
    /\ task' = [task EXCEPT ![c] = NoTasks]
    /\ UNCHANGED <<world, data, active, lock, bounds>>

-----------------------------------------------------------------------------
(* Tasks: _process_torrent of cycle c for torrent t.                       *)

Step(c, t, from, to) ==
    /\ task[c][t] = from
    /\ task' = [task EXCEPT ![c][t] = to]

(* A thread is free for the task.                                          *)
MayStart(c) ==
    /\ ~cycle[c].aborted
    /\ Cardinality(Running(c)) < Width(c)

(* Every outcome but "processed" is logged, and writing the log may fail.  *)
(* The exception leaves _process_torrent: it ends the cycle if the cycle   *)
(* runs its tasks itself, and stays in the task's future in a pool.        *)
Logged(c) ==
    \/ UNCHANGED cycle
    \/ cycle' = [cycle EXCEPT ![c].aborted = (Width(c) = 1)]

(* Wrong: the key is written without looking whether it is there.          *)
RegisterUnchecked(c, t) ==
    /\ MayStart(c)
    /\ Step(c, t, "queued", "registered")
    /\ active' = active \cup {t}
    /\ UNCHANGED <<world, data, cycle, lock, bounds>>

(* Under _state_lock the key, the torrent's id with its name, is found     *)
(* free and registered.                                                    *)
Register(c, t) ==
    /\ MayStart(c)
    /\ t \notin active
    /\ Step(c, t, "queued", "registered")
    /\ active' = active \cup {t}
    /\ UNCHANGED <<world, data, cycle, lock, bounds>>

(* Wrong: the duplicate, too, drops the key on its way out.                *)
SkipDuplicatePopping(c, t) ==
    /\ MayStart(c)
    /\ t \in active
    /\ Step(c, t, "queued", "done")
    /\ active' = active \ {t}
    /\ UNCHANGED <<world, data, cycle, lock, bounds>>

(* Under _state_lock the key is found taken: skip the duplicate.           *)
SkipDuplicate(c, t) ==
    /\ MayStart(c)
    /\ t \in active
    /\ Step(c, t, "queued", "done")
    /\ UNCHANGED <<world, data, cycle, active, lock, bounds>>

(* Wrong: each task takes a lock of its own.                               *)
TakeOwnLock(c, t) ==
    IF NeedsLock(c, t)
    THEN lock' = [lock EXCEPT ![RuleOf(c, t)] = <<c, t>>]
    ELSE UNCHANGED lock

(* Take the rule's lock, if the rule is sequential.                        *)
TakeLock(c, t) ==
    IF NeedsLock(c, t)
    THEN /\ lock[RuleOf(c, t)] = Free
         /\ lock' = [lock EXCEPT ![RuleOf(c, t)] = <<c, t>>]
    ELSE UNCHANGED lock

(* process_torrent goes on to the transfer ...                             *)
Enter(c, t) ==
    /\ Wanted(c, t)
    /\ TakeLock(c, t)
    /\ Step(c, t, "registered", "transferring")
    /\ UNCHANGED <<world, data, cycle, active, bounds>>

(* ... or returns early; the API's cycles log the reason.                  *)
NotWanted(c, t) ==
    /\ ~Wanted(c, t)
    /\ TakeLock(c, t)
    /\ Step(c, t, "registered", "leaving")
    /\ IF c = Poll THEN UNCHANGED cycle ELSE Logged(c)
    /\ UNCHANGED <<world, data, active, bounds>>

(* Wrong: the copy is taken away before the source is looked for.          *)
ReplaceUnseen(c, t) ==
    /\ task[c][t] = "transferring"
    /\ Row(c, t).policy = "overwrite"
    /\ t \in delivered
    /\ delivered' = delivered \ {t}
    /\ UNCHANGED <<world, source, remains, memory, bounds>>

(* Policy overwrite takes an existing copy away before writing: by the     *)
(* name of the torrent, which is its own here.                             *)
ReplaceExisting(c, t) ==
    /\ task[c][t] = "transferring"
    /\ Row(c, t).policy = "overwrite"
    /\ t \in (source \cup remains) \cap delivered
    /\ delivered' = delivered \ {t}
    /\ UNCHANGED <<world, source, remains, memory, bounds>>

(* What there is at the source has been copied: the payload, or less.      *)
Copied(t) ==
    /\ t \in source \cup remains
    /\ delivered' = delivered \cup ({t} \cap source)

(* Deleting a directory goes file by file.                                 *)
DeletePart(t) ==
    /\ source' = source \ ({t} \ SingleFile)
    /\ remains' = remains \cup ({t} \ SingleFile)

(* The last method has made its copy.                                      *)
CopyDone(c, t) ==
    /\ Step(c, t, "transferring", "copied")
    /\ Copied(t)
    /\ UNCHANGED <<world, source, remains, cycle, active, lock, bounds>>

(* A shell method has made its copy, but deleting the source of the move   *)
(* fails: the next method begins all over.                                 *)
FallBack(c, t) ==
    /\ task[c][t] = "transferring"
    /\ Row(c, t).mode = "move"
    /\ Copied(t)
    /\ UNCHANGED <<source, remains>> \/ DeletePart(t)
    /\ UNCHANGED <<world, memory, bounds>>

(* A move deletes its source ...                                           *)
EraseSource(c, t) ==
    IF Row(c, t).mode = "move"
    THEN source' = source \ {t} /\ remains' = remains \ {t}
    ELSE UNCHANGED <<source, remains>>

(* ... and may be seen, or end, half-way.                                  *)
BeginErase(c, t) ==
    /\ task[c][t] = "copied"
    /\ Row(c, t).mode = "move"
    /\ t \in source
    /\ DeletePart(t)
    /\ UNCHANGED <<world, delivered, memory, bounds>>

(* Wrong: a move that failed deletes its source all the same.              *)
TransferFailsDeleting(c, t) ==
    /\ Step(c, t, "transferring", "leaving")
    /\ EraseSource(c, t)
    /\ Logged(c)
    /\ UNCHANGED <<world, delivered, active, lock, bounds>>

(* One of the exceptions process_torrent turns into "not processed".       *)
TransferFails(c, t) ==
    /\ Step(c, t, "transferring", "leaving")
    /\ Logged(c)
    /\ UNCHANGED <<world, data, active, lock, bounds>>

(* The transfer is logged as moved and the result is "processed".          *)
Processed(c, t) ==
    /\ Step(c, t, "copied",
            IF Row(c, t).remove THEN "removing" ELSE "leaving")
    /\ EraseSource(c, t)
    /\ UNCHANGED <<world, delivered, cycle, active, lock, bounds>>

(* Deleting the source of a move fails: not processed, the copy stays.     *)
DeleteSourceFails(c, t) ==
    /\ Step(c, t, "copied", "leaving")
    /\ Row(c, t).mode = "move"
    /\ Logged(c)
    /\ UNCHANGED <<world, data, active, lock, bounds>>

(* Writing the log entry of a finished transfer fails; the error entry     *)
(* that follows is written, or fails too and the exception propagates.     *)
LogFails(c, t) ==
    /\ Step(c, t, "copied", "leaving")
    /\ EraseSource(c, t)
    /\ Logged(c)
    /\ UNCHANGED <<world, delivered, active, lock, bounds>>

(* torrent-remove succeeds, with delete-local-data if the rule says so.    *)
RemoveTorrent(c, t) ==
    /\ Step(c, t, "removing", "leaving")
    /\ listed' = listed \ {t}
    /\ IF Row(c, t).trash
       THEN source' = source \ {t} /\ remains' = remains \ {t}
       ELSE UNCHANGED <<source, remains>>
    /\ UNCHANGED <<rules, ready, delivered, cycle, active, lock, bounds>>

(* torrent-remove fails and is not tried again; its log entry may fail.    *)
RemoveFails(c, t) ==
    /\ Step(c, t, "removing", "leaving")
    /\ Logged(c)
    /\ UNCHANGED <<world, data, active, lock, bounds>>

(* Wrong: an early return keeps the lock.                                  *)
ReleaseIfWanted(c, t) ==
    /\ Step(c, t, "leaving", "popping")
    /\ lock' = IF NeedsLock(c, t) /\ Wanted(c, t)
               THEN [lock EXCEPT ![RuleOf(c, t)] = Free] ELSE lock
    /\ UNCHANGED <<world, data, cycle, active, bounds>>

(* Leaving the with block releases the rule's lock ...                     *)
ReleaseLock(c, t) ==
    /\ Step(c, t, "leaving", "popping")
    /\ lock' = IF NeedsLock(c, t)
               THEN [lock EXCEPT ![RuleOf(c, t)] = Free] ELSE lock
    /\ UNCHANGED <<world, data, cycle, active, bounds>>

(* Wrong: the key is dropped only after a transfer that succeeded.         *)
PopIfDelivered(c, t) ==
    /\ Step(c, t, "popping", "done")
    /\ active' = IF t \in delivered THEN active \ {t} ELSE active
    /\ UNCHANGED <<world, data, cycle, lock, bounds>>

(* ... and then the finally clause drops the key.                          *)
PopActive(c, t) ==
    /\ Step(c, t, "popping", "done")
    /\ active' = active \ {t}
    /\ UNCHANGED <<world, data, cycle, lock, bounds>>

-----------------------------------------------------------------------------
(* The surroundings.                                                       *)

Edit == edits < MaxEdits /\ edits' = edits + 1

(* A rule is saved through the API, at any moment.                         *)
UpdateRule(r, row) ==
    /\ Edit
    /\ rules' = [rules EXCEPT ![r] = row]
    /\ UNCHANGED <<listed, ready, data, memory, restarts>>

(* Transmission finishes a torrent, or starts to verify it again.          *)
ChangeReady(t) ==
    /\ t \in listed
    /\ ready' = IF t \in ready THEN ready \ {t} ELSE ready \cup {t}
    /\ Edit
    /\ UNCHANGED <<rules, listed, data, memory, restarts>>

(* The config read of _run_loop is outside every try: the thread dies.     *)
PollDies ==
    /\ LoopReadFails
    /\ cycle[Poll].pc = "idle"
    /\ cycle' = [cycle EXCEPT ![Poll].pc = "dead"]
    /\ UNCHANGED <<world, data, task, active, lock, bounds>>

(* Wrong: the registry outlives the process.                               *)
RestartKeepingKeys ==
    /\ restarts < MaxRestarts
    /\ restarts' = restarts + 1
    /\ cycle' = [c \in Cycles |-> IdleCycle]
    /\ task' = [c \in Cycles |-> NoTasks]
    /\ lock' = [r \in Rules |-> Free]
    /\ UNCHANGED <<world, data, active, edits>>

(* The process ends, at any point of a transfer, and is started again.     *)
Restart ==
    /\ restarts < MaxRestarts
    /\ restarts' = restarts + 1
    /\ cycle' = [c \in Cycles |-> IdleCycle]
    /\ task' = [c \in Cycles |-> NoTasks]
    /\ active' = {}
    /\ lock' = [r \in Rules |-> Free]
    /\ UNCHANGED <<world, data, edits>>

-----------------------------------------------------------------------------
CycleStep(c) ==
    \/ c = Poll /\ PollBegin
    \/ c # Poll /\ (RunOnce(c) \/ \E t \in Torrents : RunTorrentNow(c, t))
    \/ FetchTorrents(c)
    \/ FetchFails(c)
    \/ EndCycle(c)

TaskStep(c, t) ==
    \/ Register(c, t) \/ SkipDuplicate(c, t)
    \/ Enter(c, t) \/ NotWanted(c, t)
    \/ ReplaceExisting(c, t) \/ CopyDone(c, t) \/ FallBack(c, t)
    \/ TransferFails(c, t) \/ BeginErase(c, t) \/ DeleteSourceFails(c, t)
    \/ Processed(c, t) \/ LogFails(c, t)
    \/ RemoveTorrent(c, t) \/ RemoveFails(c, t)
    \/ ReleaseLock(c, t) \/ PopActive(c, t)

Surroundings ==
    \/ \E r \in Rules, row \in RuleRows : UpdateRule(r, row)
    \/ \E t \in Torrents : ChangeReady(t)
    \/ PollDies
    \/ Restart

Next ==
    \/ \E c \in Cycles : CycleStep(c)
    \/ \E c \in Cycles, t \in Torrents : TaskStep(c, t)
    \/ Surroundings

Spec == Init /\ [][Next]_vars

(* The task is in its transfer, where it may hang: copying and deleting,   *)
(* by scp, rsync, SFTP or shell, have no time limit.                       *)
Transferring(c, t) == task[c][t] \in {"transferring", "copied"}

(* A thread that can go on goes on, except in a transfer, which may go on  *)
(* or not.  FetchTorrents, and what takes a lock, are strongly fair: the   *)
(* poll waits a second or more between cycles and tries again for ever, so *)
(* an RPC that keeps recovering, with its time limit, is caught up, and a  *)
(* lock that keeps being released is had.                                  *)
Fairness ==
    /\ WF_vars(PollBegin)
    /\ \A c \in Cycles :
        /\ SF_vars(FetchTorrents(c))
        /\ WF_vars(FetchFails(c))
        /\ WF_vars(EndCycle(c))
        /\ \A t \in Torrents :
            /\ WF_vars(~Transferring(c, t) /\ TaskStep(c, t))
            /\ SF_vars(Enter(c, t) \/ NotWanted(c, t))

FairSpec == Spec /\ Fairness

-----------------------------------------------------------------------------
(* Properties.                                                             *)

(* The values the variables may have.                                      *)
CycleType == [pc : {"idle", "fetch", "run", "dead"},
              target : Torrents \cup {All}, ltr : RuleDicts,
              eligible : SUBSET Rules, ready : SUBSET Torrents,
              aborted : BOOLEAN]

TypeOK ==
    /\ rules \in [Rules -> RuleRows]
    /\ listed \subseteq Torrents
    /\ ready \subseteq Torrents
    /\ source \subseteq Torrents
    /\ remains \subseteq Torrents \ SingleFile
    /\ delivered \subseteq Torrents
    /\ cycle \in [Cycles -> CycleType]
    /\ task \in [Cycles -> [Torrents -> TaskPC]]
    /\ active \subseteq Torrents
    /\ lock \in [Rules -> {Free} \cup (Cycles \X Torrents)]
    /\ restarts \in 0 .. MaxRestarts
    /\ edits \in 0 .. MaxEdits

Owns(c, t) == task[c][t] \in Registered
HoldsLock(c, t) == task[c][t] \in Locked /\ NeedsLock(c, t)

(* No torrent is transferred by two threads at once, whatever cycles of    *)
(* the poll and of the API overlap: the registry under _state_lock.        *)
SingleTransfer ==
    \A c, d \in Cycles, t \in Torrents : Owns(c, t) /\ Owns(d, t) => c = d

(* Two transfers under the same rule never run at once if both cycles read *)
(* the rule as sequential: the lock of _get_rule_lock.                     *)
SequentialRule ==
    \A c, d \in Cycles, t, u \in Torrents :
        /\ HoldsLock(c, t) /\ HoldsLock(d, u)
        /\ RuleOf(c, t) = RuleOf(d, u)
        => <<c, t>> = <<d, u>>

(* _active_transfers has exactly the torrents some thread is at work on: a *)
(* key left behind would keep its torrent from ever being moved again.     *)
RegistryExact ==
    active = {t \in Torrents : \E c \in Cycles : Owns(c, t)}

(* A rule's lock is held by a live task that is inside the with block: one *)
(* left behind would block every later task of the rule.                   *)
LocksHeld ==
    \A r \in Rules : lock[r] # Free =>
        \E c \in Cycles, t \in Torrents :
            lock[r] = <<c, t>> /\ HoldsLock(c, t) /\ RuleOf(c, t) = r

(* Deleting sources and trashing local data never loses the only copy of a *)
(* single file, in spite of stale torrent lists and rules, and restarts.   *)
PayloadSurvives == SingleFile \subseteq source \cup delivered

(* A single-file torrent is removed from the client only while its copy is *)
(* complete, though other cycles may be replacing copies meanwhile, but    *)
(* not another torrent of its name, which there is none of here.           *)
RemovalFollowsDelivery ==
    [][(listed \ listed') \cap SingleFile \subseteq delivered]_vars

(* The poll transfers only what its snapshot of the rules schedules: never *)
(* by a manual rule, though API threads may start one at the same time.    *)
ManualByHandOnly ==
    \A t \in Torrents :
        task[Poll][t] \in {"transferring", "copied", "removing"} =>
            Row(Poll, t).schedule # "manual"

(* On single files, the file steps are those Payload allows.               *)
Abstract == INSTANCE Payload
            WITH Torrents <- SingleFile, source <- source \cap SingleFile,
                 delivered <- delivered \cap SingleFile
ImplementsPayload == Abstract!Spec

(* A task of c waits for the lock of a sequential rule that d's task has.  *)
WaitsFor(c, d, t) ==
    \E u \in Torrents :
        /\ task[c][u] = "registered" /\ NeedsLock(c, u)
        /\ lock[RuleOf(c, u)] = <<d, t>>

(* No cycle runs for ever, unless a transfer hangs: one of its own, or the *)
(* one that a task of its waits for.  Nothing else keeps a cycle: no       *)
(* exception, no lock or key left behind, no duplicate of a torrent whose  *)
(* transfer hangs elsewhere, no restart.                                   *)
CyclesEnd ==
    \A c \in Cycles : <>[](cycle[c].pc = "run") =>
        \E d \in Cycles, t \in Torrents :
            <>[](Transferring(d, t) /\ (d = c \/ WaitsFor(c, d, t)))

(* A ready torrent whose rule is and stays automatic, with the policy that *)
(* no leftover stops, is tried until it is delivered: no try that fails    *)
(* and no other thread's keeps it from the next.  Two things do.  One is a *)
(* transfer that hangs: its own, one of the poll's cycle, or one that has  *)
(* the lock somebody waits for.  The other is a poll without a pool whose  *)
(* cycles are all given up before its turn, by exceptions of torrents      *)
(* before it whose failures cannot even be logged.                         *)
AutoRouted(t) ==
    /\ t \in listed \cap ready
    /\ MatchedRule(t, LabelToRule) \in Scheduled("auto")
    /\ rules[MatchedRule(t, LabelToRule)].policy = "overwrite"
KeptBy(t, c, u) ==
    /\ Transferring(c, u)
    /\ u = t \/ c = Poll \/ \E d \in Cycles : WaitsFor(d, c, u)
AutoDelivers ==
    \A t \in Torrents :
        <>[]AutoRouted(t) =>
            \/ <>(t \in delivered)
            \/ \E c \in Cycles : []<>(task[c][t] = "transferring")
            \/ \E c \in Cycles, u \in Torrents : <>[]KeptBy(t, c, u)
            \/ []<>cycle[Poll].aborted

-----------------------------------------------------------------------------
(* The inductive invariant of the proofs.                                  *)

(* Only a cycle that runs has tasks, so a cycle's snapshot never changes   *)
(* under its tasks.                                                        *)
TasksOfRun == \A c \in Cycles : cycle[c].pc # "run" => task[c] = NoTasks

(* Only wanted torrents get to the transfer.                               *)
TransferWanted ==
    \A c \in Cycles, t \in Torrents :
        task[c][t] \in {"transferring", "copied", "removing"} => Wanted(c, t)

(* The poll's snapshot has no manual rule among the eligible ones.         *)
PollEligible ==
    \A r \in cycle[Poll].eligible : cycle[Poll].ltr[r].schedule # "manual"

(* The task under a sequential rule's lock is the one the lock names.      *)
LockNamesHolder ==
    \A c \in Cycles, t \in Torrents :
        HoldsLock(c, t) => lock[RuleOf(c, t)] = <<c, t>>

(* From the end of its copy to its removal a single file's copy stays.     *)
CopyStays ==
    \A c \in Cycles, t \in Torrents :
        task[c][t] \in {"copied", "removing"} /\ t \in SingleFile
            => t \in delivered

(* All of it, with what it is to prove.                                    *)
IInv ==
    /\ TypeOK
    /\ TasksOfRun
    /\ TransferWanted
    /\ PollEligible
    /\ RegistryExact
    /\ SingleTransfer
    /\ LockNamesHolder
    /\ LocksHeld
    /\ CopyStays
    /\ PayloadSurvives

-----------------------------------------------------------------------------
(* What the documentation says, and the code does not keep.                *)

(* README.md: a moved payload is at the destination.  When a restart or an *)
(* error ends the deletion of a source directory half-way, the next try    *)
(* replaces the complete copy by what is left.                             *)
DirectoriesSurvive == Torrents \subseteq source \cup delivered
=============================================================================
