-------------------------- MODULE MoveWorkerProofs --------------------------
(***************************************************************************)
(* Proofs about MoveWorker, for every set of torrents, rules and API       *)
(* threads, every pool size and any number of restarts and edits.  IInv is *)
(* shown inductive: each conjunct relates the registry, the rule locks and *)
(* the file system to where the tasks are.                                 *)
(***************************************************************************)
EXTENDS MoveWorker, WellFoundedInduction, TLAPS

-----------------------------------------------------------------------------
(* Every non-empty set of naturals has a least element.                    *)
LEMMA LeastExists ==
    ASSUME NEW S \in SUBSET Nat, S # {}
    PROVE  \E i \in S : \A j \in S : i <= j
<1> DEFINE R == OpToRel(<, Nat)
<1>1. PICK i \in S : \A j \in S : ~ (<<j, i>> \in R)
  BY NatLessThanWellFounded, WFMin, Zenon
<1>2. R = {p \in Nat \X Nat : p[1] < p[2]}
  BY DEF OpToRel
<1> HIDE DEF R
<1>3. ASSUME NEW j \in S PROVE i <= j
  <2>1. <<j, i>> \notin R
    BY <1>1
  <2>2. i \in Nat /\ j \in Nat
    OBVIOUS
  <2>3. ~ (j < i)
    BY <2>1, <2>2, <1>2
  <2> QED BY <2>2, <2>3
<1> QED BY <1>3

(* The rule a torrent is routed by is that of its first label that has one *)
(* in the dict, and it is routed by none only if no label has.             *)
LEMMA MatchedRuleIsFirst ==
    ASSUME NEW t \in Torrents, NEW ltr
    PROVE  \/ /\ MatchedRule(t, ltr) = NoRule
              /\ \A j \in DOMAIN Labels[t] : Labels[t][j] \notin DOMAIN ltr
           \/ /\ MatchedRule(t, ltr) \in DOMAIN ltr \cap Rules
              /\ \E i \in DOMAIN Labels[t] :
                    /\ Labels[t][i] = MatchedRule(t, ltr)
                    /\ \A j \in DOMAIN Labels[t] :
                          j < i => Labels[t][j] \notin DOMAIN ltr
<1> DEFINE hits == {i \in DOMAIN Labels[t] : Labels[t][i] \in DOMAIN ltr}
           least == CHOOSE i \in hits : \A j \in hits : i <= j
<1>1. Labels[t] \in Seq(Rules)
  BY LabelsAssumption
<1>2. CASE hits = {}
  BY <1>2 DEF MatchedRule
<1>3. CASE hits # {}
  <2>1. MatchedRule(t, ltr) = Labels[t][least]
    BY <1>3 DEF MatchedRule
  <2>2. hits \in SUBSET Nat
    BY <1>1
  <2>3. \E i \in hits : \A j \in hits : i <= j
    BY <1>3, <2>2, LeastExists
  <2>4. least \in hits /\ \A j \in hits : least <= j
    BY <2>3, Zenon
  <2>5. least \in DOMAIN Labels[t] /\ Labels[t][least] \in DOMAIN ltr
    BY <2>4
  <2>6. ASSUME NEW j \in DOMAIN Labels[t], j < least
        PROVE  Labels[t][j] \notin DOMAIN ltr
    <3>1. j \in Nat /\ least \in Nat
      BY <1>1, <2>2, <2>4
    <3> HIDE DEF least
    <3> QED BY <2>4, <2>6, <3>1
  <2> HIDE DEF least
  <2>7. Labels[t][least] \in Rules
    BY <1>1, <2>5
  <2> QED BY <2>1, <2>5, <2>6, <2>7
<1> QED BY <1>2, <1>3

LEMMA MatchedRuleInDict ==
    ASSUME NEW t \in Torrents, NEW ltr, MatchedRule(t, ltr) # NoRule
    PROVE  MatchedRule(t, ltr) \in DOMAIN ltr \cap Rules
BY MatchedRuleIsFirst

-----------------------------------------------------------------------------
(* Types.                                                                  *)

LEMMA IdleCycleType == IdleCycle \in CycleType
<1>1. << >> \in [{} -> RuleRows]
  OBVIOUS
<1>2. << >> \in RuleDicts
  BY <1>1 DEF RuleDicts
<1> QED BY <1>2 DEF IdleCycle, CycleType

LEMMA LabelToRuleType ==
    ASSUME TypeOK
    PROVE  LabelToRule \in RuleDicts /\ DOMAIN LabelToRule \subseteq Rules
<1> DEFINE S == {s \in Rules : rules[s].enabled}
<1>1. LabelToRule \in [S -> RuleRows]
  BY DEF LabelToRule, TypeOK
<1>2. S \in SUBSET Rules
  OBVIOUS
<1> HIDE DEF S
<1> QED BY <1>1, <1>2 DEF RuleDicts

LEMMA InitType == Init => TypeOK
BY IdleCycleType, BoundsAssumption
   DEF Init, MemoryInit, TypeOK, NoTasks, TaskPC

(* A step of a task writes one entry of task.                              *)
LEMMA StepType ==
    ASSUME TypeOK, NEW c \in Cycles, NEW t \in Torrents,
           NEW from, NEW to \in TaskPC, Step(c, t, from, to)
    PROVE  /\ task' \in [Cycles -> [Torrents -> TaskPC]]
           /\ \A d \in Cycles, u \in Torrents :
                task'[d][u] = IF d = c /\ u = t THEN to ELSE task[d][u]
BY DEF Step, TypeOK

LEMMA LoggedType ==
    ASSUME TypeOK, NEW c \in Cycles, Logged(c)
    PROVE  cycle' \in [Cycles -> CycleType]
<1>1. CASE UNCHANGED cycle
  BY <1>1 DEF TypeOK
<1>2. CASE cycle' = [cycle EXCEPT ![c].aborted = (Width(c) = 1)]
  <2>1. cycle[c] \in CycleType /\ (Width(c) = 1) \in BOOLEAN
    BY DEF TypeOK
  <2>2. [cycle[c] EXCEPT !.aborted = (Width(c) = 1)] \in CycleType
    BY <2>1 DEF CycleType
  <2> QED BY <1>2, <2>2 DEF TypeOK
<1> QED BY <1>1, <1>2 DEF Logged

LEMMA BeginType ==
    ASSUME TypeOK, NEW c \in Cycles, NEW target \in Torrents \cup {All},
           NEW eligible \in SUBSET Rules, Begin(c, target, eligible)
    PROVE  TypeOK'
<1> DEFINE new == [IdleCycle EXCEPT !.pc = "fetch", !.target = target,
                                    !.ltr = LabelToRule,
                                    !.eligible = eligible]
<1>1. new \in CycleType
  BY IdleCycleType, LabelToRuleType DEF CycleType
<1>2. cycle' = [cycle EXCEPT ![c] = new]
  BY DEF Begin
<1> HIDE DEF new
<1> QED BY <1>1, <1>2 DEF Begin, TypeOK, world, data, bounds

LEMMA CycleStepType ==
    ASSUME TypeOK, NEW c \in Cycles, CycleStep(c)
    PROVE  TypeOK'
<1>1. CASE c = Poll /\ PollBegin
  <2>1. PICK due \in SUBSET Scheduled("interval") :
            Begin(Poll, All, Scheduled("auto") \cup due)
    BY <1>1 DEF PollBegin
  <2>2. Scheduled("auto") \cup due \in SUBSET Rules
    BY LabelToRuleType DEF Scheduled
  <2> QED BY <1>1, <2>1, <2>2, BeginType
<1>2. CASE RunOnce(c)
  BY <1>2, BeginType, LabelToRuleType DEF RunOnce
<1>3. CASE \E t \in Torrents : RunTorrentNow(c, t)
  BY <1>3, BeginType, LabelToRuleType DEF RunTorrentNow
<1>4. CASE FetchTorrents(c)
  <2> DEFINE found == IF cycle[c].target = All THEN listed
                      ELSE listed \cap {cycle[c].target}
             queue == [t \in Torrents |->
                        IF t \in found THEN "queued" ELSE "none"]
  <2>1. cycle[c] \in CycleType /\ ready \cap found \in SUBSET Torrents
    BY DEF TypeOK
  <2>2. [cycle[c] EXCEPT !.pc = "run", !.ready = ready \cap found]
            \in CycleType
    BY <2>1 DEF CycleType
  <2>3. queue \in [Torrents -> TaskPC]
    BY DEF TaskPC
  <2>4. cycle' \in [Cycles -> CycleType]
    BY <1>4, <2>2 DEF FetchTorrents, TypeOK
  <2>5. task' \in [Cycles -> [Torrents -> TaskPC]]
    BY <1>4, <2>3 DEF FetchTorrents, TypeOK
  <2> QED BY <1>4, <2>4, <2>5 DEF FetchTorrents, TypeOK, world, data, bounds
<1>5. CASE FetchFails(c)
  BY <1>5, IdleCycleType DEF FetchFails, TypeOK, world, data, bounds
<1>6. CASE EndCycle(c)
  BY <1>6, IdleCycleType
     DEF EndCycle, TypeOK, world, data, bounds, NoTasks, TaskPC
<1> QED BY <1>1, <1>2, <1>3, <1>4, <1>5, <1>6 DEF CycleStep

LEMMA TaskStepType ==
    ASSUME TypeOK, NEW c \in Cycles, NEW t \in Torrents, TaskStep(c, t)
    PROVE  TypeOK'
<1> USE DEF world, data, memory, bounds
<1>1. CASE Register(c, t)
  <2>1. task' \in [Cycles -> [Torrents -> TaskPC]]
    BY <1>1, StepType DEF Register, TaskPC
  <2> QED BY <1>1, <2>1 DEF Register, TypeOK
<1>2. CASE SkipDuplicate(c, t)
  <2>1. task' \in [Cycles -> [Torrents -> TaskPC]]
    BY <1>2, StepType DEF SkipDuplicate, TaskPC
  <2> QED BY <1>2, <2>1 DEF SkipDuplicate, TypeOK
<1>3. ASSUME TakeLock(c, t)
      PROVE  lock' \in [Rules -> {Free} \cup (Cycles \X Torrents)]
  BY <1>3 DEF TakeLock, TypeOK
<1>4. CASE Enter(c, t)
  <2>1. task' \in [Cycles -> [Torrents -> TaskPC]]
    BY <1>4, StepType DEF Enter, TaskPC
  <2> QED BY <1>3, <1>4, <2>1 DEF Enter, TypeOK
<1>5. CASE NotWanted(c, t)
  <2>1. task' \in [Cycles -> [Torrents -> TaskPC]]
    BY <1>5, StepType DEF NotWanted, TaskPC
  <2>2. cycle' \in [Cycles -> CycleType]
    BY <1>5, LoggedType DEF NotWanted, TypeOK
  <2> QED BY <1>3, <1>5, <2>1, <2>2 DEF NotWanted, TypeOK
<1>6. CASE ReplaceExisting(c, t)
  BY <1>6 DEF ReplaceExisting, TypeOK
<1>7. CASE CopyDone(c, t)
  <2>1. task' \in [Cycles -> [Torrents -> TaskPC]]
    BY <1>7, StepType DEF CopyDone, TaskPC
  <2> QED BY <1>7, <2>1 DEF CopyDone, Copied, TypeOK
<1>8. CASE TransferFails(c, t)
  <2>1. task' \in [Cycles -> [Torrents -> TaskPC]]
    BY <1>8, StepType DEF TransferFails, TaskPC
  <2> QED BY <1>8, <2>1, LoggedType DEF TransferFails, TypeOK
<1>9. ASSUME EraseSource(c, t)
      PROVE  /\ source' \subseteq Torrents
             /\ remains' \subseteq Torrents \ SingleFile
  BY <1>9 DEF EraseSource, TypeOK
<1>17. CASE FallBack(c, t)
  BY <1>17 DEF FallBack, Copied, DeletePart, TypeOK
<1>18. CASE BeginErase(c, t)
  BY <1>18 DEF BeginErase, DeletePart, TypeOK
<1>10. CASE Processed(c, t)
  <2>1. task' \in [Cycles -> [Torrents -> TaskPC]]
    <3>1. (IF Row(c, t).remove THEN "removing" ELSE "leaving") \in TaskPC
      BY DEF TaskPC
    <3> QED BY <1>10, <3>1, StepType DEF Processed
  <2> QED BY <1>9, <1>10, <2>1 DEF Processed, TypeOK
<1>11. CASE DeleteSourceFails(c, t)
  <2>1. task' \in [Cycles -> [Torrents -> TaskPC]]
    BY <1>11, StepType DEF DeleteSourceFails, TaskPC
  <2> QED BY <1>11, <2>1, LoggedType DEF DeleteSourceFails, TypeOK
<1>12. CASE LogFails(c, t)
  <2>1. task' \in [Cycles -> [Torrents -> TaskPC]]
    BY <1>12, StepType DEF LogFails, TaskPC
  <2>2. cycle' \in [Cycles -> CycleType]
    BY <1>12, LoggedType DEF LogFails
  <2> QED BY <1>9, <1>12, <2>1, <2>2 DEF LogFails, TypeOK
<1>13. CASE RemoveTorrent(c, t)
  <2>1. task' \in [Cycles -> [Torrents -> TaskPC]]
    BY <1>13, StepType DEF RemoveTorrent, TaskPC
  <2> QED BY <1>13, <2>1 DEF RemoveTorrent, TypeOK
<1>14. CASE RemoveFails(c, t)
  <2>1. task' \in [Cycles -> [Torrents -> TaskPC]]
    BY <1>14, StepType DEF RemoveFails, TaskPC
  <2> QED BY <1>14, <2>1, LoggedType DEF RemoveFails, TypeOK
<1>15. CASE ReleaseLock(c, t)
  <2>1. task' \in [Cycles -> [Torrents -> TaskPC]]
    BY <1>15, StepType DEF ReleaseLock, TaskPC
  <2>2. lock' \in [Rules -> {Free} \cup (Cycles \X Torrents)]
    BY <1>15 DEF ReleaseLock, TypeOK
  <2> QED BY <1>15, <2>1, <2>2 DEF ReleaseLock, TypeOK
<1>16. CASE PopActive(c, t)
  <2>1. task' \in [Cycles -> [Torrents -> TaskPC]]
    BY <1>16, StepType DEF PopActive, TaskPC
  <2> QED BY <1>16, <2>1 DEF PopActive, TypeOK
<1> QED BY <1>1, <1>2, <1>4, <1>5, <1>6, <1>7, <1>8, <1>10, <1>11, <1>12,
           <1>13, <1>14, <1>15, <1>16, <1>17, <1>18 DEF TaskStep

LEMMA SurroundingsType ==
    ASSUME TypeOK, Surroundings
    PROVE  TypeOK'
<1> USE DEF world, data, memory, bounds
<1>1. CASE \E r \in Rules, row \in RuleRows : UpdateRule(r, row)
  BY <1>1, BoundsAssumption DEF UpdateRule, Edit, TypeOK
<1>2. CASE \E t \in Torrents : ChangeReady(t)
  BY <1>2, BoundsAssumption DEF ChangeReady, Edit, TypeOK
<1>3. CASE PollDies
  <2>1. [cycle[Poll] EXCEPT !.pc = "dead"] \in CycleType
    BY DEF TypeOK, CycleType, Cycles
  <2> QED BY <1>3, <2>1 DEF PollDies, TypeOK
<1>4. CASE Restart
  BY <1>4, IdleCycleType, BoundsAssumption
     DEF Restart, TypeOK, NoTasks, TaskPC
<1> QED BY <1>1, <1>2, <1>3, <1>4 DEF Surroundings

LEMMA NextType == TypeOK /\ [Next]_vars => TypeOK'
<1>1. ASSUME TypeOK, UNCHANGED vars PROVE TypeOK'
  BY <1>1 DEF vars, world, data, memory, bounds, TypeOK
<1> QED BY <1>1, CycleStepType, TaskStepType, SurroundingsType DEF Next

(* The variables always have values of their types.                        *)
THEOREM TypeCorrect == Spec => []TypeOK
BY InitType, NextType, PTL DEF Spec

-----------------------------------------------------------------------------
(* What a step leaves alone.                                               *)

(* A task never changes a snapshot: its rule, its row and whether it is    *)
(* wanted stay what they are while it runs.                                *)
LEMMA LoggedKeeps ==
    ASSUME TypeOK, NEW c \in Cycles, Logged(c), NEW d \in Cycles
    PROVE  /\ cycle'[d].pc = cycle[d].pc
           /\ cycle'[d].ltr = cycle[d].ltr
           /\ cycle'[d].eligible = cycle[d].eligible
           /\ cycle'[d].ready = cycle[d].ready
<1>1. cycle[d] \in CycleType
  BY DEF TypeOK
<1> QED BY <1>1 DEF Logged, TypeOK, CycleType

LEMMA TaskKeepsCycle ==
    ASSUME TypeOK, NEW c \in Cycles, NEW t \in Torrents, TaskStep(c, t)
    PROVE  UNCHANGED cycle \/ Logged(c)
BY DEF TaskStep, Register, SkipDuplicate, Enter, NotWanted, ReplaceExisting,
       CopyDone, FallBack, TransferFails, BeginErase, Processed,
       DeleteSourceFails, LogFails, RemoveTorrent, RemoveFails, ReleaseLock,
       PopActive, memory

Snapshot(d) == <<cycle[d].ltr, cycle[d].eligible, cycle[d].ready>>

LEMMA SnapshotKeeps ==
    ASSUME NEW d \in Cycles, NEW u \in Torrents, UNCHANGED Snapshot(d)
    PROVE  /\ RuleOf(d, u)' = RuleOf(d, u)
           /\ Row(d, u)' = Row(d, u)
           /\ NeedsLock(d, u)' = NeedsLock(d, u)
           /\ Wanted(d, u)' = Wanted(d, u)
<1>1. /\ cycle'[d].ltr = cycle[d].ltr
      /\ cycle'[d].eligible = cycle[d].eligible
      /\ cycle'[d].ready = cycle[d].ready
  BY DEF Snapshot
<1>2. RuleOf(d, u)' = RuleOf(d, u)
  BY <1>1 DEF RuleOf
<1>3. Row(d, u)' = Row(d, u)
  BY <1>1, <1>2 DEF Row
<1>4. NeedsLock(d, u)' = NeedsLock(d, u)
  BY <1>2, <1>3 DEF NeedsLock
<1>5. Wanted(d, u)' = Wanted(d, u)
  BY <1>1, <1>2 DEF Wanted
<1> QED BY <1>2, <1>3, <1>4, <1>5

LEMMA TaskKeepsSnapshots ==
    ASSUME TypeOK, NEW c \in Cycles, NEW t \in Torrents, TaskStep(c, t),
           NEW d \in Cycles
    PROVE  cycle'[d].pc = cycle[d].pc /\ UNCHANGED Snapshot(d)
BY TaskKeepsCycle, LoggedKeeps DEF Snapshot

(* Where the task of a step comes from and goes to.                        *)
Stages == {<<"queued", "registered">>, <<"queued", "done">>,
           <<"registered", "transferring">>, <<"registered", "leaving">>,
           <<"transferring", "copied">>, <<"transferring", "leaving">>,
           <<"copied", "removing">>, <<"copied", "leaving">>,
           <<"removing", "leaving">>, <<"leaving", "popping">>,
           <<"popping", "done">>}

LEMMA TaskMoves ==
    ASSUME TypeOK, NEW c \in Cycles, NEW t \in Torrents, TaskStep(c, t)
    PROVE  \/ UNCHANGED task
           \/ \E s \in Stages :
                /\ task[c][t] = s[1]
                /\ task'[c][t] = s[2]
                /\ \A d \in Cycles, u \in Torrents :
                        d # c \/ u # t => task'[d][u] = task[d][u]
<1>1. CASE ReplaceExisting(c, t) \/ FallBack(c, t) \/ BeginErase(c, t)
  BY <1>1 DEF ReplaceExisting, FallBack, BeginErase, memory
<1>2. CASE \E s \in Stages : Step(c, t, s[1], s[2])
  <2>1. PICK s \in Stages : Step(c, t, s[1], s[2])
    BY <1>2
  <2>2. s[2] \in TaskPC
    BY DEF Stages, TaskPC
  <2> QED BY <2>1, <2>2, StepType DEF Step
<1>3. ASSUME ~ (ReplaceExisting(c, t) \/ FallBack(c, t) \/ BeginErase(c, t))
      PROVE  \E from, to : <<from, to>> \in Stages /\ Step(c, t, from, to)
  BY <1>3 DEF TaskStep, Register, SkipDuplicate, Enter, NotWanted, CopyDone,
       TransferFails, Processed, DeleteSourceFails, LogFails, RemoveTorrent,
       RemoveFails, ReleaseLock, PopActive, Stages
<1> QED BY <1>1, <1>2, <1>3

Quiet(d, u) ==
    /\ task[d][u] \notin Registered /\ task'[d][u] \notin Registered
    /\ task'[d][u] \in {task[d][u], "queued", "none"}

(* A step of a cycle leaves the tasks of the others and starts or ends its *)
(* own only when none is registered.                                       *)
LEMMA CycleMoves ==
    ASSUME TypeOK, TasksOfRun, NEW c \in Cycles, CycleStep(c)
    PROVE  /\ \A d \in Cycles \ {c} :
                cycle'[d] = cycle[d] /\ task'[d] = task[d]
           /\ \A d \in Cycles, u \in Torrents :
                \/ Quiet(d, u)
                \/ UNCHANGED Snapshot(d) /\ task'[d][u] = task[d][u]
           /\ UNCHANGED <<data, active, lock, listed>>
<1> USE DEF world, data
<1>1. ASSUME NEW target, NEW eligible, Begin(c, target, eligible)
      PROVE  /\ \A d \in Cycles \ {c} :
                    cycle'[d] = cycle[d] /\ task'[d] = task[d]
             /\ task[c] = NoTasks /\ UNCHANGED task
             /\ UNCHANGED <<data, active, lock, listed>>
  BY <1>1 DEF Begin, TypeOK, TasksOfRun
<1>2. CASE \E target, eligible : Begin(c, target, eligible)
  <2>1. \A u \in Torrents : task[c][u] = "none" /\ task'[c][u] = "none"
    BY <1>1, <1>2 DEF NoTasks
  <2>2. \A d \in Cycles \ {c} : UNCHANGED Snapshot(d)
    BY <1>1, <1>2 DEF Snapshot
  <2>3. \A u \in Torrents : Quiet(c, u)
    BY <2>1 DEF Quiet, Registered
  <2> QED BY <1>1, <1>2, <2>2, <2>3
<1>3. CASE FetchTorrents(c)
  <2>1. \A d \in Cycles \ {c} : cycle'[d] = cycle[d] /\ task'[d] = task[d]
    BY <1>3 DEF FetchTorrents, TypeOK
  <2>2. \A d \in Cycles \ {c} : UNCHANGED Snapshot(d)
    BY <2>1 DEF Snapshot
  <2>3. \A u \in Torrents :
            task[c][u] = "none" /\ task'[c][u] \in {"queued", "none"}
    BY <1>3 DEF FetchTorrents, TypeOK, TasksOfRun, NoTasks
  <2>4. \A u \in Torrents : Quiet(c, u)
    BY <2>3 DEF Quiet, Registered
  <2>5. UNCHANGED <<data, active, lock, listed>>
    BY <1>3 DEF FetchTorrents
  <2> QED BY <2>1, <2>2, <2>4, <2>5
<1>4. CASE FetchFails(c)
  <2>1. \A d \in Cycles \ {c} : cycle'[d] = cycle[d] /\ task'[d] = task[d]
    BY <1>4 DEF FetchFails, TypeOK
  <2>2. \A d \in Cycles \ {c} : UNCHANGED Snapshot(d)
    BY <2>1 DEF Snapshot
  <2>3. \A u \in Torrents : task[c][u] = "none" /\ task'[c][u] = "none"
    BY <1>4 DEF FetchFails, TypeOK, TasksOfRun, NoTasks
  <2>4. \A u \in Torrents : Quiet(c, u)
    BY <2>3 DEF Quiet, Registered
  <2>5. UNCHANGED <<data, active, lock, listed>>
    BY <1>4 DEF FetchFails
  <2> QED BY <2>1, <2>2, <2>4, <2>5
<1>5. CASE EndCycle(c)
  <2>1. \A d \in Cycles \ {c} : cycle'[d] = cycle[d] /\ task'[d] = task[d]
    BY <1>5 DEF EndCycle, TypeOK
  <2>2. \A d \in Cycles \ {c} : UNCHANGED Snapshot(d)
    BY <2>1 DEF Snapshot
  <2>3. \A u \in Torrents :
            task[c][u] \notin Registered /\ task'[c][u] = "none"
    BY <1>5 DEF EndCycle, TypeOK, NoTasks, Running
  <2>4. \A u \in Torrents : Quiet(c, u)
    BY <2>3 DEF Quiet, Registered
  <2>5. UNCHANGED <<data, active, lock, listed>>
    BY <1>5 DEF EndCycle
  <2> QED BY <2>1, <2>2, <2>4, <2>5
<1>6. \/ \E target, eligible : Begin(c, target, eligible)
      \/ FetchTorrents(c) \/ FetchFails(c) \/ EndCycle(c)
  BY Zenon DEF CycleStep, PollBegin, RunOnce, RunTorrentNow
<1> QED BY <1>2, <1>3, <1>4, <1>5, <1>6

-----------------------------------------------------------------------------
(* The registry.                                                           *)

LEMMA RegistryFrame ==
    ASSUME RegistryExact, SingleTransfer, UNCHANGED active,
           \A d \in Cycles, u \in Torrents : Owns(d, u)' <=> Owns(d, u)
    PROVE  RegistryExact' /\ SingleTransfer'
BY DEF RegistryExact, SingleTransfer

LEMMA RegistryCycle ==
    ASSUME TypeOK, TasksOfRun, RegistryExact, SingleTransfer,
           NEW c \in Cycles, CycleStep(c)
    PROVE  RegistryExact' /\ SingleTransfer'
<1>1. \A d \in Cycles, u \in Torrents : Owns(d, u)' <=> Owns(d, u)
  BY CycleMoves DEF Owns, Quiet
<1> QED BY <1>1, CycleMoves, RegistryFrame

LEMMA RegistryTask ==
    ASSUME TypeOK, RegistryExact, SingleTransfer,
           NEW c \in Cycles, NEW t \in Torrents, TaskStep(c, t)
    PROVE  RegistryExact' /\ SingleTransfer'
<1>1. CASE Register(c, t)
  <2>1. /\ \A d \in Cycles, u \in Torrents :
              Owns(d, u)' <=> Owns(d, u) \/ (d = c /\ u = t)
        /\ active' = active \cup {t}
        /\ t \notin active
    BY <1>1, StepType DEF Register, Owns, Registered, TaskPC
  <2>2. \A d \in Cycles : ~ Owns(d, t)
    BY <2>1 DEF RegistryExact
  <2> QED BY <2>1, <2>2 DEF RegistryExact, SingleTransfer
<1>2. CASE PopActive(c, t)
  <2>1. Owns(c, t) /\ active' = active \ {t}
    BY <1>2 DEF PopActive, Step, Owns, Registered
  <2>2. \A d \in Cycles, u \in Torrents :
            task'[d][u] = IF d = c /\ u = t THEN "done" ELSE task[d][u]
    BY <1>2, StepType DEF PopActive, TaskPC
  <2>3. \A d \in Cycles, u \in Torrents :
            Owns(d, u)' <=> Owns(d, u) /\ ~ (d = c /\ u = t)
    BY <2>2 DEF Owns, Registered
  <2>4. \A d \in Cycles \ {c} : ~ Owns(d, t)
    BY <2>1 DEF SingleTransfer
  <2> QED BY <2>1, <2>3, <2>4 DEF RegistryExact, SingleTransfer
<1>3. CASE ~ Register(c, t) /\ ~ PopActive(c, t)
  <2>1. \/ UNCHANGED task
        \/ \E from, to \in TaskPC :
            /\ from \in Registered <=> to \in Registered
            /\ Step(c, t, from, to)
    BY <1>3 DEF TaskStep, SkipDuplicate, Enter, NotWanted, ReplaceExisting,
         CopyDone, FallBack, TransferFails, BeginErase, Processed,
         DeleteSourceFails, LogFails,
         RemoveTorrent, RemoveFails, ReleaseLock, Registered, TaskPC, memory
  <2>2. \A d \in Cycles, u \in Torrents : Owns(d, u)' <=> Owns(d, u)
    <3>1. CASE UNCHANGED task
      BY <3>1 DEF Owns
    <3>2. ASSUME NEW from \in TaskPC, NEW to \in TaskPC,
                 from \in Registered <=> to \in Registered,
                 Step(c, t, from, to)
          PROVE  \A d \in Cycles, u \in Torrents : Owns(d, u)' <=> Owns(d, u)
      BY <3>2, StepType DEF Owns, Step
    <3> QED BY <2>1, <3>1, <3>2
  <2>3. UNCHANGED active
    BY <1>3 DEF TaskStep, SkipDuplicate, Enter, NotWanted, ReplaceExisting,
         CopyDone, FallBack, TransferFails, BeginErase, Processed,
         DeleteSourceFails, LogFails,
         RemoveTorrent, RemoveFails, ReleaseLock, memory
  <2> QED BY <2>2, <2>3, RegistryFrame
<1> QED BY <1>1, <1>2, <1>3

-----------------------------------------------------------------------------
(* The tasks and the snapshots.                                            *)

LEMMA TasksCycle ==
    ASSUME TypeOK, TasksOfRun, TransferWanted, PollEligible,
           NEW c \in Cycles, CycleStep(c)
    PROVE  TasksOfRun' /\ TransferWanted' /\ PollEligible'
<1>1. TransferWanted'
  <2> SUFFICES ASSUME NEW d \in Cycles, NEW u \in Torrents,
                      task'[d][u] \in {"transferring", "copied", "removing"}
               PROVE  Wanted(d, u)'
    BY DEF TransferWanted
  <2>1. UNCHANGED Snapshot(d) /\ task'[d][u] = task[d][u]
    BY CycleMoves DEF Quiet, Registered
  <2>2. Wanted(d, u)
    BY <2>1 DEF TransferWanted
  <2> QED BY <2>1, <2>2, SnapshotKeeps
<1>2. CASE FetchTorrents(c)
  <2>1. \A d \in Cycles : cycle'[d].ltr = cycle[d].ltr
                          /\ cycle'[d].eligible = cycle[d].eligible
    BY <1>2 DEF FetchTorrents, TypeOK, CycleType
  <2>2. PollEligible'
    BY <2>1 DEF PollEligible, Cycles
  <2>3. cycle'[c].pc = "run"
    BY <1>2 DEF FetchTorrents, TypeOK, CycleType
  <2>4. TasksOfRun'
    BY <2>3, CycleMoves DEF TasksOfRun
  <2> QED BY <1>1, <2>2, <2>4
<1>3. CASE \E target, eligible : Begin(c, target, eligible)
  <2>1. TasksOfRun'
    <3>1. task[c] = NoTasks /\ UNCHANGED task
      BY <1>3 DEF Begin, TasksOfRun
    <3> QED BY <3>1, CycleMoves DEF TasksOfRun
  <2>2. PollEligible'
    <3>1. CASE c # Poll
      BY <3>1, CycleMoves DEF PollEligible, Cycles
    <3>2. CASE c = Poll
      <4>1. PICK due \in SUBSET Scheduled("interval") :
                Begin(Poll, All, Scheduled("auto") \cup due)
        BY <1>3, <3>2
           DEF CycleStep, PollBegin, Begin, FetchTorrents, FetchFails, EndCycle
      <4>2. /\ cycle'[Poll].eligible = Scheduled("auto") \cup due
            /\ cycle'[Poll].ltr = LabelToRule
        BY <4>1 DEF Begin, TypeOK, IdleCycle, Cycles
      <4> QED BY <4>2 DEF PollEligible, Scheduled
    <3> QED BY <3>1, <3>2
  <2> QED BY <1>1, <2>1, <2>2
<1>4. CASE FetchFails(c) \/ EndCycle(c)
  <2>1. cycle'[c] = IdleCycle /\ task'[c] = NoTasks
    BY <1>4 DEF FetchFails, EndCycle, TypeOK, TasksOfRun
  <2>2. TasksOfRun'
    BY <2>1, CycleMoves DEF TasksOfRun
  <2>3. PollEligible'
    <3>1. CASE c # Poll
      BY <3>1, CycleMoves DEF PollEligible, Cycles
    <3>2. CASE c = Poll
      BY <2>1, <3>2 DEF PollEligible, IdleCycle
    <3> QED BY <3>1, <3>2
  <2> QED BY <1>1, <2>2, <2>3
<1>5. \/ \E target, eligible : Begin(c, target, eligible)
      \/ FetchTorrents(c) \/ FetchFails(c) \/ EndCycle(c)
  BY Zenon DEF CycleStep, PollBegin, RunOnce, RunTorrentNow
<1> QED BY <1>2, <1>3, <1>4, <1>5

LEMMA TasksTask ==
    ASSUME TypeOK, TasksOfRun, TransferWanted, PollEligible,
           NEW c \in Cycles, NEW t \in Torrents, TaskStep(c, t)
    PROVE  TasksOfRun' /\ TransferWanted' /\ PollEligible'
<1>1. PollEligible'
  <2>1. /\ cycle'[Poll].ltr = cycle[Poll].ltr
        /\ cycle'[Poll].eligible = cycle[Poll].eligible
    BY TaskKeepsSnapshots DEF Snapshot, Cycles
  <2> QED BY <2>1 DEF PollEligible
<1>2. TasksOfRun'
  <2> SUFFICES ASSUME NEW d \in Cycles, cycle'[d].pc # "run"
               PROVE  task'[d] = NoTasks
    BY DEF TasksOfRun
  <2>1. task[d] = NoTasks
    BY TaskKeepsSnapshots DEF TasksOfRun
  <2>2. \A u \in Torrents : task'[d][u] = task[d][u]
    BY <2>1, TaskMoves DEF NoTasks, Stages
  <2>3. task'[d] \in [Torrents -> TaskPC] /\ task[d] \in [Torrents -> TaskPC]
    BY TaskStepType DEF TypeOK
  <2> QED BY <2>1, <2>2, <2>3
<1>3. TransferWanted'
  <2> SUFFICES ASSUME NEW d \in Cycles, NEW u \in Torrents,
                      task'[d][u] \in {"transferring", "copied", "removing"}
               PROVE  Wanted(d, u)
    BY TaskKeepsSnapshots, SnapshotKeeps DEF TransferWanted
  <2>1. CASE task[d][u] \in {"transferring", "copied", "removing"}
    BY <2>1 DEF TransferWanted
  <2>2. CASE task[d][u] \notin {"transferring", "copied", "removing"}
    <3>1. d = c /\ u = t /\ task[c][t] = "registered"
      BY <2>2, TaskMoves DEF Stages
    <3>2. ~ NotWanted(c, t)
      BY <3>1, StepType DEF NotWanted, TaskPC
    <3>3. Enter(c, t)
      BY <3>1, <3>2 DEF TaskStep, Register, SkipDuplicate, ReplaceExisting,
         CopyDone, FallBack, TransferFails, BeginErase, Processed,
         DeleteSourceFails, LogFails,
         RemoveTorrent, RemoveFails, ReleaseLock, PopActive, Step
    <3> QED BY <3>1, <3>3 DEF Enter
  <2> QED BY <2>1, <2>2
<1> QED BY <1>1, <1>2, <1>3

-----------------------------------------------------------------------------
(* The rule locks.                                                         *)

LEMMA LockedRule ==
    ASSUME NEW d \in Cycles, NEW u \in Torrents, NeedsLock(d, u)
    PROVE  RuleOf(d, u) \in Rules
BY MatchedRuleInDict DEF NeedsLock, RuleOf

LEMMA LockFrame ==
    ASSUME LockNamesHolder, LocksHeld, UNCHANGED lock,
           \A d \in Cycles, u \in Torrents :
                /\ HoldsLock(d, u)' <=> HoldsLock(d, u)
                /\ HoldsLock(d, u) => RuleOf(d, u)' = RuleOf(d, u)
    PROVE  LockNamesHolder' /\ LocksHeld'
BY DEF LockNamesHolder, LocksHeld

LEMMA LockCycle ==
    ASSUME TypeOK, TasksOfRun, LockNamesHolder, LocksHeld,
           NEW c \in Cycles, CycleStep(c)
    PROVE  LockNamesHolder' /\ LocksHeld'
<1>1. ASSUME NEW d \in Cycles, NEW u \in Torrents
      PROVE  /\ HoldsLock(d, u)' <=> HoldsLock(d, u)
             /\ HoldsLock(d, u) => RuleOf(d, u)' = RuleOf(d, u)
  <2>1. CASE Quiet(d, u)
    BY <2>1 DEF Quiet, HoldsLock, Registered, Locked
  <2>2. CASE UNCHANGED Snapshot(d) /\ task'[d][u] = task[d][u]
    BY <2>2, SnapshotKeeps DEF HoldsLock
  <2> QED BY <2>1, <2>2, CycleMoves
<1> QED BY <1>1, CycleMoves, LockFrame

LEMMA LockTake ==
    ASSUME TypeOK, LockNamesHolder, LocksHeld,
           NEW c \in Cycles, NEW t \in Torrents, TaskStep(c, t),
           TakeLock(c, t), NEW to \in Locked, Step(c, t, "registered", to)
    PROVE  LockNamesHolder' /\ LocksHeld'
<1>1. to \in TaskPC
  BY DEF Locked, TaskPC
<1>2. \A d \in Cycles, u \in Torrents :
        /\ RuleOf(d, u)' = RuleOf(d, u)
        /\ HoldsLock(d, u)' <=>
            HoldsLock(d, u) \/ (d = c /\ u = t /\ NeedsLock(c, t))
  <2> SUFFICES ASSUME NEW d \in Cycles, NEW u \in Torrents
               PROVE  /\ RuleOf(d, u)' = RuleOf(d, u)
                      /\ HoldsLock(d, u)' <=>
                          HoldsLock(d, u) \/ (d = c /\ u = t /\ NeedsLock(c, t))
    OBVIOUS
  <2>1. /\ RuleOf(d, u)' = RuleOf(d, u)
        /\ NeedsLock(d, u)' = NeedsLock(d, u)
    BY TaskKeepsSnapshots, SnapshotKeeps
  <2>2. task'[d][u] = IF d = c /\ u = t THEN to ELSE task[d][u]
    BY <1>1, StepType
  <2>3. task[c][t] \notin Locked
    BY DEF Step, Locked
  <2> QED BY <2>1, <2>2, <2>3 DEF HoldsLock
<1>3. CASE ~ NeedsLock(c, t)
  <2>1. UNCHANGED lock
    BY <1>3 DEF TakeLock
  <2> QED BY <1>2, <1>3, <2>1, LockFrame
<1>4. CASE NeedsLock(c, t)
  <2>1. RuleOf(c, t) \in Rules
    BY <1>4, LockedRule
  <2>2. /\ lock[RuleOf(c, t)] = Free
        /\ lock' = [lock EXCEPT ![RuleOf(c, t)] = <<c, t>>]
    BY <1>4 DEF TakeLock
  <2>3. \A r \in Rules :
            lock'[r] = IF r = RuleOf(c, t) THEN <<c, t>> ELSE lock[r]
    BY <2>2 DEF TypeOK
  <2>4. LockNamesHolder'
    <3> SUFFICES ASSUME NEW d \in Cycles, NEW u \in Torrents, HoldsLock(d, u)'
                 PROVE  lock'[RuleOf(d, u)] = <<d, u>>
      BY <1>2 DEF LockNamesHolder
    <3>1. CASE d = c /\ u = t
      BY <2>1, <2>3, <3>1
    <3>2. CASE HoldsLock(d, u)
      <4>1. lock[RuleOf(d, u)] = <<d, u>> /\ RuleOf(d, u) \in Rules
        BY <3>2, LockedRule DEF LockNamesHolder, HoldsLock
      <4>2. RuleOf(d, u) # RuleOf(c, t)
        BY <2>2, <4>1, NamesAssumption
      <4> QED BY <2>3, <4>1, <4>2
    <3> QED BY <1>2, <3>1, <3>2
  <2>5. LocksHeld'
    <3> SUFFICES ASSUME NEW r \in Rules, lock'[r] # Free
                 PROVE  \E d \in Cycles, u \in Torrents :
                          /\ lock'[r] = <<d, u>>
                          /\ HoldsLock(d, u)' /\ RuleOf(d, u)' = r
      BY DEF LocksHeld
    <3>1. CASE r = RuleOf(c, t)
      BY <1>2, <1>4, <2>3, <3>1
    <3>2. CASE r # RuleOf(c, t)
      BY <1>2, <2>3, <3>2 DEF LocksHeld
    <3> QED BY <3>1, <3>2
  <2> QED BY <2>4, <2>5
<1> QED BY <1>3, <1>4

LEMMA LockRelease ==
    ASSUME TypeOK, LockNamesHolder, LocksHeld,
           NEW c \in Cycles, NEW t \in Torrents, ReleaseLock(c, t)
    PROVE  LockNamesHolder' /\ LocksHeld'
<1>1. \A d \in Cycles, u \in Torrents :
        /\ RuleOf(d, u)' = RuleOf(d, u)
        /\ HoldsLock(d, u)' <=> HoldsLock(d, u) /\ ~ (d = c /\ u = t)
  <2> SUFFICES ASSUME NEW d \in Cycles, NEW u \in Torrents
               PROVE  /\ RuleOf(d, u)' = RuleOf(d, u)
                      /\ HoldsLock(d, u)' <=>
                          HoldsLock(d, u) /\ ~ (d = c /\ u = t)
    OBVIOUS
  <2>1. /\ RuleOf(d, u)' = RuleOf(d, u)
        /\ NeedsLock(d, u)' = NeedsLock(d, u)
    BY SnapshotKeeps DEF ReleaseLock, Snapshot
  <2>2. task'[d][u] = IF d = c /\ u = t THEN "popping" ELSE task[d][u]
    BY StepType DEF ReleaseLock, TaskPC
  <2> QED BY <2>1, <2>2 DEF HoldsLock, Locked
<1>2. CASE ~ NeedsLock(c, t)
  <2>1. UNCHANGED lock /\ ~ HoldsLock(c, t)
    BY <1>2 DEF ReleaseLock, HoldsLock
  <2> QED BY <1>1, <2>1, LockFrame
<1>3. CASE NeedsLock(c, t)
  <2>1. HoldsLock(c, t) /\ RuleOf(c, t) \in Rules
    BY <1>3, LockedRule DEF ReleaseLock, Step, HoldsLock, Locked
  <2>2. \A r \in Rules :
            lock'[r] = IF r = RuleOf(c, t) THEN Free ELSE lock[r]
    BY <1>3 DEF ReleaseLock, TypeOK
  <2>3. LockNamesHolder'
    <3> SUFFICES ASSUME NEW d \in Cycles, NEW u \in Torrents,
                        HoldsLock(d, u), ~ (d = c /\ u = t)
                 PROVE  lock'[RuleOf(d, u)] = <<d, u>>
      BY <1>1 DEF LockNamesHolder
    <3>1. /\ lock[RuleOf(d, u)] = <<d, u>> /\ RuleOf(d, u) \in Rules
          /\ lock[RuleOf(c, t)] = <<c, t>>
      BY <2>1, LockedRule DEF LockNamesHolder, HoldsLock
    <3> QED BY <2>2, <3>1
  <2>4. LocksHeld'
    <3> SUFFICES ASSUME NEW r \in Rules, lock'[r] # Free
                 PROVE  \E d \in Cycles, u \in Torrents :
                          /\ lock'[r] = <<d, u>>
                          /\ HoldsLock(d, u)' /\ RuleOf(d, u)' = r
      BY DEF LocksHeld
    <3>1. r # RuleOf(c, t) /\ lock'[r] = lock[r]
      BY <2>2
    <3>2. PICK d \in Cycles, u \in Torrents :
              lock[r] = <<d, u>> /\ HoldsLock(d, u) /\ RuleOf(d, u) = r
      BY <3>1 DEF LocksHeld
    <3> QED BY <1>1, <3>1, <3>2
  <2> QED BY <2>3, <2>4
<1> QED BY <1>2, <1>3

LEMMA LockTask ==
    ASSUME TypeOK, LockNamesHolder, LocksHeld,
           NEW c \in Cycles, NEW t \in Torrents, TaskStep(c, t)
    PROVE  LockNamesHolder' /\ LocksHeld'
<1>1. CASE Enter(c, t)
  BY <1>1, LockTake DEF Enter, Locked
<1>2. CASE NotWanted(c, t)
  BY <1>2, LockTake DEF NotWanted, Locked
<1>3. CASE ReleaseLock(c, t)
  BY <1>3, LockRelease
<1>4. CASE ~ Enter(c, t) /\ ~ NotWanted(c, t) /\ ~ ReleaseLock(c, t)
  <2>1. /\ UNCHANGED lock
        /\ \/ UNCHANGED task
           \/ \E from, to \in TaskPC :
                /\ from \in Locked <=> to \in Locked
                /\ Step(c, t, from, to)
    BY <1>4 DEF TaskStep, Register, SkipDuplicate, ReplaceExisting,
         CopyDone, FallBack, TransferFails, BeginErase, Processed,
         DeleteSourceFails, LogFails,
         RemoveTorrent, RemoveFails, PopActive, Locked, TaskPC, memory
  <2>2. ASSUME NEW d \in Cycles, NEW u \in Torrents
        PROVE  task'[d][u] \in Locked <=> task[d][u] \in Locked
    <3>1. CASE UNCHANGED task
      BY <3>1
    <3>2. ASSUME NEW from \in TaskPC, NEW to \in TaskPC,
                 from \in Locked <=> to \in Locked, Step(c, t, from, to)
          PROVE  task'[d][u] \in Locked <=> task[d][u] \in Locked
      BY <3>2, StepType DEF Step
    <3> QED BY <2>1, <3>1, <3>2
  <2>3. \A d \in Cycles, u \in Torrents :
            /\ HoldsLock(d, u)' <=> HoldsLock(d, u)
            /\ RuleOf(d, u)' = RuleOf(d, u)
    BY <2>2, TaskKeepsSnapshots, SnapshotKeeps DEF HoldsLock
  <2> QED BY <2>1, <2>3, LockFrame
<1> QED BY <1>1, <1>2, <1>3, <1>4

-----------------------------------------------------------------------------
(* The files.                                                              *)

files == <<source \cap SingleFile, delivered \cap SingleFile>>

(* What a task step does to the single files is a step of Payload or       *)
(* nothing, and one leaves the client only while delivered.                *)
LEMMA FileTask ==
    ASSUME TypeOK, CopyStays, NEW c \in Cycles, NEW t \in Torrents,
           TaskStep(c, t)
    PROVE  /\ \/ UNCHANGED files
              \/ /\ t \in SingleFile
                 /\ Abstract!Deliver(t) \/ Abstract!Replace(t)
                    \/ Abstract!Discard(t)
           /\ (listed \ listed') \cap SingleFile \subseteq delivered
<1> USE DEF data, world, files, TypeOK
<1>1. ASSUME task[c][t] \in {"copied", "removing"}, t \in SingleFile
      PROVE  t \in delivered
  BY <1>1 DEF CopyStays
<1>2. ASSUME source' = source \ {t}, UNCHANGED delivered,
             task[c][t] \in {"copied", "removing"}
      PROVE  UNCHANGED files \/ (t \in SingleFile /\ Abstract!Discard(t))
  BY <1>1, <1>2 DEF Abstract!Discard
<1>3. CASE Processed(c, t) \/ LogFails(c, t)
  BY <1>2, <1>3 DEF Processed, LogFails, EraseSource, Step
<1>4. ASSUME Copied(t), source' \cap SingleFile = source \cap SingleFile
      PROVE  UNCHANGED files \/ (t \in SingleFile /\ Abstract!Deliver(t))
  BY <1>4 DEF Copied, Abstract!Deliver
<1>5. ASSUME DeletePart(t)
      PROVE  source' \cap SingleFile = source \cap SingleFile
  BY <1>5 DEF DeletePart
<1>6. CASE CopyDone(c, t)
  BY <1>4, <1>6 DEF CopyDone
<1>7. CASE FallBack(c, t)
  BY <1>4, <1>5, <1>7 DEF FallBack
<1>8. CASE BeginErase(c, t)
  BY <1>5, <1>8 DEF BeginErase
<1>9. CASE ReplaceExisting(c, t)
  BY <1>9 DEF ReplaceExisting, Abstract!Replace
<1>10. CASE RemoveTorrent(c, t)
  <2>1. task[c][t] = "removing" /\ listed' = listed \ {t}
        /\ UNCHANGED delivered /\ source' \in {source, source \ {t}}
    BY <1>10 DEF RemoveTorrent, Step
  <2> QED BY <1>1, <1>2, <2>1
<1>11. CASE ~ (\/ Processed(c, t) \/ LogFails(c, t) \/ CopyDone(c, t)
               \/ FallBack(c, t) \/ BeginErase(c, t)
               \/ ReplaceExisting(c, t) \/ RemoveTorrent(c, t))
  BY <1>11 DEF TaskStep, Register, SkipDuplicate, Enter, NotWanted,
     TransferFails, DeleteSourceFails, RemoveFails, ReleaseLock, PopActive
<1>12. \/ RemoveTorrent(c, t) \/ UNCHANGED listed
  BY DEF TaskStep, Register, SkipDuplicate, Enter, NotWanted, ReplaceExisting,
     CopyDone, FallBack, TransferFails, BeginErase, Processed,
     DeleteSourceFails, LogFails, RemoveFails, ReleaseLock, PopActive
<1> QED BY <1>3, <1>6, <1>7, <1>8, <1>9, <1>10, <1>11, <1>12

(* While a torrent is between its copy and its removal only its own task   *)
(* has it, and that task does not replace copies.                          *)
LEMMA CopyStaysTask ==
    ASSUME TypeOK, SingleTransfer, CopyStays,
           NEW c \in Cycles, NEW t \in Torrents, TaskStep(c, t)
    PROVE  CopyStays'
<1> SUFFICES ASSUME NEW d \in Cycles, NEW u \in Torrents, u \in SingleFile,
                    task'[d][u] \in {"copied", "removing"}
             PROVE  u \in delivered'
  BY DEF CopyStays
<1>1. CASE CopyDone(c, t)
  <2>1. task'[d][u] = IF d = c /\ u = t THEN "copied" ELSE task[d][u]
    BY <1>1, StepType DEF CopyDone, TaskPC
  <2>2. CASE d = c /\ u = t
    BY <1>1, <2>2 DEF CopyDone, Copied, TypeOK
  <2>3. CASE ~ (d = c /\ u = t)
    BY <1>1, <2>1, <2>3 DEF CopyDone, Copied, CopyStays
  <2> QED BY <2>2, <2>3
<1>2. CASE ReplaceExisting(c, t)
  <2>1. task'[d][u] = task[d][u] /\ task[c][t] = "transferring"
    BY <1>2 DEF ReplaceExisting, memory
  <2>2. u # t
    BY <2>1 DEF SingleTransfer, Owns, Registered
  <2> QED BY <1>2, <2>1, <2>2 DEF ReplaceExisting, CopyStays
<1>3. CASE FallBack(c, t)
  BY <1>3 DEF FallBack, Copied, CopyStays, memory
<1>4. CASE ~ (CopyDone(c, t) \/ ReplaceExisting(c, t) \/ FallBack(c, t))
  <2>1. UNCHANGED delivered
    BY <1>4 DEF TaskStep, Register, SkipDuplicate, Enter, NotWanted,
       TransferFails, BeginErase, Processed, DeleteSourceFails, LogFails,
       RemoveTorrent, RemoveFails, ReleaseLock, PopActive, data
  <2>2. CASE task[d][u] \in {"copied", "removing"}
    BY <2>1, <2>2 DEF CopyStays
  <2>3. CASE task[d][u] \notin {"copied", "removing"}
    <3>1. d = c /\ u = t /\ task[c][t] = "transferring"
      BY <2>3, TaskMoves DEF Stages
    <3>2. ~ TransferFails(c, t)
      BY <3>1, StepType DEF TransferFails, TaskPC
    <3> QED BY <1>4, <3>1, <3>2 DEF TaskStep, Register, SkipDuplicate, Enter,
       NotWanted, BeginErase, Processed, DeleteSourceFails, LogFails,
       RemoveTorrent, RemoveFails, ReleaseLock, PopActive, Step
  <2> QED BY <2>2, <2>3
<1> QED BY <1>1, <1>2, <1>3, <1>4

LEMMA SurvivesTask ==
    ASSUME TypeOK, CopyStays, PayloadSurvives,
           NEW c \in Cycles, NEW t \in Torrents, TaskStep(c, t)
    PROVE  PayloadSurvives'
BY FileTask
   DEF PayloadSurvives, Abstract!Deliver, Abstract!Replace, Abstract!Discard,
       files

LEMMA FilesCycle ==
    ASSUME TypeOK, TasksOfRun, CopyStays, PayloadSurvives,
           NEW c \in Cycles, CycleStep(c)
    PROVE  CopyStays' /\ PayloadSurvives'
<1>1. UNCHANGED data
  BY CycleMoves
<1>2. \A d \in Cycles, u \in Torrents :
        task'[d][u] \in {"copied", "removing"} => task'[d][u] = task[d][u]
  BY CycleMoves DEF Quiet
<1> QED BY <1>1, <1>2 DEF data, CopyStays, PayloadSurvives

-----------------------------------------------------------------------------
(* The invariant.                                                          *)

LEMMA InitInv == Init => IInv
<1> SUFFICES ASSUME Init PROVE IInv
  OBVIOUS
<1>1. \A c \in Cycles, t \in Torrents : task[c][t] = "none"
  BY DEF Init, MemoryInit, NoTasks
<1>2. \A c \in Cycles : cycle[c] = IdleCycle /\ task[c] = NoTasks
  BY DEF Init, MemoryInit
<1>3. TypeOK
  BY InitType
<1>4. TasksOfRun /\ TransferWanted /\ PollEligible
  BY <1>1, <1>2
     DEF TasksOfRun, TransferWanted, PollEligible, IdleCycle, Cycles
<1>5. RegistryExact /\ SingleTransfer
  BY <1>1 DEF RegistryExact, SingleTransfer, Owns, Registered, Init, MemoryInit
<1>6. LockNamesHolder /\ LocksHeld
  BY <1>1 DEF LockNamesHolder, LocksHeld, HoldsLock, Locked, Init, MemoryInit
<1>7. CopyStays /\ PayloadSurvives
  BY <1>1, SingleFileAssumption DEF CopyStays, PayloadSurvives, Init
<1> QED BY <1>3, <1>4, <1>5, <1>6, <1>7 DEF IInv

(* Edits and the end of the poll thread touch no task, lock or file.       *)
LEMMA StaysInv ==
    ASSUME IInv, TypeOK', UNCHANGED <<data, task, active, lock>>,
           \A c \in Cycles : \/ cycle'[c] = cycle[c]
                             \/ UNCHANGED Snapshot(c) /\ task[c] = NoTasks
    PROVE  IInv'
<1> USE DEF IInv
<1>1. \A c \in Cycles : UNCHANGED Snapshot(c)
  BY DEF Snapshot
<1>2. TasksOfRun'
  BY DEF TasksOfRun
<1>3. TransferWanted'
  BY <1>1, SnapshotKeeps DEF TransferWanted
<1>4. PollEligible'
  BY <1>1 DEF PollEligible, Snapshot, Cycles
<1>5. RegistryExact' /\ SingleTransfer'
  BY DEF RegistryExact, SingleTransfer, Owns
<1>6. \A d \in Cycles, u \in Torrents :
        /\ HoldsLock(d, u)' <=> HoldsLock(d, u)
        /\ RuleOf(d, u)' = RuleOf(d, u)
  BY <1>1, SnapshotKeeps DEF HoldsLock
<1>7. LockNamesHolder' /\ LocksHeld'
  BY <1>6, LockFrame
<1>8. CopyStays' /\ PayloadSurvives'
  BY DEF CopyStays, PayloadSurvives, data
<1> QED BY <1>2, <1>3, <1>4, <1>5, <1>7, <1>8

LEMMA RestartInv ==
    ASSUME IInv, TypeOK', Restart
    PROVE  IInv'
<1>1. \A c \in Cycles, t \in Torrents : task'[c][t] = "none"
  BY DEF Restart, NoTasks
<1>2. \A c \in Cycles : cycle'[c] = IdleCycle /\ task'[c] = NoTasks
  BY DEF Restart
<1>3. TasksOfRun' /\ TransferWanted' /\ PollEligible'
  BY <1>1, <1>2
     DEF TasksOfRun, TransferWanted, PollEligible, IdleCycle, Cycles
<1>4. RegistryExact' /\ SingleTransfer'
  BY <1>1 DEF RegistryExact, SingleTransfer, Owns, Registered, Restart
<1>5. LockNamesHolder' /\ LocksHeld'
  BY <1>1 DEF LockNamesHolder, LocksHeld, HoldsLock, Locked, Restart
<1>6. CopyStays' /\ PayloadSurvives'
  BY <1>1 DEF CopyStays, PayloadSurvives, Restart, data, IInv
<1> QED BY <1>3, <1>4, <1>5, <1>6 DEF IInv

LEMMA SurroundingsInv ==
    ASSUME IInv, Surroundings
    PROVE  IInv'
<1>1. TypeOK'
  BY SurroundingsType DEF IInv
<1>2. CASE \E r \in Rules, row \in RuleRows : UpdateRule(r, row)
  BY <1>1, <1>2, StaysInv DEF UpdateRule, data, memory
<1>3. CASE \E t \in Torrents : ChangeReady(t)
  BY <1>1, <1>3, StaysInv DEF ChangeReady, data, memory
<1>4. CASE PollDies
  <2>1. /\ \A c \in Cycles \ {Poll} : cycle'[c] = cycle[c]
        /\ UNCHANGED Snapshot(Poll)
    BY <1>4 DEF PollDies, IInv, TypeOK, CycleType, Snapshot, Cycles
  <2>2. task[Poll] = NoTasks
    BY <1>4 DEF PollDies, IInv, TasksOfRun, Cycles
  <2> QED BY <1>1, <1>4, <2>1, <2>2, StaysInv DEF PollDies, data
<1>5. CASE Restart
  BY <1>1, <1>5, RestartInv
<1> QED BY <1>2, <1>3, <1>4, <1>5 DEF Surroundings

LEMMA NextInv == IInv /\ [Next]_vars => IInv'
<1> SUFFICES ASSUME IInv, [Next]_vars PROVE IInv'
  OBVIOUS
<1>1. ASSUME NEW c \in Cycles, CycleStep(c) PROVE IInv'
  BY <1>1, CycleStepType, TasksCycle, RegistryCycle, LockCycle, FilesCycle
     DEF IInv
<1>2. ASSUME NEW c \in Cycles, NEW t \in Torrents, TaskStep(c, t) PROVE IInv'
  BY <1>2, TaskStepType, TasksTask, RegistryTask, LockTask, CopyStaysTask,
     SurvivesTask DEF IInv
<1>3. CASE Surroundings
  BY <1>3, SurroundingsInv
<1>4. CASE UNCHANGED vars
  BY <1>4, NextType, StaysInv DEF vars, world, data, memory, IInv
<1> QED BY <1>1, <1>2, <1>3, <1>4 DEF Next

(* The inductive invariant, from which the theorems below follow.          *)
THEOREM Invariance == Spec => []IInv
BY InitInv, NextInv, PTL DEF Spec

-----------------------------------------------------------------------------
(* What follows.                                                           *)

(* No torrent is transferred by two threads at once, whatever cycles of    *)
(* the poll and of the API overlap.                                        *)
THEOREM SingleTransferHolds == Spec => []SingleTransfer
BY Invariance, PTL DEF IInv

(* _active_transfers never keeps a key its task has left behind, and never *)
(* misses one.                                                             *)
THEOREM RegistryHolds == Spec => []RegistryExact
BY Invariance, PTL DEF IInv

(* Transfers under a rule that both cycles read as sequential never        *)
(* overlap: both would be the one the rule's lock names.                   *)
THEOREM SequentialRuleHolds == Spec => []SequentialRule
<1>1. IInv => SequentialRule
  BY DEF IInv, LockNamesHolder, SequentialRule
<1> QED BY <1>1, Invariance, PTL

(* A rule's lock is always held by a live task that is to release it.      *)
THEOREM LocksHeldHolds == Spec => []LocksHeld
BY Invariance, PTL DEF IInv

(* The poll never transfers by a rule that was manual when it read it.     *)
THEOREM ManualByHandOnlyHolds == Spec => []ManualByHandOnly
<1>1. IInv => ManualByHandOnly
  BY DEF IInv, TransferWanted, PollEligible, ManualByHandOnly, Wanted, Row,
         Cycles
<1> QED BY <1>1, Invariance, PTL

(* The first label of a torrent that has an enabled rule is the one it is  *)
(* transferred by, as its cycle has read the rules: the rows of a snapshot *)
(* stay enabled ones, however the table is edited meanwhile.               *)
EnabledRows ==
    \A c \in Cycles : \A r \in DOMAIN cycle[c].ltr : cycle[c].ltr[r].enabled

FirstLabelWins ==
    \A c \in Cycles, t \in Torrents :
        task[c][t] \in {"transferring", "copied", "removing"} =>
            /\ Row(c, t).enabled
            /\ \E i \in DOMAIN Labels[t] :
                  /\ Labels[t][i] = RuleOf(c, t)
                  /\ \A j \in DOMAIN Labels[t] :
                        j < i => Labels[t][j] \notin DOMAIN cycle[c].ltr

LEMMA RowsStayEnabled ==
    ASSUME TypeOK, EnabledRows, [Next]_vars
    PROVE  EnabledRows'
<1>1. IdleCycle.ltr = << >>
  BY DEF IdleCycle
<1>2. ASSUME NEW c \in Cycles, NEW target, NEW eligible,
             Begin(c, target, eligible)
      PROVE  EnabledRows'
  <2>1. cycle'[c].ltr = LabelToRule
        /\ \A d \in Cycles \ {c} : cycle'[d] = cycle[d]
    BY <1>2 DEF Begin, TypeOK, IdleCycle
  <2>2. \A r \in DOMAIN LabelToRule : LabelToRule[r].enabled
    BY DEF LabelToRule
  <2> QED BY <2>1, <2>2 DEF EnabledRows
<1>3. ASSUME NEW c \in Cycles, FetchTorrents(c) PROVE EnabledRows'
  <2>1. \A d \in Cycles : cycle'[d].ltr = cycle[d].ltr
    BY <1>3 DEF FetchTorrents, TypeOK, CycleType
  <2> QED BY <2>1 DEF EnabledRows
<1>4. ASSUME NEW c \in Cycles, FetchFails(c) \/ EndCycle(c)
      PROVE  EnabledRows'
  <2>1. cycle'[c] = IdleCycle /\ \A d \in Cycles \ {c} : cycle'[d] = cycle[d]
    BY <1>4 DEF FetchFails, EndCycle, TypeOK
  <2> QED BY <1>1, <2>1 DEF EnabledRows
<1>5. ASSUME NEW c \in Cycles, NEW t \in Torrents, TaskStep(c, t)
      PROVE  EnabledRows'
  BY <1>5, TaskKeepsSnapshots DEF EnabledRows, Snapshot
<1>6. CASE Surroundings
  <2>1. CASE Restart
    BY <1>1, <2>1 DEF Restart, EnabledRows
  <2>2. CASE ~Restart
    <3>1. \A d \in Cycles : cycle'[d].ltr = cycle[d].ltr
      BY <1>6, <2>2 DEF Surroundings, UpdateRule, ChangeReady, PollDies,
                        memory, TypeOK, CycleType
    <3> QED BY <3>1 DEF EnabledRows
  <2> QED BY <2>1, <2>2
<1>7. CASE UNCHANGED vars
  BY <1>7 DEF vars, memory, EnabledRows
<1>8. ASSUME NEW c \in Cycles, CycleStep(c) PROVE EnabledRows'
  BY <1>2, <1>3, <1>4, <1>8
     DEF CycleStep, PollBegin, RunOnce, RunTorrentNow, Cycles
<1> QED BY <1>5, <1>6, <1>7, <1>8 DEF Next

(* "The first label matching an enabled rule wins" (README.md:83), for any *)
(* labels, rules, edits and threads.                                       *)
THEOREM FirstLabelWinsHolds == Spec => []FirstLabelWins
<1>1. Init => EnabledRows
  BY DEF Init, MemoryInit, IdleCycle, EnabledRows
<1>2. IInv /\ EnabledRows /\ [Next]_vars => EnabledRows'
  BY RowsStayEnabled DEF IInv
<1>3. ASSUME IInv, EnabledRows PROVE FirstLabelWins
  <2> SUFFICES ASSUME NEW c \in Cycles, NEW t \in Torrents,
                      task[c][t] \in {"transferring", "copied", "removing"}
               PROVE  /\ Row(c, t).enabled
                      /\ \E i \in DOMAIN Labels[t] :
                            /\ Labels[t][i] = RuleOf(c, t)
                            /\ \A j \in DOMAIN Labels[t] :
                                  j < i => Labels[t][j]
                                               \notin DOMAIN cycle[c].ltr
    BY DEF FirstLabelWins
  <2>1. RuleOf(c, t) \in cycle[c].eligible /\ cycle[c].eligible \subseteq Rules
    BY <1>3 DEF IInv, TransferWanted, Wanted, TypeOK, CycleType
  <2>2. RuleOf(c, t) # NoRule
    BY <2>1, NamesAssumption
  <2>3. RuleOf(c, t) \in DOMAIN cycle[c].ltr
    BY <2>2, MatchedRuleInDict DEF RuleOf
  <2>4. Row(c, t).enabled
    BY <1>3, <2>3 DEF EnabledRows, Row
  <2> QED BY <2>2, <2>4, MatchedRuleIsFirst DEF RuleOf
<1> QED BY <1>1, <1>2, <1>3, Invariance, PTL DEF Spec

(* No single file is ever lost, with any number of cycles, stale torrent   *)
(* lists and rules, and restarts at any point.                             *)
THEOREM PayloadSurvivesHolds == Spec => []PayloadSurvives
BY Invariance, PTL DEF IInv

LEMMA FileStep ==
    ASSUME IInv, [Next]_vars
    PROVE  /\ [Abstract!Next]_(Abstract!vars)
           /\ (listed \ listed') \cap SingleFile \subseteq delivered
<1>1. ASSUME NEW c \in Cycles, CycleStep(c)
      PROVE  UNCHANGED <<data, listed>>
  BY <1>1, CycleMoves DEF IInv
<1>2. ASSUME NEW c \in Cycles, NEW t \in Torrents, TaskStep(c, t)
      PROVE  /\ UNCHANGED files \/ Abstract!Next
             /\ (listed \ listed') \cap SingleFile \subseteq delivered
  BY <1>2, FileTask DEF IInv, Abstract!Next
<1>3. CASE Surroundings
  BY <1>3 DEF Surroundings, UpdateRule, ChangeReady, PollDies, Restart, data,
              world, Abstract!vars
<1>4. CASE UNCHANGED vars
  BY <1>4 DEF vars, world, data, Abstract!vars
<1> QED BY <1>1, <1>2, <1>3, <1>4 DEF Next, data, files, Abstract!vars

(* A single file's torrent is removed only while its copy is complete.     *)
THEOREM RemovalFollowsDeliveryHolds == Spec => RemovalFollowsDelivery
<1>1. IInv /\ [Next]_vars
        => [(listed \ listed') \cap SingleFile \subseteq delivered]_vars
  BY FileStep
<1> QED BY <1>1, Invariance, PTL DEF Spec, RemovalFollowsDelivery

(* Tasks, locks, cycles and restarts together do to single files only what *)
(* Payload allows.                                                         *)
THEOREM Refinement == Spec => ImplementsPayload
<1>1. Init => Abstract!Init
  BY SingleFileAssumption DEF Init, Abstract!Init
<1>2. IInv /\ [Next]_vars => [Abstract!Next]_(Abstract!vars)
  BY FileStep
<1> QED BY <1>1, <1>2, Invariance, PTL
       DEF Spec, ImplementsPayload, Abstract!Spec
=============================================================================
