---------------------------- MODULE TransferProofs ----------------------------
(***************************************************************************)
(* Proofs about Transfer, for any payloads, plans, suffixes, shell methods *)
(* and crashes, and any number of transfers that overlap.                  *)
(***************************************************************************)
EXTENDS Transfer, TLAPS

Contents == [AllFiles -> Transfers \cup {Hole}]

LEMMA PlanFields ==
    ASSUME TypeOK, NEW t \in Transfers
    PROVE  /\ plan[t].files \in (SUBSET AllFiles) \ {{}}
           /\ Len(plan[t].shells) \in 0 .. 2
           /\ plan[t].route # "remote" => Len(plan[t].shells) = 0
<1>1. /\ plan[t] \in PlanType
      /\ plan[t].route # "remote" => plan[t].shells = <<>>
  BY PlansAssumption DEF TypeOK
<1>2. /\ plan[t].shells \in ShellOrders
      /\ plan[t].files \in (SUBSET AllFiles) \ {{}}
  BY <1>1 DEF PlanType
<1>3. Len(plan[t].shells) \in 0 .. 2
  BY <1>2 DEF ShellOrders
<1> QED BY <1>1, <1>2, <1>3

LEMMA Trees ==
    ASSUME NEW p \in Paths
    PROVE  /\ p # NoPath /\ Inside(p) \in Paths
           /\ SameTree(p, p) /\ SameTree(p, Inside(p))
           /\ Inside(p)[1] = p[1] /\ Inside(p)[2] = p[2]
BY ValuesAssumption DEF Paths, Inside, SameTree

LEMMA EmptyIs == Empty \in Contents /\ \A f \in AllFiles : Empty[f] = Hole
BY DEF Empty, Contents

LEMMA ContentIs ==
    ASSUME TypeOK, NEW p \in Paths
    PROVE  /\ Content(p) \in Contents
           /\ dest[p] # Absent => Content(p) = dest[p]
           /\ dest[p] = Absent => \A f \in AllFiles : Content(p)[f] = Hole
BY EmptyIs DEF TypeOK, Content, Contents

-----------------------------------------------------------------------------
(* A step of one try leaves the others' locals.                            *)
Only(t, q) == /\ run' \in [Transfers -> RunType]
              /\ run'[t] = q
              /\ \A u \in Transfers \ {t} : run'[u] = run[u]

LEMMA SetsRun ==
    ASSUME TypeOK, NEW t \in Transfers, NEW q \in RunType,
           run' = [run EXCEPT ![t] = q]
    PROVE  Only(t, q)
BY DEF TypeOK, Only

Quiet(q) == /\ q.pc \in {"idle", "start"} /\ q.target = NoPath
            /\ q.written = {}

LEMMA IdleIs == /\ Idle \in RunType /\ Quiet(Idle)
                /\ Idle.pc = "idle" /\ Idle.touched = FALSE
BY DEF Idle, RunType, Quiet

LEMMA EndDoes ==
    ASSUME TypeOK, NEW t \in Transfers, NEW outcome \in Results,
           End(t, outcome)
    PROVE  /\ Only(t, Idle)
           /\ result' \in [Transfers -> Results] /\ result'[t] = outcome
BY SetsRun, IdleIs DEF End, TypeOK

LEMMA RaiseDoes ==
    ASSUME TypeOK, NEW t \in Transfers, NEW outcome \in Results,
           Raise(t, outcome)
    PROVE  /\ Only(t, run'[t]) /\ Quiet(run'[t])
           /\ result' \in [Transfers -> Results]
           /\ ~Remote(t) => ~run'[t].touched
           /\ run'[t].pc = "idle" => result'[t] = outcome
<1>1. CASE run[t].attempt < Len(plan[t].shells)
  <2> DEFINE n == run[t].attempt + 1
             b == run[t].touched
             q == [Idle EXCEPT !.pc = "start", !.attempt = n, !.touched = b]
  <2>0. run[t].attempt \in 0 .. 2 /\ run[t].touched \in BOOLEAN
    BY DEF TypeOK, RunType
  <2>1. n \in 0 .. 2 /\ b \in BOOLEAN
    <3>1. ASSUME NEW a \in 0 .. 2, NEW l \in 0 .. 2, a < l
          PROVE  a + 1 \in 0 .. 2
      BY <3>1
    <3>2. n \in 0 .. 2
      BY <1>1, <2>0, <3>1, PlanFields
    <3> QED BY <2>0, <3>2
  <2>2. run' = [run EXCEPT ![t] = q] /\ result' = result
    BY <1>1 DEF Raise
  <2> HIDE DEF n, b
  <2>3. q \in RunType /\ Quiet(q) /\ q.pc # "idle"
    BY <2>1 DEF Idle, RunType, Quiet
  <2>5. Remote(t)
    BY <1>1, <2>0, PlanFields DEF Remote
  <2> HIDE DEF q
  <2>4. Only(t, q)
    BY <2>2, <2>3, SetsRun
  <2> QED BY <2>2, <2>3, <2>4, <2>5 DEF Only, TypeOK
<1>2. CASE ~(run[t].attempt < Len(plan[t].shells))
  BY <1>2, EndDoes, IdleIs DEF Raise, Only
<1> QED BY <1>1, <1>2

PcType == {"idle", "start", "space", "probe", "clear", "move", "rename",
           "write", "delete"}

LEMMA GotoDoes ==
    ASSUME TypeOK, NEW t \in Transfers, NEW pc \in PcType, Goto(t, pc)
    PROVE  /\ Only(t, run'[t])
           /\ run'[t].pc = pc /\ run'[t].target = run[t].target
           /\ run'[t].written = run[t].written
           /\ run'[t].had = run[t].had /\ run'[t].touched = run[t].touched
<1> DEFINE q == [run[t] EXCEPT !.pc = pc]
<1>1. q \in RunType /\ q.pc = pc /\ q.target = run[t].target
      /\ q.written = run[t].written /\ q.had = run[t].had
      /\ q.touched = run[t].touched
  BY DEF TypeOK, RunType, PcType
<1>2. run' = [run EXCEPT ![t] = q]
  BY DEF Goto, TypeOK
<1> HIDE DEF q
<1> QED BY <1>1, <1>2, SetsRun DEF Only

LEMMA UseTargetDoes ==
    ASSUME TypeOK, NEW t \in Transfers, NEW path \in Paths,
           NEW pc \in PcType, UseTarget(t, path, pc)
    PROVE  /\ Only(t, run'[t])
           /\ run'[t].pc = pc /\ run'[t].target = path
           /\ run'[t].written = run[t].written
           /\ run'[t].had = run[t].had /\ run'[t].touched = run[t].touched
           /\ shared' \in BOOLEAN /\ (shared => shared')
           /\ ~shared' => \A u \in Transfers \ {t} :
                             ~SameTree(run[u].target, path)
           /\ result' = result
<1> DEFINE q == [run[t] EXCEPT !.pc = pc, !.target = path]
<1>1. q \in RunType /\ q.pc = pc /\ q.target = path
      /\ q.written = run[t].written /\ q.had = run[t].had
      /\ q.touched = run[t].touched
  BY DEF TypeOK, RunType, PcType
<1>2. run' = [run EXCEPT ![t] = q]
  BY DEF UseTarget, TypeOK
<1> HIDE DEF q
<1>3. Only(t, q)
  BY <1>1, <1>2, SetsRun
<1> QED BY <1>1, <1>3 DEF Only, UseTarget, TypeOK

LEMMA EnterDoes ==
    ASSUME TypeOK, NEW t \in Transfers, run[t].target \in Paths, Enter(t)
    PROVE  /\ Only(t, run'[t])
           /\ run'[t].pc = IF ByRename(t) THEN "rename" ELSE "write"
           /\ run'[t].target = Landing(t)
           /\ run'[t].target \in {run[t].target, Inside(run[t].target)}
           /\ run'[t].target \in Paths /\ run'[t].target # NoPath
           /\ run'[t].written = run[t].written
           /\ run'[t].had = run[t].had /\ run'[t].touched = run[t].touched
<1> DEFINE path == Landing(t)
           pc == IF ByRename(t) THEN "rename" ELSE "write"
           q == [run[t] EXCEPT !.target = path, !.pc = pc]
<1>1. path \in {run[t].target, Inside(run[t].target)}
  BY DEF Landing
<1>2. path \in Paths /\ path # NoPath /\ pc \in {"rename", "write"}
  BY <1>1, Trees
<1>3. run' = [run EXCEPT ![t] = q]
  BY DEF Enter, TypeOK
<1> HIDE DEF path, pc
<1>4. q \in RunType /\ q.pc = pc /\ q.target = path
      /\ q.written = run[t].written /\ q.had = run[t].had
      /\ q.touched = run[t].touched
  BY <1>2 DEF TypeOK, RunType
<1> HIDE DEF q
<1>5. Only(t, q)
  BY <1>3, <1>4, SetsRun
<1> QED BY <1>1, <1>2, <1>4, <1>5 DEF Only, path, pc

-----------------------------------------------------------------------------
(* A target is chosen before anything is done there, and under the name of *)
(* the torrent.                                                            *)
Aims(t) ==
    /\ run[t].target # NoPath => run[t].target[1] = Name[t]
    /\ run[t].pc \in {"clear", "move", "rename", "write", "delete"} =>
           run[t].target # NoPath
    /\ run[t].pc \in {"idle", "start", "probe"} => run[t].target = NoPath
    /\ run[t].pc = "space" => (run[t].target # NoPath <=> SpaceLast(t))
    /\ run[t].pc = "clear" => plan[t].policy = "overwrite"

(* What a try has written, it has found, and nothing is deleted before.    *)
Writes(t) ==
    /\ run[t].pc \notin {"write", "delete"} => run[t].written = {}
    /\ run[t].pc = "move" => ByMove(t)
    /\ run[t].pc = "rename" => ByRename(t)
    /\ ByRename(t) => run[t].pc \notin {"write", "delete"}
    /\ run[t].pc = "delete" => run[t].had \subseteq run[t].written
    /\ run[t].pc \in {"idle", "start", "space", "probe"} /\ ~Remote(t) =>
           ~run[t].touched

(* A source is complete until it is deleted, which only a try that has     *)
(* copied what it found does, and only that of a directory moved file by   *)
(* file is ever deleted in part.                                           *)
Splits(t) == IsDirectory(t) /\ plan[t].mode = "move" /\ ~ByRename(t)

Sources(t) ==
    /\ src[t] = Gone \/ src[t] \subseteq plan[t].files
    /\ src[t] = Gone \/ src[t] = plan[t].files \/ Splits(t)
    /\ run[t].pc \notin {"idle", "start"} => src[t] # Gone
    /\ run[t].pc \in {"space", "probe", "clear", "move", "rename"} =>
           src[t] = run[t].had
    /\ run[t].pc \in {"write", "delete"} =>
           src[t] \subseteq run[t].had \cup omitted[t]
    /\ run[t].pc = "write" => run[t].had \subseteq src[t]
    /\ run[t].pc = "delete" => plan[t].mode = "move"
    /\ IsDirectory(t) \/ omitted[t] = {}

Locals(t) == Aims(t) /\ Writes(t) /\ Sources(t)

(* What one try's step leaves of the others' locals and sources.           *)
Own(t) == /\ plan' = plan
          /\ Only(t, run'[t])
          /\ src' \in [Transfers -> (SUBSET AllFiles) \cup {Gone}]
          /\ \A u \in Transfers \ {t} : src'[u] = src[u]
          /\ omitted' \in [Transfers -> SUBSET AllFiles]
          /\ \A u \in Transfers \ {t} : omitted'[u] = omitted[u]
          /\ omitted[t] \subseteq omitted'[t]

(* What a plan says of a transfer does not change.                         *)
LEMMA Static ==
    ASSUME NEW t \in Transfers, plan' = plan
    PROVE  /\ IsDirectory(t)' <=> IsDirectory(t)
           /\ Remote(t)' <=> Remote(t)
           /\ SpaceLast(t)' <=> SpaceLast(t)
           /\ ByMove(t)' <=> ByMove(t)
           /\ ByRename(t)' <=> ByRename(t)
           /\ Splits(t)' <=> Splits(t)
           /\ Blind(t)' <=> Blind(t)
           /\ MayOverwrite(t)' <=> MayOverwrite(t)
           /\ Replaces(t)' <=> Replaces(t)
BY DEF IsDirectory, Remote, SpaceLast, ByMove, ByRename, Splits, Blind,
       MayOverwrite, Replaces

LEMMA QuietLocals ==
    ASSUME TypeOK, NEW t \in Transfers, Locals(t), plan' = plan,
           Quiet(run'[t]), src'[t] = src[t], omitted'[t] = omitted[t],
           ~Remote(t) => ~run'[t].touched
    PROVE  Locals(t)'
BY Static DEF Locals, Aims, Writes, Sources, Quiet

(* A step that fails leaves locals as good as those of a try not begun.    *)
LEMMA RaiseLocals ==
    ASSUME TypeOK, NEW t \in Transfers, Locals(t), NEW outcome \in Results,
           Raise(t, outcome), UNCHANGED <<plan, src, omitted>>
    PROVE  Own(t) /\ Locals(t)' /\ result' \in [Transfers -> Results]
BY RaiseDoes, QuietLocals DEF Own, TypeOK

LEMMA EndLocals ==
    ASSUME TypeOK, NEW t \in Transfers, Locals(t), NEW outcome \in Results,
           End(t, outcome), UNCHANGED <<plan, src, omitted>>
    PROVE  Own(t) /\ Locals(t)' /\ result' \in [Transfers -> Results]
BY EndDoes, IdleIs, QuietLocals DEF Own, TypeOK, Only

LEMMA BeginLocals ==
    ASSUME TypeOK, NEW t \in Transfers, Locals(t), Begin(t)
    PROVE  Own(t) /\ Locals(t)' /\ TypeOK'
<1>1. /\ Only(t, run'[t]) /\ run'[t].pc = "start"
      /\ run'[t].target = run[t].target /\ run'[t].written = run[t].written
      /\ run'[t].touched = run[t].touched
  BY GotoDoes DEF Begin, PcType
<1>2. /\ result' \in [Transfers -> Results] /\ run[t].pc = "idle"
      /\ UNCHANGED <<plan, src, dest, omitted, crashes, shared>>
  BY DEF Begin, TypeOK, Results
<1>3. Own(t) /\ TypeOK'
  BY <1>1, <1>2 DEF Own, TypeOK, Only
<1>4. Locals(t)'
  BY <1>1, <1>2, Static DEF Locals, Aims, Writes, Sources
<1> QED BY <1>3, <1>4

LEMMA StartLocals ==
    ASSUME TypeOK, NEW t \in Transfers, Locals(t), Start(t)
    PROVE  Own(t) /\ Locals(t)' /\ TypeOK'
<1>1. CASE src[t] = Gone
  <2>1. Raise(t, "missing")
        /\ UNCHANGED <<plan, src, dest, omitted, crashes, shared>>
    BY <1>1 DEF Start
  <2>2. Own(t) /\ Locals(t)' /\ result' \in [Transfers -> Results]
    BY <2>1, RaiseLocals DEF Results
  <2> QED BY <2>1, <2>2 DEF TypeOK, Own, Only
<1>2. CASE src[t] # Gone
  <2> DEFINE pc == IF SpaceLast(t) \/ ByMove(t) THEN "probe" ELSE "space"
             files == src[t]
             q == [run[t] EXCEPT !.had = files, !.pc = pc]
  <2>1. pc \in {"probe", "space"} /\ files \in SUBSET AllFiles
        /\ (pc = "space" => ~SpaceLast(t))
    BY <1>2 DEF TypeOK
  <2>2. run' = [run EXCEPT ![t] = q] /\ UNCHANGED <<plan, src, result>>
        /\ UNCHANGED <<dest, omitted, crashes, shared>>
    BY <1>2 DEF Start, TypeOK
  <2>3. run[t] \in RunType /\ run[t].pc = "start"
    BY DEF TypeOK, Start
  <2> HIDE DEF pc
  <2>4. /\ q \in RunType /\ q.pc = pc /\ q.had = files
        /\ q.target = run[t].target /\ q.written = run[t].written
        /\ q.touched = run[t].touched
    BY <2>1, <2>3 DEF RunType
  <2> HIDE DEF q
  <2>5. Only(t, q)
    BY <2>2, <2>4, SetsRun
  <2>6. Own(t) /\ TypeOK'
    BY <2>2, <2>5 DEF Own, Only, TypeOK
  <2>7. Locals(t)'
    BY <1>2, <2>1, <2>2, <2>3, <2>4, <2>5, Static
    DEF Only, Locals, Aims, Writes, Sources
  <2> QED BY <2>6, <2>7
<1> QED BY <1>1, <1>2

(* A method is begun at the target it was given, or inside it.             *)
Enters(t) ==
    /\ Enter(t) /\ run[t].pc \in {"space", "move"}
    /\ run[t].pc = "space" => SpaceLast(t)
    /\ UNCHANGED <<plan, src, dest, result, omitted, crashes, shared>>

LEMMA EntersIs ==
    ASSUME NEW t \in Transfers
    PROVE  /\ SpaceFound(t) => \/ Enters(t)
                               \/ Goto(t, "probe") /\ ~SpaceLast(t)
           /\ ShutilMove(t) => Enters(t)
BY DEF SpaceFound, ShutilMove, Enters

LEMMA EntersLocals ==
    ASSUME TypeOK, NEW t \in Transfers, Locals(t), Enters(t)
    PROVE  /\ Own(t) /\ Locals(t)' /\ TypeOK'
           /\ run[t].target \in Paths /\ run'[t].target = Landing(t)
           /\ run'[t].target \in {run[t].target, Inside(run[t].target)}
           /\ run[t].written = {} /\ run'[t].written = {}
           /\ run'[t].pc \in {"rename", "write"}
<1>1. /\ run[t].target \in Paths /\ run[t].target[1] = Name[t]
      /\ run[t].written = {}
  BY DEF Enters, Locals, Aims, Writes, TypeOK, RunType
<1>2. /\ Only(t, run'[t])
      /\ run'[t].pc = IF ByRename(t) THEN "rename" ELSE "write"
      /\ run'[t].target = Landing(t)
      /\ run'[t].target \in {run[t].target, Inside(run[t].target)}
      /\ run'[t].target # NoPath
      /\ run'[t].written = run[t].written
      /\ run'[t].had = run[t].had /\ run'[t].touched = run[t].touched
  BY <1>1, EnterDoes DEF Enters
<1>3. Own(t) /\ TypeOK'
  BY <1>2 DEF Own, Enters, TypeOK, Only
<1>4. run'[t].target[1] = Name[t]
  BY <1>1, <1>2, Trees
<1>5. Locals(t)'
  BY <1>1, <1>2, <1>4, Static DEF Enters, Locals, Aims, Writes, Sources
<1> QED BY <1>1, <1>2, <1>3, <1>5

LEMMA SpaceLocals ==
    ASSUME TypeOK, NEW t \in Transfers, Locals(t), SpaceFound(t)
    PROVE  Own(t) /\ Locals(t)' /\ TypeOK'
<1>1. CASE Goto(t, "probe") /\ ~SpaceLast(t)
  <2>1. /\ Only(t, run'[t]) /\ run'[t].pc = "probe"
        /\ run'[t].target = run[t].target /\ run'[t].written = run[t].written
        /\ run'[t].had = run[t].had /\ run'[t].touched = run[t].touched
    BY <1>1, GotoDoes DEF PcType
  <2>2. Own(t) /\ TypeOK'
    BY <2>1 DEF Own, SpaceFound, TypeOK, Only
  <2>3. Locals(t)'
    BY <1>1, <2>1, Static DEF SpaceFound, Locals, Aims, Writes, Sources
  <2> QED BY <2>2, <2>3
<1> QED BY <1>1, EntersIs, EntersLocals

LEMMA NoSpaceLocals ==
    ASSUME TypeOK, NEW t \in Transfers, Locals(t), NoSpace(t)
    PROVE  Own(t) /\ Locals(t)' /\ TypeOK'
BY RaiseLocals DEF NoSpace, Results, Own, Only, TypeOK

LEMMA FailsLocals ==
    ASSUME TypeOK, NEW t \in Transfers, Locals(t), StepFails(t)
    PROVE  Own(t) /\ Locals(t)' /\ TypeOK'
BY RaiseLocals DEF StepFails, Results, Own, Only, TypeOK

-----------------------------------------------------------------------------
(* A target is free when it is taken, or policy overwrite has it cleared.  *)
Takes(t) ==
    \E path \in Paths, pc \in PcType :
        /\ UseTarget(t, path, pc)
        /\ pc \in {"write", "space", "move", "clear"}
        /\ path[1] = Name[t]
        /\ pc = "clear" => plan[t].policy = "overwrite"
        /\ pc = "space" => SpaceLast(t)
        /\ pc = "move" => ByMove(t)
        /\ pc = "write" => ~ByMove(t)
        /\ MayOverwrite(t) \/ dest[path] = Absent

LEMMA PathsOf ==
    ASSUME NEW t \in Transfers, NEW n \in 0 .. MaxSuffix
    PROVE  <<Name[t], n, 0>> \in Paths /\ <<Name[t], n, 0>>[1] = Name[t]
BY DEF Paths

LEMMA AfterTargetIs ==
    ASSUME NEW t \in Transfers
    PROVE  /\ AfterTarget(t) \in {"write", "space", "move"}
           /\ AfterTarget(t) \in PcType /\ AfterTarget(t) # "clear"
           /\ AfterTarget(t) = "space" => SpaceLast(t)
           /\ AfterTarget(t) = "move" => ByMove(t)
           /\ AfterTarget(t) = "write" => ~ByMove(t)
BY DEF AfterTarget, PcType

LEMMA ProbeDoes ==
    ASSUME TypeOK, NEW t \in Transfers, Probe(t)
    PROVE  \/ Takes(t)
           \/ Raise(t, "error") /\ UNCHANGED shared
           \/ End(t, "skipped") /\ UNCHANGED shared
<1> DEFINE p == <<Name[t], 0, 0>>
           pc == AfterTarget(t)
<1>1. p \in Paths /\ p[1] = Name[t]
  BY TransferBounds, PathsOf
<1>2. /\ pc \in PcType /\ pc \in {"write", "space", "move", "clear"}
      /\ pc # "clear" /\ (pc = "space" => SpaceLast(t))
      /\ (pc = "move" => ByMove(t)) /\ (pc = "write" => ~ByMove(t))
  BY AfterTargetIs
<1>3. CASE Unseen(t) /\ UseTarget(t, p, pc)
  <2>1. MayOverwrite(t) \/ dest[p] = Absent
    BY <1>3 DEF Unseen, Seen, MayOverwrite
  <2> HIDE DEF p, pc
  <2> QED BY <1>1, <1>2, <1>3, <2>1 DEF Takes
<1>4. CASE Seen(t) /\ plan[t].policy = "overwrite" /\ UseTarget(t, p, "clear")
  <2> HIDE DEF p
  <2> DEFINE clear == "clear"
  <2>1. /\ clear \in PcType /\ clear \in {"write", "space", "move", "clear"}
        /\ clear \notin {"write", "space", "move"} /\ UseTarget(t, p, clear)
    BY <1>4 DEF PcType
  <2> HIDE DEF clear
  <2> QED BY <1>1, <1>4, <2>1 DEF Takes, MayOverwrite
<1>5. CASE Seen(t) /\ plan[t].policy = "rename" /\ TakeFreeSuffix(t)
  <2>1. CASE \E n \in MayTake(t) : UseTarget(t, <<Name[t], n, 0>>, pc)
    <3>1. PICK n \in MayTake(t) : UseTarget(t, <<Name[t], n, 0>>, pc)
      BY <2>1
    <3> DEFINE q == <<Name[t], n, 0>>
    <3>2. n \in 0 .. MaxSuffix /\ (MayOverwrite(t) \/ dest[q] = Absent)
      BY TransferBounds DEF MayTake, FreeSuffixes, MayOverwrite
    <3>3. q \in Paths /\ q[1] = Name[t] /\ UseTarget(t, q, pc)
      BY <3>1, <3>2, PathsOf
    <3> HIDE DEF q, pc
    <3> QED BY <1>2, <3>2, <3>3 DEF Takes
  <2>2. CASE Raise(t, "error") /\ UNCHANGED shared
    BY <2>2
  <2> QED BY <1>5, <2>1, <2>2 DEF TakeFreeSuffix
<1>6. CASE End(t, "skipped") /\ UNCHANGED shared
  BY <1>6
<1> QED BY <1>3, <1>4, <1>5, <1>6 DEF Probe

LEMMA ProbeLocals ==
    ASSUME TypeOK, NEW t \in Transfers, Locals(t), Probe(t)
    PROVE  Own(t) /\ Locals(t)' /\ TypeOK'
<1>1. run[t].pc = "probe" /\ UNCHANGED <<plan, src, dest, omitted, crashes>>
  BY DEF Probe
<1>2. CASE Takes(t)
  <2>1. PICK path \in Paths, pc \in PcType :
            /\ UseTarget(t, path, pc)
            /\ pc \in {"write", "space", "move", "clear"}
            /\ path[1] = Name[t]
            /\ pc = "clear" => plan[t].policy = "overwrite"
            /\ pc = "space" => SpaceLast(t)
            /\ pc = "move" => ByMove(t)
            /\ pc = "write" => ~ByMove(t)
    BY <1>2 DEF Takes
  <2>2. path # NoPath /\ UseTarget(t, path, pc)
    BY <2>1, ValuesAssumption
  <2>3. /\ Only(t, run'[t]) /\ run'[t].pc = pc /\ run'[t].target = path
        /\ run'[t].written = run[t].written /\ run'[t].had = run[t].had
        /\ run'[t].touched = run[t].touched
        /\ shared' \in BOOLEAN /\ result' = result
    BY <2>2, UseTargetDoes
  <2>4. Own(t) /\ TypeOK'
    BY <1>1, <2>3 DEF Own, Only, TypeOK
  <2>5. Aims(t)'
    BY <1>1, <2>1, <2>2, <2>3, Static DEF Aims
  <2>6. ~ByMove(t) => ~ByRename(t)
    BY DEF ByRename
  <2>7. SpaceLast(t) => Remote(t)
    BY DEF SpaceLast
  <2>8. Writes(t)'
    BY <1>1, <2>1, <2>3, <2>6, <2>7, Static DEF Locals, Writes
  <2>9. Sources(t)'
    BY <1>1, <2>1, <2>2, <2>3, Static DEF Locals, Sources
  <2> QED BY <2>4, <2>5, <2>8, <2>9 DEF Locals
<1>3. CASE Raise(t, "error") /\ UNCHANGED shared
  BY <1>1, <1>3, RaiseLocals DEF Results, Own, Only, TypeOK
<1>4. CASE End(t, "skipped") /\ UNCHANGED shared
  BY <1>1, <1>4, EndLocals DEF Results, Own, Only, TypeOK
<1> QED BY <1>2, <1>3, <1>4, ProbeDoes

-----------------------------------------------------------------------------
(* Policy overwrite has what is at the target taken away, the whole tree.  *)
Clears(t) ==
    /\ run[t].pc = "clear" /\ plan[t].policy = "overwrite"
    /\ run'[t].target = run[t].target /\ run'[t].written = {}
    /\ \A q \in Paths :
          dest'[q] = dest[q] \/
          /\ SameTree(run[t].target, q)
          /\ \/ dest'[q] = Absent
             \/ /\ dest[q] # Absent /\ dest'[q] \in Contents
                /\ \A f \in AllFiles : dest'[q][f] \in {Hole, dest[q][f]}

(* The other steps that change the destination do so at their target only. *)
Lands(t, x) ==
    /\ run[t].pc \in {"write", "rename"}
    /\ x \in Contents
    /\ dest' = [dest EXCEPT ![run[t].target] = x]

DestType == dest' \in [Paths -> [AllFiles -> Transfers \cup {Hole}]
                                    \cup {Absent}]

LEMMA LandsIs ==
    ASSUME TypeOK, NEW t \in Transfers, Locals(t),
           run[t].pc \in {"clear", "move", "rename", "write", "delete"}
    PROVE  /\ run[t].target \in Paths /\ run[t].target # NoPath
           /\ run[t].target[1] = Name[t]
           /\ src[t] # Gone
BY DEF TypeOK, RunType, Locals, Aims, Sources

LEMMA LandsType ==
    ASSUME TypeOK, NEW t \in Transfers, NEW x, Lands(t, x)
    PROVE  DestType
BY DEF Lands, TypeOK, Contents, DestType

(* Steps that change the locals but for what the others are told of.       *)
LEMMA TouchLocals ==
    ASSUME TypeOK, NEW t \in Transfers, Locals(t), NEW w \in SUBSET AllFiles,
           NEW h \in SUBSET AllFiles, NEW b \in BOOLEAN,
           run' = [run EXCEPT ![t] =
                      [run[t] EXCEPT !.had = h, !.written = w, !.touched = b]],
           \/ run[t].pc = "clear" /\ w = {} /\ h = run[t].had
           \/ run[t].pc = "write" /\ h \subseteq run[t].had,
           UNCHANGED <<plan, src, result, crashes, shared>>, DestType,
           omitted' \in [Transfers -> SUBSET AllFiles],
           omitted[t] \subseteq omitted'[t],
           run[t].had \subseteq h \cup omitted'[t],
           \A u \in Transfers \ {t} : omitted'[u] = omitted[u],
           IsDirectory(t) \/ omitted'[t] = {}
    PROVE  /\ Own(t) /\ Locals(t)' /\ TypeOK'
           /\ run'[t].pc = run[t].pc /\ run'[t].target = run[t].target
           /\ run'[t].written = w /\ run'[t].had = h
<1> DEFINE q == [run[t] EXCEPT !.had = h, !.written = w, !.touched = b]
<1>1. q \in RunType /\ q.pc = run[t].pc /\ q.target = run[t].target
      /\ q.had = h /\ q.written = w
  BY DEF TypeOK, RunType
<1>0. run' = [run EXCEPT ![t] = q]
  OBVIOUS
<1> HIDE DEF q
<1>2. Only(t, q)
  BY <1>0, <1>1, SetsRun
<1>3. Own(t) /\ TypeOK'
  BY <1>2 DEF Own, Only, TypeOK, DestType
<1>4. Aims(t)' /\ Writes(t)'
  BY <1>1, <1>2, Static DEF Only, Locals, Aims, Writes
<1>5. Sources(t)'
  BY <1>1, <1>2, Static DEF Only, Locals, Sources
<1> QED BY <1>1, <1>2, <1>3, <1>4, <1>5 DEF Only, Locals

LEMMA ClearFileLocals ==
    ASSUME TypeOK, NEW t \in Transfers, Locals(t),
           NEW f \in AllFiles, ClearFile(t, f)
    PROVE  /\ Own(t) /\ Locals(t)' /\ TypeOK'
           /\ Clears(t) /\ run[t].written = {}
<1> DEFINE w == run[t].written
           h == run[t].had
           b == TRUE
<1>1. /\ run[t].target \in Paths /\ run[t].pc = "clear" /\ w = {}
      /\ plan[t].policy = "overwrite"
  BY LandsIs DEF ClearFile, Locals, Aims, Writes
<1>2. PICK p \in {run[t].target, Inside(run[t].target)} :
          /\ dest[p] # Absent
          /\ dest' = [dest EXCEPT ![p][f] = Hole]
  BY DEF ClearFile
<1> DEFINE x == [dest[p] EXCEPT ![f] = Hole]
<1>3. p \in Paths /\ SameTree(run[t].target, p)
  BY <1>1, Trees
<1>4. x \in Contents /\ \A g \in AllFiles : x[g] \in {Hole, dest[p][g]}
  BY <1>2, <1>3 DEF TypeOK, Contents
<1>5. dest' = [dest EXCEPT ![p] = x]
  BY <1>2, <1>3 DEF TypeOK
<1> HIDE DEF x
<1>6. DestType /\ dest'[p] = x /\ \A q \in Paths \ {p} : dest'[q] = dest[q]
  BY <1>3, <1>4, <1>5 DEF TypeOK, Contents, DestType
<1>7. w \in SUBSET AllFiles /\ h \in SUBSET AllFiles /\ b \in BOOLEAN
  BY DEF TypeOK, RunType
<1>8. run' = [run EXCEPT ![t] =
                [run[t] EXCEPT !.had = h, !.written = w, !.touched = b]]
  BY DEF ClearFile, TypeOK, RunType
<1>9. UNCHANGED <<plan, src, result, omitted, crashes, shared>>
  BY DEF ClearFile
<1>10. omitted \in [Transfers -> SUBSET AllFiles]
       /\ (IsDirectory(t) \/ omitted[t] = {})
  BY DEF TypeOK, Locals, Sources
<1> HIDE DEF w, h, b
<1>11. /\ Own(t) /\ Locals(t)' /\ TypeOK'
       /\ run'[t].target = run[t].target /\ run'[t].written = w
  BY <1>1, <1>6, <1>7, <1>8, <1>9, <1>10, TouchLocals DEF h
<1>12. Clears(t)
  BY <1>1, <1>2, <1>3, <1>4, <1>6, <1>11 DEF Clears
<1> QED BY <1>1, <1>11, <1>12 DEF w

LEMMA ClearRestLocals ==
    ASSUME TypeOK, NEW t \in Transfers, Locals(t), ClearRest(t)
    PROVE  /\ Own(t) /\ Locals(t)' /\ TypeOK'
           /\ Clears(t) /\ run[t].written = {}
<1> DEFINE p == run[t].target
           pc == AfterTarget(t)
           q == [run[t] EXCEPT !.pc = pc, !.touched = TRUE]
<1>1. /\ p \in Paths /\ p # NoPath /\ run[t].pc = "clear"
      /\ run[t].written = {} /\ plan[t].policy = "overwrite"
  BY LandsIs DEF ClearRest, Locals, Aims, Writes
<1>2. /\ pc \in {"write", "space", "move"} /\ (pc = "space" => SpaceLast(t))
      /\ (pc = "move" => ByMove(t)) /\ (pc = "write" => ~ByMove(t))
  BY AfterTargetIs
<1>3. dest' = [r \in Paths |-> IF SameTree(p, r) THEN Absent ELSE dest[r]]
  BY DEF ClearRest
<1>4. DestType
  BY <1>3 DEF TypeOK, DestType
<1>5. q \in RunType /\ q.pc = pc /\ q.target = p
      /\ q.had = run[t].had /\ q.written = run[t].written
  BY <1>2 DEF TypeOK, RunType
<1>6. run' = [run EXCEPT ![t] = q] /\ UNCHANGED <<plan, src, result>>
      /\ UNCHANGED <<omitted, crashes, shared>>
  BY DEF ClearRest, TypeOK
<1> HIDE DEF q, pc
<1>7. Only(t, q)
  BY <1>5, <1>6, SetsRun
<1>8. Own(t) /\ TypeOK'
  BY <1>4, <1>6, <1>7 DEF Own, Only, TypeOK, DestType
<1>9. (~ByMove(t) => ~ByRename(t)) /\ (SpaceLast(t) => Remote(t))
  BY DEF ByRename, SpaceLast
<1>10. Locals(t)'
  BY <1>1, <1>2, <1>5, <1>6, <1>7, <1>9, Static
  DEF Only, Locals, Aims, Writes, Sources
<1>11. Clears(t)
  BY <1>1, <1>3, <1>5, <1>7 DEF Clears, Only
<1> QED BY <1>1, <1>8, <1>10, <1>11

-----------------------------------------------------------------------------
(* What a copy loop puts at the target: what was there, but for one file.  *)
Putting(f, what, x, t) ==
    /\ x \in Contents /\ x[f] = what
    /\ \A g \in AllFiles \ {f} : x[g] = Content(run[t].target)[g]

LEMMA PutDoes ==
    ASSUME TypeOK, NEW t \in Transfers, Locals(t), NEW f \in AllFiles,
           NEW what \in Transfers \cup {Hole}, Put(t, f, what)
    PROVE  /\ run[t].pc = "write" /\ DestType
           /\ src[t] # Gone /\ f \in src[t] /\ f \notin run[t].written
           /\ \E x : Lands(t, x) /\ Putting(f, what, x, t)
<1> DEFINE p == run[t].target
           x == [Content(p) EXCEPT ![f] = what]
<1>1. p \in Paths
  BY LandsIs DEF Put
<1>2. Content(p) \in Contents
  BY <1>1, ContentIs
<1>3. x \in Contents /\ x[f] = what
      /\ \A g \in AllFiles \ {f} : x[g] = Content(p)[g]
  BY <1>2 DEF Contents
<1>4. dest' = [dest EXCEPT ![p] = x]
  BY DEF Put
<1> HIDE DEF x
<1>5. Lands(t, x) /\ Putting(f, what, x, t)
  BY <1>3, <1>4 DEF Lands, Putting, Put
<1>6. f \in src[t] /\ f \notin run[t].written
  BY DEF Put, Locals, Sources
<1> QED BY <1>5, <1>6, LandsType DEF Put

LEMMA PutLocals ==
    ASSUME TypeOK, NEW t \in Transfers, Locals(t), NEW f \in AllFiles,
           OpenFile(t, f) \/ WriteFile(t, f)
    PROVE  /\ Own(t) /\ Locals(t)' /\ TypeOK'
           /\ run'[t].pc = "write" /\ run'[t].target = run[t].target
           /\ run'[t].written = IF WriteFile(t, f)
                                THEN run[t].written \cup {f}
                                ELSE run[t].written
<1> DEFINE w == IF WriteFile(t, f) THEN run[t].written \cup {f}
                                   ELSE run[t].written
           h == run[t].had
           b == TRUE
<1>1. w \in SUBSET AllFiles /\ h \in SUBSET AllFiles /\ b \in BOOLEAN
  BY DEF TypeOK, RunType
<1>2. run' = [run EXCEPT ![t] =
                [run[t] EXCEPT !.had = h, !.written = w, !.touched = b]]
      /\ UNCHANGED <<plan, src, result, omitted, crashes, shared>>
  <2>1. CASE WriteFile(t, f)
    BY <2>1 DEF WriteFile, TypeOK, RunType
  <2>2. CASE OpenFile(t, f) /\ ~WriteFile(t, f)
    BY <2>2 DEF OpenFile, TypeOK, RunType
  <2> QED BY <2>1, <2>2
<1>3. run[t].pc = "write" /\ DestType
  <2>1. \E what \in Transfers \cup {Hole} : Put(t, f, what)
    BY DEF OpenFile, WriteFile
  <2> QED BY <2>1, PutDoes
<1>4. omitted \in [Transfers -> SUBSET AllFiles]
      /\ (IsDirectory(t) \/ omitted[t] = {})
  BY DEF TypeOK, Locals, Sources
<1> HIDE DEF w, h, b
<1>5. /\ Own(t) /\ Locals(t)' /\ TypeOK'
      /\ run'[t].pc = run[t].pc /\ run'[t].target = run[t].target
      /\ run'[t].written = w
  BY <1>1, <1>2, <1>3, <1>4, TouchLocals DEF h
<1> QED BY <1>3, <1>5 DEF w

LEMMA OmitLocals ==
    ASSUME TypeOK, NEW t \in Transfers, Locals(t), NEW f \in AllFiles,
           OmitFile(t, f)
    PROVE  /\ Own(t) /\ Locals(t)' /\ TypeOK'
           /\ run'[t].pc = "write" /\ run'[t].target = run[t].target
           /\ run'[t].written = run[t].written
<1> DEFINE w == run[t].written
           h == run[t].had \ {f}
           b == run[t].touched
           o == omitted[t] \cup {f}
<1>1. w \in SUBSET AllFiles /\ h \in SUBSET AllFiles /\ b \in BOOLEAN
      /\ o \in SUBSET AllFiles
  BY DEF TypeOK, RunType
<1>2. run' = [run EXCEPT ![t] =
                [run[t] EXCEPT !.had = h, !.written = w, !.touched = b]]
      /\ UNCHANGED <<plan, src, dest, result, crashes, shared>>
      /\ omitted' = [omitted EXCEPT ![t] = o]
  BY DEF OmitFile, TypeOK, RunType
<1>3. run[t].pc = "write" /\ IsDirectory(t) /\ DestType
  BY <1>2 DEF OmitFile, Walks, TypeOK, DestType
<1>4. /\ h \subseteq run[t].had /\ omitted[t] \subseteq o
      /\ run[t].had \subseteq h \cup o
  OBVIOUS
<1> HIDE DEF w, h, b, o
<1>5. /\ omitted' \in [Transfers -> SUBSET AllFiles] /\ omitted'[t] = o
      /\ \A u \in Transfers \ {t} : omitted'[u] = omitted[u]
  BY <1>1, <1>2 DEF TypeOK
<1>6. /\ Own(t) /\ Locals(t)' /\ TypeOK'
      /\ run'[t].pc = run[t].pc /\ run'[t].target = run[t].target
      /\ run'[t].written = w
  BY <1>1, <1>2, <1>3, <1>4, <1>5, TouchLocals
<1> QED BY <1>3, <1>6 DEF w

LEMMA CopyDoneLocals ==
    ASSUME TypeOK, NEW t \in Transfers, Locals(t), CopyDone(t)
    PROVE  /\ Own(t) /\ Locals(t)' /\ TypeOK'
           /\ Lands(t, Content(run[t].target))
           /\ \/ run'[t].target = NoPath
              \/ /\ run'[t].target = run[t].target /\ run'[t].pc = "delete"
                 /\ run'[t].written = run[t].written
           /\ run[t].had \subseteq run[t].written
           /\ src' = src /\ src[t] # Gone
<1>1. /\ run[t].pc = "write" /\ src[t] # Gone
      /\ run[t].had \subseteq run[t].written
      /\ UNCHANGED <<plan, src, omitted, crashes, shared>>
  BY DEF CopyDone
<1>2. Lands(t, Content(run[t].target)) /\ DestType
  BY <1>1, LandsIs, LandsType, ContentIs DEF Lands, CopyDone
<1>3. CASE plan[t].mode = "move" /\ Goto(t, "delete") /\ UNCHANGED result
  <2>1. /\ Only(t, run'[t]) /\ run'[t].pc = "delete"
        /\ run'[t].target = run[t].target /\ run'[t].written = run[t].written
        /\ run'[t].had = run[t].had /\ run'[t].touched = run[t].touched
    BY <1>3, GotoDoes DEF PcType
  <2>2. Own(t) /\ TypeOK'
    BY <1>1, <1>2, <1>3, <2>1 DEF Own, Only, TypeOK, DestType
  <2>3. Locals(t)'
    BY <1>1, <1>3, <2>1, Static DEF Locals, Aims, Writes, Sources
  <2> QED BY <1>1, <1>2, <2>1, <2>2, <2>3
<1>4. CASE End(t, "moved")
  <2>1. Own(t) /\ Locals(t)' /\ result' \in [Transfers -> Results]
    BY <1>1, <1>4, EndLocals DEF Results
  <2>2. TypeOK'
    BY <1>1, <1>2, <2>1 DEF Own, Only, TypeOK, DestType
  <2>3. run'[t].target = NoPath
    BY <1>4, EndDoes, IdleIs DEF Only, Quiet, Results
  <2> QED BY <1>1, <1>2, <2>1, <2>2, <2>3
<1> QED BY <1>3, <1>4 DEF CopyDone

(* Steps that change the source as well as ending the try.                 *)
LEMMA GoneLocals ==
    ASSUME TypeOK, NEW t \in Transfers, Locals(t), End(t, "moved"),
           UNCHANGED <<plan, omitted>>, src' = [src EXCEPT ![t] = Gone]
    PROVE  /\ Own(t) /\ Locals(t)' /\ result' \in [Transfers -> Results]
           /\ run'[t].target = NoPath
<1>1. /\ Only(t, Idle) /\ Quiet(Idle) /\ Idle.touched = FALSE
      /\ result' \in [Transfers -> Results]
  BY EndDoes, IdleIs DEF Results
<1>2. src'[t] = Gone /\ Own(t)
  BY <1>1 DEF Own, Only, TypeOK
<1>3. Locals(t)'
  BY <1>1, <1>2, Static DEF Only, Quiet, Locals, Aims, Writes, Sources
<1> QED BY <1>1, <1>2, <1>3 DEF Only, Quiet

LEMMA RenameLocals ==
    ASSUME TypeOK, NEW t \in Transfers, Locals(t), MoveByRename(t)
    PROVE  /\ Own(t) /\ Locals(t)' /\ TypeOK'
           /\ ByRename(t) /\ run'[t].target = NoPath /\ run[t].written = {}
           /\ src[t] = run[t].had /\ src[t] # Gone /\ src[t] \subseteq AllFiles
           /\ Lands(t, [f \in AllFiles |-> IF f \in src[t] THEN t ELSE Hole])
<1> DEFINE x == [f \in AllFiles |-> IF f \in src[t] THEN t ELSE Hole]
<1>1. /\ run[t].pc = "rename" /\ src[t] # Gone
      /\ UNCHANGED <<plan, omitted, crashes, shared>>
      /\ src' = [src EXCEPT ![t] = Gone] /\ End(t, "moved")
  BY DEF MoveByRename
<1>2. x \in Contents
  BY DEF Contents
<1>3. Lands(t, x)
  BY <1>1, <1>2 DEF Lands, MoveByRename
<1> HIDE DEF x
<1>4. /\ Own(t) /\ Locals(t)' /\ result' \in [Transfers -> Results]
      /\ run'[t].target = NoPath
  BY <1>1, GoneLocals
<1>5. TypeOK'
  BY <1>1, <1>3, <1>4, LandsType DEF Own, Only, TypeOK, DestType
<1>6. run[t].written = {} /\ src[t] = run[t].had /\ ByRename(t)
  BY <1>1 DEF Locals, Writes, Sources
<1>7. src[t] \subseteq AllFiles
  BY <1>6 DEF TypeOK, RunType
<1> QED BY <1>1, <1>3, <1>4, <1>5, <1>6, <1>7 DEF x

LEMMA DeleteFileLocals ==
    ASSUME TypeOK, NEW t \in Transfers, Locals(t), NEW f \in AllFiles,
           DeleteFile(t, f)
    PROVE  Own(t) /\ Locals(t)' /\ TypeOK' /\ src'[t] # Gone
<1> DEFINE s == src[t] \ {f}
           h == run[t].had \cup omitted[t]
<1>1. /\ run[t].pc = "delete" /\ IsDirectory(t) /\ src[t] # Gone
      /\ UNCHANGED <<plan, dest, run, result, omitted, crashes, shared>>
  BY DEF DeleteFile, Locals, Sources
<1>2. src' = [src EXCEPT ![t] = s]
  BY DEF DeleteFile, TypeOK
<1>3. s \in SUBSET AllFiles /\ s # Gone
  BY <1>1, ValuesAssumption DEF TypeOK
<1>4. /\ src[t] \subseteq plan[t].files => s \subseteq plan[t].files
      /\ src[t] \subseteq h => s \subseteq h
  OBVIOUS
<1> HIDE DEF s
<1>5. src'[t] = s /\ Own(t) /\ TypeOK'
  BY <1>1, <1>2, <1>3 DEF Own, Only, TypeOK
<1>6. ~ByRename(t) /\ Splits(t)
  BY <1>1 DEF Locals, Writes, Sources, Splits
<1>7. Locals(t)'
  BY <1>1, <1>3, <1>4, <1>5, <1>6, Static DEF Locals, Aims, Writes, Sources
<1> QED BY <1>3, <1>5, <1>7

LEMMA DeleteRestLocals ==
    ASSUME TypeOK, NEW t \in Transfers, Locals(t), DeleteRest(t)
    PROVE  Own(t) /\ Locals(t)' /\ TypeOK' /\ run'[t].target = NoPath
<1>1. /\ UNCHANGED <<plan, dest, omitted, crashes, shared>>
      /\ src' = [src EXCEPT ![t] = Gone] /\ End(t, "moved")
  BY DEF DeleteRest
<1>2. /\ Own(t) /\ Locals(t)' /\ result' \in [Transfers -> Results]
      /\ run'[t].target = NoPath
  BY <1>1, GoneLocals
<1> QED BY <1>1, <1>2 DEF Own, Only, TypeOK

-----------------------------------------------------------------------------
LEMMA StepLocals ==
    ASSUME TypeOK, NEW t \in Transfers, Locals(t), Step(t)
    PROVE  Own(t) /\ Locals(t)' /\ TypeOK'
BY BeginLocals, StartLocals, SpaceLocals, NoSpaceLocals, ProbeLocals,
   ClearFileLocals, ClearRestLocals, PutLocals, OmitLocals, CopyDoneLocals,
   EntersIs, EntersLocals, RenameLocals, DeleteFileLocals, DeleteRestLocals,
   FailsLocals DEF Step

LEMMA OthersLocals ==
    ASSUME NEW t \in Transfers, Own(t), NEW u \in Transfers \ {t}, Locals(u)
    PROVE  Locals(u)'
BY Static DEF Own, Only, Locals, Aims, Writes, Sources

AllLocals == TypeOK /\ \A t \in Transfers : Locals(t)

LEMMA CrashDoes ==
    ASSUME TypeOK, NEW t \in Transfers, Crash
    PROVE  run'[t] = Idle /\ Quiet(run'[t]) /\ ~run'[t].touched
BY IdleIs DEF Crash

LEMMA CrashLocals ==
    ASSUME AllLocals, Crash
    PROVE  AllLocals'
<1>1. TypeOK'
  BY TransferBounds, IdleIs DEF AllLocals, TypeOK, Crash
<1>2. ASSUME NEW t \in Transfers PROVE Locals(t)'
  <2>1. UNCHANGED <<plan, src, omitted>>
    BY DEF Crash
  <2>2. TypeOK /\ Locals(t)
    BY DEF AllLocals
  <2> QED BY <2>1, <2>2, CrashDoes, QuietLocals
<1> QED BY <1>1, <1>2 DEF AllLocals

LEMMA InitLocals ==
    ASSUME Init
    PROVE  AllLocals
<1>1. TypeOK
  <2>1. \A p \in Plans : p.files \in SUBSET AllFiles
    BY PlansAssumption DEF PlanType
  <2>2. src \in [Transfers -> (SUBSET AllFiles) \cup {Gone}]
    BY <2>1 DEF Init
  <2>3. dest \in [Paths -> [AllFiles -> Transfers \cup {Hole}] \cup {Absent}]
        /\ run \in [Transfers -> RunType]
    BY IdleIs DEF Init
  <2>4. /\ result \in [Transfers -> Results] /\ shared \in BOOLEAN
        /\ omitted \in [Transfers -> SUBSET AllFiles]
    BY DEF Init, Results
  <2>5. crashes \in 0 .. MaxCrashes /\ plan \in [Transfers -> Plans]
    BY TransferBounds DEF Init
  <2> QED BY <2>2, <2>3, <2>4, <2>5 DEF TypeOK
<1>2. ASSUME NEW t \in Transfers PROVE Locals(t)
  <2>1. run[t].pc = "idle" /\ run[t].target = NoPath /\ run[t].written = {}
        /\ ~run[t].touched /\ src[t] = plan[t].files /\ omitted[t] = {}
    BY DEF Init, Idle
  <2> QED BY <2>1 DEF Locals, Aims, Writes, Sources
<1> QED BY <1>1, <1>2 DEF AllLocals

LEMMA NextLocals ==
    ASSUME AllLocals, [Next]_vars
    PROVE  AllLocals'
<1>1. ASSUME NEW t \in Transfers, Step(t) PROVE AllLocals'
  <2>1. Own(t) /\ Locals(t)' /\ TypeOK'
    BY <1>1, StepLocals DEF AllLocals
  <2> QED BY <2>1, OthersLocals DEF AllLocals
<1>2. CASE UNCHANGED vars
  <2>1. UNCHANGED <<plan, src, run, omitted>> /\ TypeOK'
    BY <1>2 DEF vars, AllLocals, TypeOK
  <2> QED BY <2>1, Static DEF AllLocals, Locals, Aims, Writes, Sources
<1> QED BY <1>1, <1>2, CrashLocals DEF Next

(* The locals of every try agree with its plan and its source, by any      *)
(* route and with any number of tries at once.                             *)
THEOREM LocalsInvariance == Spec => []AllLocals
BY InitLocals, NextLocals, PTL DEF Spec

(* Every variable keeps its type, whatever overlaps, fails or is cut off.  *)
THEOREM TypeCorrect == Spec => []TypeOK
<1>1. AllLocals => TypeOK
  BY DEF AllLocals
<1> QED BY <1>1, LocalsInvariance, PTL

-----------------------------------------------------------------------------
(* How a try may end.                                                      *)
Moves(t) == CopyDone(t) \/ MoveByRename(t) \/ DeleteRest(t)

LEMMA HowItEnds ==
    ASSUME TypeOK, NEW t \in Transfers, Locals(t), Step(t), Ends(t)
    PROVE  \/ Moves(t) /\ result'[t] = "moved"
           \/ result'[t] \in {"error", "missing"}
           \/ /\ run[t].pc \in {"space", "probe"}
              /\ result'[t] # "moved"
<1>1. run[t].pc # "idle" /\ run'[t].pc = "idle" /\ run[t] \in RunType
  BY DEF Ends, TypeOK
<1>2. CASE Moves(t)
  <2>1. End(t, "moved")
    BY <1>1, <1>2, GotoDoes DEF Moves, CopyDone, MoveByRename, DeleteRest,
                                PcType
  <2> QED BY <1>2, <2>1, EndDoes DEF Results
<1>3. CASE Begin(t) \/ ClearRest(t)
  <2>1. CASE Begin(t)
    BY <1>1, <2>1 DEF Begin
  <2>2. CASE ClearRest(t)
    <3>1. run'[t].pc = AfterTarget(t)
      BY <2>2 DEF ClearRest, TypeOK, RunType
    <3> QED BY <1>1, <3>1, AfterTargetIs
  <2> QED BY <1>3, <2>1, <2>2
<1>4. CASE SpaceFound(t) \/ ShutilMove(t)
  <2>1. CASE Enters(t)
    BY <1>1, <2>1, EntersLocals
  <2>2. CASE Goto(t, "probe")
    BY <1>1, <2>2, GotoDoes DEF PcType
  <2> QED BY <1>4, <2>1, <2>2, EntersIs
<1>5. CASE Start(t)
  <2>1. CASE Raise(t, "missing")
    BY <1>1, <2>1, RaiseDoes DEF Results
  <2>2. CASE ~Raise(t, "missing")
    <3>1. run'[t].pc \in {"probe", "space"}
      BY <1>5, <2>2 DEF Start, TypeOK, RunType
    <3> QED BY <1>1, <3>1
  <2> QED BY <2>1, <2>2
<1>6. CASE NoSpace(t)
  BY <1>1, <1>6, RaiseDoes DEF NoSpace, Results
<1>7. CASE StepFails(t)
  BY <1>1, <1>7, RaiseDoes DEF StepFails, Results
<1>8. CASE Probe(t)
  <2>1. CASE Takes(t)
    <3>1. PICK path \in Paths, pc \in PcType :
              /\ UseTarget(t, path, pc)
              /\ pc \in {"write", "space", "move", "clear"}
      BY <2>1 DEF Takes
    <3> QED BY <1>1, <3>1, UseTargetDoes
  <2>2. CASE Raise(t, "error")
    BY <1>1, <2>2, RaiseDoes DEF Results
  <2>3. CASE End(t, "skipped")
    BY <1>8, <2>3, EndDoes DEF Probe, Results
  <2> QED BY <1>8, <2>1, <2>2, <2>3, ProbeDoes
<1>9. CASE \E f \in AllFiles : \/ ClearFile(t, f) \/ OpenFile(t, f)
                               \/ WriteFile(t, f) \/ OmitFile(t, f)
                               \/ DeleteFile(t, f)
  <2>1. run'[t].pc = run[t].pc
    BY <1>9 DEF ClearFile, OpenFile, WriteFile, OmitFile, DeleteFile,
                TypeOK, RunType
  <2> QED BY <1>1, <2>1
<1> QED BY <1>2, <1>3, <1>4, <1>5, <1>6, <1>7, <1>8, <1>9 DEF Step, Moves

(* A step that ends a try is that try's or a crash.                        *)
LEMMA WhoEnds ==
    ASSUME AllLocals, NEW t \in Transfers, Ends(t), crashes' = crashes,
           [Next]_vars
    PROVE  Step(t)
<1>1. ASSUME NEW u \in Transfers \ {t}, Step(u) PROVE FALSE
  <2>1. run'[t] = run[t]
    BY <1>1, StepLocals DEF AllLocals, Own, Only
  <2> QED BY <2>1 DEF Ends
<1>2. CASE UNCHANGED vars
  BY <1>2 DEF vars, Ends
<1>3. CASE Crash
  BY <1>3, TransferBounds DEF Crash, AllLocals, TypeOK
<1> QED BY <1>1, <1>2, <1>3 DEF Next

(* On local routes a try that refuses the torrent, for a conflict or want  *)
(* of space, has changed nothing: the policy and space checks of           *)
(* _transfer_local_to_local and _transfer_sftp_source in movers.py.        *)
THEOREM SkippedUntouchedHolds == Spec => SkippedUntouched
<1>1. ASSUME AllLocals, [Next]_vars, NEW t \in Transfers, Ends(t),
             ~Remote(t), run[t].touched, crashes' = crashes
      PROVE  result'[t] \notin {"skipped", "nospace"}
  <2>1. Step(t)
    BY <1>1, WhoEnds
  <2>2. run[t].pc \notin {"start", "space", "probe"}
    BY <1>1 DEF AllLocals, Locals, Writes
  <2>3. result'[t] \in {"moved", "error", "missing"}
    BY <1>1, <2>1, <2>2, HowItEnds DEF AllLocals
  <2> QED BY <2>3
<1>2. AllLocals /\ [Next]_vars =>
      [\A t \in Transfers :
          Ends(t) /\ ~Remote(t) /\ run[t].touched /\ crashes' = crashes
          => result'[t] \notin {"skipped", "nospace"}]_vars
  BY <1>1
<1> QED BY <1>2, LocalsInvariance, PTL DEF Spec, SkippedUntouched

-----------------------------------------------------------------------------
(* The steps, by what they do to targets and to the destination.           *)
Rests(t) ==
    /\ dest' = dest /\ shared' = shared
    /\ \/ run'[t].target = NoPath
       \/ /\ run'[t].target = run[t].target
          /\ run'[t].written = run[t].written
          /\ run'[t].pc \notin {"space", "move"}

Aimed(t) == Takes(t) /\ dest' = dest /\ run[t].written = {}

Puts(t, x) ==
    /\ run'[t].target = run[t].target /\ run'[t].pc = "write"
    /\ \E f \in src[t] \ run[t].written, what \in {t, Hole} :
          /\ Putting(f, what, x, t)
          /\ run'[t].written = IF what = t THEN run[t].written \cup {f}
                                           ELSE run[t].written

Settles(t, x) ==
    /\ x = Content(run[t].target)
    /\ \/ run'[t].target = NoPath
       \/ /\ run'[t].target = run[t].target /\ run'[t].pc = "delete"
          /\ run'[t].written = run[t].written

Renames(t, x) ==
    /\ run'[t].target = NoPath /\ run[t].written = {} /\ ByRename(t)
    /\ x = [f \in AllFiles |-> IF f \in src[t] THEN t ELSE Hole]

Changes(t) ==
    /\ shared' = shared
    /\ \/ Clears(t)
       \/ \E x : Lands(t, x) /\ (Puts(t, x) \/ Settles(t, x) \/ Renames(t, x))

LEMMA RaiseRests ==
    ASSUME TypeOK, NEW t \in Transfers, NEW outcome \in Results,
           Raise(t, outcome) \/ End(t, outcome), UNCHANGED <<dest, shared>>
    PROVE  Rests(t)
BY RaiseDoes, EndDoes, IdleIs DEF Rests, Quiet, Only

LEMMA PutChanges ==
    ASSUME TypeOK, NEW t \in Transfers, Locals(t), NEW f \in AllFiles,
           OpenFile(t, f) \/ WriteFile(t, f)
    PROVE  Changes(t)
<1> DEFINE what == IF WriteFile(t, f) THEN t ELSE Hole
<1>1. /\ run'[t].pc = "write" /\ run'[t].target = run[t].target
      /\ run'[t].written = IF WriteFile(t, f) THEN run[t].written \cup {f}
                                              ELSE run[t].written
  BY PutLocals
<1>2. Put(t, f, what) /\ shared' = shared
  BY DEF OpenFile, WriteFile
<1>3. what \in {t, Hole} /\ (what = t <=> WriteFile(t, f))
  BY ValuesAssumption
<1> HIDE DEF what
<1>4. /\ f \in src[t] \ run[t].written
      /\ \E x : Lands(t, x) /\ Putting(f, what, x, t)
  BY <1>2, <1>3, PutDoes
<1> QED BY <1>1, <1>2, <1>3, <1>4 DEF Changes, Puts

LEMMA StepIs ==
    ASSUME TypeOK, NEW t \in Transfers, Locals(t), Step(t)
    PROVE  Rests(t) \/ Aimed(t) \/ Enters(t) \/ Changes(t)
<1>1. CASE Begin(t)
  <2>1. UNCHANGED <<dest, shared>> /\ run[t].target = NoPath
    BY <1>1 DEF Begin, Locals, Aims
  <2>2. run'[t].target = run[t].target
    BY <1>1, GotoDoes DEF Begin, PcType
  <2> QED BY <2>1, <2>2 DEF Rests
<1>2. CASE Start(t)
  <2>1. UNCHANGED <<dest, shared>> /\ run[t].target = NoPath
    BY <1>2 DEF Start, Locals, Aims
  <2>2. CASE Raise(t, "missing")
    BY <2>1, <2>2, RaiseRests DEF Results
  <2>3. CASE ~Raise(t, "missing")
    <3>1. run'[t].target = run[t].target
      BY <1>2, <2>3 DEF Start, TypeOK, RunType
    <3> QED BY <2>1, <3>1 DEF Rests
  <2> QED BY <2>2, <2>3
<1>3. CASE SpaceFound(t) \/ ShutilMove(t)
  <2>1. CASE SpaceFound(t) /\ Goto(t, "probe")
    <3>1. UNCHANGED <<dest, shared>>
      BY <2>1 DEF SpaceFound
    <3>2. /\ run'[t].target = run[t].target /\ run'[t].pc = "probe"
          /\ run'[t].written = run[t].written
      BY <2>1, GotoDoes DEF PcType
    <3> QED BY <3>1, <3>2 DEF Rests
  <2> QED BY <1>3, <2>1, EntersIs
<1>4. CASE NoSpace(t) \/ StepFails(t)
  BY <1>4, RaiseRests DEF NoSpace, StepFails, Results
<1>5. CASE Probe(t)
  <2>1. dest' = dest /\ run[t].written = {}
    BY <1>5 DEF Probe, Locals, Writes
  <2> QED BY <1>5, <2>1, ProbeDoes, RaiseRests DEF Aimed, Results
<1>6. CASE ClearRest(t) \/ \E f \in AllFiles : ClearFile(t, f)
  <2>1. shared' = shared
    BY <1>6 DEF ClearRest, ClearFile
  <2> QED BY <1>6, <2>1, ClearRestLocals, ClearFileLocals DEF Changes
<1>7. CASE \E f \in AllFiles : OpenFile(t, f) \/ WriteFile(t, f)
  BY <1>7, PutChanges
<1>8. CASE \E f \in AllFiles : OmitFile(t, f)
  <2>1. UNCHANGED <<dest, shared>>
    BY <1>8 DEF OmitFile
  <2> QED BY <1>8, <2>1, OmitLocals DEF Rests
<1>9. CASE CopyDone(t)
  BY <1>9, CopyDoneLocals DEF Changes, Settles, CopyDone
<1>10. CASE MoveByRename(t)
  BY <1>10, RenameLocals DEF Changes, Renames, MoveByRename
<1>11. CASE DeleteRest(t)
  BY <1>11, DeleteRestLocals DEF DeleteRest, Rests
<1>12. CASE \E f \in AllFiles : DeleteFile(t, f)
  BY <1>12 DEF DeleteFile, Rests
<1> QED BY <1>1, <1>2, <1>3, <1>4, <1>5, <1>6, <1>7, <1>8, <1>9, <1>10,
           <1>11, <1>12 DEF Step

(* What a step that changes the destination changes there: its target, or  *)
(* all that is under it when it is cleared.                                *)
LEMMA PickChange ==
    ASSUME TypeOK, NEW t \in Transfers, Locals(t), Changes(t)
    PROVE  /\ shared' = shared /\ src[t] # Gone
           /\ run[t].target \in Paths /\ run[t].target # NoPath
           /\ run[t].target[1] = Name[t]
           /\ run'[t].target \in {NoPath, run[t].target}
           /\ \A q \in Paths :
                 ~SameTree(run[t].target, q) => dest'[q] = dest[q]
           /\ \/ Clears(t)
              \/ \E x \in Contents :
                    /\ dest'[run[t].target] = x /\ x # Absent
                    /\ \A q \in Paths :
                          q # run[t].target => dest'[q] = dest[q]
                    /\ Puts(t, x) \/ Settles(t, x) \/ Renames(t, x)
<1>1. /\ shared' = shared /\ src[t] # Gone
      /\ run[t].target \in Paths /\ run[t].target # NoPath
      /\ run[t].target[1] = Name[t]
  BY LandsIs DEF Changes, Clears, Lands
<1>2. CASE Clears(t)
  BY <1>1, <1>2 DEF Clears
<1>3. ASSUME NEW x, Lands(t, x),
             Puts(t, x) \/ Settles(t, x) \/ Renames(t, x)
      PROVE  /\ dest'[run[t].target] = x /\ x \in Contents /\ x # Absent
             /\ \A q \in Paths : q # run[t].target => dest'[q] = dest[q]
             /\ run'[t].target \in {NoPath, run[t].target}
  <2>1. x \in Contents /\ x # Absent
    BY <1>3, ValuesAssumption DEF Lands, Contents
  <2> QED BY <1>1, <1>3, <2>1
          DEF Lands, TypeOK, Puts, Settles, Renames
<1>4. SameTree(run[t].target, run[t].target)
  BY <1>1, Trees
<1> QED BY <1>1, <1>2, <1>3, <1>4 DEF Changes

-----------------------------------------------------------------------------
(* Until two tries share a target, no two are at one or inside it, ...     *)
Alone ==
    ~shared => \A t, u \in Transfers :
        t # u => ~SameTree(run[t].target, run[u].target)

(* ... and what a try has written is there.                                *)
Wrote(t) ==
    ~shared /\ run[t].target # NoPath =>
        \A f \in run[t].written : /\ dest[run[t].target] # Absent
                                  /\ dest[run[t].target][f] = t

Held == AllLocals /\ Alone /\ \A t \in Transfers : Wrote(t)

LEMMA TreeIs ==
    ASSUME NEW p \in Paths, NEW q
    PROVE  /\ SameTree(Inside(p), q) <=> SameTree(p, q)
           /\ SameTree(q, Inside(p)) <=> SameTree(q, p)
           /\ SameTree(p, q) <=> SameTree(q, p)
BY Trees DEF SameTree

LEMMA AloneKept ==
    ASSUME AllLocals, Alone, NEW t \in Transfers, Step(t)
    PROVE  Alone'
<1>1. Only(t, run'[t]) /\ TypeOK /\ Locals(t)
  BY StepLocals DEF AllLocals, Own
<1>2. CASE Rests(t) \/ Changes(t)
  <2>1. /\ shared' = shared
        /\ run'[t].target \in {NoPath, run[t].target}
    BY <1>1, <1>2, PickChange DEF Rests
  <2>2. \A q : ~SameTree(NoPath, q) /\ ~SameTree(q, NoPath)
    BY DEF SameTree
  <2> QED BY <1>1, <2>1, <2>2 DEF Only, Alone
<1>3. CASE Enters(t)
  <2>1. /\ shared' = shared /\ run[t].target \in Paths
        /\ run'[t].target \in {run[t].target, Inside(run[t].target)}
    BY <1>1, <1>3, EntersLocals DEF Enters
  <2> QED BY <1>1, <2>1, TreeIs DEF Only, Alone
<1>4. CASE Aimed(t)
  <2>1. PICK path \in Paths, pc \in PcType : UseTarget(t, path, pc)
    BY <1>4 DEF Aimed, Takes
  <2>2. /\ run'[t].target = path
        /\ shared => shared'
        /\ ~shared' => \A u \in Transfers \ {t} :
                          ~SameTree(run[u].target, path)
    BY <1>1, <2>1, UseTargetDoes
  <2> QED BY <1>1, <2>2, TreeIs DEF Only, Alone
<1> QED BY <1>1, <1>2, <1>3, <1>4, StepIs

(* Another's step does not change the destination where this try is.       *)
LEMMA Elsewhere ==
    ASSUME AllLocals, Alone, NEW t \in Transfers, Step(t), ~shared',
           NEW u \in Transfers \ {t}, run[u].target # NoPath
    PROVE  /\ run'[u] = run[u] /\ ~shared
           /\ dest'[run[u].target] = dest[run[u].target]
<1>1. run'[u] = run[u] /\ TypeOK /\ Locals(t)
  BY StepLocals DEF AllLocals, Own, Only
<1>2. CASE Rests(t) \/ Enters(t)
  BY <1>1, <1>2 DEF Rests, Enters
<1>3. CASE Changes(t)
  <2>1. /\ shared' = shared
        /\ \A q \in Paths :
              ~SameTree(run[t].target, q) => dest'[q] = dest[q]
    BY <1>1, <1>3, PickChange
  <2>2. ~SameTree(run[t].target, run[u].target)
    BY <2>1 DEF Alone
  <2>3. run[u].target \in Paths
    BY DEF AllLocals, TypeOK, RunType
  <2> QED BY <1>1, <2>1, <2>2, <2>3
<1>4. CASE Aimed(t)
  <2>1. PICK path \in Paths, pc \in PcType : UseTarget(t, path, pc)
    BY <1>4 DEF Aimed, Takes
  <2>2. shared => shared'
    BY <1>1, <2>1, UseTargetDoes
  <2> QED BY <1>1, <1>4, <2>2 DEF Aimed
<1> QED BY <1>1, <1>2, <1>3, <1>4, StepIs

LEMMA WroteKept ==
    ASSUME Held, NEW t \in Transfers, Step(t)
    PROVE  Wrote(t)'
<1> SUFFICES ASSUME ~shared', run'[t].target # NoPath,
                    NEW f \in run'[t].written
             PROVE  /\ dest'[run'[t].target] # Absent
                    /\ dest'[run'[t].target][f] = t
  BY DEF Wrote
<1> DEFINE p == run[t].target
<1>0. AllLocals /\ Wrote(t) /\ TypeOK /\ Locals(t)
  BY DEF Held, AllLocals
<1>1. CASE Rests(t)
  BY <1>0, <1>1 DEF Rests, Wrote
<1>2. CASE Aimed(t)
  <2>1. PICK path \in Paths, pc \in PcType : UseTarget(t, path, pc)
    BY <1>2 DEF Aimed, Takes
  <2>2. run'[t].written = run[t].written
    BY <1>0, <2>1, UseTargetDoes
  <2> QED BY <1>2, <2>2 DEF Aimed
<1>3. CASE Enters(t)
  BY <1>0, <1>3, EntersLocals
<1>4. CASE Changes(t)
  <2>1. /\ p \in Paths /\ p # NoPath /\ shared' = shared
        /\ run'[t].target = p
    BY <1>0, <1>4, PickChange
  <2>2. CASE Clears(t)
    BY <2>2 DEF Clears
  <2>3. ASSUME NEW x \in Contents, dest'[p] = x, x # Absent,
               Puts(t, x) \/ Settles(t, x) \/ Renames(t, x)
        PROVE  x[f] = t
    <3>1. Content(p) \in Contents
          /\ (dest[p] # Absent => Content(p) = dest[p])
      BY <1>0, <2>1, ContentIs
    <3>2. \A g \in run[t].written : Content(p)[g] = t
      BY <1>0, <2>1, <3>1 DEF Wrote
    <3>3. CASE Puts(t, x)
      <4>1. PICK g \in src[t] \ run[t].written, what \in {t, Hole} :
                /\ Putting(g, what, x, t)
                /\ run'[t].written = IF what = t
                                     THEN run[t].written \cup {g}
                                     ELSE run[t].written
        BY <3>3 DEF Puts
      <4>2. f \in AllFiles
        BY <1>0, StepLocals DEF TypeOK, RunType
      <4>3. CASE f = g
        BY <4>1, <4>3 DEF Putting
      <4>4. CASE f # g
        BY <3>2, <4>1, <4>2, <4>4 DEF Putting
      <4> QED BY <4>3, <4>4
    <3>4. CASE Settles(t, x)
      BY <2>1, <3>2, <3>4 DEF Settles
    <3>5. CASE Renames(t, x)
      BY <3>5 DEF Renames
    <3> QED BY <2>3, <3>3, <3>4, <3>5
  <2> QED BY <1>0, <1>4, <2>1, <2>2, <2>3, PickChange
<1> QED BY <1>0, <1>1, <1>2, <1>3, <1>4, StepIs

LEMMA CrashHeld ==
    ASSUME Held, Crash
    PROVE  Held'
<1>1. \A t \in Transfers : run'[t].target = NoPath
  BY CrashDoes DEF Held, AllLocals, Quiet
<1>2. AllLocals'
  BY CrashLocals DEF Held
<1>3. Alone'
  BY <1>1 DEF Alone, SameTree
<1>4. \A t \in Transfers : Wrote(t)'
  BY <1>1 DEF Wrote
<1> QED BY <1>2, <1>3, <1>4 DEF Held

LEMMA NextHeld ==
    ASSUME Held, [Next]_vars
    PROVE  Held'
<1>1. ASSUME NEW t \in Transfers, Step(t) PROVE Held'
  <2>1. AllLocals'
    BY <1>1, NextLocals DEF Next, Held
  <2>2. Alone'
    BY <1>1, AloneKept DEF Held
  <2>3. Wrote(t)'
    BY <1>1, WroteKept
  <2>4. ASSUME NEW u \in Transfers \ {t} PROVE Wrote(u)'
    <3>1. run'[u] = run[u]
      BY <1>1, StepLocals DEF Held, AllLocals, Own, Only
    <3>2. CASE ~shared' /\ run[u].target # NoPath
      <4>1. ~shared /\ dest'[run[u].target] = dest[run[u].target]
        BY <1>1, <3>2, Elsewhere DEF Held
      <4> QED BY <3>1, <4>1 DEF Held, Wrote
    <3> QED BY <3>1, <3>2 DEF Wrote
  <2> QED BY <2>1, <2>2, <2>3, <2>4 DEF Held
<1>2. CASE UNCHANGED vars
  <2>1. AllLocals'
    BY <1>2, NextLocals DEF Held
  <2> QED BY <1>2, <2>1 DEF vars, Held, Alone, Wrote
<1> QED BY <1>1, <1>2, CrashHeld DEF Next

LEMMA InitHeld ==
    ASSUME Init
    PROVE  Held
<1>1. \A t \in Transfers : run[t].target = NoPath
  BY DEF Init, Idle
<1>2. Alone
  BY <1>1 DEF Alone, SameTree
<1>3. \A t \in Transfers : Wrote(t)
  BY <1>1 DEF Wrote
<1> QED BY <1>2, <1>3, InitLocals DEF Held

(* Until two tries share a target each has its own, and what it has        *)
(* written is there.                                                       *)
THEOREM HeldInvariance == Spec => []Held
BY InitHeld, NextHeld, PTL DEF Spec

(* A try that says "moved" leaves, where it has put it, every file it has  *)
(* found at the source, with fallbacks, blind looks and crashes: the copy  *)
(* loops, shutil.move, rsync, scp and sftp in movers.py.                   *)
THEOREM MovedIsThereHolds == Spec => MovedIsThere
<1>1. ASSUME Held, [Next]_vars, NEW t \in Transfers, Ends(t), ~shared,
             crashes' = crashes, result'[t] = "moved",
             NEW f \in run[t].had
      PROVE  dest'[run[t].target][f] = t
  <2> DEFINE p == run[t].target
  <2>0. TypeOK /\ AllLocals /\ Locals(t) /\ Wrote(t)
    BY <1>1 DEF Held, AllLocals
  <2>1. Step(t)
    BY <1>1, WhoEnds DEF Held
  <2>2. Moves(t)
    BY <1>1, <2>0, <2>1, HowItEnds
  <2>3. p \in Paths /\ p # NoPath
    BY <2>0, <2>2, LandsIs DEF Moves, CopyDone, MoveByRename, DeleteRest
  <2>4. f \in run[t].written => dest[p] # Absent /\ dest[p][f] = t
    BY <1>1, <2>0, <2>3 DEF Wrote
  <2>5. CASE CopyDone(t)
    <3>1. Lands(t, Content(p)) /\ f \in run[t].written
      BY <1>1, <2>0, <2>5, CopyDoneLocals
    <3>2. dest'[p] = Content(p)
      BY <2>0, <2>3, <3>1 DEF Lands, TypeOK
    <3> QED BY <2>0, <2>3, <2>4, <3>1, <3>2, ContentIs
  <2>6. CASE MoveByRename(t)
    <3> DEFINE x == [g \in AllFiles |-> IF g \in src[t] THEN t ELSE Hole]
    <3>1. Lands(t, x) /\ f \in src[t] /\ f \in AllFiles
      BY <1>1, <2>0, <2>6, RenameLocals
    <3> HIDE DEF x
    <3>2. dest'[p] = x
      BY <2>0, <2>3, <3>1 DEF Lands, TypeOK
    <3> QED BY <3>1, <3>2 DEF x
  <2>7. CASE DeleteRest(t)
    <3>1. dest' = dest /\ f \in run[t].written
      BY <1>1, <2>0, <2>7 DEF DeleteRest, Locals, Writes
    <3> QED BY <2>4, <3>1
  <2> QED BY <2>2, <2>5, <2>6, <2>7 DEF Moves
<1>2. Held /\ [Next]_vars =>
      [\A t \in Transfers :
          Ends(t) /\ crashes' = crashes /\ result'[t] = "moved" /\ ~shared =>
              \A f \in run[t].had : dest'[run[t].target][f] = t]_vars
  BY <1>1
<1> QED BY <1>2, HeldInvariance, PTL DEF Spec, MovedIsThere

-----------------------------------------------------------------------------
(* What is at a path belongs to a torrent of that name, ...                *)
Marks == \A p \in Paths, f \in AllFiles :
            dest[p] # Absent /\ dest[p][f] # Hole => Name[dest[p][f]] = p[1]

(* ... and a try that may not overwrite found its target free.             *)
Fresh(t) ==
    ~shared /\ run[t].target # NoPath /\ ~MayOverwrite(t) =>
        /\ \/ dest[run[t].target] = Absent
           \/ \A f \in AllFiles :
                 \/ dest[run[t].target][f] = Hole
                 \/ f \in run[t].written /\ dest[run[t].target][f] = t
        /\ run[t].pc \in {"space", "move"} => dest[run[t].target] = Absent

Kept == Held /\ Marks /\ (\A t \in Transfers : Fresh(t)) /\ NothingLost

LEMMA MarksKept ==
    ASSUME AllLocals, Marks, NEW t \in Transfers, Step(t)
    PROVE  Marks'
<1> DEFINE p == run[t].target
<1>0. TypeOK /\ Locals(t)
  BY DEF AllLocals
<1>1. CASE dest' = dest
  BY <1>1 DEF Marks
<1>2. CASE Changes(t)
  <2>1. p \in Paths /\ p[1] = Name[t]
    BY <1>0, <1>2, PickChange
  <2>2. CASE Clears(t)
    BY <2>2, ValuesAssumption DEF Clears, Marks
  <2>3. ASSUME NEW x \in Contents, dest'[p] = x,
               \A q \in Paths : q # p => dest'[q] = dest[q],
               Puts(t, x) \/ Settles(t, x) \/ Renames(t, x)
        PROVE  Marks'
    <3>1. /\ dest[p] # Absent => Content(p) = dest[p]
          /\ dest[p] = Absent => \A f \in AllFiles : Content(p)[f] = Hole
      BY <1>0, <2>1, ContentIs
    <3>2. ASSUME NEW f \in AllFiles
          PROVE  \/ x[f] = Hole \/ x[f] = t
                 \/ dest[p] # Absent /\ x[f] = dest[p][f]
      <4>1. CASE Puts(t, x)
        <5>1. PICK g \in src[t] \ run[t].written, what \in {t, Hole} :
                  Putting(g, what, x, t)
          BY <4>1 DEF Puts
        <5> QED BY <3>1, <5>1 DEF Putting
      <4>2. CASE Settles(t, x)
        BY <3>1, <4>2 DEF Settles
      <4>3. CASE Renames(t, x)
        BY <4>3 DEF Renames
      <4> QED BY <2>3, <4>1, <4>2, <4>3
    <3> QED BY <2>1, <2>3, <3>2 DEF Marks
  <2> QED BY <1>0, <1>2, <2>2, <2>3, PickChange
<1> QED BY <1>0, <1>1, <1>2, StepIs DEF Rests, Aimed, Enters

LEMMA FreshKept ==
    ASSUME Held, NEW t \in Transfers, Fresh(t), Step(t)
    PROVE  Fresh(t)'
<1> DEFINE p == run[t].target
           Free == /\ \/ dest'[run'[t].target] = Absent
                      \/ \A f \in AllFiles :
                            \/ dest'[run'[t].target][f] = Hole
                            \/ /\ f \in run'[t].written
                               /\ dest'[run'[t].target][f] = t
                   /\ run'[t].pc \in {"space", "move"} =>
                          dest'[run'[t].target] = Absent
<1> SUFFICES ASSUME ~shared', run'[t].target # NoPath, ~MayOverwrite(t)'
             PROVE  Free
  BY DEF Fresh
<1>0. AllLocals /\ TypeOK /\ Locals(t) /\ plan' = plan
  BY StepLocals DEF Held, AllLocals, Own
<1>1. ~MayOverwrite(t) /\ plan[t].policy # "overwrite"
  BY <1>0, Static DEF MayOverwrite
<1>2. CASE Rests(t)
  BY <1>0, <1>1, <1>2 DEF Rests, Fresh
<1>3. CASE Aimed(t)
  <2>1. PICK path \in Paths, pc \in PcType :
            /\ UseTarget(t, path, pc)
            /\ MayOverwrite(t) \/ dest[path] = Absent
    BY <1>3 DEF Aimed, Takes
  <2>2. run'[t].target = path
    BY <1>0, <2>1, UseTargetDoes
  <2> QED BY <1>1, <1>3, <2>1, <2>2 DEF Aimed
<1>4. CASE Enters(t)
  <2>1. /\ p \in Paths /\ p # NoPath /\ shared' = shared /\ dest' = dest
        /\ run'[t].target = Landing(t) /\ run'[t].pc \in {"rename", "write"}
        /\ run[t].pc \in {"space", "move"}
    BY <1>0, <1>4, EntersLocals, Trees DEF Enters
  <2>2. dest[p] = Absent
    BY <1>1, <2>1 DEF Fresh
  <2>3. run'[t].target = p
    BY <2>1, <2>2 DEF Landing
  <2> QED BY <2>1, <2>2, <2>3
<1>5. CASE Changes(t)
  <2>1. /\ shared' = shared /\ p \in Paths /\ p # NoPath
        /\ run'[t].target = p
    BY <1>0, <1>5, PickChange
  <2>2. ~Clears(t)
    BY <1>1 DEF Clears
  <2>3. ASSUME NEW x \in Contents, dest'[p] = x,
               Puts(t, x) \/ Settles(t, x) \/ Renames(t, x)
        PROVE  Free
    <3>1. /\ dest[p] # Absent => Content(p) = dest[p]
          /\ dest[p] = Absent => \A f \in AllFiles : Content(p)[f] = Hole
      BY <1>0, <2>1, ContentIs
    <3>2. \A f \in AllFiles : \/ Content(p)[f] = Hole
                              \/ f \in run[t].written /\ Content(p)[f] = t
      BY <1>1, <2>1, <3>1 DEF Fresh
    <3>3. CASE Puts(t, x)
      <4>1. PICK g \in src[t] \ run[t].written, what \in {t, Hole} :
                /\ Putting(g, what, x, t)
                /\ run'[t].written = IF what = t
                                     THEN run[t].written \cup {g}
                                     ELSE run[t].written
        BY <3>3 DEF Puts
      <4>2. run'[t].pc = "write"
        BY <3>3 DEF Puts
      <4>3. \A f \in AllFiles : \/ x[f] = Hole
                                \/ f \in run'[t].written /\ x[f] = t
        BY <3>2, <4>1 DEF Putting
      <4> QED BY <2>1, <2>3, <4>2, <4>3
    <3>4. CASE Renames(t, x)
      BY <2>1, <3>4 DEF Renames
    <3>5. CASE Settles(t, x)
      BY <2>1, <2>3, <3>2, <3>5 DEF Settles
    <3> QED BY <2>3, <3>3, <3>4, <3>5
  <2> QED BY <1>0, <1>5, <2>2, <2>3, PickChange
<1> QED BY <1>0, <1>2, <1>3, <1>4, <1>5, StepIs

(* A try that changes the destination at a whole copy may overwrite, or    *)
(* has made that copy.                                                     *)
LEMMA WholeIsOwn ==
    ASSUME AllLocals, NEW t \in Transfers, Fresh(t), ~shared,
           run[t].target # NoPath, ~MayOverwrite(t),
           NEW u \in Transfers, Whole(u, run[t].target)
    PROVE  u = t /\ plan[t].files \subseteq run[t].written
<1>1. plan[u].files \in (SUBSET AllFiles) \ {{}}
  BY PlanFields DEF AllLocals
<1>2. \A f \in plan[u].files : f \in run[t].written /\ u = t
  BY <1>1, ValuesAssumption DEF Fresh, Whole
<1> QED BY <1>1, <1>2

LEMMA NameOfWhole ==
    ASSUME AllLocals, Marks, NEW u \in Transfers, NEW p \in Paths, Whole(u, p)
    PROVE  Name[u] = p[1]
<1>1. PICK f \in plan[u].files : f \in AllFiles
  BY PlanFields DEF AllLocals
<1> QED BY <1>1, ValuesAssumption DEF Marks, Whole

(* A file that is given up at its source is at the try's target, unless    *)
(* its walk has left the file out.                                         *)
LEMMA GivenUp ==
    ASSUME Held, ~shared, NEW t \in Transfers, Step(t), NEW f \in src[t],
           src[t] # Gone, src'[t] = Gone \/ f \notin src'[t],
           f \notin omitted[t]
    PROVE  /\ run[t].target \in Paths /\ dest'[run[t].target] # Absent
           /\ dest'[run[t].target][f] = t
<1> DEFINE p == run[t].target
<1>0. AllLocals /\ TypeOK /\ Locals(t) /\ Wrote(t)
  BY DEF Held, AllLocals
<1>1. \/ MoveByRename(t)
      \/ run[t].pc = "delete" /\ dest' = dest
  <2>1. ASSUME src' = src PROVE FALSE
    BY <2>1
  <2> QED BY <2>1
          DEF Step, Begin, Start, SpaceFound, NoSpace, Probe, ClearRest,
              CopyDone, ShutilMove, StepFails, ClearFile, OpenFile,
              WriteFile, OmitFile, DeleteFile, DeleteRest
<1>2. p \in Paths /\ p # NoPath
  BY <1>0, <1>1, LandsIs DEF MoveByRename
<1>3. CASE MoveByRename(t)
  <2> DEFINE x == [g \in AllFiles |-> IF g \in src[t] THEN t ELSE Hole]
  <2>1. Lands(t, x) /\ src[t] \subseteq AllFiles
    BY <1>0, <1>3, RenameLocals
  <2>2. x \in Contents /\ x[f] = t
    BY <2>1 DEF Contents
  <2> HIDE DEF x
  <2>3. dest'[p] = x /\ x # Absent
    BY <1>0, <1>2, <2>1, <2>2, ValuesAssumption DEF Lands, TypeOK, Contents
  <2> QED BY <1>2, <2>2, <2>3
<1>4. CASE run[t].pc = "delete" /\ dest' = dest
  <2>1. f \in run[t].written
    BY <1>0, <1>4 DEF Locals, Sources, Writes
  <2> QED BY <1>0, <1>2, <1>4, <2>1 DEF Wrote
<1> QED BY <1>1, <1>3, <1>4

(* What the destination alone has of a payload stays there: the try of     *)
(* another torrent finds it in the way, and one of its own, whose source   *)
(* has been deleted in part, writes what is left of that only.             *)
LEMMA CopyStands ==
    ASSUME Kept, NEW t \in Transfers, Step(t), ~shared,
           NEW u \in Transfers, Spared(u), ~Replaces(u),
           NEW f \in plan[u].files, u = t => src[t] = Gone \/ f \notin src[t],
           NEW q \in Paths, dest[q] # Absent, dest[q][f] = u
    PROVE  dest'[q] # Absent /\ dest'[q][f] = u
<1> DEFINE p == run[t].target
<1>0. AllLocals /\ TypeOK /\ Locals(t) /\ Marks /\ Fresh(t)
      /\ f \in AllFiles
  BY PlanFields DEF Kept, Held, AllLocals
<1>1. CASE Changes(t) /\ SameTree(p, q)
  <2>1. /\ p \in Paths /\ p # NoPath /\ p[1] = Name[t] /\ src[t] # Gone
        /\ q[1] = Name[t]
    BY <1>0, <1>1, PickChange DEF SameTree
  <2>2. u # t => ~MayOverwrite(t)
    <3>1. Name[u] = q[1]
      BY <1>0, ValuesAssumption DEF Marks
    <3> QED BY <2>1, <3>1 DEF Spared
  <2>3. u = t => f \notin src[t] /\ Splits(t)
    BY <1>0, <2>1 DEF Locals, Sources
  <2>4. ~Clears(t)
    BY <2>2, <2>3 DEF Clears, MayOverwrite, Replaces, Splits
  <2>5. ASSUME NEW x \in Contents, dest'[p] = x, x # Absent,
               \A r \in Paths : r # p => dest'[r] = dest[r],
               Puts(t, x) \/ Settles(t, x) \/ Renames(t, x)
        PROVE  dest'[q] # Absent /\ dest'[q][f] = u
    <3>1. CASE q # p
      BY <2>5, <3>1
    <3>2. CASE q = p /\ u # t
      BY <1>0, <2>1, <2>2, <3>2, ValuesAssumption DEF Fresh
    <3>3. CASE q = p /\ u = t
      <4>1. Content(p) = dest[p]
        BY <1>0, <3>3, ContentIs
      <4>2. CASE Puts(t, x)
        <5>1. PICK g \in src[t] \ run[t].written, what \in {t, Hole} :
                  Putting(g, what, x, t)
          BY <4>2 DEF Puts
        <5> QED BY <1>0, <2>3, <2>5, <3>3, <4>1, <5>1 DEF Putting
      <4>3. CASE Settles(t, x)
        BY <2>5, <3>3, <4>1, <4>3 DEF Settles
      <4>4. ~Renames(t, x)
        BY <2>3, <3>3 DEF Renames, Splits
      <4> QED BY <2>5, <4>2, <4>3, <4>4
    <3> QED BY <3>1, <3>2, <3>3
  <2> QED BY <1>0, <1>1, <2>4, <2>5, PickChange
<1>2. CASE Changes(t) /\ ~SameTree(p, q)
  BY <1>0, <1>2, PickChange
<1>3. CASE dest' = dest
  BY <1>3
<1> QED BY <1>0, <1>1, <1>2, <1>3, StepIs DEF Rests, Aimed, Enters

LEMMA NothingLostKept ==
    ASSUME Kept, NEW t \in Transfers, Step(t)
    PROVE  NothingLost'
<1>0. AllLocals /\ TypeOK /\ Own(t) /\ plan' = plan /\ Locals(t)
  BY StepLocals DEF Kept, Held, AllLocals, Own
<1> SUFFICES ASSUME NEW u \in Transfers, ~shared', Spared(u), ~Replaces(u),
                    NEW f \in plan[u].files \ omitted'[u]
             PROVE  Stands(u, f)'
  BY <1>0, Static DEF NothingLost, Spared
<1>1. ~shared
  <2>1. CASE Aimed(t)
    BY <1>0, <2>1, UseTargetDoes DEF Aimed, Takes
  <2> QED BY <1>0, <2>1, StepIs DEF Rests, Enters, Changes
<1>2. f \notin omitted[u]
  BY <1>0 DEF Own
<1>3. Stands(u, f)
  BY <1>1, <1>2 DEF Kept, NothingLost
<1>4. CASE src[u] # Gone /\ f \in src[u]
  <2>1. CASE u = t
    BY <1>1, <1>2, <1>4, <2>1, GivenUp DEF Kept, Stands
  <2>2. CASE u # t
    BY <1>0, <1>4, <2>2 DEF Own, Stands
  <2> QED BY <2>1, <2>2
<1>5. CASE src[u] = Gone \/ f \notin src[u]
  <2>1. PICK q \in Paths : dest[q] # Absent /\ dest[q][f] = u
    BY <1>3, <1>5 DEF Stands
  <2>2. dest'[q] # Absent /\ dest'[q][f] = u
    BY <1>1, <1>5, <2>1, CopyStands
  <2> QED BY <2>2 DEF Stands
<1> QED BY <1>4, <1>5

LEMMA InitKept ==
    ASSUME Init
    PROVE  Kept
<1>1. /\ \A t \in Transfers : run[t].target = NoPath
      /\ \A p \in Paths : dest[p] = Absent
  BY DEF Init, Idle
<1>2. \A t \in Transfers : src[t] # Gone /\ src[t] = plan[t].files
  BY InitLocals, PlanFields, ValuesAssumption DEF AllLocals, Init
<1>3. Marks /\ NothingLost
  BY <1>1, <1>2 DEF Marks, NothingLost, Stands
<1>4. \A t \in Transfers : Fresh(t)
  BY <1>1 DEF Fresh
<1> QED BY <1>3, <1>4, InitHeld DEF Kept

LEMMA NextKept ==
    ASSUME Kept, [Next]_vars
    PROVE  Kept'
<1>1. Held'
  BY NextHeld DEF Kept
<1>2. ASSUME NEW t \in Transfers, Step(t) PROVE Kept'
  <2>1. Marks' /\ NothingLost'
    BY <1>2, MarksKept, NothingLostKept DEF Kept, Held
  <2>2. Fresh(t)'
    BY <1>2, FreshKept DEF Kept
  <2>3. ASSUME NEW u \in Transfers \ {t} PROVE Fresh(u)'
    <3>1. run'[u] = run[u] /\ plan' = plan
      BY <1>2, StepLocals DEF Kept, Held, AllLocals, Own, Only
    <3>2. CASE ~shared' /\ run[u].target # NoPath
      <4>1. ~shared /\ dest'[run[u].target] = dest[run[u].target]
        BY <1>2, <3>2, Elsewhere DEF Kept, Held
      <4> QED BY <3>1, <4>1, Static DEF Kept, Fresh
    <3> QED BY <3>1, <3>2, Static DEF Fresh
  <2> QED BY <1>1, <2>1, <2>2, <2>3 DEF Kept
<1>3. CASE Crash
  <2>1. /\ \A t \in Transfers : run'[t].target = NoPath
        /\ UNCHANGED <<plan, src, dest, omitted, shared>>
    BY <1>3, CrashDoes DEF Kept, Held, AllLocals, Quiet, Crash
  <2>2. Marks' /\ \A t \in Transfers : Fresh(t)'
    BY <2>1 DEF Kept, Marks, Fresh
  <2>3. NothingLost'
    BY <2>1, Static DEF Kept, NothingLost, Spared, Stands
  <2> QED BY <1>1, <2>2, <2>3 DEF Kept
<1>4. CASE UNCHANGED vars
  <2>1. UNCHANGED <<plan, src, dest, run, omitted, shared>>
    BY <1>4 DEF vars
  <2>2. Marks' /\ \A t \in Transfers : Fresh(t)'
    BY <2>1, Static DEF Kept, Marks, Fresh
  <2>3. NothingLost'
    BY <2>1, Static DEF Kept, NothingLost, Spared, Stands
  <2> QED BY <1>1, <2>2, <2>3 DEF Kept
<1> QED BY <1>2, <1>3, <1>4 DEF Next

(* All that is kept, blind looks included: the invariant the next two      *)
(* theorems follow from.                                                   *)
THEOREM KeptInvariance == Spec => []Kept
<1>1. Kept /\ [Next]_vars => Kept'
  BY NextKept
<1> QED BY <1>1, InitKept, PTL DEF Spec

(* Every file is at its source or complete at the destination, whatever    *)
(* fails or is cut off, unless two tries have taken one name, another's    *)
(* rule says to overwrite, another's look at a remote target fails, a walk *)
(* leaves the file out, or a directory is moved file by file by policy     *)
(* overwrite: copy, then delete, and the conflict policies in movers.py.   *)
THEOREM NothingLostHolds == Spec => []NothingLost
<1>1. Kept => NothingLost
  BY DEF Kept
<1> QED BY <1>1, KeptInvariance, PTL

LEMMA StepSpares ==
    ASSUME Kept, NEW u \in Transfers, Step(u),
           NEW t \in Transfers, NEW p \in Paths,
           Whole(t, p), ~Whole(t, p)', ~shared
    PROVE  SameTree(run[u].target, p) /\ MayOverwrite(u)
<1>0. AllLocals /\ TypeOK /\ plan' = plan /\ Fresh(u) /\ Locals(u)
  BY StepLocals DEF Kept, Held, AllLocals, Own
<1>1. Changes(u)
  BY <1>0, StepIs DEF Rests, Aimed, Enters, Whole
<1>2. SameTree(run[u].target, p) /\ run[u].target # NoPath /\ src[u] # Gone
  BY <1>0, <1>1, PickChange DEF Whole
<1> SUFFICES ASSUME ~MayOverwrite(u) PROVE FALSE
  BY <1>2
<1>3. PICK x \in Contents :
          /\ dest'[run[u].target] = x
          /\ \A q \in Paths : q # run[u].target => dest'[q] = dest[q]
          /\ Puts(u, x) \/ Settles(u, x) \/ Renames(u, x)
  BY <1>0, <1>1, PickChange DEF Clears, MayOverwrite
<1>4. p = run[u].target
  BY <1>0, <1>3 DEF Whole
<1>5. u = t /\ plan[u].files \subseteq run[u].written
  BY <1>0, <1>2, <1>4, WholeIsOwn
<1>6. plan[u].files # {} /\ src[u] \subseteq plan[u].files
  BY <1>0, <1>2, PlanFields DEF Locals, Sources
<1>7. CASE Puts(u, x)
  BY <1>5, <1>6, <1>7 DEF Puts
<1>8. CASE Settles(u, x)
  <2>1. dest'[p] = dest[p]
    BY <1>3, <1>4, <1>8 DEF Settles, Content, Whole
  <2> QED BY <1>0, <2>1 DEF Whole
<1>9. CASE Renames(u, x)
  BY <1>5, <1>6, <1>9 DEF Renames
<1> QED BY <1>3, <1>7, <1>8, <1>9

(* Policies rename and skip leave every whole copy as it is where looks do *)
(* not fail: _apply_conflict_policy and the free suffixes of movers.py.    *)
THEOREM ExistingKeptHolds == Spec => ExistingKept
<1>1. ASSUME Kept, [Next]_vars, NEW t \in Transfers, NEW p \in Paths,
             Whole(t, p), ~Whole(t, p)', ~shared
      PROVE  \E u \in Transfers :
                SameTree(run[u].target, p) /\ MayOverwrite(u)
  <2>1. CASE UNCHANGED vars \/ Crash
    BY <1>1, <2>1 DEF vars, Crash, Whole
  <2> QED BY <1>1, <2>1, StepSpares DEF Next
<1>2. Kept /\ [Next]_vars =>
      [\A t \in Transfers, p \in Paths :
          Whole(t, p) /\ ~Whole(t, p)' /\ ~shared =>
              \E u \in Transfers :
                  SameTree(run[u].target, p) /\ MayOverwrite(u)]_vars
  BY <1>1
<1> QED BY <1>2, KeptInvariance, PTL DEF Spec, ExistingKept

-----------------------------------------------------------------------------
(* Torrents with names of their own never share a target.                  *)
Distinct == \A t, u \in Transfers : Name[t] = Name[u] => t = u

Separate == Held /\ Marks /\ ~shared

LEMMA NeverShared ==
    ASSUME Distinct, Separate, [Next]_vars
    PROVE  ~shared'
<1>1. ASSUME NEW t \in Transfers, Step(t) PROVE ~shared'
  <2>1. CASE Rests(t) \/ Enters(t) \/ Changes(t)
    BY <2>1 DEF Separate, Rests, Enters, Changes
  <2>2. CASE Takes(t)
    <3>1. PICK path \in Paths, pc \in PcType :
              UseTarget(t, path, pc) /\ path[1] = Name[t]
      BY <2>2 DEF Takes
    <3>2. ASSUME NEW u \in Transfers \ {t}, SameTree(run[u].target, path)
          PROVE  FALSE
      <4>1. Name[u] = path[1]
        BY <3>2 DEF SameTree, Separate, Held, AllLocals, Locals, Aims
      <4> QED BY <3>1, <4>1 DEF Distinct
    <3> QED BY <3>1, <3>2 DEF UseTarget, Separate
  <2> QED BY <1>1, <2>1, <2>2, StepIs DEF Separate, Held, AllLocals, Aimed
<1>2. CASE Crash \/ UNCHANGED vars
  BY <1>2 DEF Crash, vars, Separate
<1> QED BY <1>1, <1>2 DEF Next

LEMMA NextSeparate ==
    ASSUME Distinct, Separate, [Next]_vars
    PROVE  Separate'
<1>1. ASSUME NEW t \in Transfers, Step(t) PROVE Marks'
  BY <1>1, MarksKept DEF Separate, Held
<1>2. ASSUME Crash \/ UNCHANGED vars PROVE Marks'
  BY <1>2 DEF Crash, vars, Separate, Marks
<1>3. Marks'
  BY <1>1, <1>2 DEF Next
<1> QED BY <1>3, NextHeld, NeverShared DEF Separate

(* A step changes nothing of what is delivered of other torrents.          *)
LEMMA OthersDelivered ==
    ASSUME Distinct, Separate, Marks', NEW t \in Transfers, Step(t),
           NEW u \in Transfers \ {t}
    PROVE  Delivered(u)' <=> Delivered(u)
<1>0. AllLocals /\ TypeOK /\ Marks /\ plan' = plan /\ Locals(t)
  BY StepLocals DEF Separate, Held, AllLocals, Own
<1>1. CASE dest' = dest
  BY <1>0, <1>1 DEF Delivered, Whole
<1>2. CASE Changes(t)
  <2>1. /\ run[t].target[1] = Name[t]
        /\ \A q \in Paths :
              ~SameTree(run[t].target, q) => dest'[q] = dest[q]
    BY <1>0, <1>2, PickChange
  <2>2. PICK f \in plan[u].files : f \in AllFiles
    BY <1>0, PlanFields
  <2>3. Hole # u
    BY ValuesAssumption
  <2>4. ASSUME NEW q \in Paths PROVE Whole(u, q)' <=> Whole(u, q)
    <3>1. CASE SameTree(run[t].target, q)
      <4>1. q[1] # Name[u]
        BY <2>1, <3>1 DEF SameTree, Distinct
      <4>2. ~Whole(u, q)
        BY <1>0, <4>1, NameOfWhole
      <4>3. ASSUME Whole(u, q)' PROVE FALSE
        <5>1. dest'[q] # Absent /\ dest'[q][f] = u
          BY <1>0, <2>2, <4>3 DEF Whole
        <5> QED BY <2>2, <2>3, <4>1, <5>1 DEF Marks
      <4> QED BY <4>2, <4>3
    <3>2. CASE ~SameTree(run[t].target, q)
      BY <1>0, <2>1, <3>2 DEF Whole
    <3> QED BY <3>1, <3>2
  <2> QED BY <2>4 DEF Delivered
<1> QED BY <1>0, <1>1, <1>2, StepIs DEF Rests, Aimed, Enters

(* What Payload is told of: the sources and the copies of single files.    *)
AtSource == {t \in Transfers : src[t] # Gone \/ IsDirectory(t)}
AtDest == {t \in Transfers : Delivered(t) /\ ~IsDirectory(t)}

LEMMA StepOnFiles ==
    ASSUME Distinct, Separate, Marks', NEW t \in Transfers, Step(t)
    PROVE  \/ UNCHANGED <<AtSource, AtDest>>
           \/ /\ t \in AtSource /\ AtSource' = AtSource
              /\ AtDest' = AtDest \cup {t} \/ AtDest' = AtDest \ {t}
           \/ /\ t \in AtSource /\ AtSource' = AtSource \ {t}
              /\ AtDest' = AtDest \cup {t}
<1>0. /\ AllLocals /\ TypeOK /\ Own(t) /\ Locals(t) /\ plan' = plan
      /\ \A u \in Transfers : IsDirectory(u)' <=> IsDirectory(u)
  BY StepLocals DEF Separate, Held, AllLocals, Own, IsDirectory
<1>1. ASSUME NEW u \in Transfers \ {t}
      PROVE  /\ u \in AtSource' <=> u \in AtSource
             /\ u \in AtDest' <=> u \in AtDest
  <2>1. src'[u] = src[u]
    BY <1>0 DEF Own
  <2>2. Delivered(u)' <=> Delivered(u)
    BY OthersDelivered
  <2> QED BY <1>0, <2>1, <2>2 DEF AtSource, AtDest
<1>2. AtSource \subseteq Transfers /\ AtDest \subseteq Transfers
      /\ AtSource' \subseteq Transfers /\ AtDest' \subseteq Transfers
  BY DEF AtSource, AtDest
<1>3. CASE IsDirectory(t)
  BY <1>0, <1>1, <1>2, <1>3 DEF AtSource, AtDest
<1>4. CASE ~IsDirectory(t) /\ src'[t] = Gone /\ src[t] # Gone
  <2> DEFINE p == run[t].target
  <2>0. /\ src[t] = plan[t].files /\ plan[t].files # {}
        /\ omitted[t] = {}
    BY <1>0, <1>4, PlanFields DEF Locals, Sources, Splits
  <2>1. /\ p \in Paths /\ dest'[p] # Absent
        /\ \A f \in plan[t].files : dest'[p][f] = t
    BY <1>4, <2>0, GivenUp DEF Separate
  <2>2. Delivered(t)'
    BY <1>0, <2>1 DEF Delivered, Whole
  <2>3. t \in AtSource /\ t \notin AtSource' /\ t \in AtDest'
    BY <1>0, <1>4, <2>2 DEF AtSource, AtDest
  <2> QED BY <1>1, <1>2, <2>3
<1>5. CASE ~IsDirectory(t) /\ src[t] = Gone
  <2>1. ~Changes(t)
    BY <1>0, <1>5, PickChange
  <2>2. dest' = dest
    BY <1>0, <2>1, StepIs DEF Rests, Aimed, Enters
  <2>3. Delivered(t)' <=> Delivered(t)
    BY <1>0, <2>2 DEF Delivered, Whole
  <2>4. src'[t] = Gone
    BY <1>0, <1>5
    DEF Locals, Sources, Splits, Step, Begin, Start, SpaceFound, NoSpace, Probe,
        ClearRest, CopyDone, StepFails, ClearFile, OpenFile, WriteFile,
        OmitFile, ShutilMove, MoveByRename, DeleteRest, DeleteFile
  <2> QED BY <1>0, <1>1, <1>2, <1>5, <2>3, <2>4 DEF AtSource, AtDest
<1>6. CASE ~IsDirectory(t) /\ src'[t] # Gone /\ src[t] # Gone
  <2>1. t \in AtSource /\ t \in AtSource'
    BY <1>0, <1>6 DEF AtSource
  <2>2. AtSource' = AtSource
    BY <1>1, <1>2, <2>1
  <2>3. AtDest' = AtDest \cup {t} \/ AtDest' = AtDest \ {t}
    BY <1>1, <1>2
  <2> QED BY <2>1, <2>2, <2>3
<1> QED BY <1>3, <1>4, <1>5, <1>6

LEMMA NextRefines ==
    ASSUME Distinct, Separate, [Next]_vars
    PROVE  [Abstract!Next]_(Abstract!vars)
<1>1. Marks'
  BY NextSeparate DEF Separate
<1>2. ASSUME UNCHANGED <<AtSource, AtDest>>
      PROVE  [Abstract!Next]_(Abstract!vars)
  BY <1>2 DEF Abstract!vars, AtSource, AtDest
<1>3. ASSUME NEW t \in Transfers, Step(t)
      PROVE  [Abstract!Next]_(Abstract!vars)
  <2>1. CASE /\ t \in AtSource /\ AtSource' = AtSource
             /\ AtDest' = AtDest \cup {t}
    BY <2>1 DEF Abstract!Next, Abstract!Deliver, AtSource, AtDest
  <2>2. CASE /\ t \in AtSource /\ AtSource' = AtSource
             /\ AtDest' = AtDest \ {t}
    BY <2>2 DEF Abstract!Next, Abstract!Replace, AtSource, AtDest
  <2>3. CASE /\ t \in AtSource /\ AtSource' = AtSource \ {t}
             /\ AtDest' = AtDest \cup {t}
    BY <2>3 DEF Abstract!Next, Abstract!Relocate, AtSource, AtDest
  <2> QED BY <1>1, <1>2, <1>3, <2>1, <2>2, <2>3, StepOnFiles
<1>4. CASE Crash \/ UNCHANGED vars
  <2>1. UNCHANGED <<plan, src, dest>>
    BY <1>4 DEF Crash, vars
  <2>2. UNCHANGED <<AtSource, AtDest>>
    BY <2>1 DEF AtSource, AtDest, IsDirectory, Delivered, Whole
  <2> QED BY <1>2, <2>2
<1> QED BY <1>3, <1>4 DEF Next

(* Transfers of torrents with names of their own implement Payload, blind  *)
(* looks, crashes and changes of method included: movers.py as a whole.    *)
THEOREM Refinement ==
    ASSUME Distinct PROVE Spec => ImplementsPayload
<1>1. Init => Separate
  BY InitHeld DEF Init, Separate, Marks
<1>2. Separate /\ [Next]_vars => Separate'
  BY NextSeparate
<1>3. Init => Abstract!Init
  <2>1. ASSUME Init PROVE AtSource = Transfers /\ AtDest = {}
    <3>1. /\ \A t \in Transfers : src[t] # Gone
          /\ \A p \in Paths : dest[p] = Absent
      BY <2>1, InitLocals, PlanFields, ValuesAssumption
      DEF AllLocals, Init
    <3> QED BY <3>1 DEF AtSource, AtDest, Delivered, Whole
  <2> QED BY <2>1 DEF Abstract!Init, AtSource, AtDest
<1>4. Separate /\ [Next]_vars => [Abstract!Next]_(Abstract!vars)
  BY NextRefines
<1> QED BY <1>1, <1>2, <1>3, <1>4, PTL
        DEF Spec, ImplementsPayload, Abstract!Spec
=============================================================================
