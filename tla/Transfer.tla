------------------------------ MODULE Transfer ------------------------------
(***************************************************************************)
(* app/movers.py: what transfer_to_destination does to the files at the    *)
(* source and under one destination's base path, file by file, for several *)
(* transfers that may share a target name, be tried by several methods,    *)
(* fail or be cut off at any point, and be tried again by a later cycle.   *)
(* The worker's threads and locks are MoveWorker's; here transfers overlap *)
(* as those of parallel rules, of several rules and of several cycles do.  *)
(* Torrents of one name share a target here, but each has a source of its  *)
(* own: that of another may be the same directory of watch_base_path is    *)
(* left out.                                                               *)
(***************************************************************************)
EXTENDS Naturals, FiniteSets, Sequences

CONSTANTS
    Transfers,      \* torrents routed to the destination
    AllFiles,       \* files there may be in a payload
    Name,           \* [Transfers -> name of the torrent]
    MaxSuffix,      \* bound on the suffixes of policy rename (9999)
    Plans,          \* payloads, and how a rule and a destination may have
                    \* a transfer done
    BlindProbes,    \* a look at a remote target may fail
    WalksOmit,      \* a walk may leave out a directory it cannot list
    MaxCrashes,     \* bound on the crashes of the process
    NoPath, Absent, Hole, Gone

(* <<n, k, 0>> is the path of name n with suffix k under the base path and *)
(* <<n, k, 1>> that of name n in the directory <<n, k, 0>>.                *)
Paths == {Name[t] : t \in Transfers} \X (0 .. MaxSuffix) \X (0 .. 1)

Inside(p) == <<p[1], p[2], 1>>
SameTree(p, q) == /\ p # NoPath /\ q # NoPath
                  /\ p[1] = q[1] /\ p[2] = q[2]

(* route "device": source and destination are on one device, and on two    *)
(* mounts of one by route "mounts".  shells: the methods tried before      *)
(* sftp, which is the last.                                                *)
ShellOrders ==
    {<<>>, <<"rsync">>, <<"scp">>, <<"rsync", "scp">>, <<"scp", "rsync">>}

PlanType == [files : (SUBSET AllFiles) \ {{}},
             mode : {"move", "copy"},
             policy : {"overwrite", "rename", "skip"},
             route : {"device", "mounts", "local", "ssh", "remote"},
             shells : ShellOrders]

ASSUME PlansAssumption ==
    Plans \subseteq {p \in PlanType : p.route # "remote" => p.shells = <<>>}
ASSUME FilesAssumption == IsFiniteSet(AllFiles)
ASSUME ValuesAssumption ==
    /\ NoPath \notin Paths
    /\ Absent \notin [AllFiles -> Transfers \cup {Hole}]
    /\ Hole \notin Transfers
    /\ \A files \in SUBSET AllFiles : files # Gone
ASSUME TransferBounds == /\ MaxSuffix \in Nat /\ MaxCrashes \in Nat
                         /\ BlindProbes \in BOOLEAN /\ WalksOmit \in BOOLEAN

VARIABLES
    plan,       \* what is to be transferred, and how
    src,        \* the files left at each source, or Gone
    dest,       \* per path: Absent, or whose file is there under each name
    run,        \* per transfer: the locals of the try in progress
    result,     \* how each transfer's last try ended, until the next
    omitted,    \* the files walks of each source have left out
    crashes,    \* crashes so far
    shared      \* whether two tries have had the same target at once

vars == <<plan, src, dest, run, result, omitted, crashes, shared>>

(* had: the files the method finds at the source; touched: the try has     *)
(* changed something at the destination.                                   *)
Idle == [pc |-> "idle", attempt |-> 0, target |-> NoPath, had |-> {},
         written |-> {}, touched |-> FALSE]
Results == {"none", "moved", "skipped", "nospace", "missing", "error"}

Init ==
    /\ plan \in [Transfers -> Plans]
    /\ src = [t \in Transfers |-> plan[t].files]
    /\ dest = [p \in Paths |-> Absent]
    /\ run = [t \in Transfers |-> Idle]
    /\ result = [t \in Transfers |-> "none"]
    /\ omitted = [t \in Transfers |-> {}]
    /\ crashes = 0
    /\ shared = FALSE

-----------------------------------------------------------------------------
Empty == [f \in AllFiles |-> Hole]
Content(p) == IF dest[p] = Absent THEN Empty ELSE dest[p]
Whole(t, p) == dest[p] # Absent /\ \A f \in plan[t].files : dest[p][f] = t
Delivered(t) == \E p \in Paths : Whole(t, p)
IsDirectory(t) == Cardinality(plan[t].files) > 1

Remote(t) == plan[t].route = "remote"
Method(t) == IF run[t].attempt < Len(plan[t].shells)
             THEN plan[t].shells[run[t].attempt + 1] ELSE "sftp"

(* On one device a move is left to shutil.move, which renames if it can.   *)
ByMove(t) == plan[t].mode = "move" /\ plan[t].route \in {"device", "mounts"}
ByRename(t) == ByMove(t) /\ plan[t].route = "device"

(* The copy loop and the upload by sftp go by os.walk, which passes over a *)
(* directory it cannot list; the other methods fail.                       *)
Walks(t) ==
    /\ WalksOmit /\ IsDirectory(t)
    /\ \/ Remote(t) /\ Method(t) = "sftp"
       \/ plan[t].route # "ssh" /\ ~Remote(t) /\ ~ByMove(t)

(* scp -r and shutil.move put a directory into one that is there.          *)
Nests(t) == /\ IsDirectory(t)
            /\ ByMove(t) \/ (Remote(t) /\ Method(t) = "scp")
Landing(t) ==
    LET p == run[t].target
    IN  IF Nests(t) /\ dest[p] # Absent THEN Inside(p) ELSE p

(* Wrong: the policy is applied before the space is checked on any route.  *)
AlwaysSpaceLast(t) == TRUE

(* On a remote route the space is checked after the policy is applied.     *)
SpaceLast(t) == Remote(t)

AfterTarget(t) ==
    IF SpaceLast(t) THEN "space" ELSE IF ByMove(t) THEN "move" ELSE "write"

Goto(t, pc) == run' = [run EXCEPT ![t].pc = pc]

End(t, outcome) ==
    /\ run' = [run EXCEPT ![t] = Idle]
    /\ result' = [result EXCEPT ![t] = outcome]

(* An exception.  That of a shell method only leads to the next method.    *)
Raise(t, outcome) ==
    IF run[t].attempt < Len(plan[t].shells)
    THEN /\ run' = [run EXCEPT ![t] = [Idle EXCEPT
                        !.pc = "start", !.attempt = run[t].attempt + 1,
                        !.touched = run[t].touched]]
         /\ UNCHANGED result
    ELSE End(t, outcome)

-----------------------------------------------------------------------------
Begin(t) ==
    /\ run[t].pc = "idle"
    /\ Goto(t, "start")
    /\ result' = [result EXCEPT ![t] = "none"]
    /\ UNCHANGED <<plan, src, dest, omitted, crashes, shared>>

(* Wrong: no method looks whether the source is still there.               *)
StartUnchecked(t) ==
    /\ run[t].pc = "start"
    /\ run' = [run EXCEPT ![t].had = IF src[t] = Gone THEN {} ELSE src[t],
                          ![t].pc = "probe"]
    /\ UNCHANGED <<plan, src, dest, result, omitted, crashes, shared>>

(* The source is looked for, by each method again.                         *)
Start(t) ==
    /\ run[t].pc = "start"
    /\ IF src[t] = Gone THEN Raise(t, "missing")
       ELSE /\ run' = [run EXCEPT ![t].had = src[t], ![t].pc =
                        IF SpaceLast(t) \/ ByMove(t)
                        THEN "probe" ELSE "space"]
            /\ UNCHANGED result
    /\ UNCHANGED <<plan, src, dest, omitted, crashes, shared>>

(* The method is begun, at the target or inside it.                        *)
Enter(t) ==
    run' = [run EXCEPT ![t].target = Landing(t),
                       ![t].pc = IF ByRename(t) THEN "rename" ELSE "write"]

(* _ensure_local_free_space, _ensure_remote_free_space.                    *)
SpaceFound(t) ==
    /\ run[t].pc = "space"
    /\ IF SpaceLast(t) THEN Enter(t) ELSE Goto(t, "probe")
    /\ UNCHANGED <<plan, src, dest, result, omitted, crashes, shared>>

NoSpace(t) ==
    /\ run[t].pc = "space"
    /\ Raise(t, "nospace")
    /\ UNCHANGED <<plan, src, dest, omitted, crashes, shared>>

(* Wrong: the target is never looked at.                                   *)
UnseenAlways(t) == TRUE

(* Is there something at the target?  A look that fails says no.           *)
Seen(t) == dest[<<Name[t], 0, 0>>] # Absent
Blind(t) == BlindProbes /\ Remote(t)
Unseen(t) == ~Seen(t) \/ Blind(t)

UseTarget(t, path, pc) ==
    /\ run' = [run EXCEPT ![t].pc = pc, ![t].target = path]
    /\ shared' = (shared \/ \E u \in Transfers \ {t} :
                               SameTree(run[u].target, path))
    /\ UNCHANGED result

(* Wrong: the suffixes are not looked at.                                  *)
SuffixesUnlooked(t) == 1 .. MaxSuffix

(* Wrong: one suffix more than the code tries.                             *)
SuffixesOneMore(t) ==
    {n \in 1 .. MaxSuffix + 1 :
        n > MaxSuffix \/ dest[<<Name[t], n, 0>>] = Absent}

FreeSuffixes(t) == {n \in 1 .. MaxSuffix : dest[<<Name[t], n, 0>>] = Absent}

(* The first suffix that is free or taken for free by a look that fails.   *)
MayTake(t) == FreeSuffixes(t) \cup {n \in 1 .. MaxSuffix : Blind(t)}

TakeFreeSuffix(t) ==
    \/ \E n \in MayTake(t) :
        /\ \A m \in FreeSuffixes(t) : n <= m
        /\ UseTarget(t, <<Name[t], n, 0>>, AfterTarget(t))
    \/ FreeSuffixes(t) = {} /\ Raise(t, "error") /\ UNCHANGED shared

(* Wrong: overwrite, too, leaves what is there.                            *)
ProbeNeverClearing(t) ==
    /\ run[t].pc = "probe"
    /\ \/ Unseen(t) /\ UseTarget(t, <<Name[t], 0, 0>>, AfterTarget(t))
       \/ Seen(t) /\ plan[t].policy = "rename" /\ TakeFreeSuffix(t)
       \/ Seen(t) /\ plan[t].policy # "rename" /\ End(t, "skipped")
          /\ UNCHANGED shared
    /\ UNCHANGED <<plan, src, dest, omitted, crashes>>

(* The conflict policy decides what becomes of something at the target.    *)
Probe(t) ==
    LET p == <<Name[t], 0, 0>>
        policy == plan[t].policy
    IN  /\ run[t].pc = "probe"
        /\ \/ Unseen(t) /\ UseTarget(t, p, AfterTarget(t))
           \/ Seen(t) /\ policy = "overwrite" /\ UseTarget(t, p, "clear")
           \/ Seen(t) /\ policy = "rename" /\ TakeFreeSuffix(t)
           \/ Seen(t) /\ policy = "skip" /\ End(t, "skipped")
              /\ UNCHANGED shared
        /\ UNCHANGED <<plan, src, dest, omitted, crashes>>

(* _remove_local_path and its remote kin: a directory goes file by file.   *)
ClearFile(t, f) ==
    /\ run[t].pc = "clear" /\ IsDirectory(t)
    /\ \E p \in {run[t].target, Inside(run[t].target)} :
        /\ dest[p] # Absent
        /\ dest[p][f] # Hole
        /\ dest' = [dest EXCEPT ![p][f] = Hole]
    /\ run' = [run EXCEPT ![t].touched = TRUE]
    /\ UNCHANGED <<plan, src, result, omitted, crashes, shared>>

ClearRest(t) ==
    LET p == run[t].target
    IN  /\ run[t].pc = "clear"
        /\ IsDirectory(t) => Content(p) = Empty /\ Content(Inside(p)) = Empty
        /\ dest' = [q \in Paths |-> IF SameTree(p, q) THEN Absent ELSE dest[q]]
        /\ run' = [run EXCEPT ![t].pc = AfterTarget(t), ![t].touched = TRUE]
        /\ UNCHANGED <<plan, src, result, omitted, crashes, shared>>

(* Every copy loop goes file by file: the file is opened for writing ...   *)
Put(t, f, what) ==
    /\ run[t].pc = "write"
    /\ src[t] # Gone
    /\ f \in run[t].had \ run[t].written
    /\ dest' = [dest EXCEPT ![run[t].target] =
                    [Content(run[t].target) EXCEPT ![f] = what]]

OpenFile(t, f) ==
    /\ Put(t, f, Hole)
    /\ dest' # dest
    /\ run' = [run EXCEPT ![t].touched = TRUE]
    /\ UNCHANGED <<plan, src, result, omitted, crashes, shared>>

(* ... and written to its end, ...                                         *)
WriteFile(t, f) ==
    /\ Put(t, f, t)
    /\ run' = [run EXCEPT ![t].written = @ \cup {f}, ![t].touched = TRUE]
    /\ UNCHANGED <<plan, src, result, omitted, crashes, shared>>

(* ... or never found, and nothing says so.                                *)
OmitFile(t, f) ==
    /\ run[t].pc = "write" /\ Walks(t)
    /\ f \in run[t].had \ run[t].written
    /\ run' = [run EXCEPT ![t].had = @ \ {f}]
    /\ omitted' = [omitted EXCEPT ![t] = @ \cup {f}]
    /\ UNCHANGED <<plan, src, dest, result, crashes, shared>>

(* Wrong: the loop ends before the last file.                              *)
CopyDoneEarly(t) ==
    /\ run[t].pc = "write"
    /\ src[t] # Gone
    /\ IF plan[t].mode = "move"
       THEN Goto(t, "delete") /\ UNCHANGED result
       ELSE End(t, "moved")
    /\ dest' = [dest EXCEPT ![run[t].target] = Content(run[t].target)]
    /\ UNCHANGED <<plan, src, omitted, crashes, shared>>

(* All that is found at the source is copied.                              *)
CopyDone(t) ==
    /\ run[t].pc = "write"
    /\ src[t] # Gone
    /\ run[t].had \subseteq run[t].written
    /\ IF plan[t].mode = "move"
       THEN Goto(t, "delete") /\ UNCHANGED result
       ELSE End(t, "moved")
    /\ dest' = [dest EXCEPT ![run[t].target] = Content(run[t].target)]
    /\ UNCHANGED <<plan, src, omitted, crashes, shared>>

(* shutil.move looks where it would land, and does not replace a directory *)
(* there.  On one mount it renames; between two mounts of one device the   *)
(* rename is refused and it copies and deletes.                            *)
ShutilMove(t) ==
    /\ run[t].pc = "move"
    /\ IsDirectory(t) => dest[Landing(t)] = Absent
    /\ Enter(t)
    /\ UNCHANGED <<plan, src, dest, result, omitted, crashes, shared>>

MoveByRename(t) ==
    /\ run[t].pc = "rename"
    /\ src[t] # Gone
    /\ IsDirectory(t) => dest[run[t].target] = Absent
    /\ dest' = [dest EXCEPT ![run[t].target] =
                    [f \in AllFiles |-> IF f \in src[t] THEN t ELSE Hole]]
    /\ src' = [src EXCEPT ![t] = Gone]
    /\ End(t, "moved")
    /\ UNCHANGED <<plan, omitted, crashes, shared>>

(* A move deletes its source: a directory file by file, then the rest.     *)
DeleteFile(t, f) ==
    /\ run[t].pc = "delete"
    /\ IsDirectory(t)
    /\ f \in src[t]
    /\ src' = [src EXCEPT ![t] = @ \ {f}]
    /\ UNCHANGED <<plan, dest, run, result, omitted, crashes, shared>>

DeleteRest(t) ==
    /\ run[t].pc = "delete"
    /\ IsDirectory(t) => src[t] = {}
    /\ src' = [src EXCEPT ![t] = Gone]
    /\ End(t, "moved")
    /\ UNCHANGED <<plan, dest, omitted, crashes, shared>>

(* Whatever a try is at, connecting, looking, deleting or writing, it may  *)
(* fail: an exception.  A FileNotFoundError at any point is taken for a    *)
(* source that is missing.                                                 *)
StepFails(t) ==
    /\ run[t].pc # "idle"
    /\ Raise(t, "error") \/ Raise(t, "missing")
    /\ UNCHANGED <<plan, src, dest, omitted, crashes, shared>>

(* The process ends, and with it every try; a later cycle begins again.    *)
Crash ==
    /\ crashes < MaxCrashes
    /\ crashes' = crashes + 1
    /\ run' = [t \in Transfers |-> Idle]
    /\ UNCHANGED <<plan, src, dest, result, omitted, shared>>

-----------------------------------------------------------------------------
Step(t) ==
    \/ Begin(t) \/ Start(t) \/ SpaceFound(t) \/ NoSpace(t) \/ Probe(t)
    \/ ClearRest(t) \/ CopyDone(t) \/ ShutilMove(t) \/ MoveByRename(t)
    \/ DeleteRest(t) \/ StepFails(t)
    \/ \E f \in AllFiles :
        \/ ClearFile(t, f) \/ OpenFile(t, f) \/ WriteFile(t, f)
        \/ OmitFile(t, f) \/ DeleteFile(t, f)

Next == Crash \/ \E t \in Transfers : Step(t)

Spec == Init /\ [][Next]_vars

(* A try goes on to its end, the worker tries again, and nothing fails     *)
(* every time: that no transfer hangs is assumed, as none has a timeout.   *)
Fairness ==
    \A t \in Transfers :
        /\ WF_vars(Step(t))
        /\ SF_vars(Begin(t))
        /\ SF_vars(Start(t))
        /\ SF_vars(SpaceFound(t))
        /\ SF_vars(Probe(t))
        /\ SF_vars(ClearRest(t))
        /\ \A f \in AllFiles : SF_vars(WriteFile(t, f))
        /\ SF_vars(ShutilMove(t))
        /\ SF_vars(MoveByRename(t))
        /\ SF_vars(CopyDone(t))
        /\ SF_vars(DeleteRest(t))

FairSpec == Spec /\ Fairness

-----------------------------------------------------------------------------
(* Properties.                                                             *)

RunType == [pc : {"idle", "start", "space", "probe", "clear", "move",
                  "rename", "write", "delete"},
            attempt : 0 .. 2, target : Paths \cup {NoPath},
            had : SUBSET AllFiles, written : SUBSET AllFiles,
            touched : BOOLEAN]

TypeOK ==
    /\ plan \in [Transfers -> Plans]
    /\ src \in [Transfers -> (SUBSET AllFiles) \cup {Gone}]
    /\ dest \in [Paths -> [AllFiles -> Transfers \cup {Hole}] \cup {Absent}]
    /\ run \in [Transfers -> RunType]
    /\ result \in [Transfers -> Results]
    /\ omitted \in [Transfers -> SUBSET AllFiles]
    /\ crashes \in 0 .. MaxCrashes
    /\ shared \in BOOLEAN

(* Every file is at its source or complete at the destination, whatever    *)
(* fails or is cut off, unless another torrent's rule says to overwrite,   *)
(* another's look at a remote target fails, two tries have taken the same  *)
(* name (to look for a free one and to take it are two steps, and no lock  *)
(* joins them), or a walk of the source has left the file out: os.walk is  *)
(* told of no error, and a move deletes what it has not copied.  Not so    *)
(* for a directory that is moved file by file by policy overwrite, as also *)
(* between two mounts of one device: after a try that was cut off in       *)
(* deleting the next clears what only the destination has.                 *)
MayOverwrite(t) == plan[t].policy = "overwrite" \/ Blind(t)
Spared(t) ==
    \A u \in Transfers \ {t} : Name[u] = Name[t] => ~MayOverwrite(u)
Replaces(t) == /\ IsDirectory(t) /\ plan[t].policy = "overwrite"
               /\ plan[t].mode = "move" /\ ~ByRename(t)
Stands(t, f) == \/ src[t] # Gone /\ f \in src[t]
                \/ \E p \in Paths : dest[p] # Absent /\ dest[p][f] = t

NothingLost ==
    \A t \in Transfers : ~shared /\ Spared(t) /\ ~Replaces(t) =>
        \A f \in plan[t].files \ omitted[t] : Stands(t, f)

(* Policies rename and skip leave every complete copy as it is, the try's  *)
(* own earlier ones and those of torrents of the same name, unless a look  *)
(* at it fails or two tries have taken the same name.                      *)
ExistingKept ==
    [][\A t \in Transfers, p \in Paths :
        Whole(t, p) /\ ~Whole(t, p)' /\ ~shared =>
            \E u \in Transfers :
                SameTree(run[u].target, p) /\ MayOverwrite(u)]_vars

(* On local routes a try that refuses the torrent, for a conflict or for   *)
(* want of space, has changed nothing.  Not so one that is logged as       *)
(* skipped because its source is missing: any FileNotFoundError counts as  *)
(* that, also after the target is cleared or written.                      *)
Ends(t) == run[t].pc # "idle" /\ run'[t].pc = "idle"

SkippedUntouched ==
    [][\A t \in Transfers :
        Ends(t) /\ ~Remote(t) /\ run[t].touched /\ crashes' = crashes
        => result'[t] \notin {"skipped", "nospace"}]_vars

(* A try that says "moved" leaves where it has put it, all that it has     *)
(* found at the source, unless two tries have taken the same name.  Files  *)
(* that os.walk passes over it has not found, and scp puts a directory     *)
(* into one at the target that a look has missed.                          *)
MovedIsThere ==
    [][\A t \in Transfers :
        Ends(t) /\ crashes' = crashes /\ result'[t] = "moved" /\ ~shared =>
            \A f \in run[t].had : dest'[run[t].target][f] = t]_vars

(* With single files of different names a transfer refines Payload, which  *)
(* is not told of directories.                                             *)
Abstract == INSTANCE Payload
            WITH Torrents <- Transfers,
                 source <- {t \in Transfers :
                               src[t] # Gone \/ IsDirectory(t)},
                 delivered <- {t \in Transfers :
                               Delivered(t) /\ ~IsDirectory(t)}
ImplementsPayload == Abstract!Spec

(* With policy overwrite a single file with a name of its own is delivered *)
(* in the end, and a moved one gives up its source: no leftover of a       *)
(* failed or cut-off try stands in the way.                                *)
OverwriteDelivers ==
    \A t \in Transfers : ~IsDirectory(t) /\ plan[t].policy = "overwrite" =>
        /\ []<>Delivered(t)
        /\ plan[t].mode = "move" => <>[](src[t] = Gone /\ Delivered(t))
=============================================================================
