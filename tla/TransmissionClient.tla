-------------------------- MODULE TransmissionClient --------------------------
(***************************************************************************)
(* Transmission's RPC as app/transmission.py uses it: the session id that  *)
(* a daemon demands, one repetition when it has changed, edits of labels   *)
(* in three calls (app/routers/transmission.py), and the worker that lists *)
(* torrents, transfers one for a long time and removes it by the id that   *)
(* was listed (app/worker.py).  A daemon that restarts has another session *)
(* id and may number its torrents anew.  Requests and replies may be lost. *)
(***************************************************************************)
EXTENDS Naturals

CONSTANTS
    Editors,    \* threads that serve edits of labels
    Workers,    \* threads that transfer torrents
    Torrents,
    Labels,
    MaxId,      \* bound on the ids a daemon gives
    MaxEpoch,   \* bound on the session ids: the daemon's starts
    None

ASSUME ClientAssumption ==
    /\ MaxId \in Nat \ {0} /\ MaxEpoch \in Nat \ {0} /\ None \notin Torrents
    /\ Editors \cap Workers = {}

Threads == Editors \cup Workers
Ids == 1 .. MaxId
Edits == [add : BOOLEAN, label : Labels]

VARIABLES
    epoch,      \* the daemon's session id, 1 at first
    ids,        \* per id: its torrent
    labels,     \* per torrent
    call,       \* per thread: the locals of its client and handler
    wanted,     \* per torrent: its labels if edits come one after the other,
                \* of no use once it is mixed
    mixed,      \* torrents whose labels were written by an edit that had not
                \* read them, or not the last of them
    moved,      \* torrents whose transfer is done
    gone,       \* torrents the workers have removed
    misled      \* those removed by an id that had been another torrent's

daemon == <<epoch, ids, labels>>
history == <<wanted, mixed, moved, gone, misled>>
vars == <<daemon, call, history>>

Idle == [at |-> "idle"]

(* The first call of a thread, whose new client has no session id.         *)
Call(at, id) ==
    [at |-> at, sid |-> 0, id |-> id, torrent |-> None, edit |-> None,
     seen |-> {}, repeated |-> FALSE, replied |-> FALSE, runs |-> 0,
     renewed |-> FALSE, stale |-> FALSE]

Numbered(f) == /\ {f[i] : i \in Ids} \ {None} = {ids[i] : i \in Ids} \ {None}
               /\ \A i, j \in Ids : f[i] = f[j] /\ f[i] # None => i = j

Init ==
    /\ epoch = 1
    /\ ids \in [Ids -> Torrents]
    /\ \A i, j \in Ids : ids[i] = ids[j] => i = j
    /\ labels = [t \in Torrents |-> {}]
    /\ call = [c \in Threads |-> Idle]
    /\ wanted = labels
    /\ mixed = {} /\ moved = {} /\ gone = {} /\ misled = {}

-----------------------------------------------------------------------------
InCall(c) == call[c].at \in {"get", "set", "check", "list", "remove"}
Sending(c) == InCall(c) /\ ~call[c].replied

(* Whether a thread holds an id that it has learned from the daemon.       *)
HoldsId(c) == \/ call[c].at \in {"set", "remove"} /\ ~call[c].replied
              \/ call[c].at = "transfer"

(* The daemon restarts, or only renews its session id.                     *)
Restart(f) ==
    /\ epoch < MaxEpoch
    /\ Numbered(f)
    /\ epoch' = epoch + 1
    /\ ids' = f
    /\ call' = [c \in Threads |->
          IF call[c] = Idle THEN Idle
          ELSE [call[c] EXCEPT !.renewed = call[c].repeated,
                  !.stale = \/ @
                            \/ HoldsId(c) /\ f[call[c].id] # ids[call[c].id]]]
    /\ UNCHANGED <<labels, history>>

-----------------------------------------------------------------------------
(* _post.                                                                  *)

(* Wrong: the new session id is not kept.                                  *)
KeepOld(c) == call[c].sid

(* The answer 409 carries the session id.                                  *)
NewSid(c) == epoch

(* The first 409: the request is sent again.                               *)
Refused(c) ==
    /\ Sending(c)
    /\ call[c].sid # epoch /\ ~call[c].repeated
    /\ call' = [call EXCEPT ![c].sid = NewSid(c), ![c].repeated = TRUE,
                            ![c].renewed = FALSE]
    /\ UNCHANGED <<daemon, history>>

(* The second fails.                                                       *)
GiveUp(c) ==
    /\ Sending(c)
    /\ call[c].sid # epoch /\ call[c].repeated
    /\ call' = [call EXCEPT ![c] = Idle]
    /\ UNCHANGED <<daemon, history>>

(* Wrong: what was lost is sent again.                                     *)
SendAgain(c) == [call[c] EXCEPT !.replied = FALSE]

AfterLoss(c) == Idle

(* The request or its reply is lost, or thirty seconds pass.               *)
Lose(c) ==
    /\ InCall(c)
    /\ call' = [call EXCEPT ![c] = AfterLoss(c)]
    /\ UNCHANGED <<daemon, history>>

Accepted(c, at) == Sending(c) /\ call[c].at = at /\ call[c].sid = epoch

(* A request that changes something has been carried out; what was read    *)
(* for it is no longer used.                                               *)
Done(c) == [call[c] EXCEPT !.replied = TRUE, !.runs = @ + 1,
              !.torrent = None, !.seen = {}, !.stale = FALSE]

(* The client's next call.                                                 *)
NextCall(c, at) == [call[c] EXCEPT !.at = at, !.repeated = FALSE,
                       !.replied = FALSE, !.runs = 0, !.renewed = FALSE]

(* The reply comes.                                                        *)
Proceed(c, at, next) ==
    /\ call[c].at = at /\ call[c].replied
    /\ call' = [call EXCEPT ![c] = next]
    /\ UNCHANGED <<daemon, history>>

-----------------------------------------------------------------------------
(* add_label and remove_label: get_torrent, torrent-set, get_torrent.      *)

BeginEdit(c, id, edit) ==
    /\ c \in Editors
    /\ call[c] = Idle
    /\ call' = [call EXCEPT ![c] =
                  [Call("get", id) EXCEPT !.edit = edit]]
    /\ UNCHANGED <<daemon, history>>

(* It ends without the torrent.                                            *)
Get(c) ==
    LET t == ids[call[c].id]
    IN  /\ Accepted(c, "get")
        /\ call' = [call EXCEPT ![c] =
              IF t = None THEN Idle
              ELSE [NextCall(c, "set") EXCEPT !.torrent = t,
                                              !.seen = labels[t]]]
        /\ UNCHANGED <<daemon, history>>

(* Wrong: what the page sent is added, and not the label in it.            *)
Appended(edit, those) == IF edit.add THEN those \cup {edit}
                         ELSE those \ {edit.label}

(* Wrong: the label added is the only one.                                 *)
Replaced(edit, those) == IF edit.add THEN {edit.label}
                         ELSE those \ {edit.label}

Edited(edit, those) == IF edit.add THEN those \cup {edit.label}
                       ELSE those \ {edit.label}

(* Whether another edit has read what is about to change.                  *)
Crosses(c, t) ==
    \E d \in Editors \ {c} :
        /\ call[d].at = "set" /\ ~call[d].replied
        /\ call[d].torrent = t

(* The labels are written, to whatever torrent has the id by now.          *)
Set(c) ==
    LET t == ids[call[c].id]
        e == call[c].edit
    IN  /\ Accepted(c, "set")
        /\ call' = [call EXCEPT ![c] = Done(c)]
        /\ IF t = None THEN UNCHANGED <<labels, wanted, mixed>>
           ELSE /\ labels' = [labels EXCEPT ![t] = Edited(e, call[c].seen)]
                /\ mixed' = IF call[c].stale \/ Crosses(c, t)
                            THEN mixed \cup {t} ELSE mixed
                /\ wanted' = [wanted EXCEPT ![t] =
                     IF t \in mixed' THEN {}
                     ELSE IF e.add THEN @ \cup {e.label}
                     ELSE @ \ {e.label}]
        /\ UNCHANGED <<epoch, ids, moved, gone, misled>>

WasSet(c) == Proceed(c, "set", [NextCall(c, "check") EXCEPT !.edit = None])

(* The torrent is read once more for the answer.                           *)
Check(c) ==
    /\ Accepted(c, "check")
    /\ call' = [call EXCEPT ![c] = Idle]
    /\ UNCHANGED <<daemon, history>>

-----------------------------------------------------------------------------
(* A worker: torrent-get, a transfer, and torrent-remove by a new client.  *)

BeginList(c) ==
    /\ c \in Workers
    /\ call[c] = Idle
    /\ call' = [call EXCEPT ![c] = Call("list", 1)]
    /\ UNCHANGED <<daemon, history>>

List(c) ==
    /\ Accepted(c, "list")
    /\ \E id \in Ids :
          /\ ids[id] # None
          /\ call' = [call EXCEPT ![c] =
                [NextCall(c, "transfer") EXCEPT !.id = id,
                                                !.torrent = ids[id]]]
    /\ UNCHANGED <<daemon, history>>

(* Wrong: a torrent is removed whatever came of its transfer.              *)
EvenIfFailed(c) == call' = [call EXCEPT ![c] = NextCall(c, "remove")]

NotRemoved(c) == call' = [call EXCEPT ![c] = Idle]

Transferred(c) ==
    /\ call[c].at = "transfer"
    /\ moved' = moved \cup {call[c].torrent}
    /\ call' = [call EXCEPT ![c] = [NextCall(c, "remove") EXCEPT !.sid = 0]]
    /\ UNCHANGED <<daemon, wanted, mixed, gone, misled>>

(* Nothing is transferred, or the rule keeps torrents.                     *)
NotTransferred(c) ==
    /\ call[c].at = "transfer"
    /\ NotRemoved(c)
    /\ UNCHANGED <<daemon, history>>

Remove(c) ==
    LET t == ids[call[c].id]
    IN  /\ Accepted(c, "remove")
        /\ call' = [call EXCEPT ![c] = Done(c)]
        /\ ids' = [ids EXCEPT ![call[c].id] = None]
        /\ gone' = gone \cup ({t} \ {None})
        /\ misled' = IF call[c].stale THEN misled \cup ({t} \ {None})
                     ELSE misled
        /\ UNCHANGED <<epoch, labels, wanted, mixed, moved>>

Removed(c) == Proceed(c, "remove", Idle)

-----------------------------------------------------------------------------
Post(c) == Refused(c) \/ GiveUp(c) \/ Lose(c)

EditStep(c) ==
    \/ \E id \in Ids, edit \in Edits : BeginEdit(c, id, edit)
    \/ Get(c) \/ Set(c) \/ WasSet(c) \/ Check(c)

WorkerStep(c) ==
    \/ BeginList(c) \/ List(c) \/ Transferred(c) \/ NotTransferred(c)
    \/ Remove(c) \/ Removed(c)

Next ==
    \/ \E f \in [Ids -> Torrents \cup {None}] : Restart(f)
    \/ \E c \in Threads : Post(c) \/ EditStep(c) \/ WorkerStep(c)

Spec == Init /\ [][Next]_vars

-----------------------------------------------------------------------------
(* The types of the variables: an id has one torrent, and one of Torrents. *)
TypeOK ==
    /\ epoch \in 1 .. MaxEpoch
    /\ ids \in [Ids -> Torrents \cup {None}]
    /\ \A i, j \in Ids : ids[i] = ids[j] /\ ids[i] # None => i = j
    /\ labels \in [Torrents -> SUBSET Labels]
    /\ DOMAIN call = Threads
    /\ \A c \in Threads : InCall(c) =>
          call[c].sid \in 0 .. epoch /\ call[c].id \in Ids
    /\ wanted \in [Torrents -> SUBSET Labels]
    /\ mixed \subseteq Torrents /\ moved \subseteq Torrents
    /\ gone \subseteq Torrents /\ misled \subseteq gone

(* A 409 says that nothing was done, so that the repetition is the first   *)
(* to do anything: no request is carried out twice for one call, not when  *)
(* its reply was lost either.                                              *)
AtMostOnce == \A c \in Threads : InCall(c) => call[c].runs <= 1

(* A call fails for its session id only if the daemon has renewed it after *)
(* it had refused it: one repetition is enough else.                       *)
OneRepetitionIsEnough ==
    [][\A c \in Threads : GiveUp(c) => call[c].renewed]_vars

(* Labels are what the edits made of them, in the order they were written, *)
(* whatever was lost or refused in between, unless an edit has come        *)
(* between the reading and the writing of another, or torrents have been   *)
(* numbered anew there.                                                    *)
EditsStand ==
    \A t \in Torrents \ mixed : labels[t] = wanted[t]

(* README.md:13-14: torrents are moved or copied, and then "optionally     *)
(* remove[d] (and trash[ed])".  What a worker removes was transferred,     *)
(* unless torrents were numbered anew since it was listed.                 *)
RemovedWasMoved == gone \ misled \subseteq moved
=============================================================================
