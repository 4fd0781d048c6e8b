----------------------- MODULE TransmissionClientProofs -----------------------
(***************************************************************************)
(* Proofs about TransmissionClient, for any threads, torrents and labels   *)
(* and any bounds on ids and session ids.                                  *)
(***************************************************************************)
EXTENDS TransmissionClient, TLAPS

Fields == {"at", "sid", "id", "torrent", "edit", "seen", "repeated",
           "replied", "runs", "renewed", "stale"}

(* The locals of a thread that is busy.                                    *)
Busy(q) == DOMAIN q = Fields /\ q.at # "idle"

Locals == /\ DOMAIN call = Threads
          /\ \A c \in Threads : call[c] = Idle \/ Busy(call[c])

LEMMA IdleIs == Idle.at = "idle" /\ ~Busy(Idle)
BY DEF Idle, Busy

LEMMA BusyWhen ==
    ASSUME Locals, NEW c \in Threads, call[c].at # "idle"
    PROVE  Busy(call[c])
BY IdleIs DEF Locals

LEMMA BusyBefore ==
    ASSUME Locals, NEW c \in Threads, call'[c].at = call[c].at,
           Busy(call'[c])
    PROVE  Busy(call[c])
BY BusyWhen DEF Busy

(* One thread moves on.                                                    *)
Moves(c, p) == /\ call'[c] = p
               /\ DOMAIN call' = Threads
               /\ \A d \in Threads \ {c} : call'[d] = call[d]

LEMMA Moved ==
    ASSUME Locals, NEW c \in Threads, NEW p, call' = [call EXCEPT ![c] = p]
    PROVE  Moves(c, p)
BY DEF Locals, Moves

LEMMA DoneIs ==
    ASSUME NEW c, Busy(call[c])
    PROVE  LET p == Done(c)
               q == call[c]
           IN  /\ Busy(p) /\ p.at = q.at /\ p.replied = TRUE
               /\ p.runs = q.runs + 1 /\ p.sid = q.sid
               /\ p.repeated = q.repeated /\ p.renewed = q.renewed
BY DEF Done, Busy, Fields

-----------------------------------------------------------------------------
(* A thread's step, by what it leaves of its locals.                       *)

(* It is told the session id.                                              *)
ToldSid(c) ==
    LET p == call'[c]
        q == call[c]
    IN  /\ q.replied = FALSE
        /\ Busy(p) /\ p.at = q.at /\ p.sid = epoch /\ p.id = q.id
        /\ p.torrent = q.torrent /\ p.edit = q.edit /\ p.seen = q.seen
        /\ p.repeated = TRUE /\ p.replied = q.replied /\ p.runs = q.runs
        /\ p.renewed = FALSE /\ p.stale = q.stale
        /\ UNCHANGED daemon

(* It makes a call, its first or its next.                                 *)
Calls(c) ==
    LET p == call'[c]
    IN  /\ Busy(p)
        /\ p.repeated = FALSE /\ p.replied = FALSE /\ p.runs = 0

(* Its request is carried out.                                             *)
IsDone(c) ==
    LET p == call'[c]
        q == call[c]
    IN  /\ q.replied = FALSE
        /\ Busy(p) /\ p.at = q.at /\ p.replied = TRUE
        /\ p.runs = q.runs + 1 /\ p.sid = q.sid
        /\ p.repeated = q.repeated /\ p.renewed = q.renewed
        /\ epoch' = epoch

(* What the calls of a thread are about: labels, or a transfer.            *)
Reads(c) ==
    LET p == call'[c]
        q == call[c]
    IN  /\ q.at = "get" /\ p.at = "set"
        /\ p.id = q.id /\ p.torrent = ids[q.id]
        /\ p.seen = labels[ids[q.id]]

Lists(c) ==
    LET p == call'[c]
    IN  call[c].at = "list" /\ p.at = "transfer" /\ p.torrent = ids[p.id]

Ends(c) ==
    LET p == call'[c]
        q == call[c]
    IN  /\ q.at = "transfer" /\ p.at = "remove"
        /\ p.id = q.id /\ p.torrent = q.torrent /\ p.stale = q.stale

Asks(c) == \/ call'[c].at = "get" /\ c \in Editors
           \/ call'[c].at = "list" /\ c \in Workers
           \/ call'[c].at = "check" /\ call[c].at = "set"

Others(c) == /\ DOMAIN call' = Threads
             /\ \A d \in Threads \ {c} : call'[d] = call[d]

Step(c) ==
    \/ call'[c] = Idle /\ UNCHANGED <<daemon, history>>
    \/ ToldSid(c) /\ UNCHANGED <<daemon, history>>
    \/ /\ Calls(c) /\ UNCHANGED <<daemon, history>>
       /\ (Reads(c) \/ Lists(c) \/ Asks(c))
    \/ /\ Calls(c) /\ Ends(c)
       /\ moved' = moved \cup {call[c].torrent}
       /\ UNCHANGED <<daemon, wanted, mixed, gone, misled>>
    \/ IsDone(c) /\ (Set(c) \/ Remove(c))

LEMMA RefusedDoes ==
    ASSUME Locals, NEW c \in Threads, Refused(c)
    PROVE  /\ ToldSid(c)
           /\ \A d \in Threads \ {c} : call'[d] = call[d]
           /\ DOMAIN call' = Threads
           /\ UNCHANGED history
<1> DEFINE q == call[c]
           p == [q EXCEPT !.sid = NewSid(c), !.repeated = TRUE,
                          !.renewed = FALSE]
<1>1. Busy(q) /\ q.replied = FALSE
  BY BusyWhen DEF Refused, Sending, InCall
<1>2. call' = [call EXCEPT ![c] = p]
  BY DEF Refused
<1>3. /\ DOMAIN p = Fields /\ p.at = q.at /\ p.sid = epoch /\ p.id = q.id
      /\ p.torrent = q.torrent /\ p.edit = q.edit /\ p.seen = q.seen
      /\ p.repeated = TRUE /\ p.replied = q.replied /\ p.runs = q.runs
      /\ p.renewed = FALSE /\ p.stale = q.stale
  BY <1>1 DEF NewSid, Busy, Fields
<1>4. Busy(p)
  BY <1>1, <1>3 DEF Busy
<1> HIDE DEF p
<1>5. Moves(c, p)
  BY <1>2, Moved
<1> QED BY <1>1, <1>3, <1>4, <1>5 DEF Moves, ToldSid, Refused

LEMMA Ending ==
    ASSUME Locals, NEW c \in Threads, call' = [call EXCEPT ![c] = Idle],
           UNCHANGED <<daemon, history>>
    PROVE  Others(c) /\ Step(c)
BY Moved DEF Moves, Others, Step

LEMMA PostDoes ==
    ASSUME Locals, NEW c \in Threads, Post(c)
    PROVE  Others(c) /\ Step(c)
<1>1. CASE Refused(c)
  BY <1>1, RefusedDoes DEF Others, Step, Refused
<1>2. CASE GiveUp(c) \/ Lose(c)
  BY <1>2, Ending DEF GiveUp, Lose, AfterLoss
<1> QED BY <1>1, <1>2 DEF Post

(* A call made.                                                            *)
LEMMA Calling ==
    ASSUME Locals, NEW c \in Threads, NEW p, call' = [call EXCEPT ![c] = p],
           Busy(p), p.repeated = FALSE, p.replied = FALSE, p.runs = 0
    PROVE  Others(c) /\ call'[c] = p /\ Calls(c)
BY Moved DEF Moves, Others, Calls

LEMMA DoingSo ==
    ASSUME Locals, NEW c \in Threads, Busy(call[c]), Sending(c),
           call' = [call EXCEPT ![c] = Done(c)], epoch' = epoch
    PROVE  Others(c) /\ IsDone(c)
<1> DEFINE p == Done(c)
<1>1. /\ Busy(p) /\ p.at = call[c].at /\ p.replied = TRUE
      /\ p.runs = call[c].runs + 1 /\ p.sid = call[c].sid
      /\ p.repeated = call[c].repeated /\ p.renewed = call[c].renewed
  BY DoneIs
<1> HIDE DEF p
<1>2. Moves(c, p)
  BY Moved DEF p
<1> QED BY <1>1, <1>2 DEF Moves, Others, IsDone, Sending

LEMMA EditStepDoes ==
    ASSUME Locals, NEW c \in Threads, EditStep(c)
    PROVE  Others(c) /\ Step(c)
<1> DEFINE q == call[c]
           t == ids[q.id]
<1>1. ASSUME NEW id \in Ids, NEW edit \in Edits, BeginEdit(c, id, edit)
      PROVE  Others(c) /\ Step(c)
  <2> DEFINE k == Call("get", id)
             p == [k EXCEPT !.edit = edit]
  <2>1. /\ Busy(k) /\ k.at = "get" /\ k.repeated = FALSE
        /\ k.replied = FALSE /\ k.runs = 0
    BY DEF Call, Busy, Fields
  <2> HIDE DEF k
  <2>2. /\ Busy(p) /\ p.at = "get" /\ p.repeated = FALSE
        /\ p.replied = FALSE /\ p.runs = 0
    BY <2>1 DEF Busy, Fields
  <2>3. /\ call' = [call EXCEPT ![c] = p]
        /\ c \in Editors /\ UNCHANGED <<daemon, history>>
    BY <1>1 DEF BeginEdit, k
  <2> HIDE DEF p
  <2>4. Others(c) /\ call'[c] = p /\ Calls(c)
    BY <2>2, <2>3, Calling
  <2> QED BY <2>2, <2>3, <2>4 DEF Step, Asks
<1>2. CASE Get(c)
  <2>1. Busy(q) /\ q.at = "get"
    BY <1>2, BusyWhen DEF Get, Accepted
  <2>2. CASE t = None
    BY <1>2, <2>2, Ending DEF Get
  <2>3. CASE t # None
    <3> DEFINE k == NextCall(c, "set")
               p == [k EXCEPT !.torrent = t, !.seen = labels[t]]
    <3>1. /\ Busy(k) /\ k.at = "set" /\ k.repeated = FALSE
          /\ k.replied = FALSE /\ k.runs = 0 /\ k.id = q.id
      BY <2>1 DEF NextCall, Busy, Fields
    <3> HIDE DEF k
    <3>2. /\ Busy(p) /\ p.at = "set" /\ p.repeated = FALSE
          /\ p.replied = FALSE /\ p.runs = 0 /\ p.id = q.id
          /\ p.torrent = t /\ p.seen = labels[t]
      BY <3>1 DEF Busy, Fields
    <3>3. /\ call' = [call EXCEPT ![c] = p]
          /\ UNCHANGED <<daemon, history>>
      BY <1>2, <2>3 DEF Get, k
    <3> HIDE DEF p
    <3>4. Others(c) /\ call'[c] = p /\ Calls(c)
      BY <3>2, <3>3, Calling
    <3> QED BY <2>1, <3>2, <3>3, <3>4 DEF Step, Reads
  <2> QED BY <2>2, <2>3
<1>3. CASE Set(c)
  <2>1. Busy(q) /\ Sending(c)
    BY <1>3, BusyWhen DEF Set, Accepted
  <2> QED BY <1>3, <2>1, DoingSo DEF Set, Step
<1>4. CASE WasSet(c)
  <2> DEFINE k == NextCall(c, "check")
             p == [k EXCEPT !.edit = None]
  <2>1. Busy(q) /\ q.at = "set"
    BY <1>4, BusyWhen DEF WasSet, Proceed
  <2>2. /\ Busy(k) /\ k.at = "check" /\ k.repeated = FALSE
        /\ k.replied = FALSE /\ k.runs = 0
    BY <2>1 DEF NextCall, Busy, Fields
  <2> HIDE DEF k
  <2>3. /\ Busy(p) /\ p.at = "check" /\ p.repeated = FALSE
        /\ p.replied = FALSE /\ p.runs = 0
    BY <2>2 DEF Busy, Fields
  <2>4. call' = [call EXCEPT ![c] = p] /\ UNCHANGED <<daemon, history>>
    BY <1>4 DEF WasSet, Proceed, k
  <2> HIDE DEF p
  <2>5. Others(c) /\ call'[c] = p /\ Calls(c)
    BY <2>3, <2>4, Calling
  <2> QED BY <2>1, <2>3, <2>4, <2>5 DEF Step, Asks
<1>5. CASE Check(c)
  BY <1>5, Ending DEF Check
<1> QED BY <1>1, <1>2, <1>3, <1>4, <1>5 DEF EditStep

LEMMA WorkerStepDoes ==
    ASSUME Locals, NEW c \in Threads, WorkerStep(c)
    PROVE  Others(c) /\ Step(c)
<1> DEFINE q == call[c]
<1>1. CASE BeginList(c)
  <2> DEFINE p == Call("list", 1)
  <2>1. /\ Busy(p) /\ p.at = "list" /\ p.repeated = FALSE
        /\ p.replied = FALSE /\ p.runs = 0
    BY DEF Call, Busy, Fields
  <2>2. /\ call' = [call EXCEPT ![c] = p]
        /\ c \in Workers /\ UNCHANGED <<daemon, history>>
    BY <1>1 DEF BeginList
  <2> HIDE DEF p
  <2>3. Others(c) /\ call'[c] = p /\ Calls(c)
    BY <2>1, <2>2, Calling
  <2> QED BY <2>1, <2>2, <2>3 DEF Step, Asks
<1>2. CASE List(c)
  <2>1. Busy(q) /\ q.at = "list"
    BY <1>2, BusyWhen DEF List, Accepted
  <2>2. PICK id \in Ids :
           call' = [call EXCEPT ![c] =
              [NextCall(c, "transfer") EXCEPT !.id = id,
                                              !.torrent = ids[id]]]
    BY <1>2 DEF List
  <2> DEFINE k == NextCall(c, "transfer")
             t == ids[id]
             p == [k EXCEPT !.id = id, !.torrent = t]
  <2>3. /\ Busy(k) /\ k.at = "transfer" /\ k.repeated = FALSE
        /\ k.replied = FALSE /\ k.runs = 0
    BY <2>1 DEF NextCall, Busy, Fields
  <2>4. call' = [call EXCEPT ![c] = p]
    BY <2>2
  <2> HIDE DEF k, t
  <2>5. /\ Busy(p) /\ p.at = "transfer" /\ p.repeated = FALSE
        /\ p.replied = FALSE /\ p.runs = 0 /\ p.id = id
        /\ p.torrent = t
    BY <2>3 DEF Busy, Fields
  <2> HIDE DEF p
  <2>6. Others(c) /\ call'[c] = p /\ Calls(c)
    BY <2>4, <2>5, Calling
  <2> QED BY <1>2, <2>1, <2>5, <2>6 DEF Step, Lists, List, t
<1>3. CASE Transferred(c)
  <2> DEFINE k == NextCall(c, "remove")
             p == [k EXCEPT !.sid = 0]
  <2>1. Busy(q) /\ q.at = "transfer"
    BY <1>3, BusyWhen DEF Transferred
  <2>2. /\ Busy(k) /\ k.at = "remove" /\ k.repeated = FALSE
        /\ k.replied = FALSE /\ k.runs = 0 /\ k.id = q.id
        /\ k.torrent = q.torrent /\ k.stale = q.stale
    BY <2>1 DEF NextCall, Busy, Fields
  <2> HIDE DEF k
  <2>3. /\ Busy(p) /\ p.at = "remove" /\ p.repeated = FALSE
        /\ p.replied = FALSE /\ p.runs = 0 /\ p.id = q.id
        /\ p.torrent = q.torrent /\ p.stale = q.stale
    BY <2>2 DEF Busy, Fields
  <2>4. /\ call' = [call EXCEPT ![c] = p]
        /\ moved' = moved \cup {q.torrent}
        /\ UNCHANGED <<daemon, wanted, mixed, gone, misled>>
    BY <1>3 DEF Transferred, k
  <2> HIDE DEF p
  <2>5. Others(c) /\ call'[c] = p /\ Calls(c)
    BY <2>3, <2>4, Calling
  <2> QED BY <2>1, <2>3, <2>4, <2>5 DEF Step, Ends
<1>4. CASE NotTransferred(c)
  BY <1>4, Ending DEF NotTransferred, NotRemoved
<1>5. CASE Remove(c)
  <2>1. Busy(q) /\ Sending(c)
    BY <1>5, BusyWhen DEF Remove, Accepted
  <2> QED BY <1>5, <2>1, DoingSo DEF Remove, Step
<1>6. CASE Removed(c)
  BY <1>6, Ending DEF Removed, Proceed
<1> QED BY <1>1, <1>2, <1>3, <1>4, <1>5, <1>6 DEF WorkerStep

(* The daemon's restart: the locals stay, but for what is remembered.      *)
LEMMA RestartDoes ==
    ASSUME Locals, NEW f, Restart(f)
    PROVE  /\ DOMAIN call' = Threads
           /\ \A c \in Threads :
                 \/ call[c] = Idle /\ call'[c] = Idle
                 \/ LET p == call'[c]
                        q == call[c]
                    IN  /\ Busy(q) /\ Busy(p) /\ p.at = q.at /\ p.id = q.id
                        /\ p.torrent = q.torrent /\ p.seen = q.seen
                        /\ p.replied = q.replied /\ p.runs = q.runs
                        /\ p.sid = q.sid /\ p.edit = q.edit
                        /\ p.renewed = q.repeated
                        /\ p.repeated = q.repeated
                        /\ ~p.stale => ~q.stale
                        /\ ~p.stale /\ HoldsId(c) => ids'[q.id] = ids[q.id]
           /\ ids' = f /\ UNCHANGED <<labels, history>>
<1>1. /\ DOMAIN call' = Threads
      /\ ids' = f /\ UNCHANGED <<labels, history>>
  BY DEF Restart
<1>2. ASSUME NEW c \in Threads, call[c] = Idle PROVE call'[c] = Idle
  BY <1>2 DEF Restart
<1>3. ASSUME NEW c \in Threads, call[c] # Idle
      PROVE  LET p == call'[c]
                 q == call[c]
             IN  /\ Busy(q) /\ Busy(p) /\ p.at = q.at /\ p.id = q.id
                 /\ p.torrent = q.torrent /\ p.seen = q.seen
                 /\ p.replied = q.replied /\ p.runs = q.runs
                 /\ p.sid = q.sid /\ p.edit = q.edit
                 /\ p.renewed = q.repeated
                 /\ p.repeated = q.repeated
                 /\ ~p.stale => ~q.stale
                 /\ ~p.stale /\ HoldsId(c) => ids'[q.id] = ids[q.id]
  <2> DEFINE q == call[c]
             b == \/ q.stale
                  \/ HoldsId(c) /\ f[q.id] # ids[q.id]
             p == [q EXCEPT !.renewed = q.repeated, !.stale = b]
  <2>1. Busy(q)
    BY <1>3 DEF Locals
  <2>2. call'[c] = p
    BY <1>3 DEF Restart
  <2>3. ~b => ~q.stale /\ (HoldsId(c) => f[q.id] = ids[q.id])
    OBVIOUS
  <2> HIDE DEF b
  <2>4. /\ Busy(p) /\ p.at = q.at /\ p.id = q.id
        /\ p.torrent = q.torrent /\ p.seen = q.seen
        /\ p.replied = q.replied /\ p.runs = q.runs
        /\ p.sid = q.sid /\ p.edit = q.edit
        /\ p.renewed = q.repeated /\ p.repeated = q.repeated
        /\ p.stale = b
    BY <2>1 DEF Busy, Fields
  <2> HIDE DEF p
  <2> QED BY <1>1, <2>1, <2>2, <2>3, <2>4
<1> QED BY <1>1, <1>2, <1>3 DEF Locals

(* What a step is.                                                         *)
LEMMA Steps ==
    ASSUME Locals, [Next]_vars
    PROVE  \/ UNCHANGED vars
           \/ \E f \in [Ids -> Torrents \cup {None}] : Restart(f)
           \/ \E c \in Threads : Others(c) /\ Step(c)
BY PostDoes, EditStepDoes, WorkerStepDoes DEF Next

-----------------------------------------------------------------------------
LEMMA NextLocals == Locals /\ [Next]_vars => Locals'
<1> SUFFICES ASSUME Locals, [Next]_vars PROVE Locals'
  OBVIOUS
<1>1. CASE UNCHANGED vars
  BY <1>1 DEF vars, Locals
<1>2. ASSUME NEW f, Restart(f) PROVE Locals'
  BY <1>2, RestartDoes DEF Locals
<1>3. ASSUME NEW c \in Threads, Others(c), Step(c) PROVE Locals'
  <2>1. call'[c] = Idle \/ Busy(call'[c])
    BY <1>3 DEF Step, ToldSid, Calls, IsDone
  <2> QED BY <1>3, <2>1 DEF Others, Locals
<1> QED BY <1>1, <1>2, <1>3, Steps

(* A call that has no reply has done nothing yet, and otherwise one thing; *)
(* one that is repeated has the session id unless that was renewed.        *)
Single == \A c \in Threads : Busy(call[c]) =>
    /\ \/ call[c].replied = FALSE /\ call[c].runs = 0
       \/ call[c].replied = TRUE /\ call[c].runs = 1
    /\ call[c].repeated => call[c].renewed \/ call[c].sid = epoch

LEMMA NextSingle == Locals /\ Single /\ [Next]_vars => Single'
<1> SUFFICES ASSUME Locals, Single, [Next]_vars PROVE Single'
  OBVIOUS
<1>1. CASE UNCHANGED vars
  BY <1>1 DEF vars, daemon, Single
<1>2. ASSUME NEW f, Restart(f) PROVE Single'
  <2> SUFFICES ASSUME NEW c \in Threads, Busy(call'[c])
               PROVE  /\ \/ call'[c].replied = FALSE /\ call'[c].runs = 0
                         \/ call'[c].replied = TRUE /\ call'[c].runs = 1
                      /\ call'[c].repeated =>
                            call'[c].renewed \/ call'[c].sid = epoch'
    BY DEF Single
  <2> QED BY <1>2, RestartDoes, IdleIs DEF Single
<1>3. ASSUME NEW c \in Threads, Others(c), Step(c) PROVE Single'
  <2>1. epoch' = epoch
    BY <1>3 DEF Step, ToldSid, IsDone, daemon
  <2>2. ASSUME NEW d \in Threads \ {c}, Busy(call'[d])
        PROVE  /\ \/ call'[d].replied = FALSE /\ call'[d].runs = 0
                  \/ call'[d].replied = TRUE /\ call'[d].runs = 1
               /\ call'[d].repeated =>
                     call'[d].renewed \/ call'[d].sid = epoch'
    BY <1>3, <2>1, <2>2 DEF Others, Single
  <2>3. ASSUME Busy(call'[c])
        PROVE  /\ \/ call'[c].replied = FALSE /\ call'[c].runs = 0
                  \/ call'[c].replied = TRUE /\ call'[c].runs = 1
               /\ call'[c].repeated =>
                     call'[c].renewed \/ call'[c].sid = epoch'
    <3>1. CASE ToldSid(c)
      BY <2>1, <3>1, BusyBefore DEF ToldSid, Single
    <3>2. CASE Calls(c)
      BY <3>2 DEF Calls
    <3>3. CASE IsDone(c)
      BY <2>1, <3>3, BusyBefore DEF IsDone, Single
    <3> QED BY <1>3, <2>3, <3>1, <3>2, <3>3, IdleIs DEF Step
  <2> QED BY <2>2, <2>3 DEF Single
<1> QED BY <1>1, <1>2, <1>3, Steps

(* Editors edit and workers transfer.                                      *)
Apart == \A c \in Threads :
            /\ call[c].at \in {"get", "set", "check"} => c \in Editors
            /\ call[c].at \in {"list", "transfer", "remove"} => c \in Workers

LEMMA NextApart == Locals /\ Apart /\ [Next]_vars => Apart'
<1> SUFFICES ASSUME Locals, Apart, [Next]_vars, NEW d \in Threads
             PROVE  /\ call'[d].at \in {"get", "set", "check"} =>
                          d \in Editors
                    /\ call'[d].at \in {"list", "transfer", "remove"} =>
                          d \in Workers
  BY DEF Apart
<1>1. CASE call'[d].at = call[d].at
  BY <1>1 DEF Apart
<1>2. CASE UNCHANGED vars
  BY <1>1, <1>2 DEF vars
<1>3. ASSUME NEW f, Restart(f) PROVE call'[d].at = call[d].at
  BY <1>3, RestartDoes
<1>4. ASSUME NEW c \in Threads, Others(c), Step(c), c # d
      PROVE  call'[d].at = call[d].at
  BY <1>4 DEF Others
<1>5. CASE Step(d)
  BY <1>1, <1>5, IdleIs
     DEF Step, ToldSid, Reads, Lists, Asks, Ends, IsDone, Apart
<1> QED BY <1>1, <1>2, <1>3, <1>4, <1>5, Steps

-----------------------------------------------------------------------------
(* What an edit has read stands until it writes, unless it is mixed; and   *)
(* labels are what the edits made of them.                                 *)
ReadWell == \A c \in Threads :
    LET q == call[c]
    IN  q.at = "set" /\ q.replied = FALSE /\ ~q.stale =>
           /\ ids[q.id] \in {q.torrent, None}
           /\ q.torrent \notin mixed => q.seen = labels[q.torrent]

Stands == /\ DOMAIN labels = Torrents /\ DOMAIN wanted = Torrents
          /\ EditsStand

LEMMA SetDoes ==
    ASSUME Locals, Apart, ReadWell, Stands, NEW c \in Threads, Set(c)
    PROVE  /\ Stands'
           /\ mixed \subseteq mixed'
           /\ \A t : \/ t \in mixed'
                     \/ labels'[t] = labels[t]
                     \/ t = ids[call[c].id] /\ t # None /\ ~Crosses(c, t)
           /\ UNCHANGED ids
<1> DEFINE q == call[c]
           t == ids[q.id]
           e == q.edit
           v == Edited(e, q.seen)
           w == IF t \in mixed' THEN {}
                ELSE IF e.add THEN wanted[t] \cup {e.label}
                ELSE wanted[t] \ {e.label}
<1>1. q.at = "set" /\ q.replied = FALSE /\ UNCHANGED ids
  <2>1. Sending(c) /\ q.at = "set" /\ UNCHANGED ids
    BY DEF Set, Accepted
  <2>2. Busy(q)
    BY <2>1, BusyWhen
  <2> QED BY <2>1, <2>2 DEF Sending
<1>2. CASE t = None
  BY <1>1, <1>2 DEF Set, Stands, EditsStand
<1>3. CASE t # None
  <2>1. /\ labels' = [labels EXCEPT ![t] = v]
        /\ mixed' = IF q.stale \/ Crosses(c, t) THEN mixed \cup {t} ELSE mixed
        /\ wanted' = [wanted EXCEPT ![t] = w]
    BY <1>3 DEF Set
  <2>2. ASSUME t \notin mixed', t \in Torrents PROVE v = w
    <3>1. ~q.stale /\ ~Crosses(c, t) /\ t \notin mixed
      BY <2>1, <2>2
    <3>2. q.torrent = t /\ q.seen = labels[t]
      BY <1>1, <1>3, <3>1 DEF ReadWell
    <3>3. labels[t] = wanted[t]
      BY <2>2, <3>1 DEF Stands, EditsStand
    <3> QED BY <2>2, <3>2, <3>3 DEF Edited
  <2>3. mixed \subseteq mixed' /\ (t \in mixed' \/ ~Crosses(c, t))
    BY <2>1
  <2> HIDE DEF v, w
  <2>4. DOMAIN labels' = Torrents /\ DOMAIN wanted' = Torrents
    BY <2>1 DEF Stands
  <2>5. \A u \in Torrents \ mixed' : labels'[u] = wanted'[u]
    BY <2>1, <2>2, <2>3 DEF Stands, EditsStand
  <2>6. \A u : u = t \/ labels'[u] = labels[u]
    BY <2>1
  <2> QED BY <1>1, <1>3, <2>3, <2>4, <2>5, <2>6 DEF Stands, EditsStand
<1> QED BY <1>2, <1>3

LEMMA NextStands ==
    Locals /\ Apart /\ ReadWell /\ Stands /\ [Next]_vars => Stands'
<1> SUFFICES ASSUME Locals, Apart, ReadWell, Stands, [Next]_vars
             PROVE  Stands'
  OBVIOUS
<1>1. ASSUME UNCHANGED <<labels, wanted, mixed>> PROVE Stands'
  BY <1>1 DEF Stands, EditsStand
<1>2. CASE UNCHANGED vars
  BY <1>1, <1>2 DEF vars, daemon, history
<1>3. ASSUME NEW f, Restart(f) PROVE Stands'
  BY <1>1, <1>3 DEF Restart, history
<1>4. ASSUME NEW c \in Threads, Step(c) PROVE Stands'
  <2>1. CASE Set(c)
    BY <2>1, SetDoes
  <2>2. CASE ~Set(c)
    BY <1>1, <1>4, <2>2 DEF Step, Remove, daemon, history
  <2> QED BY <2>1, <2>2
<1> QED BY <1>2, <1>3, <1>4, Steps

LEMMA NextReadWell ==
    Locals /\ Apart /\ ReadWell /\ Stands /\ [Next]_vars => ReadWell'
<1> SUFFICES ASSUME Locals, Apart, ReadWell, Stands, [Next]_vars,
                    NEW d \in Threads, call'[d].at = "set",
                    call'[d].replied = FALSE, ~call'[d].stale
             PROVE  /\ ids'[call'[d].id] \in {call'[d].torrent, None}
                    /\ call'[d].torrent \notin mixed' =>
                          call'[d].seen = labels'[call'[d].torrent]
  BY DEF ReadWell
<1> DEFINE q == call[d]
           p == call'[d]
           Goal == /\ ids'[p.id] \in {p.torrent, None}
                   /\ p.torrent \notin mixed' => p.seen = labels'[p.torrent]
<1>1. ASSUME q.at = "set", q.replied = FALSE, ~q.stale, p.id = q.id,
             p.torrent = q.torrent, p.seen = q.seen,
             ids'[q.id] = ids[q.id] \/ ids'[q.id] = None,
             mixed \subseteq mixed',
             labels'[q.torrent] = labels[q.torrent] \/ q.torrent \in mixed'
      PROVE  Goal
  BY <1>1 DEF ReadWell
<1> HIDE DEF Goal
<1>2. ASSUME UNCHANGED vars PROVE Goal
  <2>1. p = q /\ UNCHANGED <<ids, labels, mixed>>
    BY <1>2 DEF vars, daemon, history
  <2> QED BY <1>1, <2>1
<1>3. ASSUME NEW f, Restart(f) PROVE Goal
  <2>1. /\ p.at = q.at /\ p.id = q.id
        /\ p.torrent = q.torrent /\ p.seen = q.seen
        /\ p.replied = q.replied
        /\ ~p.stale => ~q.stale
        /\ ~p.stale /\ HoldsId(d) => ids'[q.id] = ids[q.id]
        /\ UNCHANGED <<labels, mixed>>
    BY <1>3, RestartDoes, IdleIs DEF history
  <2>2. HoldsId(d)
    BY <2>1 DEF HoldsId
  <2> QED BY <1>1, <2>1, <2>2
<1>4. ASSUME NEW c \in Threads \ {d}, Others(c), Step(c) PROVE Goal
  <2>1. p = q
    BY <1>4 DEF Others
  <2>2. CASE Set(c)
    <3>1. /\ mixed \subseteq mixed'
          /\ \A t : \/ t \in mixed'
                    \/ labels'[t] = labels[t]
                    \/ t = ids[call[c].id] /\ t # None /\ ~Crosses(c, t)
          /\ UNCHANGED ids
      BY <2>2, SetDoes
    <3>2. d \in Editors
      BY <2>1 DEF Apart
    <3>3. Crosses(c, q.torrent)
      BY <1>4, <2>1, <3>2 DEF Crosses
    <3>4. labels'[q.torrent] = labels[q.torrent] \/ q.torrent \in mixed'
      BY <3>1, <3>3
    <3> QED BY <1>1, <2>1, <3>1, <3>4
  <2>3. CASE Remove(c)
    <3>1. /\ ids'[q.id] = ids[q.id] \/ ids'[q.id] = None
          /\ UNCHANGED <<labels, mixed>>
      BY <2>3 DEF Remove
    <3> QED BY <1>1, <2>1, <3>1
  <2>4. ASSUME ~Set(c), ~Remove(c) PROVE UNCHANGED <<ids, labels, mixed>>
    BY <1>4, <2>4 DEF Step, daemon, history
  <2> QED BY <1>1, <2>1, <2>2, <2>3, <2>4
<1>5. ASSUME Others(d), Step(d) PROVE Goal
  <2>1. ASSUME ToldSid(d), UNCHANGED <<daemon, history>> PROVE Goal
    BY <1>1, <2>1 DEF ToldSid, daemon, history
  <2>2. ASSUME Reads(d), UNCHANGED <<daemon, history>> PROVE Goal
    BY <2>2 DEF Reads, daemon, history, Goal
  <2>3. ~Lists(d) /\ ~Asks(d) /\ ~Ends(d) /\ ~IsDone(d) /\ p # Idle
    BY IdleIs DEF Lists, Asks, Ends, IsDone
  <2> QED BY <1>5, <2>1, <2>2, <2>3 DEF Step
<1>6. Goal
  BY <1>2, <1>3, <1>4, <1>5, Steps
<1> QED BY <1>6 DEF Goal

-----------------------------------------------------------------------------
(* The id of a torrent that is transferred is its own until the daemon     *)
(* numbers torrents anew, and what is removed by it was transferred.       *)
ListsWell == \A c \in Threads :
    LET q == call[c]
    IN  /\ \/ q.at = "transfer"
           \/ q.at = "remove" /\ q.replied = FALSE
        /\ ~q.stale
        => /\ ids[q.id] \in {q.torrent, None}
           /\ q.at = "remove" => q.torrent \in moved

LEMMA NextListsWell == Locals /\ ListsWell /\ [Next]_vars => ListsWell'
<1> SUFFICES ASSUME Locals, ListsWell, [Next]_vars,
                    NEW d \in Threads,
                    \/ call'[d].at = "transfer"
                    \/ call'[d].at = "remove" /\ call'[d].replied = FALSE,
                    ~call'[d].stale
             PROVE  /\ ids'[call'[d].id] \in {call'[d].torrent, None}
                    /\ call'[d].at = "remove" => call'[d].torrent \in moved'
  BY DEF ListsWell
<1> DEFINE q == call[d]
           p == call'[d]
           Goal == /\ ids'[p.id] \in {p.torrent, None}
                   /\ p.at = "remove" => p.torrent \in moved'
<1>1. ASSUME p.at = q.at, p.replied = q.replied, ~q.stale, p.id = q.id,
             p.torrent = q.torrent,
             ids'[q.id] = ids[q.id] \/ ids'[q.id] = None,
             moved \subseteq moved'
      PROVE  Goal
  BY <1>1 DEF ListsWell
<1> HIDE DEF Goal
<1>2. ASSUME UNCHANGED vars PROVE Goal
  <2>1. p = q /\ UNCHANGED <<ids, moved>>
    BY <1>2 DEF vars, daemon, history
  <2> QED BY <1>1, <2>1
<1>3. ASSUME NEW f, Restart(f) PROVE Goal
  <2>1. /\ p.at = q.at /\ p.id = q.id
        /\ p.torrent = q.torrent
        /\ p.replied = q.replied
        /\ ~p.stale => ~q.stale
        /\ ~p.stale /\ HoldsId(d) => ids'[q.id] = ids[q.id]
        /\ moved' = moved
    BY <1>3, RestartDoes, IdleIs DEF history
  <2>2. HoldsId(d)
    BY <2>1 DEF HoldsId
  <2> QED BY <1>1, <2>1, <2>2
<1>4. ASSUME NEW c \in Threads \ {d}, Others(c), Step(c) PROVE Goal
  <2>1. p = q
    BY <1>4 DEF Others
  <2>2. ids'[q.id] = ids[q.id] \/ ids'[q.id] = None
    <3>1. CASE Remove(c)
      BY <3>1 DEF Remove
    <3>2. CASE ~Remove(c)
      BY <1>4, <3>2 DEF Step, Set, daemon
    <3> QED BY <3>1, <3>2
  <2>3. moved \subseteq moved'
    BY <1>4 DEF Step, Set, Remove, history
  <2> QED BY <1>1, <2>1, <2>2, <2>3
<1>5. ASSUME Others(d), Step(d) PROVE Goal
  <2>1. ASSUME ToldSid(d), UNCHANGED <<daemon, history>> PROVE Goal
    BY <1>1, <2>1 DEF ToldSid, daemon, history
  <2>2. ASSUME Lists(d), UNCHANGED <<daemon, history>> PROVE Goal
    BY <2>2 DEF Lists, daemon, history, Goal
  <2>3. ASSUME Ends(d), moved' = moved \cup {q.torrent}, UNCHANGED daemon
        PROVE  Goal
    BY <2>3 DEF Ends, daemon, Goal, ListsWell
  <2>4. ~Reads(d) /\ ~Asks(d) /\ p # Idle
    BY IdleIs DEF Reads, Asks
  <2>5. ~(IsDone(d) /\ (Set(d) \/ Remove(d)))
    BY DEF IsDone, Set, Remove, Accepted
  <2> QED BY <1>5, <2>1, <2>2, <2>3, <2>4, <2>5 DEF Step
<1>6. Goal
  BY <1>2, <1>3, <1>4, <1>5, Steps
<1> QED BY <1>6 DEF Goal

LEMMA NextRemovedWasMoved ==
    Locals /\ ListsWell /\ RemovedWasMoved /\ [Next]_vars => RemovedWasMoved'
<1> SUFFICES ASSUME Locals, ListsWell, RemovedWasMoved, [Next]_vars
             PROVE  RemovedWasMoved'
  OBVIOUS
<1>1. ASSUME UNCHANGED <<gone, misled>>, moved \subseteq moved'
      PROVE  RemovedWasMoved'
  BY <1>1 DEF RemovedWasMoved
<1>2. CASE UNCHANGED vars
  BY <1>1, <1>2 DEF vars, history
<1>3. ASSUME NEW f, Restart(f) PROVE RemovedWasMoved'
  BY <1>1, <1>3 DEF Restart, history
<1>4. ASSUME NEW c \in Threads, Step(c) PROVE RemovedWasMoved'
  <2>1. CASE Remove(c)
    <3> DEFINE q == call[c]
               t == ids[q.id]
    <3>1. /\ q.at = "remove" /\ Sending(c)
          /\ gone' = gone \cup ({t} \ {None})
          /\ misled' = IF q.stale THEN misled \cup ({t} \ {None}) ELSE misled
          /\ moved' = moved
      BY <2>1 DEF Remove, Accepted
    <3>2. q.replied = FALSE
      BY <3>1, BusyWhen DEF Sending
    <3>3. ~q.stale => t \in moved \cup {None}
      BY <3>1, <3>2 DEF ListsWell
    <3> QED BY <3>1, <3>3 DEF RemovedWasMoved
  <2>2. CASE ~Remove(c)
    <3>1. UNCHANGED <<gone, misled>> /\ moved \subseteq moved'
      BY <1>4, <2>2 DEF Step, Set, history
    <3> QED BY <1>1, <3>1
  <2> QED BY <2>1, <2>2
<1> QED BY <1>2, <1>3, <1>4, Steps

-----------------------------------------------------------------------------
(* Types.  What a thread holds: a session id the daemon has had, an id,    *)
(* labels, and an edit or a torrent where it is about to use one.          *)
Typed(q, e) ==
    /\ q.sid \in 0 .. e /\ q.id \in Ids /\ q.seen \subseteq Labels
    /\ q.at = "get" => q.edit \in Edits
    /\ q.at = "set" /\ q.replied = FALSE => q.edit \in Edits
    /\ q.at = "transfer" => q.torrent \in Torrents

CallsTyped == \A c \in Threads : Busy(call[c]) => Typed(call[c], epoch)

LEMMA Bounds == /\ MaxId \in Nat \ {0} /\ MaxEpoch \in Nat \ {0}
                /\ None \notin Torrents /\ 1 \in Ids
BY ClientAssumption DEF Ids

LEMMA Renews ==
    ASSUME NEW f, Restart(f)
    PROVE  epoch < MaxEpoch /\ epoch' = epoch + 1
BY DEF Restart

LEMMA EditedIs ==
    ASSUME NEW e \in Edits, NEW s, s \subseteq Labels
    PROVE  Edited(e, s) \subseteq Labels
BY DEF Edits, Edited

LEMMA PostTyped ==
    ASSUME TypeOK, Locals, CallsTyped, NEW c \in Threads, Post(c),
           Busy(call'[c])
    PROVE  Typed(call'[c], epoch)
<1>1. CASE Refused(c)
  <2>1. ToldSid(c) /\ Busy(call[c])
    BY <1>1, RefusedDoes, BusyBefore DEF ToldSid
  <2>2. Typed(call[c], epoch) /\ epoch \in 0 .. epoch
    BY <2>1 DEF CallsTyped, TypeOK
  <2> QED BY <2>1, <2>2 DEF ToldSid, Typed
<1>2. CASE GiveUp(c) \/ Lose(c)
  <2>1. call'[c] = Idle
    BY <1>2 DEF GiveUp, Lose, AfterLoss, Locals
  <2> QED BY <2>1, IdleIs
<1> QED BY <1>1, <1>2 DEF Post

LEMMA EditTyped ==
    ASSUME TypeOK, Locals, CallsTyped, NEW c \in Threads, EditStep(c),
           Busy(call'[c])
    PROVE  Typed(call'[c], epoch)
<1> DEFINE q == call[c]
           t == ids[q.id]
<1>1. ASSUME NEW id \in Ids, NEW edit \in Edits, BeginEdit(c, id, edit)
      PROVE  Typed(call'[c], epoch)
  <2>1. call'[c] = [Call("get", id) EXCEPT !.edit = edit]
    BY <1>1 DEF BeginEdit, Locals
  <2>2. epoch \in Nat /\ 0 \in 0 .. epoch
    BY DEF TypeOK
  <2> QED BY <2>1, <2>2 DEF Call, Typed
<1>2. CASE Get(c)
  <2>1. Busy(q) /\ q.at = "get" /\ Typed(q, epoch)
    BY <1>2, BusyWhen DEF Get, Accepted, CallsTyped
  <2>2. t # None /\ t \in Torrents
    BY <1>2, <2>1, IdleIs DEF Get, Locals, TypeOK, Typed
  <2> DEFINE k == NextCall(c, "set")
             s == labels[t]
             p == [k EXCEPT !.torrent = t, !.seen = s]
  <2>3. s \subseteq Labels
    BY <2>2 DEF TypeOK
  <2>4. /\ DOMAIN k = Fields /\ k.at = "set" /\ k.id = q.id /\ k.sid = q.sid
        /\ k.edit = q.edit
    BY <2>1 DEF NextCall, Busy, Fields
  <2>5. call'[c] = p
    BY <1>2, <2>2 DEF Get, Locals
  <2> HIDE DEF k, s
  <2>6. /\ p.at = "set" /\ p.id = q.id /\ p.sid = q.sid /\ p.seen = s
        /\ p.edit = q.edit
    BY <2>4 DEF Fields
  <2> HIDE DEF p
  <2>7. q.sid \in 0 .. epoch /\ q.id \in Ids /\ q.edit \in Edits
    BY <2>1 DEF Typed
  <2>8. Typed(p, epoch)
    BY <2>3, <2>6, <2>7 DEF Typed
  <2> QED BY <2>5, <2>8
<1>3. CASE Set(c)
  <2>1. Busy(q) /\ q.at = "set" /\ Typed(q, epoch)
    BY <1>3, BusyWhen DEF Set, Accepted, CallsTyped
  <2>2. call'[c] = Done(c)
    BY <1>3 DEF Set, Locals
  <2> DEFINE p == Done(c)
  <2>3. /\ p.at = "set" /\ p.replied = TRUE /\ p.id = q.id /\ p.sid = q.sid
        /\ p.seen = {}
    BY <2>1 DEF Done, Busy, Fields
  <2> HIDE DEF p
  <2> QED BY <2>1, <2>2, <2>3 DEF Typed, p
<1>4. CASE WasSet(c)
  <2>1. Busy(q) /\ q.at = "set" /\ Typed(q, epoch)
    BY <1>4, BusyWhen DEF WasSet, Proceed, CallsTyped
  <2> DEFINE k == NextCall(c, "check")
             p == [k EXCEPT !.edit = None]
  <2>2. /\ DOMAIN k = Fields /\ k.at = "check" /\ k.id = q.id
        /\ k.sid = q.sid /\ k.seen = q.seen
    BY <2>1 DEF NextCall, Busy, Fields
  <2>3. call'[c] = p
    BY <1>4 DEF WasSet, Proceed, Locals
  <2> HIDE DEF k
  <2>4. p.at = "check" /\ p.id = q.id /\ p.sid = q.sid /\ p.seen = q.seen
    BY <2>2 DEF Fields
  <2> HIDE DEF p
  <2> QED BY <2>1, <2>3, <2>4 DEF Typed
<1>5. CASE Check(c)
  BY <1>5, IdleIs DEF Check, Locals
<1> QED BY <1>1, <1>2, <1>3, <1>4, <1>5 DEF EditStep

LEMMA WorkerTyped ==
    ASSUME TypeOK, Locals, CallsTyped, NEW c \in Threads, WorkerStep(c),
           Busy(call'[c])
    PROVE  Typed(call'[c], epoch)
<1> DEFINE q == call[c]
<1>1. CASE BeginList(c)
  <2>1. call'[c] = Call("list", 1)
    BY <1>1 DEF BeginList, Locals
  <2>2. epoch \in Nat /\ 0 \in 0 .. epoch
    BY DEF TypeOK
  <2> QED BY <2>1, <2>2, Bounds DEF Call, Typed
<1>2. CASE List(c)
  <2>1. Busy(q) /\ q.at = "list" /\ Typed(q, epoch)
    BY <1>2, BusyWhen DEF List, Accepted, CallsTyped
  <2> DEFINE k == NextCall(c, "transfer")
  <2>2. PICK id \in Ids :
           /\ ids[id] # None
           /\ call'[c] = [k EXCEPT !.id = id, !.torrent = ids[id]]
    BY <1>2 DEF List, Locals
  <2> DEFINE t == ids[id]
             p == [k EXCEPT !.id = id, !.torrent = t]
  <2>3. t \in Torrents
    BY <2>2 DEF TypeOK
  <2>4. DOMAIN k = Fields /\ k.at = "transfer" /\ k.sid = q.sid
        /\ k.seen = q.seen
    BY <2>1 DEF NextCall, Busy, Fields
  <2> HIDE DEF k, t
  <2>5. /\ p.at = "transfer" /\ p.sid = q.sid /\ p.seen = q.seen
        /\ p.id = id /\ p.torrent = t
    BY <2>4 DEF Fields
  <2>6. call'[c] = p
    BY <2>2 DEF t
  <2> HIDE DEF p
  <2> QED BY <2>1, <2>3, <2>5, <2>6 DEF Typed
<1>3. CASE Transferred(c)
  <2>1. Busy(q) /\ Typed(q, epoch)
    BY <1>3, BusyWhen DEF Transferred, CallsTyped
  <2> DEFINE k == NextCall(c, "remove")
             p == [k EXCEPT !.sid = 0]
  <2>2. /\ DOMAIN k = Fields /\ k.at = "remove" /\ k.id = q.id
        /\ k.seen = q.seen
    BY <2>1 DEF NextCall, Busy, Fields
  <2>3. call'[c] = p
    BY <1>3 DEF Transferred, Locals
  <2> HIDE DEF k
  <2>4. p.at = "remove" /\ p.id = q.id /\ p.sid = 0 /\ p.seen = q.seen
    BY <2>2 DEF Fields
  <2>5. epoch \in Nat /\ 0 \in 0 .. epoch
    BY DEF TypeOK
  <2> HIDE DEF p
  <2> QED BY <2>1, <2>3, <2>4, <2>5 DEF Typed
<1>4. CASE NotTransferred(c) \/ Removed(c)
  BY <1>4, IdleIs DEF NotTransferred, NotRemoved, Removed, Proceed, Locals
<1>5. CASE Remove(c)
  <2>1. Busy(q) /\ q.at = "remove" /\ Typed(q, epoch)
    BY <1>5, BusyWhen DEF Remove, Accepted, CallsTyped
  <2>2. call'[c] = Done(c)
    BY <1>5 DEF Remove, Locals
  <2> DEFINE p == Done(c)
  <2>3. p.at = "remove" /\ p.id = q.id /\ p.sid = q.sid /\ p.seen = {}
    BY <2>1 DEF Done, Busy, Fields
  <2> HIDE DEF p
  <2> QED BY <2>1, <2>2, <2>3 DEF Typed, p
<1> QED BY <1>1, <1>2, <1>3, <1>4, <1>5 DEF WorkerStep

LEMMA NextCallsTyped ==
    TypeOK /\ Locals /\ CallsTyped /\ [Next]_vars => CallsTyped'
<1> SUFFICES ASSUME TypeOK, Locals, CallsTyped, [Next]_vars,
                    NEW d \in Threads, Busy(call'[d])
             PROVE  Typed(call'[d], epoch')
  BY DEF CallsTyped
<1>1. CASE UNCHANGED vars
  BY <1>1 DEF vars, daemon, CallsTyped
<1>2. ASSUME NEW f, Restart(f) PROVE Typed(call'[d], epoch')
  <2> DEFINE q == call[d]
             p == call'[d]
  <2>1. /\ p.at = q.at /\ p.id = q.id /\ p.torrent = q.torrent
        /\ p.seen = q.seen /\ p.replied = q.replied /\ p.sid = q.sid
        /\ p.edit = q.edit /\ Busy(q)
    BY <1>2, RestartDoes, IdleIs
  <2>2. Typed(q, epoch) /\ epoch \in Nat /\ epoch' = epoch + 1
    BY <1>2, <2>1, Renews DEF CallsTyped, TypeOK
  <2> HIDE DEF p, q
  <2>3. p.sid \in 0 .. epoch'
    BY <2>1, <2>2 DEF Typed
  <2>4. Typed(p, epoch')
    BY <2>1, <2>2, <2>3 DEF Typed
  <2> QED BY <2>4 DEF p
<1>3. ASSUME NEW c \in Threads, Post(c) \/ EditStep(c) \/ WorkerStep(c)
      PROVE  Typed(call'[d], epoch')
  <2>1. Others(c) /\ Step(c)
    BY <1>3, PostDoes, EditStepDoes, WorkerStepDoes
  <2>2. epoch' = epoch
    BY <2>1 DEF Step, ToldSid, IsDone, daemon
  <2>3. CASE d = c
    BY <1>3, <2>2, <2>3, PostTyped, EditTyped, WorkerTyped
  <2>4. CASE d # c
    BY <2>1, <2>2, <2>4 DEF Others, CallsTyped
  <2> QED BY <2>3, <2>4
<1> QED BY <1>1, <1>2, <1>3 DEF Next

LEMMA SetTypes ==
    ASSUME TypeOK, Locals, CallsTyped, NEW c \in Threads, Set(c)
    PROVE  /\ labels' \in [Torrents -> SUBSET Labels]
           /\ wanted' \in [Torrents -> SUBSET Labels]
           /\ mixed' \subseteq Torrents
           /\ UNCHANGED <<epoch, ids, moved, gone, misled>>
<1> DEFINE q == call[c]
           t == ids[q.id]
           e == q.edit
           v == Edited(e, q.seen)
           w == IF t \in mixed' THEN {}
                ELSE IF e.add THEN wanted[t] \cup {e.label}
                ELSE wanted[t] \ {e.label}
<1>1. /\ Typed(q, epoch) /\ q.at = "set" /\ q.replied = FALSE
      /\ UNCHANGED <<epoch, ids, moved, gone, misled>>
  <2>1. /\ Busy(q) /\ q.at = "set" /\ Sending(c)
        /\ UNCHANGED <<epoch, ids, moved, gone, misled>>
    BY BusyWhen DEF Set, Accepted
  <2> QED BY <2>1 DEF Sending, CallsTyped
<1>2. CASE t = None
  BY <1>1, <1>2 DEF Set, TypeOK
<1>3. CASE t # None
  <2>1. /\ labels' = [labels EXCEPT ![t] = v]
        /\ mixed' = IF q.stale \/ Crosses(c, t) THEN mixed \cup {t} ELSE mixed
        /\ wanted' = [wanted EXCEPT ![t] = w]
    BY <1>3 DEF Set
  <2>2. t \in Torrents /\ e \in Edits
    BY <1>1, <1>3 DEF TypeOK, Typed
  <2>3. v \subseteq Labels
    BY <1>1, <2>2, EditedIs DEF Typed
  <2>4. w \subseteq Labels
    <3>1. wanted[t] \subseteq Labels /\ e.label \in Labels
      BY <2>2 DEF TypeOK, Edits
    <3> QED BY <3>1
  <2> HIDE DEF v, w
  <2> QED BY <1>1, <2>1, <2>2, <2>3, <2>4 DEF TypeOK
<1> QED BY <1>2, <1>3

LEMMA RemoveTypes ==
    ASSUME TypeOK, Locals, CallsTyped, NEW c \in Threads, Remove(c)
    PROVE  /\ ids' \in [Ids -> Torrents \cup {None}]
           /\ \A i, j \in Ids : ids'[i] = ids'[j] /\ ids'[i] # None => i = j
           /\ gone' \subseteq Torrents /\ misled' \subseteq gone'
           /\ UNCHANGED <<epoch, labels, wanted, mixed, moved>>
<1> DEFINE q == call[c]
           t == ids[q.id]
<1>1. Busy(q) /\ Typed(q, epoch)
  BY BusyWhen DEF Remove, Accepted, CallsTyped
<1>2. q.id \in Ids /\ t \in Torrents \cup {None}
  BY <1>1 DEF Typed, TypeOK
<1>3. /\ ids' = [ids EXCEPT ![q.id] = None]
      /\ gone' = gone \cup ({t} \ {None})
      /\ misled' = IF q.stale THEN misled \cup ({t} \ {None}) ELSE misled
      /\ UNCHANGED <<epoch, labels, wanted, mixed, moved>>
  BY DEF Remove
<1>4. /\ ids' \in [Ids -> Torrents \cup {None}]
      /\ \A i, j \in Ids : ids'[i] = ids'[j] /\ ids'[i] # None => i = j
  BY <1>2, <1>3 DEF TypeOK
<1> QED BY <1>2, <1>3, <1>4 DEF TypeOK

LEMMA NextTypes ==
    TypeOK /\ Locals /\ CallsTyped /\ [Next]_vars => TypeOK'
<1> SUFFICES ASSUME TypeOK, Locals, CallsTyped, [Next]_vars PROVE TypeOK'
  OBVIOUS
<1> DEFINE Data == /\ epoch \in 1 .. MaxEpoch
                   /\ ids \in [Ids -> Torrents \cup {None}]
                   /\ \A i, j \in Ids :
                         ids[i] = ids[j] /\ ids[i] # None => i = j
                   /\ labels \in [Torrents -> SUBSET Labels]
                   /\ wanted \in [Torrents -> SUBSET Labels]
                   /\ mixed \subseteq Torrents /\ moved \subseteq Torrents
                   /\ gone \subseteq Torrents /\ misled \subseteq gone
<1>1. Locals' /\ CallsTyped'
  BY NextLocals, NextCallsTyped
<1>2. \A c \in Threads : (call'[c].at # "idle") => Busy(call'[c])
  BY <1>1, IdleIs DEF Locals
<1>3. \A c \in Threads : InCall(c)' =>
          call'[c].sid \in 0 .. epoch' /\ call'[c].id \in Ids
  BY <1>1, <1>2 DEF InCall, CallsTyped, Typed
<1>4. SUFFICES Data'
  BY <1>1, <1>3 DEF TypeOK, Locals
<1>5. CASE UNCHANGED <<daemon, history>>
  BY <1>5 DEF daemon, history, TypeOK
<1>6. ASSUME NEW f \in [Ids -> Torrents \cup {None}], Restart(f) PROVE Data'
  <2>1. epoch' \in 1 .. MaxEpoch
    BY <1>6, Renews, Bounds DEF TypeOK
  <2> QED BY <1>6, <2>1 DEF Restart, Numbered, history, TypeOK
<1>7. ASSUME NEW c \in Threads, WorkerStep(c) PROVE Data'
  <2>1. CASE Remove(c)
    BY <2>1, RemoveTypes DEF TypeOK
  <2>2. CASE Transferred(c)
    <3>1. Busy(call[c]) /\ call[c].torrent \in Torrents
      BY <2>2, BusyWhen DEF Transferred, CallsTyped, Typed
    <3> QED BY <2>2, <3>1 DEF Transferred, daemon, TypeOK
  <2>3. CASE BeginList(c) \/ List(c) \/ NotTransferred(c) \/ Removed(c)
    BY <1>5, <2>3 DEF BeginList, List, NotTransferred, Removed, Proceed
  <2> QED BY <1>7, <2>1, <2>2, <2>3 DEF WorkerStep
<1>8. ASSUME NEW c \in Threads, EditStep(c) PROVE Data'
  <2>1. CASE Set(c)
    BY <2>1, SetTypes DEF TypeOK
  <2>2. CASE ~Set(c)
    BY <1>5, <1>8, <2>2 DEF EditStep, BeginEdit, Get, WasSet, Proceed, Check
  <2> QED BY <2>1, <2>2
<1>9. ASSUME NEW c \in Threads, Post(c) PROVE Data'
  BY <1>5, <1>9 DEF Post, Refused, GiveUp, Lose
<1>10. CASE UNCHANGED vars
  BY <1>5, <1>10 DEF vars
<1> HIDE DEF Data
<1> QED BY <1>6, <1>7, <1>8, <1>9, <1>10 DEF Next

LEMMA InitTypes == Init => TypeOK /\ CallsTyped
<1> SUFFICES ASSUME Init PROVE TypeOK /\ CallsTyped
  OBVIOUS
<1>1. DOMAIN call = Threads /\ \A c \in Threads : call[c] = Idle
  BY DEF Init
<1>2. CallsTyped /\ \A c \in Threads : ~InCall(c)
  BY <1>1, IdleIs DEF CallsTyped, InCall
<1>3. epoch \in 1 .. MaxEpoch
  BY Bounds DEF Init
<1> QED BY <1>1, <1>2, <1>3 DEF Init, TypeOK

-----------------------------------------------------------------------------
ClientInv == /\ Locals /\ Single /\ Apart /\ ReadWell /\ Stands
             /\ ListsWell /\ RemovedWasMoved

LEMMA InitClientInv == Init => ClientInv
<1> SUFFICES ASSUME Init PROVE ClientInv
  OBVIOUS
<1>1. DOMAIN call = Threads /\ \A c \in Threads : call[c] = Idle
  BY DEF Init
<1>2. Locals /\ Single /\ Apart /\ ReadWell /\ ListsWell
  BY <1>1, IdleIs DEF Locals, Single, Apart, ReadWell, ListsWell
<1>3. Stands /\ RemovedWasMoved
  BY DEF Init, Stands, EditsStand, RemovedWasMoved
<1> QED BY <1>2, <1>3 DEF ClientInv

(* Calls, their session ids and what they have read stay as the client's   *)
(* steps leave them, whatever the daemon and the network do.               *)
THEOREM ClientInvariance == Spec => []ClientInv
<1>1. ClientInv /\ [Next]_vars => ClientInv'
  BY NextLocals, NextSingle, NextApart, NextReadWell, NextStands,
     NextListsWell, NextRemovedWasMoved DEF ClientInv
<1> QED BY <1>1, InitClientInv, PTL DEF Spec

(* A thread holds ids and session ids the daemon has had, an id has one    *)
(* torrent, and what is written is of the types there are: the client and  *)
(* the daemon keep their types however ids are given anew.                 *)
THEOREM TypeCorrect == Spec => []TypeOK
<1>1. TypeOK /\ CallsTyped /\ ClientInv /\ [Next]_vars
      => TypeOK' /\ CallsTyped'
  BY NextTypes, NextCallsTyped DEF ClientInv
<1> QED BY <1>1, InitTypes, ClientInvariance, PTL DEF Spec

(* A call has its request carried out once at most, for any number of      *)
(* clients, with replies lost and session ids renewed at any time.         *)
THEOREM AtMostOnceHolds == Spec => []AtMostOnce
<1>1. ClientInv => AtMostOnce
  BY BusyWhen DEF ClientInv, Single, AtMostOnce, InCall
<1> QED BY <1>1, ClientInvariance, PTL

(* A client gives up over the session id only if the daemon has renewed it *)
(* once more since it refused the call.                                    *)
THEOREM OneRepetitionIsEnoughHolds == Spec => OneRepetitionIsEnough
<1>1. ClientInv => \A c \in Threads : GiveUp(c) => call[c].renewed
  BY BusyWhen DEF ClientInv, Single, GiveUp, Sending, InCall
<1> QED BY <1>1, ClientInvariance, PTL DEF OneRepetitionIsEnough

(* Labels are what edits made of them, for any number of editors, unless   *)
(* edits of one torrent crossed or torrents were numbered anew meanwhile.  *)
THEOREM EditsStandHolds == Spec => []EditsStand
<1>1. ClientInv => EditsStand
  BY DEF ClientInv, Stands
<1> QED BY <1>1, ClientInvariance, PTL

(* README.md:13-14, for any number of workers: what is removed has been    *)
(* transferred, unless torrents were numbered anew since it was listed.    *)
THEOREM RemovedWasMovedHolds == Spec => []RemovedWasMoved
<1>1. ClientInv => RemovedWasMoved
  BY DEF ClientInv
<1> QED BY <1>1, ClientInvariance, PTL
=============================================================================
