-------------------------- MODULE ConfigStoreProofs --------------------------
(***************************************************************************)
(* Proofs about ConfigStore, for any saves, any number of threads and any  *)
(* bound on ids.                                                           *)
(***************************************************************************)
EXTENDS ConfigStore, WellFoundedInduction, TLAPS

(* The locals of the handlers, by where they are.                          *)
TryingShape(q) ==
    /\ DOMAIN q = {"op", "section", "updates", "at", "alone"}
    /\ q.op = "save" /\ q.section = "source"
    /\ q.at \in {"probe", "load"}
    /\ ToSsh(q)
    /\ {"kind", "host"} \subseteq DOMAIN q.updates

WritingShape(q) ==
    /\ DOMAIN q = {"op", "section", "updates", "at", "alone", "insert",
                   "writes"}
    /\ q.op = "save" /\ q.section \in Sections
    /\ q.at = "write"
    /\ q.section = "source" => {"kind", "host"} \subseteq DOMAIN q.updates

SaveShape(q) ==
    /\ TryingShape(q) \/ WritingShape(q)
    /\ DOMAIN q.updates \subseteq Columns[q.section]
    /\ q.alone \in BOOLEAN

DestinationShape(q) ==
    /\ \/ DOMAIN q = {"op", "kind"} /\ q.op = "createDestination"
       \/ /\ DOMAIN q = {"op", "id", "kind", "at", "changes"}
          /\ q.op = "editDestination"
    /\ q.kind \in Kinds

RuleShape(q) ==
    /\ DOMAIN q = {"op", "id", "dest", "switched", "kind", "at", "changes"}
    /\ q.op \in {"createRule", "editRule"}
    /\ q.dest \in Ids
    /\ q.switched \in BOOLEAN

OtherShape(q) ==
    \/ DOMAIN q = {"op"} /\ q.op = "none"
    \/ /\ DOMAIN q = {"op", "id"}
       /\ q.op = "deleteDestination" /\ q.id \in Ids
    \/ DOMAIN q = {"op", "id"} /\ q.op = "deleteRule"

Shape(q) == \/ SaveShape(q) \/ DestinationShape(q)
            \/ RuleShape(q) \/ OtherShape(q)

Shapes == /\ DOMAIN request = Requests
          /\ \A r \in Requests : Shape(request[r])

-----------------------------------------------------------------------------
LEMMA GoesTo ==
    ASSUME Shapes, NEW r \in Requests, NEW q, Goto(r, q)
    PROVE  /\ request'[r] = q
           /\ \A t \in Requests \ {r} : request'[t] = request[t]
           /\ DOMAIN request' = Requests
BY DEF Shapes, Goto

LEMMA GoesToShape ==
    ASSUME Shapes, NEW r \in Requests, NEW q, Shape(q), Goto(r, q)
    PROVE  Shapes'
<1>1. /\ request'[r] = q
      /\ \A t \in Requests \ {r} : request'[t] = request[t]
      /\ DOMAIN request' = Requests
  BY GoesTo
<1>2. \A t \in Requests : Shape(request'[t])
  BY <1>1 DEF Shapes
<1> QED BY <1>1, <1>2 DEF Shapes

LEMMA FinishShape ==
    ASSUME Shapes, NEW r \in Requests, Finish(r)
    PROVE  /\ Shapes'
           /\ request'[r] = Idle
           /\ \A t \in Requests \ {r} : request'[t] = request[t]
<1>1. Shape(Idle)
  BY DEF Shape, OtherShape, Idle
<1> QED BY <1>1, GoesTo, GoesToShape DEF Finish

(* Who is at a save, an edit or a rule has its locals.                     *)
LEMMA ShapeOf ==
    ASSUME Shapes, NEW r \in Requests
    PROVE  /\ request[r].op = "save" => SaveShape(request[r])
           /\ request[r].op \in {"createDestination", "editDestination"} =>
                 DestinationShape(request[r])
           /\ SavesRule(r) => RuleShape(request[r])
           /\ request[r].op = "deleteDestination" => request[r].id \in Ids
<1> DEFINE q == request[r]
<1>1. Shape(q)
  BY DEF Shapes
<1>2. SaveShape(q) => q.op = "save"
  BY DEF SaveShape, TryingShape, WritingShape
<1>3. DestinationShape(q) => q.op \in {"createDestination", "editDestination"}
  BY DEF DestinationShape
<1>4. RuleShape(q) => q.op \in {"createRule", "editRule"}
  BY DEF RuleShape
<1>5. OtherShape(q) => \/ q.op \in {"none", "deleteRule"}
                       \/ q.op = "deleteDestination" /\ q.id \in Ids
  BY DEF OtherShape
<1> QED BY <1>1, <1>2, <1>3, <1>4, <1>5 DEF Shape, SavesRule

(* A save that begins: its own locals, and the others' as they were but    *)
(* for alone.                                                              *)
LEMMA Begins ==
    ASSUME Shapes, NEW r \in Requests, NEW section, NEW q,
           Begin(r, section, q)
    PROVE  /\ request[r] = Idle /\ request'[r] = q
           /\ DOMAIN request' = Requests
           /\ \A t \in Requests \ {r} :
                 \/ /\ request'[t] = request[t]
                    /\ t \notin Saving(section)
                 \/ /\ t \in Saving(section)
                    /\ request'[t] = [request[t] EXCEPT !.alone = FALSE]
BY DEF Begin

LEMMA NotAloneShape ==
    ASSUME NEW q, SaveShape(q)
    PROVE  LET p == [q EXCEPT !.alone = FALSE]
           IN  /\ SaveShape(p)
               /\ TryingShape(q) => TryingShape(p)
               /\ WritingShape(q) => WritingShape(p)
               /\ p.op = q.op /\ p.section = q.section
               /\ p.updates = q.updates /\ p.at = q.at
               /\ p.alone = FALSE
               /\ q.at = "write" => p.insert = q.insert /\ p.writes = q.writes
<1> DEFINE p == [q EXCEPT !.alone = FALSE]
<1>1. /\ DOMAIN p = DOMAIN q
      /\ p.op = q.op /\ p.section = q.section /\ p.updates = q.updates
      /\ p.at = q.at /\ p.alone = FALSE
      /\ q.at = "write" => p.insert = q.insert /\ p.writes = q.writes
  BY DEF SaveShape, TryingShape, WritingShape
<1> HIDE DEF p
<1>2. TryingShape(q) => TryingShape(p)
  BY <1>1 DEF TryingShape, ToSsh
<1>3. WritingShape(q) => WritingShape(p)
  BY <1>1 DEF WritingShape
<1>4. SaveShape(p)
  BY <1>1, <1>2, <1>3 DEF SaveShape
<1> QED BY <1>1, <1>2, <1>3, <1>4 DEF p

LEMMA BeginShape ==
    ASSUME Shapes, NEW r \in Requests, NEW section, NEW q,
           Begin(r, section, q), Shape(q)
    PROVE  Shapes'
<1>1. ASSUME NEW t \in Requests \ {r} PROVE Shape(request'[t])
  <2>1. CASE request'[t] = request[t]
    BY <2>1 DEF Shapes
  <2>2. CASE /\ t \in Saving(section)
             /\ request'[t] = [request[t] EXCEPT !.alone = FALSE]
    BY <2>2, ShapeOf, NotAloneShape DEF Saving, Shape
  <2> QED BY <2>1, <2>2, Begins
<1> QED BY <1>1, Begins DEF Shapes

(* The locals of a save that has loaded its row.                           *)
LEMMA LoadedShape ==
    ASSUME NEW s \in Sections, NEW updates, NEW alone \in BOOLEAN,
           DOMAIN updates \subseteq Columns[s],
           s = "source" => {"kind", "host"} \subseteq DOMAIN updates
    PROVE  LET q == Loaded(s, updates, alone)
           IN  /\ SaveShape(q) /\ WritingShape(q)
               /\ q.op = "save" /\ q.section = s /\ q.updates = updates
               /\ q.at = "write" /\ q.alone = alone
               /\ q.insert = (config[Row(s)] = NoRow)
               /\ q.writes = IF config[Row(s)] = NoRow
                             THEN Over(updates, Defaults(Row(s)))
                             ELSE Changes(Row(s), updates)
<1> DEFINE w == IF config[Row(s)] = NoRow
                THEN Over(updates, Defaults(Row(s)))
                ELSE Changes(Row(s), updates)
           i == config[Row(s)] = NoRow
<1>1. Loaded(s, updates, alone) =
        [op |-> "save", section |-> s, updates |-> updates, at |-> "write",
         alone |-> alone, insert |-> i, writes |-> w]
  BY DEF Loaded
<1> HIDE DEF w, i
<1>2. WritingShape(Loaded(s, updates, alone))
  BY <1>1 DEF WritingShape
<1> QED BY <1>1, <1>2 DEF SaveShape, w, i

(* What a save of settings stores.                                         *)
Sent(save) == IF save.section = "source"
                THEN With(save.updates, "detected", Empty)
                ELSE save.updates

LEMMA SaveAssumed ==
    ASSUME NEW save \in Saves
    PROVE  /\ save.section \in Sections
           /\ DOMAIN save.updates \subseteq Columns[save.section]
           /\ save.section = "source" =>
                 {"kind", "host"} \subseteq DOMAIN save.updates
BY ConfigAssumption

LEMMA SentType ==
    ASSUME NEW save \in Saves
    PROVE  /\ DOMAIN Sent(save) \subseteq Columns[save.section]
           /\ save.section = "source" =>
                 /\ {"kind", "host"} \subseteq DOMAIN Sent(save)
                 /\ Sent(save).kind = save.updates.kind
           /\ save.section # "source" => Sent(save) = save.updates
<1>1. CASE save.section = "source"
  <2>1. /\ DOMAIN save.updates \subseteq Columns["source"]
        /\ {"kind", "host"} \subseteq DOMAIN save.updates
    BY <1>1, SaveAssumed
  <2>2. Sent(save) = With(save.updates, "detected", Empty)
    BY <1>1 DEF Sent
  <2> QED BY <1>1, <2>1, <2>2 DEF With, Columns
<1>2. CASE save.section # "source"
  BY <1>2, SaveAssumed DEF Sent
<1> QED BY <1>1, <1>2

LEMMA PutSettingsDoes ==
    ASSUME NEW r \in Requests, NEW save \in Saves, PutSettings(r, save)
    PROVE  LET s == save.section
               q == Loaded(s, Sent(save), Saving(s) = {})
           IN  /\ Begin(r, s, q)
               /\ SaveShape(q) /\ WritingShape(q)
               /\ q.op = "save" /\ q.section = s /\ q.updates = Sent(save)
               /\ q.at = "write" /\ q.alone = (Saving(s) = {})
               /\ q.insert = (config[Row(s)] = NoRow)
               /\ q.writes = IF config[Row(s)] = NoRow
                             THEN Over(Sent(save), Defaults(Row(s)))
                             ELSE Changes(Row(s), Sent(save))
               /\ s = "source" => Sent(save).kind # "ssh"
               /\ UNCHANGED <<tables, history>>
<1> DEFINE s == save.section
           q == Loaded(s, Sent(save), Saving(s) = {})
           alone == Saving(s) = {}
<1>1. Begin(r, s, q) /\ UNCHANGED <<tables, history>>
  BY DEF PutSettings, Sent
<1>2. s = "source" => Sent(save).kind # "ssh"
  BY SentType DEF PutSettings, ToSsh
<1>3. alone \in BOOLEAN
  OBVIOUS
<1> HIDE DEF alone
<1>4. /\ SaveShape(Loaded(s, Sent(save), alone))
      /\ WritingShape(Loaded(s, Sent(save), alone))
      /\ Loaded(s, Sent(save), alone).op = "save"
      /\ Loaded(s, Sent(save), alone).section = s
      /\ Loaded(s, Sent(save), alone).updates = Sent(save)
      /\ Loaded(s, Sent(save), alone).at = "write"
      /\ Loaded(s, Sent(save), alone).alone = alone
      /\ Loaded(s, Sent(save), alone).insert = (config[Row(s)] = NoRow)
      /\ Loaded(s, Sent(save), alone).writes =
            IF config[Row(s)] = NoRow
            THEN Over(Sent(save), Defaults(Row(s)))
            ELSE Changes(Row(s), Sent(save))
  BY <1>3, SaveAssumed, SentType, LoadedShape
<1> QED BY <1>1, <1>2, <1>4 DEF alone

LEMMA PutSettingsBegins ==
    ASSUME NEW r \in Requests, NEW save \in Saves, PutSettings(r, save)
    PROVE  /\ request[r] = Idle
           /\ request'[r] = Loaded(save.section, Sent(save),
                                  Saving(save.section) = {})
<1> DEFINE q == Loaded(save.section, Sent(save), Saving(save.section) = {})
<1>1. Begin(r, save.section, q)
  BY PutSettingsDoes
<1> HIDE DEF q
<1>2. request[r] = Idle /\ request'[r] = q
  BY <1>1 DEF Begin
<1> QED BY <1>2 DEF q

LEMMA PutSshSourceDoes ==
    ASSUME NEW r \in Requests, NEW save \in Saves, PutSshSource(r, save)
    PROVE  LET q == [op |-> "save", section |-> "source",
                     updates |-> save.updates, at |-> "probe",
                     alone |-> Saving("source") = {}]
           IN  /\ Begin(r, "source", q)
               /\ SaveShape(q) /\ TryingShape(q)
               /\ ~RemoteExists
               /\ crossed' = (crossed \/ RemoteUnderWay)
               /\ UNCHANGED <<tables, saved, reusable>>
<1> DEFINE alone == Saving("source") = {}
           q == [op |-> "save", section |-> "source",
                 updates |-> save.updates, at |-> "probe", alone |-> alone]
<1>1. alone \in BOOLEAN
  OBVIOUS
<1> HIDE DEF alone
<1>2. SaveShape(q) /\ TryingShape(q)
  BY <1>1, SaveAssumed
     DEF PutSshSource, ToSsh, SaveShape, TryingShape
<1> QED BY <1>2 DEF PutSshSource, alone

LEMMA ProbeDoes ==
    ASSUME Shapes, NEW r \in Requests, Probe(r)
    PROVE  LET q == request[r]
               p == [q EXCEPT !.at = "load",
                       !.updates = With(@, "detected", Detected(@))]
           IN  /\ TryingShape(q) /\ q.at = "probe" /\ CanConnect(q.updates)
               /\ Goto(r, p)
               /\ SaveShape(p) /\ TryingShape(p)
               /\ p.at = "load" /\ p.alone = q.alone
               /\ p.updates = With(q.updates, "detected",
                                   Detected(q.updates))
               /\ UNCHANGED <<tables, history>>
<1> DEFINE q == request[r]
           u == With(q.updates, "detected", Detected(q.updates))
           p == [q EXCEPT !.at = "load",
                   !.updates = With(@, "detected", Detected(@))]
<1>1. SaveShape(q) /\ TryingShape(q)
  BY ShapeOf DEF Probe, SaveShape, WritingShape
<1>2. /\ DOMAIN u \subseteq Columns["source"]
      /\ {"kind", "host"} \subseteq DOMAIN u
      /\ u.kind = q.updates.kind
  <2>1. /\ DOMAIN q.updates \subseteq Columns["source"]
        /\ {"kind", "host"} \subseteq DOMAIN q.updates
    BY <1>1 DEF SaveShape, TryingShape
  <2> QED BY <2>1 DEF With, Columns
<1> HIDE DEF u
<1>3. p = [[q EXCEPT !.at = "load"] EXCEPT !.updates = u]
  BY <1>1 DEF u, TryingShape
<1>4. /\ DOMAIN p = DOMAIN q
      /\ p.op = q.op /\ p.section = q.section /\ p.alone = q.alone
      /\ p.at = "load" /\ p.updates = u
  BY <1>1, <1>3 DEF TryingShape
<1>5. Goto(r, p) /\ UNCHANGED <<tables, history>>
  BY DEF Probe
<1> HIDE DEF p
<1>6. TryingShape(p)
  BY <1>1, <1>2, <1>4 DEF TryingShape, ToSsh
<1>7. SaveShape(p)
  BY <1>1, <1>2, <1>4, <1>6 DEF SaveShape, TryingShape
<1> QED BY <1>1, <1>4, <1>5, <1>6, <1>7 DEF Probe, p, u

LEMMA LoadDoes ==
    ASSUME Shapes, NEW r \in Requests, Load(r)
    PROVE  LET q == request[r]
               p == Loaded("source", q.updates, q.alone)
           IN  /\ TryingShape(q) /\ q.at = "load"
               /\ Goto(r, p)
               /\ SaveShape(p) /\ WritingShape(p)
               /\ p.op = "save" /\ p.section = "source"
               /\ p.updates = q.updates
               /\ p.at = "write" /\ p.alone = q.alone
               /\ p.insert = (config[Row("source")] = NoRow)
               /\ p.writes = IF config[Row("source")] = NoRow
                             THEN Over(q.updates, Defaults(Row("source")))
                             ELSE Changes(Row("source"), q.updates)
               /\ UNCHANGED <<tables, history>>
<1> DEFINE q == request[r]
<1>1. SaveShape(q) /\ TryingShape(q)
  BY ShapeOf DEF Load, SaveShape, WritingShape
<1>2. /\ "source" \in Sections /\ q.alone \in BOOLEAN
      /\ DOMAIN q.updates \subseteq Columns["source"]
      /\ {"kind", "host"} \subseteq DOMAIN q.updates
  BY <1>1 DEF SaveShape, TryingShape, Sections, Columns
<1>3. q.at = "load" /\ Goto(r, Loaded("source", q.updates, q.alone))
      /\ UNCHANGED <<tables, history>>
  BY DEF Load
<1> HIDE DEF q
<1> QED BY <1>1, <1>2, <1>3, LoadedShape DEF q

LEMMA WriteDoes ==
    ASSUME Shapes, NEW r \in Requests, Write(r)
    PROVE  LET q == request[r]
           IN  /\ SaveShape(q) /\ WritingShape(q)
               /\ CanWrite(r, Row(q.section))
               /\ config' = [config EXCEPT ![Row(q.section)] =
                                Written(r, Row(q.section))]
               /\ Finish(r)
               /\ UNCHANGED <<destinations, rules, crossed, reusable>>
BY ShapeOf DEF Write, SaveShape, TryingShape

LEMMA InsertDestinationDoes ==
    ASSUME Shapes, NEW r \in Requests, InsertDestination(r)
    PROVE  LET d == NewId(destinations)
           IN  /\ d \in Ids
               /\ DestinationShape(request[r])
               /\ request'[r] = Idle
               /\ \A t \in Requests \ {r} :
                     \/ request'[t] = request[t] /\ ~SavesRule(t)
                     \/ /\ RuleShape(request[t]) /\ RuleShape(request'[t])
                        /\ request'[t].op = request[t].op
                        /\ request'[t].dest = request[t].dest
                        /\ request'[t].switched =
                              (request[t].switched \/ request[t].dest = d)
               /\ DOMAIN request' = Requests
               /\ UNCHANGED <<config, history>>
<1> DEFINE d == NewId(destinations)
           S == {u \in Requests : SavesRule(u)}
<1>1. /\ d \in Ids /\ request[r].op = "createDestination"
      /\ request' = [t \in Requests |-> IF t = r THEN Idle ELSE
                                        Switched(request[t], S, t, d)]
      /\ UNCHANGED <<config, history>>
  BY DEF InsertDestination
<1>2. DestinationShape(request[r])
  BY <1>1, ShapeOf
<1> HIDE DEF d
<1>3. ASSUME NEW t \in Requests \ {r}, ~SavesRule(t)
      PROVE  request'[t] = request[t]
  BY <1>1, <1>3 DEF Switched
<1>4. ASSUME NEW t \in Requests \ {r}, SavesRule(t)
      PROVE  /\ RuleShape(request[t]) /\ RuleShape(request'[t])
             /\ request'[t].op = request[t].op
             /\ request'[t].dest = request[t].dest
             /\ request'[t].switched =
                   (request[t].switched \/ request[t].dest = d)
  <2>1. RuleShape(request[t])
    BY <1>4, ShapeOf
  <2>2. request'[t] = IF request[t].dest = d
                      THEN [request[t] EXCEPT !.switched = TRUE]
                      ELSE request[t]
    BY <1>1, <1>4 DEF Switched
  <2>3. CASE request[t].dest = d
    <3>1. /\ DOMAIN request'[t] = DOMAIN request[t]
          /\ request'[t].op = request[t].op
          /\ request'[t].dest = request[t].dest
          /\ request'[t].switched = TRUE
      BY <2>1, <2>2, <2>3 DEF RuleShape
    <3> QED BY <2>1, <2>3, <3>1 DEF RuleShape
  <2>4. CASE request[t].dest # d
    BY <2>1, <2>2, <2>4 DEF RuleShape
  <2> QED BY <2>3, <2>4
<1> QED BY <1>1, <1>2, <1>3, <1>4 DEF d

LEMMA NextShapes == Shapes /\ [Next]_vars => Shapes'
<1> SUFFICES ASSUME Shapes, [Next]_vars PROVE Shapes'
  OBVIOUS
<1>1. ASSUME NEW r \in Requests, Settings(r) PROVE Shapes'
  <2>1. ASSUME NEW save \in Saves, PutSettings(r, save) PROVE Shapes'
    BY <2>1, PutSettingsDoes, BeginShape DEF Shape
  <2>2. ASSUME NEW save \in Saves, PutSshSource(r, save) PROVE Shapes'
    BY <2>2, PutSshSourceDoes, BeginShape DEF Shape
  <2>3. CASE Probe(r)
    BY <2>3, ProbeDoes, GoesToShape DEF Shape
  <2>4. CASE Load(r)
    BY <2>4, LoadDoes, GoesToShape DEF Shape
  <2>5. CASE Write(r)
    BY <2>5, WriteDoes, FinishShape
  <2> QED BY <1>1, <2>1, <2>2, <2>3, <2>4, <2>5 DEF Settings
<1>2. ASSUME NEW r \in Requests, DestinationStep(r) PROVE Shapes'
  <2>1. ASSUME NEW kind \in Kinds, PostDestination(r, kind) PROVE Shapes'
    <3>1. Shape([op |-> "createDestination", kind |-> kind])
      BY DEF Shape, DestinationShape
    <3> QED BY <2>1, <3>1, GoesToShape DEF PostDestination
  <2>2. ASSUME NEW d \in Ids, NEW kind \in Kinds, PutDestination(r, d, kind)
        PROVE  Shapes'
    <3>1. Shape([op |-> "editDestination", id |-> d, kind |-> kind,
                 at |-> "load", changes |-> FALSE])
      BY DEF Shape, DestinationShape
    <3> QED BY <2>2, <3>1, GoesToShape DEF PutDestination
  <2>3. ASSUME NEW d \in Ids, RemoveDestination(r, d) PROVE Shapes'
    <3>1. Shape([op |-> "deleteDestination", id |-> d])
      BY DEF Shape, OtherShape
    <3> QED BY <2>3, <3>1, GoesToShape DEF RemoveDestination
  <2>4. CASE InsertDestination(r)
    <3>1. Shape(request'[r])
      BY <2>4, InsertDestinationDoes DEF Shape, OtherShape, Idle
    <3>2. \A t \in Requests \ {r} : Shape(request'[t])
      BY <2>4, InsertDestinationDoes DEF Shape, Shapes
    <3> QED BY <2>4, <3>1, <3>2, InsertDestinationDoes DEF Shapes
  <2>5. CASE LoadDestination(r)
    <3> DEFINE q == request[r]
               b == destinations[q.id] # q.kind
               p == [q EXCEPT !.at = "write", !.changes = b]
    <3>1. DestinationShape(q) /\ q.op = "editDestination"
      BY <2>5, ShapeOf DEF LoadDestination
    <3> HIDE DEF b
    <3>2. DOMAIN p = DOMAIN q /\ p.op = q.op /\ p.kind = q.kind
      BY <3>1 DEF DestinationShape
    <3>3. Shape(p)
      BY <3>1, <3>2 DEF Shape, DestinationShape
    <3> QED BY <2>5, <3>3, GoesToShape DEF LoadDestination, b
  <2>6. CASE WriteDestination(r) \/ DeleteDestination(r)
    BY <2>6, FinishShape DEF WriteDestination, DeleteDestination
  <2> QED BY <1>2, <2>1, <2>2, <2>3, <2>4, <2>5, <2>6 DEF DestinationStep
<1>3. ASSUME NEW r \in Requests, RuleStep(r) PROVE Shapes'
  <2>1. ASSUME NEW op \in {"createRule", "editRule"}, NEW i, NEW d \in Ids
        PROVE  Shape(SavingRule(op, i, d))
    BY DEF SavingRule, Shape, RuleShape
  <2>2. ASSUME NEW d \in Ids, PostRule(r, d) PROVE Shapes'
    BY <2>1, <2>2, GoesToShape DEF PostRule
  <2>3. ASSUME NEW i \in RuleIds, NEW d \in Ids, PutRule(r, i, d)
        PROVE  Shapes'
    BY <2>1, <2>3, GoesToShape DEF PutRule
  <2>4. ASSUME NEW i \in RuleIds, RemoveRule(r, i) PROVE Shapes'
    <3>1. Shape([op |-> "deleteRule", id |-> i])
      BY DEF Shape, OtherShape
    <3> QED BY <2>4, <3>1, GoesToShape DEF RemoveRule
  <2>5. CASE CheckRule(r)
    <3> DEFINE q == request[r]
               a == IF q.op = "createRule" THEN "write" ELSE "load"
               p == [q EXCEPT !.at = a]
    <3>1. RuleShape(q)
      BY <2>5, ShapeOf DEF CheckRule
    <3> HIDE DEF a
    <3>2. /\ DOMAIN p = DOMAIN q /\ p.op = q.op /\ p.dest = q.dest
          /\ p.switched = q.switched
      BY <3>1 DEF RuleShape
    <3>3. Shape(p)
      BY <3>1, <3>2 DEF Shape, RuleShape
    <3> QED BY <2>5, <3>3, GoesToShape DEF CheckRule, a
  <2>6. CASE LoadRule(r)
    <3> DEFINE q == request[r]
               b == rules[q.id].dest # q.dest
               p == [q EXCEPT !.at = "write", !.changes = b]
    <3>1. RuleShape(q)
      BY <2>6, ShapeOf DEF LoadRule, SavesRule
    <3> HIDE DEF b
    <3>2. /\ DOMAIN p = DOMAIN q /\ p.op = q.op /\ p.dest = q.dest
          /\ p.switched = q.switched
      BY <3>1 DEF RuleShape
    <3>3. Shape(p)
      BY <3>1, <3>2 DEF Shape, RuleShape
    <3> QED BY <2>6, <3>3, GoesToShape DEF LoadRule, b
  <2>7. CASE InsertRule(r) \/ WriteRule(r) \/ DeleteRule(r)
    BY <2>7, FinishShape DEF InsertRule, WriteRule, DeleteRule
  <2> QED BY <1>3, <2>2, <2>3, <2>4, <2>5, <2>6, <2>7 DEF RuleStep
<1>4. ASSUME NEW r \in Requests, Fail(r) PROVE Shapes'
  BY <1>4, FinishShape DEF Fail
<1>5. CASE UNCHANGED vars
  BY <1>5 DEF vars, Shapes
<1> QED BY <1>1, <1>2, <1>3, <1>4, <1>5 DEF Next

-----------------------------------------------------------------------------
(* Rows have all their columns, and what is to be written is what was      *)
(* sent, with the defaults if the row is new.                              *)
RowsWhole ==
    /\ DOMAIN config = {"app", "transmission"}
    /\ \A row \in {"app", "transmission"} :
          config[row] # NoRow => DOMAIN config[row] = RowColumns(row)

Fits(q) ==
    IF q.insert THEN q.writes = Over(q.updates, Defaults(Row(q.section)))
    ELSE /\ DOMAIN q.writes \subseteq DOMAIN q.updates
         /\ \A c \in DOMAIN q.writes : q.writes[c] = q.updates[c]

AtWrite(r) == request[r].op = "save" /\ request[r].at = "write"

WritesFit == \A r \in Requests : AtWrite(r) => Fits(request[r])

LEMMA ColumnFacts ==
    /\ Sections = {"source", "remap", "labels", "container", "rpc"}
    /\ \A s \in Sections :
          /\ Row(s) \in {"app", "transmission"}
          /\ Columns[s] \subseteq RowColumns(Row(s))
          /\ \A t \in Sections \ {s} : Columns[s] \cap Columns[t] = {}
    /\ {"kind", "host", "password", "detected"} = Columns["source"]
    /\ Row("source") = "app"
<1>1. Sections = {"source", "remap", "labels", "container", "rpc"}
  BY DEF Sections, Columns
<1>2. \A s \in Sections : /\ Row(s) \in {"app", "transmission"}
                          /\ Columns[s] \subseteq RowColumns(Row(s))
  BY <1>1 DEF Row, RowColumns
<1>3. /\ Columns["source"] = {"kind", "host", "password", "detected"}
      /\ Columns["remap"] = {"source_prefix", "target_prefix"}
      /\ Columns["labels"] = {"ignored_labels"}
      /\ Columns["container"] = {"transmission_in_container"}
      /\ Columns["rpc"] = {"rpc_url", "rpc_password"}
  BY DEF Columns
<1>4. \A s \in Sections : \A t \in Sections \ {s} :
          Columns[s] \cap Columns[t] = {}
  BY <1>1, <1>3
<1> QED BY <1>1, <1>2, <1>3, <1>4 DEF Row

LEMMA ChangesFit ==
    ASSUME NEW row, NEW updates
    PROVE  /\ DOMAIN Changes(row, updates) \subseteq DOMAIN updates
           /\ \A c \in DOMAIN Changes(row, updates) :
                 Changes(row, updates)[c] = updates[c]
           /\ \A c \in DOMAIN updates \ DOMAIN Changes(row, updates) :
                 config[row][c] = updates[c]
BY DEF Changes

(* A column that is not written has the value already.                     *)
Kept(q) ==
    ~q.insert => \A c \in DOMAIN q.updates \ DOMAIN q.writes :
                     config[Row(q.section)][c] = q.updates[c]

LEMMA LoadedFits ==
    ASSUME NEW s, NEW updates, NEW alone
    PROVE  LET q == Loaded(s, updates, alone) IN Fits(q) /\ Kept(q)
<1> DEFINE q == Loaded(s, updates, alone)
           w == IF config[Row(s)] = NoRow
                THEN Over(updates, Defaults(Row(s)))
                ELSE Changes(Row(s), updates)
           i == config[Row(s)] = NoRow
<1>1. q = [op |-> "save", section |-> s, updates |-> updates,
           at |-> "write", alone |-> alone, insert |-> i, writes |-> w]
  BY DEF Loaded
<1> HIDE DEF w, i
<1>2. /\ q.section = s /\ q.updates = updates /\ q.insert = i
      /\ q.writes = w
  BY <1>1
<1> HIDE DEF q
<1>3. ASSUME i PROVE Fits(q) /\ Kept(q)
  BY <1>2, <1>3 DEF i, w, Fits, Kept
<1>4. ASSUME ~i PROVE Fits(q) /\ Kept(q)
  <2>1. w = Changes(Row(s), updates)
    BY <1>4 DEF i, w
  <2> QED BY <1>2, <1>4, <2>1, ChangesFit DEF Fits, Kept
<1> QED BY <1>3, <1>4 DEF q

LEMMA LoadedIs ==
    ASSUME NEW s, NEW updates, NEW alone
    PROVE  LET q == Loaded(s, updates, alone)
           IN  q.section = s /\ q.insert = (config[Row(s)] = NoRow)
BY DEF Loaded

(* What a write leaves in the row.                                         *)
LEMMA Stores ==
    ASSUME Shapes, RowsWhole, WritesFit, NEW r \in Requests, Write(r)
    PROVE  LET q == request[r]
               row == Row(q.section)
           IN  /\ row \in {"app", "transmission"}
               /\ DOMAIN config' = {"app", "transmission"}
               /\ DOMAIN config'[row] = RowColumns(row)
               /\ q.insert <=> config[row] = NoRow
               /\ \A c \in RowColumns(row) :
                     config'[row][c] =
                        IF c \in DOMAIN q.updates
                             /\ (config[row] = NoRow \/ c \in DOMAIN q.writes)
                        THEN q.updates[c]
                        ELSE IF config[row] = NoRow THEN Default(c)
                        ELSE config[row][c]
               /\ \A other \in {"app", "transmission"} \ {row} :
                     config'[other] = config[other]
<1> DEFINE q == request[r]
           row == Row(q.section)
<1>1. /\ WritingShape(q) /\ DOMAIN q.updates \subseteq Columns[q.section]
      /\ q.insert <=> config[row] = NoRow
      /\ config' = [config EXCEPT ![row] = Written(r, row)]
  BY WriteDoes DEF CanWrite, SaveShape
<1>2. /\ row \in {"app", "transmission"}
      /\ DOMAIN q.updates \subseteq RowColumns(row)
  BY <1>1, ColumnFacts DEF WritingShape
<1>3. Fits(q)
  BY <1>1 DEF WritesFit, AtWrite, WritingShape
<1> HIDE DEF q, row
<1>4. /\ DOMAIN config' = {"app", "transmission"}
      /\ config'[row] = Written(r, row)
      /\ \A other \in {"app", "transmission"} \ {row} :
            config'[other] = config[other]
  BY <1>1, <1>2 DEF RowsWhole
<1>5. CASE q.insert
  <2>1. Written(r, row) = Over(q.updates, Defaults(row))
    BY <1>3, <1>5 DEF Fits, Written, q, row
  <2>2. /\ DOMAIN Written(r, row) = RowColumns(row)
        /\ \A c \in RowColumns(row) :
              Written(r, row)[c] = IF c \in DOMAIN q.updates
                                   THEN q.updates[c] ELSE Default(c)
    BY <2>1 DEF Over, Defaults
  <2> QED BY <1>1, <1>2, <1>4, <1>5, <2>2 DEF q, row
<1>6. CASE ~q.insert
  <2>1. Written(r, row) = Over(q.writes, config[row])
    BY <1>6 DEF Written, q
  <2>2. /\ DOMAIN config[row] = RowColumns(row)
        /\ config[row] # NoRow
    BY <1>1, <1>2, <1>6 DEF RowsWhole
  <2>3. /\ DOMAIN Written(r, row) = RowColumns(row)
        /\ \A c \in RowColumns(row) :
              Written(r, row)[c] = IF c \in DOMAIN q.writes
                                   THEN q.writes[c] ELSE config[row][c]
    BY <2>1, <2>2 DEF Over
  <2>4. \A c \in DOMAIN q.writes : c \in DOMAIN q.updates
                                   /\ q.writes[c] = q.updates[c]
    BY <1>3, <1>6 DEF Fits
  <2> QED BY <1>1, <1>2, <1>4, <1>6, <2>2, <2>3, <2>4 DEF q, row
<1> QED BY <1>5, <1>6

(* Only a save that writes changes the settings.                           *)
LEMMA OnlyWriteStores ==
    ASSUME [Next]_vars
    PROVE  UNCHANGED config \/ \E r \in Requests : Write(r)
BY DEF Next, Settings, DestinationStep, RuleStep, PutSettings,
       PutSshSource, Probe, Load, PostDestination, InsertDestination,
       PutDestination, LoadDestination, WriteDestination,
       RemoveDestination, DeleteDestination, PostRule, PutRule,
       CheckRule, InsertRule, LoadRule, WriteRule, RemoveRule,
       DeleteRule, Fail, vars, tables

LEMMA NextRowsWhole ==
    Shapes /\ RowsWhole /\ WritesFit /\ [Next]_vars => RowsWhole'
<1> SUFFICES ASSUME Shapes, RowsWhole, WritesFit, [Next]_vars
             PROVE  RowsWhole'
  OBVIOUS
<1>1. ASSUME UNCHANGED config PROVE RowsWhole'
  BY <1>1 DEF RowsWhole
<1>2. ASSUME NEW r \in Requests, Write(r) PROVE RowsWhole'
  BY <1>2, Stores DEF RowsWhole
<1> QED BY <1>1, <1>2, OnlyWriteStores

-----------------------------------------------------------------------------
(* A step takes a save on, begins one, or leaves its locals as they are.   *)
SameSave(t) ==
    /\ request[t].op = "save"
    /\ request'[t].section = request[t].section
    /\ request'[t].updates = request[t].updates
    /\ request'[t].at = request[t].at
    /\ request'[t].alone => request[t].alone
    /\ request[t].at = "write" =>
          /\ request'[t].insert = request[t].insert
          /\ request'[t].writes = request[t].writes

Begun(t) == \E save \in Saves : PutSettings(t, save) \/ PutSshSource(t, save)

(* Two threads do not step at once.                                        *)
LEMMA OthersSave ==
    ASSUME Shapes, NEW r \in Requests, NEW t \in Requests \ {r}
    PROVE  /\ \A q : Goto(r, q) => request'[t] = request[t]
           /\ Finish(r) => request'[t] = request[t]
BY GoesTo DEF Finish

LEMMA BesideBegin ==
    ASSUME Shapes, NEW r \in Requests, NEW t \in Requests \ {r},
           NEW section, NEW q, Begin(r, section, q)
    PROVE  \/ request'[t] = request[t]
           \/ SameSave(t) /\ request'[t].op = "save"
<1>1. CASE request'[t] = request[t]
  BY <1>1
<1>2. CASE /\ t \in Saving(section)
           /\ request'[t] = [request[t] EXCEPT !.alone = FALSE]
  <2>1. SaveShape(request[t]) /\ request[t].op = "save"
    BY <1>2, ShapeOf DEF Saving
  <2> QED BY <1>2, <2>1, NotAloneShape DEF SameSave
<1> QED BY <1>1, <1>2, Begins

(* What a step on a destination or a rule leaves in the thread's locals.   *)
LEMMA DestinationStepLeaves ==
    ASSUME Shapes, NEW t \in Requests, DestinationStep(t)
    PROVE  LET p == request'[t]
           IN  \/ p.op \in {"none", "deleteDestination"}
               \/ \E kind \in Kinds :
                     /\ p.op = "createDestination" /\ p.kind = kind
                     /\ PostDestination(t, kind)
               \/ \E d \in Ids, kind \in Kinds :
                     /\ p.op = "editDestination" /\ p.kind = kind
                     /\ PutDestination(t, d, kind)
               \/ /\ p.op = "editDestination"
                  /\ request[t].op = "editDestination"
                  /\ p.kind = request[t].kind
<1>1. ASSUME Finish(t) PROVE request'[t].op = "none"
  BY <1>1, FinishShape DEF Idle
<1>2. ASSUME NEW kind \in Kinds, PostDestination(t, kind)
      PROVE  /\ request'[t].op = "createDestination"
             /\ request'[t].kind = kind
  <2>1. request'[t] = [op |-> "createDestination", kind |-> kind]
    BY <1>2, GoesTo DEF PostDestination
  <2> QED BY <2>1
<1>3. ASSUME NEW d \in Ids, NEW kind \in Kinds, PutDestination(t, d, kind)
      PROVE  /\ request'[t].op = "editDestination"
             /\ request'[t].kind = kind
  <2>1. request'[t] = [op |-> "editDestination", id |-> d, kind |-> kind,
                       at |-> "load", changes |-> FALSE]
    BY <1>3, GoesTo DEF PutDestination
  <2> QED BY <2>1
<1>4. ASSUME NEW d \in Ids, RemoveDestination(t, d)
      PROVE  request'[t].op = "deleteDestination"
  <2>1. request'[t] = [op |-> "deleteDestination", id |-> d]
    BY <1>4, GoesTo DEF RemoveDestination
  <2> QED BY <2>1
<1>5. ASSUME InsertDestination(t) PROVE request'[t].op = "none"
  BY <1>5, InsertDestinationDoes DEF Idle
<1>6. ASSUME LoadDestination(t)
      PROVE  /\ request'[t].op = "editDestination"
             /\ request[t].op = "editDestination"
             /\ request'[t].kind = request[t].kind
  <2> DEFINE q == request[t]
             b == destinations[q.id] # q.kind
             p == [q EXCEPT !.at = "write", !.changes = b]
  <2>1. DestinationShape(q) /\ q.op = "editDestination"
    BY <1>6, ShapeOf DEF LoadDestination
  <2> HIDE DEF b
  <2>2. p.op = "editDestination" /\ p.kind = q.kind
    BY <2>1 DEF DestinationShape
  <2>3. request'[t] = p
    BY <1>6, GoesTo DEF LoadDestination, b
  <2> QED BY <2>1, <2>2, <2>3
<1>7. ASSUME WriteDestination(t) \/ DeleteDestination(t)
      PROVE  request'[t].op = "none"
  BY <1>1, <1>7 DEF WriteDestination, DeleteDestination
<1> QED BY <1>2, <1>3, <1>4, <1>5, <1>6, <1>7 DEF DestinationStep

LEMMA RuleStepLeaves ==
    ASSUME Shapes, NEW t \in Requests, RuleStep(t)
    PROVE  LET p == request'[t]
           IN  \/ p.op \in {"none", "deleteRule"}
               \/ /\ p.op \in {"createRule", "editRule"}
                  /\ p.switched = FALSE
                  /\ p.dest \in Ids /\ destinations[p.dest] # None
               \/ /\ SavesRule(t)
                  /\ p.op = request[t].op
                  /\ p.dest = request[t].dest
                  /\ p.switched = request[t].switched
<1>1. ASSUME Finish(t) PROVE request'[t].op = "none"
  BY <1>1, FinishShape DEF Idle
<1>2. ASSUME NEW op \in {"createRule", "editRule"}, NEW i, NEW d \in Ids,
             Goto(t, SavingRule(op, i, d))
      PROVE  /\ request'[t].op = op /\ request'[t].dest = d
             /\ request'[t].switched = FALSE
  BY <1>2, GoesTo DEF SavingRule
<1>3. ASSUME NEW d \in Ids, PostRule(t, d)
      PROVE  /\ request'[t].op = "createRule" /\ request'[t].dest = d
             /\ request'[t].switched = FALSE /\ destinations[d] # None
  BY <1>2, <1>3 DEF PostRule
<1>4. ASSUME NEW i \in RuleIds, NEW d \in Ids, PutRule(t, i, d)
      PROVE  /\ request'[t].op = "editRule" /\ request'[t].dest = d
             /\ request'[t].switched = FALSE /\ destinations[d] # None
  BY <1>2, <1>4 DEF PutRule
<1>5. ASSUME NEW i \in RuleIds, RemoveRule(t, i)
      PROVE  request'[t].op = "deleteRule"
  <2>1. request'[t] = [op |-> "deleteRule", id |-> i]
    BY <1>5, GoesTo DEF RemoveRule
  <2> QED BY <2>1
<1>6. ASSUME CheckRule(t) \/ LoadRule(t)
      PROVE  /\ SavesRule(t)
             /\ request'[t].op = request[t].op
             /\ request'[t].dest = request[t].dest
             /\ request'[t].switched = request[t].switched
  <2> DEFINE q == request[t]
  <2>1. RuleShape(q) /\ SavesRule(t)
    BY <1>6, ShapeOf DEF CheckRule, LoadRule, SavesRule
  <2>2. ASSUME NEW a, NEW b,
               \/ request'[t] = [q EXCEPT !.at = a]
               \/ request'[t] = [q EXCEPT !.at = a, !.changes = b]
        PROVE  /\ request'[t].op = q.op /\ request'[t].dest = q.dest
               /\ request'[t].switched = q.switched
    BY <2>1, <2>2 DEF RuleShape
  <2>3. CASE CheckRule(t)
    BY <2>1, <2>2, <2>3, GoesTo DEF CheckRule
  <2>4. CASE LoadRule(t)
    <3> DEFINE b == rules[q.id].dest # q.dest
    <3>1. Goto(t, [q EXCEPT !.at = "write", !.changes = b])
      BY <2>4 DEF LoadRule
    <3> HIDE DEF b
    <3>2. request'[t] = [q EXCEPT !.at = "write", !.changes = b]
      BY <3>1, GoesTo
    <3> QED BY <2>1, <2>2, <3>2
  <2> QED BY <1>6, <2>3, <2>4
<1>7. ASSUME InsertRule(t) \/ WriteRule(t) \/ DeleteRule(t)
      PROVE  request'[t].op = "none"
  BY <1>1, <1>7 DEF InsertRule, WriteRule, DeleteRule
<1> QED BY <1>3, <1>4, <1>5, <1>6, <1>7 DEF RuleStep

LEMMA SaveSteps ==
    ASSUME Shapes, [Next]_vars, NEW t \in Requests,
           request'[t].op = "save"
    PROVE  SameSave(t) \/ Begun(t) \/ Probe(t) \/ Load(t)
<1> DEFINE Goal == SameSave(t) \/ Begun(t) \/ Probe(t) \/ Load(t)
<1>1. ASSUME request'[t] = request[t] PROVE Goal
  BY <1>1 DEF SameSave
<1>2. ASSUME NEW r \in Requests \ {t}, Settings(r) PROVE Goal
  <2>1. ASSUME NEW save \in Saves, PutSettings(r, save) PROVE Goal
    BY <1>1, <2>1, PutSettingsDoes, BesideBegin
  <2>2. ASSUME NEW save \in Saves, PutSshSource(r, save) PROVE Goal
    BY <1>1, <2>2, PutSshSourceDoes, BesideBegin
  <2>3. CASE Probe(r) \/ Load(r) \/ Write(r)
    BY <1>1, <2>3, OthersSave DEF Probe, Load, Write
  <2> QED BY <1>2, <2>1, <2>2, <2>3 DEF Settings
<1>3. ASSUME NEW r \in Requests \ {t}, DestinationStep(r) PROVE Goal
  <2>1. CASE InsertDestination(r)
    <3>1. ~RuleShape(request'[t])
      BY DEF RuleShape
    <3> QED BY <1>1, <2>1, <3>1, InsertDestinationDoes
  <2>2. CASE ~InsertDestination(r)
    BY <1>1, <1>3, <2>2, OthersSave
       DEF DestinationStep, PostDestination, PutDestination,
           RemoveDestination, LoadDestination, WriteDestination,
           DeleteDestination
  <2> QED BY <2>1, <2>2
<1>4. ASSUME NEW r \in Requests \ {t}, RuleStep(r) \/ Fail(r) PROVE Goal
  BY <1>1, <1>4, OthersSave
     DEF RuleStep, PostRule, PutRule, RemoveRule, CheckRule, InsertRule,
         LoadRule, WriteRule, DeleteRule, Fail
<1>5. CASE Settings(t)
  <2>1. ~Write(t)
    <3>1. ASSUME Write(t) PROVE FALSE
      <4>1. request'[t] = Idle
        BY <3>1, WriteDoes, FinishShape
      <4> QED BY <4>1 DEF Idle
    <3> QED BY <3>1
  <2> QED BY <1>5, <2>1 DEF Settings, Begun
<1>6. ASSUME DestinationStep(t) \/ RuleStep(t) \/ Fail(t) PROVE FALSE
  <2>1. CASE DestinationStep(t)
    BY <2>1, DestinationStepLeaves
  <2>2. CASE RuleStep(t)
    BY <2>2, RuleStepLeaves DEF SavesRule
  <2>3. CASE Fail(t)
    BY <2>3, FinishShape DEF Fail, Idle
  <2> QED BY <1>6, <2>1, <2>2, <2>3
<1>7. CASE UNCHANGED vars
  BY <1>1, <1>7 DEF vars
<1> QED BY <1>2, <1>3, <1>4, <1>5, <1>6, <1>7 DEF Next

LEMMA NextWritesFit == Shapes /\ WritesFit /\ [Next]_vars => WritesFit'
<1> SUFFICES ASSUME Shapes, WritesFit, [Next]_vars,
                    NEW t \in Requests, AtWrite(t)'
             PROVE  Fits(request'[t])
  BY DEF WritesFit
<1>1. CASE SameSave(t)
  BY <1>1 DEF SameSave, WritesFit, AtWrite, Fits
<1>2. ASSUME NEW save \in Saves, PutSettings(t, save)
      PROVE  Fits(request'[t])
  <2> DEFINE q == Loaded(save.section, Sent(save),
                         Saving(save.section) = {})
  <2>1. request'[t] = q
    BY <1>2, PutSettingsBegins
  <2>2. Fits(q)
    BY LoadedFits
  <2> QED BY <2>1, <2>2
<1>3. ASSUME NEW save \in Saves, PutSshSource(t, save) PROVE FALSE
  <2>1. request'[t].at = "probe"
    BY <1>3 DEF PutSshSource, Begin
  <2> QED BY <2>1 DEF AtWrite
<1>4. CASE Probe(t)
  BY <1>4, ProbeDoes, GoesTo DEF AtWrite
<1>5. CASE Load(t)
  <2> DEFINE q == Loaded("source", request[t].updates, request[t].alone)
  <2>1. request'[t] = q
    BY <1>5, LoadDoes, GoesTo
  <2>2. Fits(q)
    BY LoadedFits
  <2> QED BY <2>1, <2>2
<1> QED BY <1>1, <1>2, <1>3, <1>4, <1>5, SaveSteps DEF Begun, AtWrite

-----------------------------------------------------------------------------
(* Remote source and remote destination.  Four things must not meet as     *)
(* long as no two saves do: an SSH source, one being saved, a remote       *)
(* destination, one being saved.                                           *)
Separation ==
    ~crossed => /\ ~(SourceIsSsh /\ RemoteExists)
                /\ ~(SshUnderWay /\ RemoteExists)
                /\ ~(SourceIsSsh /\ RemoteUnderWay)
                /\ ~(SshUnderWay /\ RemoteUnderWay)

PutsSsh == \E r \in Requests, save \in Saves : PutSshSource(r, save)
PutsRemote == \E r \in Requests : \/ PostDestination(r, "remote")
                                  \/ \E d \in Ids :
                                        PutDestination(r, d, "remote")

LEMMA SshComesFrom ==
    ASSUME Shapes, [Next]_vars, SshUnderWay'
    PROVE  SshUnderWay \/ PutsSsh
<1>1. PICK t \in Requests : request'[t].op = "save" /\ ToSsh(request'[t])
  BY DEF SshUnderWay
<1>2. CASE SameSave(t)
  BY <1>1, <1>2 DEF SameSave, SshUnderWay, ToSsh
<1>3. ASSUME NEW save \in Saves, PutSettings(t, save) PROVE FALSE
  <2>1. request'[t] = Loaded(save.section, Sent(save),
                             Saving(save.section) = {})
    BY <1>3, PutSettingsBegins
  <2>2. /\ request'[t].section = save.section
        /\ request'[t].updates = Sent(save)
        /\ save.section = "source" => Sent(save).kind # "ssh"
    BY <1>3, <2>1, PutSettingsDoes
  <2> QED BY <1>1, <2>2 DEF ToSsh
<1>4. ASSUME Probe(t) \/ Load(t) PROVE SshUnderWay
  <2>1. TryingShape(request[t])
    BY <1>4, ProbeDoes, LoadDoes
  <2> QED BY <2>1 DEF TryingShape, SshUnderWay
<1> QED BY <1>1, <1>2, <1>3, <1>4, SaveSteps DEF Begun, PutsSsh

LEMMA OnlySourceIsSsh ==
    ASSUME Shapes, RowsWhole, WritesFit, [Next]_vars, SourceIsSsh'
    PROVE  SourceIsSsh \/ SshUnderWay
<1>1. ASSUME UNCHANGED config PROVE SourceIsSsh
  BY <1>1 DEF SourceIsSsh
<1>2. ASSUME NEW r \in Requests, Write(r) PROVE SourceIsSsh \/ SshUnderWay
  <2> DEFINE q == request[r]
  <2>1. WritingShape(q) /\ DOMAIN q.updates \subseteq Columns[q.section]
    BY <1>2, WriteDoes DEF SaveShape
  <2>2. CASE Row(q.section) # "app"
    <3>1. config'["app"] = config["app"]
      BY <1>2, <2>2, Stores
    <3> QED BY <3>1 DEF SourceIsSsh
  <2>3. CASE Row(q.section) = "app"
    <3>1. "kind" \in RowColumns("app")
      BY ColumnFacts
    <3>2. \/ "kind" \in DOMAIN q.updates /\ q.updates["kind"] = "ssh"
          \/ config["app"] = NoRow /\ Default("kind") = "ssh"
          \/ config["app"] # NoRow /\ config["app"]["kind"] = "ssh"
      BY <1>2, <2>3, <3>1, Stores DEF SourceIsSsh
    <3>3. Default("kind") # "ssh"
      BY DEF Default
    <3>4. "kind" \in DOMAIN q.updates => q.section = "source"
      BY <2>1, ColumnFacts DEF WritingShape
    <3>5. q.op = "save"
      BY <2>1 DEF WritingShape
    <3> QED BY <3>2, <3>3, <3>4, <3>5 DEF SourceIsSsh, SshUnderWay, ToSsh
  <2> QED BY <2>2, <2>3
<1> QED BY <1>1, <1>2, OnlyWriteStores

SavesRemote(q) == /\ q.op \in {"createDestination", "editDestination"}
                  /\ q.kind = "remote"

LEMMA RemoteComesFrom ==
    ASSUME Shapes, [Next]_vars, NEW t \in Requests, SavesRemote(request'[t])
    PROVE  \/ SavesRemote(request[t])
           \/ PostDestination(t, "remote")
           \/ \E d \in Ids : PutDestination(t, d, "remote")
<1> DEFINE Goal == \/ SavesRemote(request[t])
                   \/ PostDestination(t, "remote")
                   \/ \E d \in Ids : PutDestination(t, d, "remote")
<1>1. ASSUME request'[t] = request[t] PROVE Goal
  BY <1>1
<1>2. ASSUME request'[t].op = "save" PROVE FALSE
  BY <1>2 DEF SavesRemote
<1>3. ASSUME NEW r \in Requests, Settings(r) PROVE Goal
  <2>1. ASSUME NEW section, NEW q, Begin(r, section, q), q.op = "save"
        PROVE  Goal
    BY <1>1, <1>2, <2>1, BesideBegin, Begins
  <2>2. ASSUME NEW save \in Saves, PutSettings(r, save) PROVE Goal
    BY <2>1, <2>2, PutSettingsDoes
  <2>3. ASSUME NEW save \in Saves, PutSshSource(r, save) PROVE Goal
    <3> DEFINE q == [op |-> "save", section |-> "source",
                     updates |-> save.updates, at |-> "probe",
                     alone |-> Saving("source") = {}]
    <3>1. Begin(r, "source", q) /\ q.op = "save"
      BY <2>3, PutSshSourceDoes
    <3> HIDE DEF q
    <3> QED BY <2>1, <3>1, Zenon
  <2>4. CASE Probe(r) \/ Load(r)
    <3>1. request'[r].op = "save"
      <4>1. ASSUME NEW p, Goto(r, p), p.op = "save"
            PROVE  request'[r].op = "save"
        BY <4>1, GoesTo
      <4>2. CASE Probe(r)
        BY <4>1, <4>2, ProbeDoes DEF TryingShape
      <4>3. CASE Load(r)
        BY <4>1, <4>3, LoadDoes
      <4> QED BY <2>4, <4>2, <4>3
    <3> QED BY <1>1, <1>2, <2>4, <3>1, OthersSave DEF Probe, Load
  <2>5. CASE Write(r)
    <3>1. Finish(r)
      BY <2>5, WriteDoes
    <3> QED BY <1>1, <3>1, FinishShape DEF Idle, SavesRemote
  <2> QED BY <1>3, <2>2, <2>3, <2>4, <2>5 DEF Settings
<1>4. ASSUME NEW r \in Requests \ {t}, DestinationStep(r) PROVE Goal
  <2>1. CASE InsertDestination(r)
    <3>1. ~RuleShape(request'[t])
      BY DEF RuleShape, SavesRemote
    <3> QED BY <1>1, <2>1, <3>1, InsertDestinationDoes
  <2>2. CASE ~InsertDestination(r)
    BY <1>1, <1>4, <2>2, OthersSave
       DEF DestinationStep, PostDestination, PutDestination,
           RemoveDestination, LoadDestination, WriteDestination,
           DeleteDestination
  <2> QED BY <2>1, <2>2
<1>5. ASSUME NEW r \in Requests \ {t}, RuleStep(r) \/ Fail(r) PROVE Goal
  BY <1>1, <1>5, OthersSave
     DEF RuleStep, PostRule, PutRule, RemoveRule, CheckRule, InsertRule,
         LoadRule, WriteRule, DeleteRule, Fail
<1>6. ASSUME Finish(t) PROVE FALSE
  BY <1>6, FinishShape DEF Idle, SavesRemote
<1>7. CASE DestinationStep(t)
  BY <1>7, DestinationStepLeaves DEF SavesRemote
<1>8. CASE RuleStep(t)
  BY <1>8, RuleStepLeaves DEF SavesRemote, SavesRule
<1>9. CASE UNCHANGED vars
  BY <1>1, <1>9 DEF vars
<1> QED BY <1>3, <1>4, <1>5, <1>6, <1>7, <1>8, <1>9 DEF Next, Fail

LEMMA RemoteUnderWayMeans ==
    RemoteUnderWay <=> \E t \in Requests : SavesRemote(request[t])
BY DEF RemoteUnderWay, SavesRemote

(* The save of an SSH source begins no save of a destination.              *)
LEMMA SshBeginsNoRemote ==
    ASSUME Shapes, NEW r \in Requests, NEW save \in Saves,
           PutSshSource(r, save), RemoteUnderWay'
    PROVE  RemoteUnderWay
<1> DEFINE q == [op |-> "save", section |-> "source",
                 updates |-> save.updates, at |-> "probe",
                 alone |-> Saving("source") = {}]
<1>1. Begin(r, "source", q) /\ q.op = "save"
  BY PutSshSourceDoes
<1> HIDE DEF q
<1>2. PICK t \in Requests : SavesRemote(request'[t])
  BY DEF RemoteUnderWay, SavesRemote
<1>3. t # r
  BY <1>1, <1>2 DEF Begin, SavesRemote
<1>4. request'[t] = request[t]
  <2>1. \/ request'[t] = request[t]
        \/ SameSave(t) /\ request'[t].op = "save"
    BY <1>1, <1>3, BesideBegin, Zenon
  <2> QED BY <1>2, <2>1 DEF SavesRemote
<1> QED BY <1>2, <1>4, RemoteUnderWayMeans

DestinationsKnown == DOMAIN destinations = Ids

LEMMA OnlyRemoteExists ==
    ASSUME Shapes, DestinationsKnown, [Next]_vars, RemoteExists'
    PROVE  RemoteExists \/ RemoteUnderWay
<1>1. ASSUME UNCHANGED destinations PROVE RemoteExists
  BY <1>1 DEF RemoteExists, Used
<1>2. ASSUME NEW r \in Requests, InsertDestination(r)
      PROVE  RemoteExists \/ RemoteUnderWay
  <2>1. destinations' = [destinations EXCEPT ![NewId(destinations)] =
                            request[r].kind]
    BY <1>2 DEF InsertDestination
  <2>2. request[r].kind # "remote" => RemoteExists
    BY <2>1 DEF RemoteExists, Used, DestinationsKnown
  <2> QED BY <1>2, <2>2 DEF InsertDestination, RemoteUnderWay
<1>3. ASSUME NEW r \in Requests, WriteDestination(r)
      PROVE  RemoteExists \/ RemoteUnderWay
  <2>1. \/ destinations' = destinations
        \/ destinations' = [destinations EXCEPT ![request[r].id] =
                               request[r].kind]
    BY <1>3 DEF WriteDestination
  <2>2. request[r].kind # "remote" => RemoteExists
    BY <2>1 DEF RemoteExists, Used, DestinationsKnown
  <2> QED BY <1>3, <2>2 DEF WriteDestination, RemoteUnderWay
<1>4. ASSUME NEW r \in Requests, DeleteDestination(r) PROVE RemoteExists
  <2>1. destinations' = [destinations EXCEPT ![request[r].id] = None]
    BY <1>4 DEF DeleteDestination
  <2> QED BY <2>1 DEF RemoteExists, Used, DestinationsKnown
<1> QED BY <1>1, <1>2, <1>3, <1>4
        DEF Next, Settings, DestinationStep, RuleStep, PutSettings,
            PutSshSource, Probe, Load, Write, PostDestination,
            PutDestination, LoadDestination, RemoveDestination, PostRule,
            PutRule, CheckRule, InsertRule, LoadRule, WriteRule, RemoveRule,
            DeleteRule, Fail, vars, tables

LEMMA NextDestinationsKnown ==
    DestinationsKnown /\ [Next]_vars => DestinationsKnown'
<1> SUFFICES ASSUME DestinationsKnown, [Next]_vars
             PROVE  DOMAIN destinations' = DOMAIN destinations
  BY DEF DestinationsKnown
<1>1. ASSUME NEW r \in Requests, DestinationStep(r)
      PROVE  DOMAIN destinations' = DOMAIN destinations
  BY <1>1 DEF DestinationStep, PostDestination, PutDestination,
              RemoveDestination, InsertDestination, LoadDestination,
              WriteDestination, DeleteDestination, tables
<1>2. ASSUME NEW r \in Requests, ~DestinationStep(r),
             Settings(r) \/ RuleStep(r) \/ Fail(r)
      PROVE  UNCHANGED destinations
  BY <1>2 DEF Settings, RuleStep, PutSettings, PutSshSource, Probe, Load,
              Write, PostRule, PutRule, CheckRule, InsertRule, LoadRule,
              WriteRule, RemoveRule, DeleteRule, Fail, tables
<1> QED BY <1>1, <1>2 DEF Next, vars, tables

(* Two saves that are refused beside each other, or notice each other.     *)
LEMMA SshBegins ==
    ASSUME PutsSsh
    PROVE  /\ ~RemoteExists /\ UNCHANGED destinations
           /\ crossed' = (crossed \/ RemoteUnderWay)
BY DEF PutsSsh, PutSshSource, tables

LEMMA RemoteBegins ==
    ASSUME PutsRemote
    PROVE  /\ ~SourceIsSsh /\ UNCHANGED config
           /\ crossed' = (crossed \/ SshUnderWay)
BY DEF PutsRemote, PostDestination, PutDestination, RefusedWithSource,
       tables

LEMMA NextSeparation ==
    Shapes /\ RowsWhole /\ WritesFit /\ DestinationsKnown /\ Separation
        /\ [Next]_vars => Separation'
<1> SUFFICES ASSUME Shapes, RowsWhole, WritesFit, DestinationsKnown,
                    Separation, [Next]_vars, ~crossed'
             PROVE  /\ ~(SourceIsSsh' /\ RemoteExists')
                    /\ ~(SshUnderWay' /\ RemoteExists')
                    /\ ~(SourceIsSsh' /\ RemoteUnderWay')
                    /\ ~(SshUnderWay' /\ RemoteUnderWay')
  BY DEF Separation
<1>1. /\ SshUnderWay' => SshUnderWay \/ PutsSsh
      /\ SourceIsSsh' => SourceIsSsh \/ SshUnderWay
      /\ RemoteExists' => RemoteExists \/ RemoteUnderWay
  BY SshComesFrom, OnlySourceIsSsh, OnlyRemoteExists
<1>2. RemoteUnderWay' => RemoteUnderWay \/ PutsRemote
  <2> SUFFICES ASSUME RemoteUnderWay' PROVE RemoteUnderWay \/ PutsRemote
    OBVIOUS
  <2>1. PICK t \in Requests : SavesRemote(request'[t])
    BY DEF RemoteUnderWay, SavesRemote
  <2> QED BY <2>1, RemoteComesFrom, RemoteUnderWayMeans DEF PutsRemote
<1>3. PutsSsh /\ RemoteUnderWay' => RemoteUnderWay
  BY SshBeginsNoRemote DEF PutsSsh
<1>4. ~crossed
  <2>1. ASSUME crossed PROVE crossed'
    BY <2>1 DEF Next, Settings, DestinationStep, RuleStep, PutSettings,
         PutSshSource, Probe, Load, Write, PostDestination,
         InsertDestination, PutDestination, LoadDestination,
         WriteDestination, RemoveDestination, DeleteDestination, PostRule,
         PutRule, CheckRule, InsertRule, LoadRule, WriteRule, RemoveRule,
         DeleteRule, Fail, vars, history
  <2> QED BY <2>1
<1>5. PutsSsh => /\ ~RemoteUnderWay /\ ~RemoteExists
                 /\ RemoteExists' => RemoteExists
  <2>1. PutsSsh => ~RemoteUnderWay
    BY SshBegins, Zenon
  <2> QED BY <2>1, SshBegins DEF RemoteExists, Used
<1>6. PutsRemote => /\ ~SshUnderWay /\ ~SourceIsSsh
                    /\ SourceIsSsh' => SourceIsSsh
  <2>1. PutsRemote => ~SshUnderWay
    BY RemoteBegins, Zenon
  <2> QED BY <2>1, RemoteBegins DEF SourceIsSsh
<1> QED BY <1>1, <1>2, <1>3, <1>4, <1>5, <1>6 DEF Separation

-----------------------------------------------------------------------------
(* The invariant of the settings beside the destinations.                  *)
SettingsInv == /\ Shapes /\ RowsWhole /\ WritesFit /\ DestinationsKnown
               /\ Separation

LEMMA InitSettingsInv == Init => SettingsInv
<1> SUFFICES ASSUME Init PROVE SettingsInv
  OBVIOUS
<1>1. /\ DOMAIN request = Requests
      /\ \A r \in Requests : request[r] = Idle
  BY DEF Init
<1>2. /\ DOMAIN Idle = {"op"} /\ Idle.op = "none"
  BY DEF Idle
<1>3. Shapes
  BY <1>1, <1>2 DEF Shapes, Shape, OtherShape
<1>4. /\ config.app = NoRow /\ config.transmission = NoRow
      /\ DOMAIN config = {"app", "transmission"}
  BY DEF Init
<1>5. RowsWhole
  BY <1>4 DEF RowsWhole
<1>6. WritesFit
  BY <1>1, <1>2 DEF WritesFit, AtWrite
<1>7. DestinationsKnown
  BY DEF Init, DestinationsKnown
<1>8. Separation
  BY <1>1, <1>2, <1>4 DEF Separation, SourceIsSsh, SshUnderWay,
       RemoteUnderWay
<1> QED BY <1>3, <1>5, <1>6, <1>7, <1>8 DEF SettingsInv

(* Rows, requests and destinations keep the shapes the handlers give them, *)
(* and what separates a remote source from remote destinations holds.      *)
THEOREM SettingsInvariance == Spec => []SettingsInv
<1>1. SettingsInv /\ [Next]_vars => SettingsInv'
  BY NextShapes, NextRowsWhole, NextWritesFit, NextDestinationsKnown,
     NextSeparation DEF SettingsInv
<1> QED BY <1>1, InitSettingsInv, PTL DEF Spec

(* README.md:15, for any number of requests, saves and destinations: an    *)
(* SSH source and a remote destination are never stored together unless    *)
(* the two were being saved at once.                                       *)
THEOREM NoRemoteToRemoteHolds == Spec => []NoRemoteToRemote
<1>1. SettingsInv => NoRemoteToRemote
  BY DEF SettingsInv, Separation, NoRemoteToRemote
<1> QED BY <1>1, SettingsInvariance, PTL
-----------------------------------------------------------------------------
(* Two saves of one section in progress are neither of them alone.         *)
LoneSaves ==
    \A r, t \in Requests :
        /\ r # t
        /\ request[r].op = "save" /\ request[t].op = "save"
        /\ request[r].section = request[t].section
        => ~request[r].alone

Continues(t) == /\ request[t].op = "save"
                /\ request'[t].section = request[t].section
                /\ request'[t].alone => request[t].alone

LEMMA BegunWith ==
    ASSUME NEW r \in Requests, Begun(r), Shapes
    PROVE  \E section, q : /\ Begin(r, section, q)
                           /\ q.section = section
                           /\ q.alone = (Saving(section) = {})
<1>1. ASSUME NEW save \in Saves, PutSettings(r, save)
      PROVE  \E section, q : /\ Begin(r, section, q)
                             /\ q.section = section
                             /\ q.alone = (Saving(section) = {})
  BY <1>1, PutSettingsDoes
<1>2. ASSUME NEW save \in Saves, PutSshSource(r, save)
      PROVE  \E section, q : /\ Begin(r, section, q)
                             /\ q.section = section
                             /\ q.alone = (Saving(section) = {})
  <2> DEFINE section == "source"
             alone == Saving(section) = {}
             q == [op |-> "save", section |-> section,
                   updates |-> save.updates, at |-> "probe",
                   alone |-> alone]
  <2>1. Begin(r, section, q)
    BY <1>2, PutSshSourceDoes
  <2> HIDE DEF alone
  <2>2. q.section = section /\ q.alone = alone
    OBVIOUS
  <2> HIDE DEF section, q
  <2> QED BY <2>1, <2>2 DEF alone
<1> QED BY <1>1, <1>2 DEF Begun

LEMMA BegunBeside ==
    ASSUME Shapes, NEW r \in Requests, Begun(r), NEW t \in Requests \ {r},
           request'[t].op = "save",
           request'[t].section = request'[r].section
    PROVE  ~request'[r].alone /\ ~request'[t].alone
<1>1. PICK section, q : /\ Begin(r, section, q)
                        /\ q.section = section
                        /\ q.alone = (Saving(section) = {})
  BY BegunWith
<1>2. request'[r] = q
  BY <1>1, Begins
<1>3. t \in Saving(section) /\ request'[t] = [request[t] EXCEPT !.alone = FALSE]
  BY <1>1, <1>2, Begins DEF Saving
<1>4. SaveShape(request[t])
  BY <1>3, ShapeOf DEF Saving
<1>5. "alone" \in DOMAIN request[t]
  BY <1>4 DEF SaveShape, TryingShape, WritingShape
<1> QED BY <1>1, <1>2, <1>3, <1>5

LEMMA SavesContinue ==
    ASSUME Shapes, [Next]_vars, NEW t \in Requests,
           request'[t].op = "save"
    PROVE  Continues(t) \/ Begun(t)
<1>1. CASE SameSave(t)
  BY <1>1 DEF SameSave, Continues
<1>2. CASE Probe(t)
  <2> DEFINE p == [request[t] EXCEPT !.at = "load",
                     !.updates = With(@, "detected", Detected(@))]
  <2>1. /\ TryingShape(request[t]) /\ Goto(t, p)
        /\ TryingShape(p) /\ p.alone = request[t].alone
    BY <1>2, ProbeDoes
  <2> HIDE DEF p
  <2>2. request'[t] = p
    BY <2>1, GoesTo
  <2> QED BY <2>1, <2>2 DEF TryingShape, Continues
<1>3. CASE Load(t)
  <2> DEFINE p == Loaded("source", request[t].updates, request[t].alone)
  <2>1. /\ TryingShape(request[t]) /\ Goto(t, p)
        /\ p.section = "source" /\ p.alone = request[t].alone
    BY <1>3, LoadDoes
  <2> HIDE DEF p
  <2>2. request'[t] = p
    BY <2>1, GoesTo
  <2> QED BY <2>1, <2>2 DEF TryingShape, Continues
<1> QED BY <1>1, <1>2, <1>3, SaveSteps

LEMMA NextLoneSaves == Shapes /\ LoneSaves /\ [Next]_vars => LoneSaves'
<1> SUFFICES ASSUME Shapes, LoneSaves, [Next]_vars,
                    NEW r \in Requests, NEW t \in Requests, r # t,
                    request'[r].op = "save", request'[t].op = "save",
                    request'[r].section = request'[t].section
             PROVE  ~request'[r].alone
  BY DEF LoneSaves
<1>1. CASE Begun(r)
  BY <1>1, BegunBeside
<1>2. CASE Begun(t)
  BY <1>2, BegunBeside
<1>3. CASE Continues(r) /\ Continues(t)
  BY <1>3 DEF Continues, LoneSaves
<1> QED BY <1>1, <1>2, <1>3, SavesContinue

-----------------------------------------------------------------------------
(* The row a save has loaded stays, and holds what the save does not write *)
(* if nobody else saves the section.                                       *)
Holds(q) == /\ ~q.insert => config[Row(q.section)] # NoRow
            /\ q.alone => Kept(q)

LoadsHold == \A r \in Requests : AtWrite(r) => Holds(request[r])

LEMMA RowsNeverEmpty ==
    ASSUME NEW row \in {"app", "transmission"}, NEW f,
           DOMAIN f = RowColumns(row)
    PROVE  f # NoRow
<1>1. "kind" \in RowColumns("app") /\ "rpc_url" \in RowColumns("transmission")
  BY DEF RowColumns, Row, Sections, Columns
<1>2. RowColumns(row) # {}
  BY <1>1
<1>3. DOMAIN NoRow = {}
  BY DEF NoRow
<1> QED BY <1>2, <1>3

LEMMA RowsStay ==
    ASSUME Shapes, RowsWhole, WritesFit, [Next]_vars,
           NEW row \in {"app", "transmission"}, config[row] # NoRow
    PROVE  config'[row] # NoRow
<1>1. ASSUME UNCHANGED config PROVE config'[row] # NoRow
  BY <1>1
<1>2. ASSUME NEW r \in Requests, Write(r) PROVE config'[row] # NoRow
  BY <1>2, Stores, RowsNeverEmpty
<1> QED BY <1>1, <1>2, OnlyWriteStores

(* Only a save of a section changes the columns of the section.            *)
LEMMA ColumnsStay ==
    ASSUME Shapes, RowsWhole, WritesFit, [Next]_vars,
           NEW s \in Sections, config[Row(s)] # NoRow,
           \A r \in Saving(s) : ~Write(r)
    PROVE  \A c \in Columns[s] : config'[Row(s)][c] = config[Row(s)][c]
<1> DEFINE Goal == \A c \in Columns[s] :
                      config'[Row(s)][c] = config[Row(s)][c]
<1>1. ASSUME UNCHANGED config PROVE Goal
  BY <1>1
<1>2. ASSUME NEW r \in Requests, Write(r) PROVE Goal
  <2> DEFINE q == request[r]
             row == Row(q.section)
  <2>1. WritingShape(q) /\ SaveShape(q)
    BY <1>2, WriteDoes
  <2>2. q.section # s
    BY <1>2, <2>1 DEF Saving, WritingShape
  <2>3. /\ q.section \in Sections
        /\ DOMAIN q.updates \subseteq Columns[q.section]
    BY <2>1 DEF WritingShape, SaveShape
  <2>4. /\ Columns[s] \cap DOMAIN q.updates = {}
        /\ Columns[s] \subseteq RowColumns(Row(s))
        /\ Row(s) \in {"app", "transmission"}
    BY <2>2, <2>3, ColumnFacts
  <2>5. /\ \A c \in RowColumns(row) :
              config'[row][c] =
                 IF c \in DOMAIN q.updates
                      /\ (config[row] = NoRow \/ c \in DOMAIN q.writes)
                 THEN q.updates[c]
                 ELSE IF config[row] = NoRow THEN Default(c)
                 ELSE config[row][c]
        /\ \A other \in {"app", "transmission"} \ {row} :
              config'[other] = config[other]
    BY <1>2, Stores
  <2> HIDE DEF q, row
  <2> QED BY <2>4, <2>5
<1> HIDE DEF Goal
<1>3. Goal
  BY <1>1, <1>2, OnlyWriteStores
<1> QED BY <1>3 DEF Goal
LEMMA WriteEnds ==
    ASSUME Shapes, NEW r \in Requests, Write(r)
    PROVE  ~AtWrite(r)'
<1>1. request'[r] = Idle
  BY WriteDoes, FinishShape
<1> QED BY <1>1 DEF AtWrite, Idle

(* Two threads do not write in one step.                                   *)
LEMMA TwoNeverWrite ==
    ASSUME Shapes, NEW r \in Requests, NEW t \in Requests, Write(r), Write(t)
    PROVE  r = t
<1> SUFFICES ASSUME r # t PROVE FALSE
  OBVIOUS
<1>1. request'[r] = request[r]
  BY WriteDoes, FinishShape
<1>2. AtWrite(r)
  BY WriteDoes DEF WritingShape, AtWrite
<1> QED BY <1>1, <1>2, WriteEnds DEF AtWrite

LEMMA NextLoadsHold ==
    Shapes /\ RowsWhole /\ WritesFit /\ LoneSaves /\ LoadsHold /\ [Next]_vars
        => LoadsHold'
<1> SUFFICES ASSUME Shapes, RowsWhole, WritesFit, LoneSaves, LoadsHold,
                    [Next]_vars, NEW t \in Requests, AtWrite(t)'
             PROVE  Holds(request[t])'
  BY DEF LoadsHold
<1>1. CASE SameSave(t)
  <2> DEFINE q == request[t]
             row == Row(q.section)
  <2>1. /\ AtWrite(t) /\ q.op = "save" /\ q.at = "write"
        /\ request'[t].section = q.section
        /\ request'[t].updates = q.updates
        /\ request'[t].insert = q.insert
        /\ request'[t].writes = q.writes
        /\ request'[t].alone => q.alone
    BY <1>1 DEF SameSave, AtWrite
  <2>2. /\ q.section \in Sections
        /\ DOMAIN q.updates \subseteq Columns[q.section]
    BY <2>1, ShapeOf DEF SaveShape, TryingShape, WritingShape
  <2>3. Holds(q)
    BY <2>1 DEF LoadsHold
  <2>4. ASSUME ~q.insert
        PROVE  config[row] # NoRow /\ config'[row] # NoRow
    BY <2>2, <2>3, <2>4, ColumnFacts, RowsStay DEF Holds
  <2>5. ASSUME q.alone PROVE \A r \in Saving(q.section) : ~Write(r)
    <3>1. \A r \in Saving(q.section) : r = t
      BY <2>1, <2>5 DEF Saving, LoneSaves
    <3> QED BY <3>1, WriteEnds
  <2>6. ASSUME q.alone, ~q.insert
        PROVE  \A c \in DOMAIN q.updates \ DOMAIN q.writes :
                  config'[row][c] = q.updates[c]
    <3>1. \A c \in DOMAIN q.updates \ DOMAIN q.writes :
             config[row][c] = q.updates[c]
      BY <2>3, <2>6 DEF Holds, Kept
    <3>2. \A c \in Columns[q.section] : config'[row][c] = config[row][c]
      BY <2>2, <2>4, <2>5, <2>6, ColumnsStay
    <3> QED BY <2>2, <3>1, <3>2
  <2> HIDE DEF q, row
  <2> QED BY <2>1, <2>4, <2>6 DEF Holds, Kept, row
<1>2. ASSUME NEW section, NEW updates, NEW alone, UNCHANGED config,
             request'[t] = Loaded(section, updates, alone)
      PROVE  Holds(request[t])'
  <2> DEFINE q == Loaded(section, updates, alone)
  <2>1. Kept(q)
    BY LoadedFits
  <2>2. q.section = section /\ q.insert = (config[Row(section)] = NoRow)
    BY LoadedIs
  <2> HIDE DEF q
  <2>3. Holds(q)
    BY <2>1, <2>2 DEF Holds
  <2> QED BY <1>2, <2>3 DEF Holds, Kept, q
<1>3. ASSUME NEW save \in Saves, PutSettings(t, save)
      PROVE  Holds(request[t])'
  BY <1>2, <1>3, PutSettingsDoes, PutSettingsBegins DEF tables
<1>4. ASSUME NEW save \in Saves, PutSshSource(t, save) PROVE FALSE
  <2>1. request'[t].at = "probe"
    BY <1>4 DEF PutSshSource, Begin
  <2> QED BY <2>1 DEF AtWrite
<1>5. CASE Probe(t)
  BY <1>5, ProbeDoes, GoesTo DEF AtWrite
<1>6. CASE Load(t)
  <2>1. /\ request'[t] = Loaded("source", request[t].updates,
                                request[t].alone)
        /\ UNCHANGED config
    BY <1>6, LoadDoes, GoesTo DEF tables
  <2> QED BY <1>2, <2>1
<1> QED BY <1>1, <1>3, <1>4, <1>5, <1>6, SaveSteps DEF Begun, AtWrite

-----------------------------------------------------------------------------
(* What a save that was answered leaves.                                   *)
SavedKnown == DOMAIN saved = Sections

LEMMA OnlyWriteAnswers ==
    ASSUME [Next]_vars
    PROVE  UNCHANGED saved \/ \E r \in Requests : Write(r)
BY DEF Next, Settings, DestinationStep, RuleStep, PutSettings,
       PutSshSource, Probe, Load, PostDestination, InsertDestination,
       PutDestination, LoadDestination, WriteDestination,
       RemoveDestination, DeleteDestination, PostRule, PutRule,
       CheckRule, InsertRule, LoadRule, WriteRule, RemoveRule,
       DeleteRule, Fail, vars, history

LEMMA Answers ==
    ASSUME Shapes, SavedKnown, NEW r \in Requests, Write(r)
    PROVE  LET q == request[r]
               row == Row(q.section)
           IN  /\ DOMAIN saved' = Sections
               /\ \A s \in Sections \ {q.section} : saved'[s] = saved[s]
               /\ ~q.alone => saved'[q.section] = None
               /\ q.alone => \A c \in Columns[q.section] :
                     saved'[q.section][c] =
                        IF c \in DOMAIN q.updates THEN q.updates[c]
                        ELSE IF config[row] # NoRow THEN config[row][c]
                        ELSE Default(c)
<1> DEFINE q == request[r]
           row == Row(q.section)
           f == [c \in Columns[q.section] |->
                    IF c \in DOMAIN q.updates THEN q.updates[c]
                    ELSE IF config[row] # NoRow THEN config[row][c]
                    ELSE Default(c)]
           v == IF ~q.alone THEN None ELSE f
<1>1. q.section \in Sections
  BY WriteDoes DEF WritingShape
<1>2. saved' = [saved EXCEPT ![q.section] = v]
  BY DEF Write
<1> HIDE DEF v
<1>3. /\ DOMAIN saved' = Sections
      /\ saved'[q.section] = v
      /\ \A s \in Sections \ {q.section} : saved'[s] = saved[s]
  BY <1>1, <1>2 DEF SavedKnown
<1>4. ~q.alone => v = None
  BY DEF v
<1>5. q.alone => \A c \in Columns[q.section] : v[c] = f[c]
  BY DEF v
<1> QED BY <1>1, <1>3, <1>4, <1>5

LEMMA NextAnswered ==
    Shapes /\ RowsWhole /\ WritesFit /\ LoadsHold /\ SavedKnown
        /\ AnsweredSaveStands /\ [Next]_vars
        => SavedKnown' /\ AnsweredSaveStands'
<1> SUFFICES ASSUME Shapes, RowsWhole, WritesFit, LoadsHold, SavedKnown,
                    AnsweredSaveStands, [Next]_vars
             PROVE  SavedKnown' /\ AnsweredSaveStands'
  OBVIOUS
<1>1. ASSUME NEW s \in Sections, saved[s] # None,
             \A r \in Saving(s) : ~Write(r)
      PROVE  /\ config'[Row(s)] # NoRow
             /\ \A c \in Columns[s] : config'[Row(s)][c] = saved[s][c]
  <2>1. /\ config[Row(s)] # NoRow
        /\ \A c \in Columns[s] : config[Row(s)][c] = saved[s][c]
    BY <1>1 DEF AnsweredSaveStands
  <2> QED BY <1>1, <2>1, ColumnsStay, RowsStay, ColumnFacts
<1>2. CASE UNCHANGED saved /\ \A r \in Requests : ~Write(r)
  BY <1>1, <1>2 DEF SavedKnown, AnsweredSaveStands, Saving
<1>3. ASSUME NEW r \in Requests, Write(r)
      PROVE  SavedKnown' /\ AnsweredSaveStands'
  <2> DEFINE q == request[r]
             s == q.section
             row == Row(s)
  <2>1. /\ SaveShape(q) /\ WritingShape(q) /\ AtWrite(r)
    BY <1>3, WriteDoes DEF WritingShape, AtWrite
  <2>2. /\ s \in Sections /\ row \in {"app", "transmission"}
        /\ Columns[s] \subseteq RowColumns(row)
    BY <2>1, ColumnFacts DEF WritingShape
  <2>3. config'[row] # NoRow
    BY <1>3, <2>2, Stores, RowsNeverEmpty
  <2>4. ASSUME saved'[s] # None, NEW c \in Columns[s]
        PROVE  config'[row][c] = saved'[s][c]
    <3>1. q.alone
      BY <1>3, <2>4, Answers
    <3>2. ASSUME config[row] # NoRow, c \in DOMAIN q.updates \ DOMAIN q.writes
          PROVE  config[row][c] = q.updates[c]
      <4>1. ~q.insert
        BY <1>3, <3>2, Stores
      <4> QED BY <2>1, <3>1, <3>2, <4>1 DEF LoadsHold, Holds, Kept
    <3>3. saved'[s][c] = IF c \in DOMAIN q.updates THEN q.updates[c]
                         ELSE IF config[row] # NoRow THEN config[row][c]
                         ELSE Default(c)
      BY <1>3, <3>1, Answers
    <3>4. config'[row][c] =
             IF c \in DOMAIN q.updates
                  /\ (config[row] = NoRow \/ c \in DOMAIN q.writes)
             THEN q.updates[c]
             ELSE IF config[row] = NoRow THEN Default(c)
             ELSE config[row][c]
      BY <1>3, <2>2, Stores
    <3> QED BY <3>2, <3>3, <3>4
  <2>5. ASSUME NEW other \in Sections \ {s}, saved'[other] # None
        PROVE  /\ config'[Row(other)] # NoRow
               /\ \A c \in Columns[other] :
                     config'[Row(other)][c] = saved'[other][c]
    <3>1. saved'[other] = saved[other]
      BY <1>3, <2>5, Answers
    <3>2. \A u \in Saving(other) : ~Write(u)
      BY <1>3, <2>5, TwoNeverWrite DEF Saving
    <3> QED BY <1>1, <2>5, <3>1, <3>2
  <2>6. DOMAIN saved' = Sections
    BY <1>3, Answers
  <2> QED BY <2>3, <2>4, <2>5, <2>6 DEF SavedKnown, AnsweredSaveStands
<1> QED BY <1>2, <1>3, OnlyWriteAnswers

(* The invariant of the settings and of what was answered.                 *)
AnswersInv == /\ SettingsInv /\ LoneSaves /\ LoadsHold /\ SavedKnown
              /\ AnsweredSaveStands

LEMMA InitAnswersInv == Init => AnswersInv
<1> SUFFICES ASSUME Init PROVE AnswersInv
  OBVIOUS
<1>1. \A r \in Requests : request[r] = Idle
  BY DEF Init
<1>2. Idle.op = "none"
  BY DEF Idle
<1>3. LoneSaves /\ LoadsHold
  BY <1>1, <1>2 DEF LoneSaves, LoadsHold, AtWrite
<1>4. SavedKnown /\ AnsweredSaveStands
  BY DEF Init, SavedKnown, AnsweredSaveStands
<1> QED BY <1>3, <1>4, InitSettingsInv DEF AnswersInv

(* What lies between a save's loading and its answer, for one section at a *)
(* time: the columns loaded are still those stored.                        *)
THEOREM AnswersInvariance == Spec => []AnswersInv
<1>1. AnswersInv /\ [Next]_vars => AnswersInv'
  <2> SUFFICES ASSUME AnswersInv, [Next]_vars PROVE AnswersInv'
    OBVIOUS
  <2>1. /\ Shapes /\ RowsWhole /\ WritesFit /\ DestinationsKnown
        /\ Separation /\ LoneSaves /\ LoadsHold /\ SavedKnown
        /\ AnsweredSaveStands
    BY DEF AnswersInv, SettingsInv
  <2>2. SettingsInv'
    BY <2>1, NextShapes, NextRowsWhole, NextWritesFit,
       NextDestinationsKnown, NextSeparation DEF SettingsInv
  <2>3. LoneSaves' /\ LoadsHold'
    BY <2>1, NextLoneSaves, NextLoadsHold
  <2>4. SavedKnown' /\ AnsweredSaveStands'
    BY <2>1, NextAnswered
  <2> QED BY <2>2, <2>3, <2>4 DEF AnswersInv
<1> QED BY <1>1, InitAnswersInv, PTL DEF Spec

(* README.md:115, for any saves and any number of requests: the columns of *)
(* a section stay as the save that was answered left them, whatever other  *)
(* sections are saved meanwhile.                                           *)
THEOREM AnsweredSaveStandsHolds == Spec => []AnsweredSaveStands
<1>1. AnswersInv => AnsweredSaveStands
  BY DEF AnswersInv
<1> QED BY <1>1, AnswersInvariance, PTL
-----------------------------------------------------------------------------
(* A source that is reached is reached with the password that is stored.   *)
TriedWith(u) ==
    /\ "detected" \in DOMAIN u
    /\ u.detected = [host |-> u.host, password |-> Password(u)]

Tried == \A r \in Requests :
    /\ request[r].op = "save" /\ request[r].at \in {"load", "write"}
    /\ ToSsh(request[r]) /\ request[r].alone
    => TriedWith(request[r].updates)

SavedReached ==
    LET s == saved["source"]
    IN  s # None /\ s.kind = "ssh" =>
           s.detected = [host |-> s.host, password |-> s.password]

(* The password stays, and is empty before there is a row.                 *)
LEMMA PasswordStays ==
    ASSUME Shapes, RowsWhole, WritesFit, [Next]_vars,
           \A r \in Saving("source") : ~Write(r), NEW u
    PROVE  Password(u)' = Password(u)
<1>1. /\ "source" \in Sections /\ Row("source") = "app"
      /\ "password" \in Columns["source"]
      /\ "password" \in RowColumns("app")
  BY ColumnFacts
<1>2. CASE config.app # NoRow
  <2>1. config'.app # NoRow
    BY <1>2, RowsStay
  <2>2. \A c \in Columns["source"] : config'["app"][c] = config["app"][c]
    BY <1>1, <1>2, ColumnsStay
  <2>3. config'.app.password = config.app.password
    BY <1>1, <2>2
  <2> QED BY <1>2, <2>1, <2>3 DEF Password
<1>3. CASE config.app = NoRow
  <2>1. config'.app # NoRow => config'.app.password = Empty
    <3>1. ASSUME UNCHANGED config, config'.app # NoRow PROVE FALSE
      BY <1>3, <3>1
    <3>2. ASSUME NEW r \in Requests, Write(r), config'.app # NoRow
          PROVE  config'.app.password = Empty
      <4> DEFINE q == request[r]
                 row == Row(q.section)
      <4>1. /\ WritingShape(q) /\ DOMAIN q.updates \subseteq Columns[q.section]
        BY <3>2, WriteDoes DEF SaveShape
      <4>2. q.section \in Sections \ {"source"}
        BY <3>2, <4>1 DEF WritingShape, Saving
      <4>3. "password" \notin DOMAIN q.updates
        BY <1>1, <4>1, <4>2, ColumnFacts
      <4>4. /\ \A c \in RowColumns(row) :
                  config'[row][c] =
                     IF c \in DOMAIN q.updates
                          /\ (config[row] = NoRow \/ c \in DOMAIN q.writes)
                     THEN q.updates[c]
                     ELSE IF config[row] = NoRow THEN Default(c)
                     ELSE config[row][c]
            /\ \A other \in {"app", "transmission"} \ {row} :
                  config'[other] = config[other]
        BY <3>2, Stores
      <4> HIDE DEF q, row
      <4>5. row = "app"
        BY <1>3, <3>2, <4>4
      <4>6. config'["app"]["password"] = Default("password")
        BY <1>1, <1>3, <4>3, <4>4, <4>5
      <4> QED BY <4>6 DEF Default
    <3> QED BY <3>1, <3>2, OnlyWriteStores
  <2> QED BY <1>3, <2>1 DEF Password
<1> QED BY <1>2, <1>3

LEMMA NextTried ==
    Shapes /\ RowsWhole /\ WritesFit /\ LoneSaves /\ Tried /\ [Next]_vars
        => Tried'
<1> SUFFICES ASSUME Shapes, RowsWhole, WritesFit, LoneSaves, Tried,
                    [Next]_vars, NEW t \in Requests,
                    request'[t].op = "save",
                    request'[t].at \in {"load", "write"},
                    ToSsh(request'[t]), request'[t].alone
             PROVE  TriedWith(request[t].updates)'
  BY DEF Tried
<1> DEFINE q == request[t]
<1>1. CASE SameSave(t)
  <2>1. /\ q.op = "save" /\ q.at \in {"load", "write"} /\ q.alone
        /\ ToSsh(q) /\ q.section = "source"
        /\ request'[t].updates = q.updates
    BY <1>1 DEF SameSave, ToSsh
  <2>2. TriedWith(q.updates)
    BY <2>1 DEF Tried
  <2>3. ASSUME NEW r \in Saving("source"), Write(r) PROVE FALSE
    <3>1. r = t
      BY <2>1 DEF Saving, LoneSaves
    <3>2. request'[t] = Idle
      BY <2>3, <3>1, WriteDoes, FinishShape
    <3> QED BY <3>2 DEF Idle
  <2>4. \A w : Password(w)' = Password(w)
    BY <2>3, PasswordStays
  <2> QED BY <2>1, <2>2, <2>4 DEF TriedWith, Password
<1>2. ASSUME NEW save \in Saves, PutSettings(t, save) PROVE FALSE
  <2> DEFINE p == Loaded(save.section, Sent(save),
                         Saving(save.section) = {})
  <2>1. request'[t] = p
    BY <1>2, PutSettingsBegins
  <2>2. /\ p.section = save.section /\ p.updates = Sent(save)
        /\ save.section = "source" => Sent(save).kind # "ssh"
    BY <1>2, PutSettingsDoes
  <2> QED BY <2>1, <2>2 DEF ToSsh
<1>3. ASSUME NEW save \in Saves, PutSshSource(t, save) PROVE FALSE
  <2>1. request'[t].at = "probe"
    BY <1>3 DEF PutSshSource, Begin
  <2> QED BY <2>1
<1>4. CASE Probe(t)
  <2> DEFINE p == [request[t] EXCEPT !.at = "load",
                     !.updates = With(@, "detected", Detected(@))]
             u == q.updates
  <2>1. /\ TryingShape(q)
        /\ Goto(t, p)
        /\ p.updates = With(u, "detected", Detected(u))
        /\ UNCHANGED config
    BY <1>4, ProbeDoes DEF tables
  <2> HIDE DEF p
  <2>2. request'[t] = p
    BY <2>1, GoesTo
  <2>3. {"kind", "host"} \subseteq DOMAIN u
    BY <2>1 DEF TryingShape
  <2> HIDE DEF u
  <2>4. /\ "detected" \in DOMAIN p.updates
        /\ p.updates.detected = Detected(u)
        /\ p.updates.host = u.host
        /\ "password" \in DOMAIN p.updates <=> "password" \in DOMAIN u
        /\ "password" \in DOMAIN u => p.updates.password = u.password
    BY <2>1, <2>3 DEF With
  <2>5. Password(p.updates) = Password(u)
    BY <2>4 DEF Password
  <2>6. TriedWith(p.updates)
    BY <2>4, <2>5 DEF TriedWith, Detected
  <2> QED BY <2>1, <2>2, <2>6 DEF TriedWith, Password
<1>5. CASE Load(t)
  <2> DEFINE p == Loaded("source", request[t].updates, request[t].alone)
  <2>1. /\ TryingShape(q) /\ q.at = "load" /\ Goto(t, p)
        /\ p.updates = q.updates /\ p.alone = q.alone
        /\ UNCHANGED config
    BY <1>5, LoadDoes DEF tables
  <2> HIDE DEF p
  <2>2. request'[t] = p
    BY <2>1, GoesTo
  <2>3. TriedWith(q.updates)
    BY <2>1, <2>2 DEF TryingShape, Tried
  <2> QED BY <2>1, <2>2, <2>3 DEF TriedWith, Password
<1> QED BY <1>1, <1>2, <1>3, <1>4, <1>5, SaveSteps DEF Begun

LEMMA NextSavedReached ==
    Shapes /\ SavedKnown /\ Tried /\ SavedReached /\ [Next]_vars
        => SavedReached'
<1> SUFFICES ASSUME Shapes, SavedKnown, Tried, SavedReached, [Next]_vars
             PROVE  SavedReached'
  OBVIOUS
<1>1. CASE UNCHANGED saved
  BY <1>1 DEF SavedReached
<1>2. ASSUME NEW r \in Requests, Write(r) PROVE SavedReached'
  <2> DEFINE q == request[r]
             u == q.updates
  <2>1. /\ SaveShape(q) /\ q.op = "save" /\ q.at = "write"
        /\ q.section = "source" => {"kind", "host"} \subseteq DOMAIN u
    BY <1>2, WriteDoes DEF WritingShape
  <2>2. CASE q.section # "source"
    <3>1. saved'["source"] = saved["source"]
      BY <1>2, <2>2, Answers, ColumnFacts
    <3> QED BY <3>1 DEF SavedReached
  <2>3. CASE q.section = "source"
    <3> SUFFICES ASSUME saved'["source"] # None,
                        saved'["source"].kind = "ssh"
                 PROVE  saved'["source"].detected =
                           [host |-> saved'["source"].host,
                            password |-> saved'["source"].password]
      BY DEF SavedReached
    <3>1. q.alone
      BY <1>2, <2>3, Answers
    <3>2. \A c \in {"kind", "host", "password", "detected"} :
             saved'["source"][c] =
                IF c \in DOMAIN u THEN u[c]
                ELSE IF config["app"] # NoRow THEN config["app"][c]
                ELSE Default(c)
      BY <1>2, <2>3, <3>1, Answers, ColumnFacts
    <3>3. saved'["source"].kind = u.kind /\ saved'["source"].host = u.host
      BY <2>1, <2>3, <3>2
    <3>4. TriedWith(u)
      BY <2>1, <2>3, <3>1, <3>3 DEF Tried, ToSsh
    <3>5. saved'["source"].password = Password(u)
      BY <3>2 DEF Password, Default
    <3>6. saved'["source"].detected = u.detected
      BY <3>2, <3>4 DEF TriedWith
    <3> QED BY <3>3, <3>4, <3>5, <3>6 DEF TriedWith
  <2> QED BY <2>2, <2>3
<1> QED BY <1>1, <1>2, OnlyWriteAnswers

ReachedInv == AnswersInv /\ Tried /\ SavedReached

(* The source that is stored, once a save of it was answered that no other *)
(* crossed, was reached at the host and with the password that are stored, *)
(* for any saves and any number of requests.                               *)
THEOREM ReachedAsStoredHolds == Spec => []ReachedAsStored
<1>1. Init => ReachedInv
  <2> SUFFICES ASSUME Init PROVE ReachedInv
    OBVIOUS
  <2>1. Tried
    BY DEF Init, Idle, Tried
  <2>2. SavedReached
    BY ColumnFacts DEF Init, SavedReached
  <2> QED BY <2>1, <2>2, InitAnswersInv DEF ReachedInv
<1>2. AnswersInv /\ AnswersInv' /\ ReachedInv /\ [Next]_vars => ReachedInv'
  BY NextTried, NextSavedReached DEF ReachedInv, AnswersInv, SettingsInv
<1>3. ReachedInv => ReachedAsStored
  <2> SUFFICES ASSUME ReachedInv, saved["source"] # None, SourceIsSsh
               PROVE  config.app.detected = [host |-> config.app.host,
                                         password |-> config.app.password]
    BY DEF ReachedAsStored
  <2>1. \A c \in {"kind", "host", "password", "detected"} :
           config["app"][c] = saved["source"][c]
    BY ColumnFacts DEF ReachedInv, AnswersInv, AnsweredSaveStands
  <2> QED BY <2>1 DEF ReachedInv, SavedReached, SourceIsSsh
<1> QED BY <1>1, <1>2, <1>3, AnswersInvariance, PTL DEF Spec
-----------------------------------------------------------------------------
(* Rules and the ids of destinations.                                      *)

LEMMA LeastExists ==
    ASSUME NEW S \in SUBSET Nat, S # {}
    PROVE  \E i \in S : \A j \in S : i <= j
<1> DEFINE R == OpToRel(<, Nat)
<1>1. PICK i \in S : \A j \in S : ~ (<<j, i>> \in R)
  BY NatLessThanWellFounded, WFMin, Zenon
<1>2. R = {p \in Nat \X Nat : p[1] < p[2]}
  BY DEF OpToRel
<1> HIDE DEF R
<1>3. ASSUME NEW j \in S PROVE i <= j
  <2>1. <<j, i>> \notin R
    BY <1>1
  <2>2. i \in Nat /\ j \in Nat
    OBVIOUS
  <2> QED BY <1>2, <2>1, <2>2
<1> QED BY <1>3

(* What Highest chooses is there.                                          *)
LEMMA HighestIs ==
    ASSUME NEW table, DOMAIN table = Ids
    PROVE  /\ Highest(table) \in 0 .. MaxId
           /\ \A d \in Used(table) : d <= Highest(table)
           /\ Highest(table) \in Used(table) \cup {0}
<1> DEFINE T == Used(table) \cup {0}
           S == {n \in Nat : \E d \in T : n = MaxId - d}
<1>1. MaxId \in Nat /\ T \subseteq 0 .. MaxId /\ 0 \in T
  BY ConfigAssumption DEF Used, Ids
<1> HIDE DEF T
<1>2. S \in SUBSET Nat /\ MaxId \in S
  BY <1>1
<1>3. PICK n \in S : \A m \in S : n <= m
  BY <1>2, LeastExists
<1>4. PICK e \in T : n = MaxId - e
  BY <1>3
<1>5. \A d \in T : d <= e
  <2>1. ASSUME NEW d \in T PROVE d <= e
    <3>1. MaxId - d \in S
      BY <1>1
    <3>2. n <= MaxId - d
      BY <1>3, <3>1
    <3> QED BY <1>1, <1>4, <3>2
  <2> QED BY <2>1
<1>6. \A j \in Used(table) : j <= e
  BY <1>5 DEF T
<1>7. e \in Used(table) \cup {0}
  BY <1>4 DEF T
<1>8. /\ Highest(table) \in Used(table) \cup {0}
      /\ \A j \in Used(table) : j <= Highest(table)
  BY <1>6, <1>7 DEF Highest
<1> QED BY <1>1, <1>8 DEF T

(* An id that a destination has had, or a lower one.                       *)
Seen(d) == d <= Highest(destinations) \/ d \in reusable

LEMMA UsedSeen ==
    ASSUME DestinationsKnown, NEW d \in Ids, destinations[d] # None
    PROVE  Seen(d)
BY HighestIs DEF Seen, Used, DestinationsKnown

LEMMA OnlyDestinationSteps ==
    ASSUME [Next]_vars
    PROVE  \/ UNCHANGED <<destinations, reusable>>
           \/ \E r \in Requests : \/ InsertDestination(r)
                                  \/ WriteDestination(r)
                                  \/ DeleteDestination(r)
BY DEF Next, Settings, DestinationStep, RuleStep, PutSettings, PutSshSource,
       Probe, Load, Write, PostDestination, PutDestination, LoadDestination,
       RemoveDestination, PostRule, PutRule, CheckRule, InsertRule, LoadRule,
       WriteRule, RemoveRule, DeleteRule, Fail, vars, tables, history

LEMMA SeenStays ==
    ASSUME Shapes, DestinationsKnown, [Next]_vars, NEW d \in Ids, Seen(d)
    PROVE  Seen(d)' /\ reusable \subseteq reusable'
<1>1. DOMAIN destinations = Ids /\ DOMAIN destinations' = Ids
  BY NextDestinationsKnown DEF DestinationsKnown
<1>2. /\ Highest(destinations) \in 0 .. MaxId
      /\ Highest(destinations') \in 0 .. MaxId
      /\ \A e \in Used(destinations') : e <= Highest(destinations')
      /\ Highest(destinations) \in Used(destinations) \cup {0}
      /\ d \in Nat /\ MaxId \in Nat
  BY <1>1, HighestIs, ConfigAssumption DEF Ids
<1>3. CASE UNCHANGED <<destinations, reusable>>
  BY <1>3 DEF Seen
<1>4. ASSUME NEW r \in Requests, InsertDestination(r) \/ WriteDestination(r)
      PROVE  Seen(d)' /\ reusable \subseteq reusable'
  <2>1. reusable' = reusable
    BY <1>4 DEF InsertDestination, WriteDestination, history
  <2>2. Used(destinations) \subseteq Used(destinations')
    <3>1. request[r].kind # None
      <4>1. DestinationShape(request[r])
        BY <1>4, ShapeOf DEF InsertDestination, WriteDestination
      <4> QED BY <4>1, ConfigAssumption DEF DestinationShape, Kinds
    <3>2. CASE InsertDestination(r)
      BY <1>1, <3>1, <3>2 DEF InsertDestination, Used
    <3>3. CASE WriteDestination(r)
      BY <1>1, <3>1, <3>3 DEF WriteDestination, Used
    <3> QED BY <1>4, <3>2, <3>3
  <2>3. Highest(destinations) <= Highest(destinations')
    BY <1>2, <2>2
  <2> QED BY <1>2, <2>1, <2>3 DEF Seen
<1>5. ASSUME NEW r \in Requests, DeleteDestination(r)
      PROVE  Seen(d)' /\ reusable \subseteq reusable'
  <2>1. reusable' = reusable \cup
           (Highest(destinations') + 1 .. Highest(destinations))
    BY <1>5 DEF DeleteDestination
  <2> QED BY <1>2, <2>1 DEF Seen
<1> QED BY <1>3, <1>4, <1>5, OnlyDestinationSteps

(* A rule, or one that is being saved, is for such an id, and switched only *)
(* for one that is reusable.                                               *)
KeptRule(x) == Seen(x.dest) /\ (x.switched => x.dest \in reusable)

RuleRow(f) == /\ DOMAIN f = {"dest", "switched"}
              /\ f.dest \in Ids /\ f.switched \in BOOLEAN

RulesKnown == /\ DOMAIN rules = RuleIds
              /\ \A i \in Used(rules) : RuleRow(rules[i]) /\ KeptRule(rules[i])

RulesSaved == \A r \in Requests : SavesRule(r) => KeptRule(request[r])

(* A new id was not seen unless it is reusable.                            *)
LEMMA NewSeen ==
    ASSUME DestinationsKnown, Seen(NewId(destinations))
    PROVE  NewId(destinations) \in reusable
<1>1. Highest(destinations) \in 0 .. MaxId
  BY HighestIs DEF DestinationsKnown
<1> QED BY <1>1 DEF Seen, NewId

(* How a thread comes to be saving a rule.                                 *)
LEMMA RuleComesFrom ==
    ASSUME Shapes, [Next]_vars, NEW t \in Requests, SavesRule(t)'
    PROVE  LET p == request'[t]
               q == request[t]
           IN  \/ /\ p.switched = FALSE
                  /\ p.dest \in Ids /\ destinations[p.dest] # None
               \/ /\ SavesRule(t) /\ p.dest = q.dest
                  /\ \/ p.switched = q.switched
                     \/ p.switched = (q.switched
                                         \/ q.dest = NewId(destinations))
<1> DEFINE p == request'[t]
           q == request[t]
           Goal == \/ /\ p.switched = FALSE
                      /\ p.dest \in Ids /\ destinations[p.dest] # None
                   \/ /\ SavesRule(t) /\ p.dest = q.dest
                      /\ \/ p.switched = q.switched
                         \/ p.switched = (q.switched
                                             \/ q.dest = NewId(destinations))
<1>1. ASSUME p = q PROVE Goal
  BY <1>1 DEF SavesRule
<1>2. ASSUME p.op \in {"save", "none", "createDestination", "editDestination",
                       "deleteDestination", "deleteRule"}
      PROVE FALSE
  BY <1>2 DEF SavesRule
<1> HIDE DEF Goal
<1>3. ASSUME NEW r \in Requests, Settings(r) PROVE Goal
  <2>1. ASSUME NEW section, NEW f, Begin(r, section, f), f.op = "save"
        PROVE  Goal
    <3>1. CASE r = t
      <4>1. p = f
        BY <2>1, <3>1, Begins, Zenon
      <4> QED BY <1>2, <2>1, <4>1
    <3>2. CASE r # t
      <4>1. \/ p = q
            \/ SameSave(t) /\ p.op = "save"
        BY <2>1, <3>2, BesideBegin, Zenon
      <4> QED BY <1>1, <1>2, <4>1
    <3> QED BY <3>1, <3>2
  <2>2. ASSUME NEW save \in Saves, PutSettings(r, save) PROVE Goal
    BY <2>1, <2>2, PutSettingsDoes
  <2>3. ASSUME NEW save \in Saves, PutSshSource(r, save) PROVE Goal
    <3> DEFINE f == [op |-> "save", section |-> "source",
                     updates |-> save.updates, at |-> "probe",
                     alone |-> Saving("source") = {}]
    <3>1. Begin(r, "source", f) /\ f.op = "save"
      BY <2>3, PutSshSourceDoes
    <3> HIDE DEF f
    <3> QED BY <2>1, <3>1, Zenon
  <2>4. CASE Probe(r) \/ Load(r)
    <3>1. request'[r].op = "save"
      <4>1. ASSUME NEW f, Goto(r, f), f.op = "save"
            PROVE  request'[r].op = "save"
        BY <4>1, GoesTo
      <4>2. CASE Probe(r)
        BY <4>1, <4>2, ProbeDoes DEF TryingShape
      <4>3. CASE Load(r)
        BY <4>1, <4>3, LoadDoes
      <4> QED BY <2>4, <4>2, <4>3
    <3> QED BY <1>1, <1>2, <2>4, <3>1, OthersSave DEF Probe, Load
  <2>5. CASE Write(r)
    <3>1. Finish(r)
      BY <2>5, WriteDoes
    <3>2. CASE r = t
      BY <1>2, <3>1, <3>2, FinishShape DEF Idle
    <3>3. CASE r # t
      BY <1>1, <3>1, <3>3, FinishShape
    <3> QED BY <3>2, <3>3
  <2> QED BY <1>3, <2>2, <2>3, <2>4, <2>5 DEF Settings
<1>4. ASSUME NEW r \in Requests \ {t}, DestinationStep(r) PROVE Goal
  <2>1. CASE InsertDestination(r)
    BY <1>1, <2>1, InsertDestinationDoes DEF SavesRule, Goal
  <2>2. CASE ~InsertDestination(r)
    BY <1>1, <1>4, <2>2, OthersSave
       DEF DestinationStep, PostDestination, PutDestination,
           RemoveDestination, LoadDestination, WriteDestination,
           DeleteDestination
  <2> QED BY <2>1, <2>2
<1>5. ASSUME NEW r \in Requests \ {t}, RuleStep(r) \/ Fail(r) PROVE Goal
  BY <1>1, <1>5, OthersSave
     DEF RuleStep, PostRule, PutRule, RemoveRule, CheckRule, InsertRule,
         LoadRule, WriteRule, DeleteRule, Fail
<1>6. ASSUME Finish(t) PROVE FALSE
  BY <1>2, <1>6, FinishShape DEF Idle
<1>7. ASSUME DestinationStep(t) PROVE Goal
  BY <1>2, <1>7, DestinationStepLeaves
<1>8. ASSUME RuleStep(t) PROVE Goal
  BY <1>2, <1>8, RuleStepLeaves DEF Goal
<1>9. ASSUME UNCHANGED vars PROVE Goal
  BY <1>1, <1>9 DEF vars
<1>10. Goal
  BY <1>3, <1>4, <1>5, <1>6, <1>7, <1>8, <1>9 DEF Next, Fail
<1> QED BY <1>10 DEF Goal

LEMMA NextRulesSaved ==
    Shapes /\ DestinationsKnown /\ RulesSaved /\ [Next]_vars => RulesSaved'
<1> SUFFICES ASSUME Shapes, DestinationsKnown, RulesSaved, [Next]_vars,
                    NEW t \in Requests, SavesRule(t)'
             PROVE  KeptRule(request[t])'
  BY DEF RulesSaved
<1> DEFINE p == request'[t]
           q == request[t]
<1>1. CASE p.switched = FALSE /\ p.dest \in Ids /\ destinations[p.dest] # None
  BY <1>1, UsedSeen, SeenStays DEF KeptRule, Seen
<1>2. CASE /\ SavesRule(t) /\ p.dest = q.dest
           /\ \/ p.switched = q.switched
              \/ p.switched = (q.switched \/ q.dest = NewId(destinations))
  <2>1. q.dest \in Ids /\ KeptRule(q)
    BY <1>2, ShapeOf DEF RulesSaved, RuleShape
  <2>2. Seen(q.dest) /\ (p.switched => q.dest \in reusable)
    BY <1>2, <2>1, NewSeen DEF KeptRule
  <2>3. /\ q.dest <= Highest(destinations') \/ q.dest \in reusable'
        /\ reusable \subseteq reusable'
    BY <2>1, <2>2, SeenStays DEF Seen
  <2> QED BY <1>2, <2>2, <2>3 DEF KeptRule, Seen
<1> QED BY <1>1, <1>2, RuleComesFrom

LEMMA NextRulesKnown ==
    Shapes /\ DestinationsKnown /\ RulesSaved /\ RulesKnown /\ [Next]_vars
        => RulesKnown'
<1> SUFFICES ASSUME Shapes, DestinationsKnown, RulesSaved, RulesKnown,
                    [Next]_vars
             PROVE  RulesKnown'
  OBVIOUS
<1>1. ASSUME NEW f, RuleRow(f), KeptRule(f)
      PROVE  /\ f.dest <= Highest(destinations') \/ f.dest \in reusable'
             /\ f.switched => f.dest \in reusable'
  BY <1>1, SeenStays DEF RuleRow, KeptRule, Seen
<1>2. ASSUME DOMAIN rules' = RuleIds,
             \A i \in Used(rules') :
                \/ i \in Used(rules) /\ rules'[i] = rules[i]
                \/ RuleRow(rules'[i]) /\ KeptRule(rules'[i])
      PROVE  RulesKnown'
  <2>1. ASSUME NEW i \in Used(rules')
        PROVE  RuleRow(rules'[i]) /\ KeptRule(rules[i])'
    <3>1. RuleRow(rules'[i]) /\ KeptRule(rules'[i])
      BY <1>2 DEF RulesKnown
    <3> QED BY <1>1, <3>1 DEF KeptRule, Seen
  <2> QED BY <1>2, <2>1 DEF RulesKnown
<1>3. CASE UNCHANGED rules
  BY <1>2, <1>3 DEF RulesKnown
<1>4. ASSUME NEW r \in Requests, InsertDestination(r) PROVE RulesKnown'
  <2> DEFINE d == NewId(destinations)
  <2>1. rules' = [i \in RuleIds |-> Switched(rules[i], Used(rules), i, d)]
    BY <1>4 DEF InsertDestination
  <2>2. ASSUME NEW i \in Used(rules') \ Used(rules) PROVE FALSE
    BY <2>1, <2>2 DEF Used, Switched, RulesKnown
  <2>3. ASSUME NEW i \in Used(rules') \cap Used(rules)
        PROVE  RuleRow(rules'[i]) /\ KeptRule(rules'[i])
    <3>1. RuleRow(rules[i]) /\ KeptRule(rules[i]) /\ i \in RuleIds
      BY <2>3 DEF RulesKnown, Used
    <3>2. rules'[i] = IF rules[i].dest = d
                      THEN [rules[i] EXCEPT !.switched = TRUE] ELSE rules[i]
      BY <2>1, <2>3, <3>1 DEF Switched
    <3>3. CASE rules[i].dest = d
      <4>1. d \in reusable
        BY <3>1, <3>3, NewSeen DEF KeptRule
      <4>2. /\ DOMAIN rules'[i] = DOMAIN rules[i]
            /\ rules'[i].dest = rules[i].dest
            /\ rules'[i].switched = TRUE
        BY <3>1, <3>2, <3>3 DEF RuleRow
      <4> QED BY <3>1, <3>3, <4>1, <4>2 DEF RuleRow, KeptRule
    <3> QED BY <3>1, <3>2, <3>3
  <2> HIDE DEF d
  <2>4. DOMAIN rules' = RuleIds
    BY <2>1
  <2> QED BY <1>2, <2>2, <2>3, <2>4
<1>5. ASSUME NEW r \in Requests, InsertRule(r) \/ WriteRule(r)
      PROVE  RulesKnown'
  <2> DEFINE q == request[r]
             f == [dest |-> q.dest, switched |-> q.switched]
  <2>1. RuleShape(q) /\ KeptRule(q)
    BY <1>5, ShapeOf DEF InsertRule, WriteRule, SavesRule, RulesSaved
  <2>2. RuleRow(f) /\ KeptRule(f)
    BY <2>1 DEF RuleShape, RuleRow, KeptRule
  <2>3. \/ rules' = rules
        \/ \E i : rules' = [rules EXCEPT ![i] = f]
    BY <1>5 DEF InsertRule, WriteRule
  <2> HIDE DEF f
  <2> QED BY <1>2, <2>2, <2>3 DEF RulesKnown, Used
<1>6. ASSUME NEW r \in Requests, DeleteRule(r) PROVE RulesKnown'
  <2>1. rules' = [rules EXCEPT ![request[r].id] = None]
    BY <1>6 DEF DeleteRule
  <2> QED BY <1>2, <2>1 DEF RulesKnown, Used
<1> QED BY <1>3, <1>4, <1>5, <1>6
        DEF Next, Settings, DestinationStep, RuleStep, PutSettings,
            PutSshSource, Probe, Load, Write, PostDestination,
            PutDestination, LoadDestination, WriteDestination,
            RemoveDestination, DeleteDestination, PostRule, PutRule,
            CheckRule, LoadRule, RemoveRule, Fail, vars, tables

RulesInv == /\ Shapes /\ DestinationsKnown /\ RulesSaved /\ RulesKnown

(* For any number of requests, destinations and rules: a rule leads to     *)
(* another destination than it was saved for only if the id was free       *)
(* together with all above it.                                             *)
THEOREM RuleKeepsItsDestinationHolds == Spec => []RuleKeepsItsDestination
<1>1. Init => RulesInv
  <2> SUFFICES ASSUME Init PROVE RulesInv
    OBVIOUS
  <2>1. RulesSaved
    BY DEF Init, Idle, RulesSaved, SavesRule
  <2>2. RulesKnown
    BY DEF Init, RulesKnown, Used
  <2> QED BY <2>1, <2>2, InitSettingsInv DEF RulesInv, SettingsInv
<1>2. RulesInv /\ [Next]_vars => RulesInv'
  BY NextShapes, NextDestinationsKnown, NextRulesSaved, NextRulesKnown
     DEF RulesInv
<1>3. RulesInv => RuleKeepsItsDestination
  BY DEF RulesInv, RulesKnown, KeptRule, RuleKeepsItsDestination
<1> QED BY <1>1, <1>2, <1>3, PTL DEF Spec
-----------------------------------------------------------------------------
(* Types.  What a save holds is what was sent, or detected; and a row has  *)
(* only values that were sent or detected, or defaults.                    *)
Held(u) == \A c \in DOMAIN u :
    IF c = "detected" THEN u[c] \in Values(c) ELSE u[c] \in Given(c)

SavesHold == \A r \in Requests :
    request[r].op = "save" => Held(request[r].updates)

RowsHold == \A row \in {"app", "transmission"} :
    config[row] # NoRow => \A c \in RowColumns(row) :
                               config[row][c] \in Values(c)

LEMMA HeldValues ==
    ASSUME NEW u, Held(u), NEW c \in DOMAIN u
    PROVE  u[c] \in Values(c)
BY DEF Held, Values

LEMMA DefaultValue == \A c : Default(c) \in Values(c)
BY DEF Default, Values

LEMMA SentHeld ==
    ASSUME NEW save \in Saves
    PROVE  Held(save.updates) /\ Held(Sent(save))
<1>1. "detected" \notin DOMAIN save.updates
  BY ConfigAssumption
<1>2. Held(save.updates)
  BY <1>1 DEF Held, Given
<1>3. Held(With(save.updates, "detected", Empty))
  BY <1>1, <1>2 DEF Held, With, Values
<1> QED BY <1>2, <1>3 DEF Sent

(* A host is sent with a source and nothing else.                          *)
LEMMA HostsGiven == Given("host") \subseteq Hosts
<1>1. SUFFICES ASSUME NEW save \in Saves, "host" \in DOMAIN save.updates
               PROVE  save.updates["host"] \in Hosts
  BY DEF Given
<1>2. /\ save.section \in Sections
      /\ "host" \in Columns[save.section]
  BY <1>1, SaveAssumed
<1>3. save.section = "source"
  <2>1. "host" \in Columns["source"] /\ "source" \in Sections
    BY ColumnFacts
  <2> QED BY <1>2, <2>1, ColumnFacts
<1> QED BY <1>3 DEF Hosts

(* What is detected is detected with a password that was sent.             *)
LEMMA ProbeHeld ==
    ASSUME Shapes, SavesHold, RowsHold, NEW r \in Requests, Probe(r)
    PROVE  Held(With(request[r].updates, "detected",
                     Detected(request[r].updates)))
<1> DEFINE u == request[r].updates
           d == Detected(u)
<1>1. /\ Held(u) /\ CanConnect(u) /\ "host" \in DOMAIN u
  BY ProbeDoes DEF TryingShape, SavesHold
<1>2. u["host"] \in Hosts
  BY <1>1, HostsGiven DEF Held
<1>3. Password(u) \in Given("password")
  <2>1. CASE "password" \in DOMAIN u
    BY <1>1, <2>1 DEF Held, Password
  <2>2. CASE "password" \notin DOMAIN u
    <3>1. config.app # NoRow /\ config.app.password # Empty
          /\ Password(u) = config.app.password
      BY <1>1, <2>2 DEF CanConnect, Password
    <3>2. "password" \in RowColumns("app")
      BY ColumnFacts
    <3>3. config.app.password \in Values("password")
      BY <3>1, <3>2 DEF RowsHold
    <3> QED BY <3>1, <3>3 DEF Values, Default
  <2> QED BY <2>1, <2>2
<1>4. d \in Values("detected")
  BY <1>2, <1>3 DEF Detected, Values
<1> HIDE DEF d, u
<1>5. Held(With(u, "detected", d))
  BY <1>1, <1>4 DEF Held, With
<1> QED BY <1>5 DEF d, u

LEMMA NextSavesHold ==
    Shapes /\ SavesHold /\ RowsHold /\ [Next]_vars => SavesHold'
<1> SUFFICES ASSUME Shapes, SavesHold, RowsHold, [Next]_vars,
                    NEW t \in Requests, request'[t].op = "save"
             PROVE  Held(request'[t].updates)
  BY DEF SavesHold
<1>1. CASE SameSave(t)
  BY <1>1 DEF SameSave, SavesHold
<1>2. ASSUME NEW save \in Saves, PutSettings(t, save)
      PROVE  Held(request'[t].updates)
  <2>1. request'[t].updates = Sent(save)
    BY <1>2, PutSettingsDoes, PutSettingsBegins
  <2> QED BY <2>1, SentHeld
<1>3. ASSUME NEW save \in Saves, PutSshSource(t, save)
      PROVE  Held(request'[t].updates)
  <2>1. request'[t].updates = save.updates
    BY <1>3 DEF PutSshSource, Begin
  <2> QED BY <2>1, SentHeld
<1>4. CASE Probe(t)
  <2> DEFINE q == request[t]
             p == [q EXCEPT !.at = "load",
                     !.updates = With(@, "detected", Detected(@))]
             u == With(q.updates, "detected", Detected(q.updates))
  <2>1. Goto(t, p) /\ p.updates = u
    BY <1>4, ProbeDoes
  <2>2. Held(u)
    BY <1>4, ProbeHeld
  <2> HIDE DEF p, u
  <2>3. request'[t] = p
    BY <2>1, GoesTo
  <2> QED BY <2>1, <2>2, <2>3
<1>5. CASE Load(t)
  <2>1. request'[t].updates = request[t].updates /\ request[t].op = "save"
    BY <1>5, LoadDoes, GoesTo DEF TryingShape
  <2> QED BY <2>1 DEF SavesHold
<1> QED BY <1>1, <1>2, <1>3, <1>4, <1>5, SaveSteps DEF Begun

LEMMA NextRowsHold ==
    Shapes /\ RowsWhole /\ WritesFit /\ SavesHold /\ RowsHold /\ [Next]_vars
        => RowsHold'
<1> SUFFICES ASSUME Shapes, RowsWhole, WritesFit, SavesHold, RowsHold,
                    [Next]_vars
             PROVE  RowsHold'
  OBVIOUS
<1>1. CASE UNCHANGED config
  BY <1>1 DEF RowsHold, Values, Given, Hosts
<1>2. ASSUME NEW r \in Requests, Write(r) PROVE RowsHold'
  <2> DEFINE q == request[r]
             at == Row(q.section)
  <2>1. /\ \A c \in RowColumns(at) :
              config'[at][c] =
                 IF c \in DOMAIN q.updates
                      /\ (config[at] = NoRow \/ c \in DOMAIN q.writes)
                 THEN q.updates[c]
                 ELSE IF config[at] = NoRow THEN Default(c)
                 ELSE config[at][c]
        /\ \A other \in {"app", "transmission"} \ {at} :
              config'[other] = config[other]
        /\ at \in {"app", "transmission"}
    BY <1>2, Stores
  <2>2. \A c \in DOMAIN q.updates : q.updates[c] \in Values(c)
    BY <1>2, HeldValues DEF Write, SavesHold
  <2> HIDE DEF q, at
  <2>3. \A c \in RowColumns(at) : config'[at][c] \in Values(c)
    BY <2>1, <2>2, DefaultValue DEF RowsHold
  <2>4. ASSUME NEW row \in {"app", "transmission"}, config'[row] # NoRow,
               NEW c \in RowColumns(row)
        PROVE  config'[row][c] \in Values(c)
    BY <2>1, <2>3, <2>4 DEF RowsHold
  <2> QED BY <2>4 DEF RowsHold
<1> QED BY <1>1, <1>2, OnlyWriteStores

(* Destinations, rules and the rest of the history.                        *)
Tables == /\ destinations \in [Ids -> Kinds \cup {None}]
          /\ rules \in [RuleIds -> [dest : Ids, switched : BOOLEAN]
                                       \cup {None}]
          /\ DOMAIN saved = Sections
          /\ crossed \in BOOLEAN
          /\ reusable \subseteq Ids

LEMMA NextDestinationsTyped ==
    ASSUME Shapes, Tables, [Next]_vars
    PROVE  /\ destinations' \in [Ids -> Kinds \cup {None}]
           /\ reusable' \subseteq Ids
<1>1. CASE UNCHANGED <<destinations, reusable>>
  BY <1>1 DEF Tables
<1>2. ASSUME NEW r \in Requests, InsertDestination(r) \/ WriteDestination(r)
      PROVE  /\ destinations' \in [Ids -> Kinds \cup {None}]
             /\ reusable' \subseteq Ids
  <2> DEFINE k == request[r].kind
  <2>1. k \in Kinds
    BY <1>2, ShapeOf DEF InsertDestination, WriteDestination, DestinationShape
  <2>2. /\ \/ destinations' = destinations
           \/ \E d : destinations' = [destinations EXCEPT ![d] = k]
        /\ reusable' = reusable
    BY <1>2 DEF InsertDestination, WriteDestination, history
  <2> HIDE DEF k
  <2> QED BY <2>1, <2>2 DEF Tables
<1>3. ASSUME NEW r \in Requests, DeleteDestination(r)
      PROVE  /\ destinations' \in [Ids -> Kinds \cup {None}]
             /\ reusable' \subseteq Ids
  <2>1. destinations' = [destinations EXCEPT ![request[r].id] = None]
        /\ reusable' = reusable \cup
              (Highest(destinations') + 1 .. Highest(destinations))
    BY <1>3 DEF DeleteDestination
  <2>2. destinations' \in [Ids -> Kinds \cup {None}]
    BY <2>1 DEF Tables
  <2>3. /\ Highest(destinations) \in 0 .. MaxId
        /\ Highest(destinations') \in 0 .. MaxId
    BY <2>2, HighestIs DEF Tables
  <2>4. Highest(destinations') + 1 .. Highest(destinations) \subseteq Ids
    BY <2>3, ConfigAssumption DEF Ids
  <2> QED BY <2>1, <2>2, <2>4 DEF Tables
<1> QED BY <1>1, <1>2, <1>3, OnlyDestinationSteps

LEMMA NextRulesTyped ==
    ASSUME Shapes, Tables, [Next]_vars
    PROVE  rules' \in [RuleIds -> [dest : Ids, switched : BOOLEAN]
                                      \cup {None}]
<1> DEFINE R == [dest : Ids, switched : BOOLEAN]
<1>1. rules \in [RuleIds -> R \cup {None}]
  BY DEF Tables
<1>2. CASE UNCHANGED rules
  BY <1>1, <1>2
<1>3. ASSUME NEW r \in Requests, InsertDestination(r)
      PROVE  rules' \in [RuleIds -> R \cup {None}]
  <2> DEFINE d == NewId(destinations)
             S == Used(rules)
  <2>1. rules' = [i \in RuleIds |-> Switched(rules[i], S, i, d)]
    BY <1>3 DEF InsertDestination
  <2>2. \A i \in S : rules[i] \in R
    BY <1>1 DEF Used
  <2> HIDE DEF d, S
  <2>3. ASSUME NEW i \in RuleIds
        PROVE  Switched(rules[i], S, i, d) \in R \cup {None}
    BY <1>1, <2>2 DEF Switched
  <2> HIDE DEF R
  <2> QED BY <2>1, <2>3
<1>4. ASSUME NEW r \in Requests, InsertRule(r) \/ WriteRule(r)
      PROVE  rules' \in [RuleIds -> R \cup {None}]
  <2> DEFINE q == request[r]
             f == [dest |-> q.dest, switched |-> q.switched]
  <2>1. f \in R
    BY <1>4, ShapeOf DEF InsertRule, WriteRule, SavesRule, RuleShape
  <2>2. \/ rules' = rules
        \/ \E i : rules' = [rules EXCEPT ![i] = f]
    BY <1>4 DEF InsertRule, WriteRule
  <2> HIDE DEF f, R
  <2> QED BY <1>1, <2>1, <2>2
<1>5. ASSUME NEW r \in Requests, DeleteRule(r)
      PROVE  rules' \in [RuleIds -> R \cup {None}]
  <2>1. rules' = [rules EXCEPT ![request[r].id] = None]
    BY <1>5 DEF DeleteRule
  <2> HIDE DEF R
  <2> QED BY <1>1, <2>1
<1>6. \/ UNCHANGED rules
      \/ \E r \in Requests : \/ InsertDestination(r) \/ InsertRule(r)
                             \/ WriteRule(r) \/ DeleteRule(r)
  BY DEF Next, Settings, DestinationStep, RuleStep, PutSettings,
         PutSshSource, Probe, Load, Write, PostDestination,
         PutDestination, LoadDestination, WriteDestination,
         RemoveDestination, DeleteDestination, PostRule, PutRule,
         CheckRule, LoadRule, RemoveRule, Fail, vars, tables
<1> QED BY <1>2, <1>3, <1>4, <1>5, <1>6

LEMMA NextCrossedTyped ==
    ASSUME Tables, [Next]_vars
    PROVE  crossed' \in BOOLEAN
<1>1. \/ UNCHANGED crossed
      \/ crossed' = (crossed \/ RemoteUnderWay)
      \/ \E kind \in Kinds :
            crossed' = (crossed \/ (kind = "remote" /\ SshUnderWay))
  BY DEF Next, Settings, DestinationStep, RuleStep, PutSettings,
         PutSshSource, Probe, Load, Write, PostDestination,
         InsertDestination, PutDestination, LoadDestination,
         WriteDestination, RemoveDestination, DeleteDestination, PostRule,
         PutRule, CheckRule, InsertRule, LoadRule, WriteRule, RemoveRule,
         DeleteRule, Fail, vars, history
<1> QED BY <1>1 DEF Tables

LEMMA NextTables == Shapes /\ Tables /\ [Next]_vars => Tables'
<1> SUFFICES ASSUME Shapes, Tables, [Next]_vars PROVE Tables'
  OBVIOUS
<1>1. DOMAIN saved' = Sections
  BY OnlyWriteAnswers, Answers DEF Tables, SavedKnown
<1> QED BY <1>1, NextDestinationsTyped, NextRulesTyped, NextCrossedTyped
        DEF Tables

TypesInv == SettingsInv /\ SavesHold /\ RowsHold /\ Tables

LEMMA TypesEntail == TypesInv => TypeOK
<1> SUFFICES ASSUME TypesInv PROVE TypeOK
  OBVIOUS
<1>1. /\ DOMAIN config = {"app", "transmission"}
      /\ \A row \in DOMAIN config :
            config[row] = NoRow \/ IsRow(row, config[row])
  BY DEF TypesInv, SettingsInv, RowsWhole, RowsHold, IsRow
<1>2. ASSUME NEW r \in Requests, request[r].op = "save"
      PROVE  /\ request[r].section \in Sections
             /\ request[r].at \in {"probe", "load", "write"}
             /\ \A c \in DOMAIN request[r].updates :
                   request[r].updates[c] \in Values(c)
  <2>1. SaveShape(request[r])
    BY <1>2, ShapeOf DEF TypesInv, SettingsInv
  <2>2. /\ request[r].section \in Sections
        /\ request[r].at \in {"probe", "load", "write"}
    BY <2>1, ColumnFacts DEF SaveShape, TryingShape, WritingShape
  <2> QED BY <1>2, <2>2, HeldValues DEF TypesInv, SavesHold
<1> QED BY <1>1, <1>2 DEF TypesInv, SettingsInv, Shapes, Tables, TypeOK

(* A row holds what was sent, detected or the default of its column, and   *)
(* destinations and rules are of the kinds the handlers check, for any     *)
(* saves and any number of requests that overlap or fail.                  *)
THEOREM TypeCorrect == Spec => []TypeOK
<1>1. Init => TypesInv
  <2> SUFFICES ASSUME Init PROVE TypesInv
    OBVIOUS
  <2>1. SavesHold
    BY DEF Init, Idle, SavesHold
  <2>2. RowsHold
    BY DEF Init, RowsHold
  <2>3. Tables
    BY DEF Init, Tables
  <2> QED BY <2>1, <2>2, <2>3, InitSettingsInv DEF TypesInv
<1>2. TypesInv /\ SettingsInv' /\ [Next]_vars => TypesInv'
  BY NextSavesHold, NextRowsHold, NextTables DEF TypesInv, SettingsInv
<1> QED BY <1>1, <1>2, TypesEntail, SettingsInvariance, PTL DEF Spec
=============================================================================
