------------------------------ MODULE ConfigStore ------------------------------
(***************************************************************************)
(* The settings, destinations and rules as requests change them: the       *)
(* handlers of app/routers (config.py, destinations.py, rules.py), the     *)
(* checks of app/api_validators.py and the writes of app/crud.py.  A       *)
(* handler reads what it checks in SELECTs of their own, each of which     *)
(* sees what is committed at that time, may then be busy with a host for   *)
(* a while, loads the row it changes, and writes the columns that differ   *)
(* from what it loaded.  Another request may commit between any two.       *)
(***************************************************************************)
EXTENDS Integers

CONSTANTS
    Requests,   \* threads that serve requests
    Saves,      \* the saves of settings there may be: section and columns
    MaxId,      \* bound on the ids of destinations
    MaxRule,    \* bound on the ids of rules
    Empty,      \* a column that is NULL, "" or false
    None        \* no destination, no rule, nothing known

Columns == [source    |-> {"kind", "host", "password", "detected"},
            remap     |-> {"source_prefix", "target_prefix"},
            labels    |-> {"ignored_labels"},
            container |-> {"transmission_in_container"},
            rpc       |-> {"rpc_url", "rpc_password"}]
Sections == DOMAIN Columns
Secrets == {"password", "rpc_password"}

(* Two tables, AppConfig and TransmissionConfig, of one row each or none.  *)
Row(section) == IF section = "rpc" THEN "transmission" ELSE "app"
RowColumns(row) == UNION {Columns[s] : s \in {t \in Sections : Row(t) = row}}
NoRow == << >>
Default(column) == IF column = "kind" THEN "local" ELSE Empty

ASSUME ConfigAssumption ==
    /\ MaxId \in Nat /\ MaxRule \in Nat
    /\ None \notin {"local", "remote"}
    /\ \A save \in Saves :
          /\ save.section \in Sections
          /\ DOMAIN save.updates \subseteq Columns[save.section] \ {"detected"}
          /\ save.section = "source" =>
                {"kind", "host"} \subseteq DOMAIN save.updates

VARIABLES
    config,        \* the two rows
    destinations,  \* table Destination, by id: its kind
    rules,         \* table LabelRule, by id: destination_id, and whether that
                   \* id has been given to another destination since
    request,       \* per thread: the handler's locals
    saved,         \* per section: its columns by the last save answered,
                   \* None if another save of it was in progress meanwhile
    crossed,       \* whether a save of an SSH source and one of a remote
                   \* destination have been in progress at once
    reusable       \* ids of destinations that were free, with all above them

tables == <<config, destinations, rules>>
history == <<saved, crossed, reusable>>
vars == <<tables, request, history>>

Ids == 1 .. MaxId
RuleIds == 1 .. MaxRule
Idle == [op |-> "none"]

Init ==
    /\ config = [app |-> NoRow, transmission |-> NoRow]
    /\ destinations = [d \in Ids |-> None]
    /\ rules = [i \in RuleIds |-> None]
    /\ request = [r \in Requests |-> Idle]
    /\ saved = [s \in Sections |-> None]
    /\ crossed = FALSE
    /\ reusable = {}

-----------------------------------------------------------------------------
Used(table) == {i \in DOMAIN table : table[i] # None}
Highest(table) == CHOOSE i \in Used(table) \cup {0} :
                     \A j \in Used(table) : j <= i

(* Wrong: the first id that is free.                                       *)
LowestFree(table) == CHOOSE i \in 1 .. Highest(table) + 1 :
                        /\ i \notin Used(table)
                        /\ \A j \in 1 .. (i - 1) : j \in Used(table)

(* SQLite gives a new row the highest id there is, and one.                *)
NewId(table) == Highest(table) + 1

SourceIsSsh == config.app # NoRow /\ config.app.kind = "ssh"
RemoteExists == \E d \in Used(destinations) : destinations[d] = "remote"

ToSsh(q) == q.section = "source" /\ q.updates.kind = "ssh"
SshUnderWay == \E r \in Requests : request[r].op = "save" /\ ToSsh(request[r])
RemoteUnderWay == \E r \in Requests :
    /\ request[r].op \in {"createDestination", "editDestination"}
    /\ request[r].kind = "remote"

With(f, c, v) == [x \in DOMAIN f \cup {c} |-> IF x = c THEN v ELSE f[x]]
Goto(r, q) == request' = [request EXCEPT ![r] = q]
Finish(r) == Goto(r, Idle)

-----------------------------------------------------------------------------
(* Saves of settings.                                                      *)

Saving(section) == {r \in Requests : /\ request[r].op = "save"
                                     /\ request[r].section = section}

Over(f, g) == [c \in DOMAIN g |-> IF c \in DOMAIN f THEN f[c] ELSE g[c]]
Defaults(row) == [c \in RowColumns(row) |-> Default(c)]

(* Wrong: every column of the row is written.                              *)
WholeRow(row, updates) == Over(updates, config[row])

(* Only what differs from the row as it was loaded is written; a secret,   *)
(* encrypted anew, always does.                                            *)
Changes(row, updates) ==
    [c \in {d \in DOMAIN updates : \/ config[row][d] # updates[d]
                                   \/ d \in Secrets /\ updates[d] # Empty} |->
        updates[c]]

(* The row is loaded, or is to be inserted.                                *)
Loaded(section, updates, alone) ==
    LET row == Row(section)
    IN  [op |-> "save", section |-> section, updates |-> updates,
         at |-> "write", alone |-> alone, insert |-> config[row] = NoRow,
         writes |-> IF config[row] = NoRow THEN Over(updates, Defaults(row))
                    ELSE Changes(row, updates)]

(* A save begins, and is no longer alone if there is another of its        *)
(* section, nor is that one.                                               *)
Begin(r, section, q) ==
    /\ request[r] = Idle
    /\ request' = [t \in Requests |->
          IF t = r THEN q
          ELSE IF t \in Saving(section)
          THEN [request[t] EXCEPT !.alone = FALSE] ELSE request[t]]

(* Any save but that of an SSH source loads its row at once.  A local      *)
(* source forgets what was detected.                                       *)
PutSettings(r, save) ==
    LET s == save.section
    IN  /\ ~ToSsh(save)
        /\ Begin(r, s, Loaded(s, IF s = "source"
                                 THEN With(save.updates, "detected", Empty)
                                 ELSE save.updates, Saving(s) = {}))
        /\ UNCHANGED <<tables, history>>

(* An SSH source is refused beside a remote destination ...                *)
PutSshSource(r, save) ==
    /\ ToSsh(save)
    /\ ~RemoteExists
    /\ Begin(r, "source",
             [op |-> "save", section |-> "source", updates |-> save.updates,
              at |-> "probe", alone |-> Saving("source") = {}])
    /\ crossed' = (crossed \/ RemoteUnderWay)
    /\ UNCHANGED <<tables, saved, reusable>>

(* ... and tried.  A password that is not given is the one the row has.    *)
Password(updates) ==
    IF "password" \in DOMAIN updates THEN updates.password
    ELSE IF config.app = NoRow THEN Empty ELSE config.app.password

(* Wrong: a host that was reached before is taken as it was detected then. *)
OnlyNewHost(updates) ==
    IF config.app # NoRow /\ config.app.host = updates.host
          /\ config.app.detected # Empty
    THEN config.app.detected
    ELSE [host |-> updates.host, password |-> Password(updates)]

(* What is detected is a matter of the host and of that password.          *)
Detected(updates) == [host |-> updates.host, password |-> Password(updates)]

(* Wrong: a host that lets anyone connect needs no password.               *)
AnyoneConnects(updates) == TRUE

CanConnect(updates) == Password(updates) # Empty

Probe(r) ==
    /\ request[r].op = "save" /\ request[r].at = "probe"
    /\ CanConnect(request[r].updates)
    /\ Goto(r, [request[r] EXCEPT !.at = "load",
             !.updates = With(@, "detected", Detected(@))])
    /\ UNCHANGED <<tables, history>>

Load(r) ==
    LET q == request[r]
    IN  /\ q.op = "save" /\ q.at = "load"
        /\ Goto(r, Loaded("source", q.updates, q.alone))
        /\ UNCHANGED <<tables, history>>

(* A row is there once: a second insertion fails.                          *)
CanWrite(r, row) == request[r].insert <=> config[row] = NoRow

Written(r, row) ==
    IF request[r].insert THEN request[r].writes
    ELSE Over(request[r].writes, config[row])

Write(r) ==
    LET q == request[r]
        row == Row(q.section)
    IN  /\ q.op = "save" /\ q.at = "write"
        /\ CanWrite(r, row)
        /\ config' = [config EXCEPT ![row] = Written(r, row)]
        /\ saved' = [saved EXCEPT ![q.section] =
              IF ~q.alone THEN None
              ELSE [c \in Columns[q.section] |->
                      IF c \in DOMAIN q.updates THEN q.updates[c]
                      ELSE IF config[row] # NoRow THEN config[row][c]
                      ELSE Default(c)]]
        /\ Finish(r)
        /\ UNCHANGED <<destinations, rules, crossed, reusable>>

-----------------------------------------------------------------------------
(* Destinations.  One that is saved is tried first, its directory or its   *)
(* host; then it is inserted, or its row is loaded and written.            *)

(* Wrong: only the creation of a destination looks at the source.          *)
RefusedAtCreation(op, kind) ==
    op = "createDestination" /\ kind = "remote" /\ SourceIsSsh

RefusedWithSource(op, kind) == kind = "remote" /\ SourceIsSsh

PostDestination(r, kind) ==
    /\ request[r] = Idle
    /\ ~RefusedWithSource("createDestination", kind)
    /\ Goto(r, [op |-> "createDestination", kind |-> kind])
    /\ crossed' = (crossed \/ (kind = "remote" /\ SshUnderWay))
    /\ UNCHANGED <<tables, saved, reusable>>

SavesRule(r) == request[r].op \in {"createRule", "editRule"}

(* A rule that was saved, or is being saved, for an id given once more.    *)
Switched(rule, those, i, d) ==
    IF i \in those /\ rule.dest = d THEN [rule EXCEPT !.switched = TRUE]
    ELSE rule

InsertDestination(r) ==
    LET d == NewId(destinations)
    IN  /\ request[r].op = "createDestination"
        /\ d \in Ids
        /\ destinations' = [destinations EXCEPT ![d] = request[r].kind]
        /\ rules' = [i \in RuleIds |-> Switched(rules[i], Used(rules), i, d)]
        /\ request' = [t \in Requests |-> IF t = r THEN Idle ELSE
              Switched(request[t], {u \in Requests : SavesRule(u)}, t, d)]
        /\ UNCHANGED <<config, history>>

PutDestination(r, d, kind) ==
    /\ request[r] = Idle
    /\ ~RefusedWithSource("editDestination", kind)
    /\ Goto(r, [op |-> "editDestination", id |-> d, kind |-> kind,
                at |-> "load", changes |-> FALSE])
    /\ crossed' = (crossed \/ (kind = "remote" /\ SshUnderWay))
    /\ UNCHANGED <<tables, saved, reusable>>

LoadDestination(r) ==
    LET q == request[r]
    IN  /\ q.op = "editDestination" /\ q.at = "load"
        /\ destinations[q.id] # None
        /\ Goto(r, [q EXCEPT !.at = "write",
                 !.changes = destinations[q.id] # q.kind])
        /\ UNCHANGED <<tables, history>>

(* By the id, to a row that may be another by now.                         *)
WriteDestination(r) ==
    LET q == request[r]
    IN  /\ q.op = "editDestination" /\ q.at = "write"
        /\ destinations[q.id] # None
        /\ destinations' = IF q.changes
              THEN [destinations EXCEPT ![q.id] = q.kind]
              ELSE destinations
        /\ Finish(r)
        /\ UNCHANGED <<config, rules, history>>

RemoveDestination(r, d) ==
    /\ request[r] = Idle
    /\ destinations[d] # None
    /\ Goto(r, [op |-> "deleteDestination", id |-> d])
    /\ UNCHANGED <<tables, history>>

(* Rules are left alone.                                                   *)
DeleteDestination(r) ==
    LET d == request[r].id
    IN  /\ request[r].op = "deleteDestination"
        /\ destinations' = [destinations EXCEPT ![d] = None]
        /\ reusable' = reusable \cup
              (Highest(destinations') + 1 .. Highest(destinations))
        /\ Finish(r)
        /\ UNCHANGED <<config, rules, saved, crossed>>

-----------------------------------------------------------------------------
(* Rules.  The destination is read, then the source's kind.                *)

SavingRule(op, i, d) ==
    [op |-> op, id |-> i, dest |-> d, switched |-> FALSE,
     kind |-> destinations[d], at |-> "check", changes |-> FALSE]

PostRule(r, d) ==
    /\ request[r] = Idle
    /\ destinations[d] # None
    /\ Goto(r, SavingRule("createRule", 0, d))
    /\ UNCHANGED <<tables, history>>

PutRule(r, i, d) ==
    /\ request[r] = Idle
    /\ destinations[d] # None
    /\ Goto(r, SavingRule("editRule", i, d))
    /\ UNCHANGED <<tables, history>>

CheckRule(r) ==
    LET q == request[r]
    IN  /\ SavesRule(r) /\ q.at = "check"
        /\ config.app # NoRow
        /\ ~RefusedWithSource(q.op, q.kind)
        /\ Goto(r, [q EXCEPT !.at = IF q.op = "createRule" THEN "write"
                                    ELSE "load"])
        /\ UNCHANGED <<tables, history>>

InsertRule(r) ==
    LET q == request[r]
    IN  /\ q.op = "createRule" /\ q.at = "write"
        /\ NewId(rules) \in RuleIds
        /\ rules' = [rules EXCEPT ![NewId(rules)] =
              [dest |-> q.dest, switched |-> q.switched]]
        /\ Finish(r)
        /\ UNCHANGED <<config, destinations, history>>

LoadRule(r) ==
    LET q == request[r]
    IN  /\ q.op = "editRule" /\ q.at = "load"
        /\ rules[q.id] # None
        /\ Goto(r, [q EXCEPT !.at = "write",
                 !.changes = rules[q.id].dest # q.dest])
        /\ UNCHANGED <<tables, history>>

(* The row is written if it leads elsewhere.                               *)
WriteRule(r) ==
    LET q == request[r]
    IN  /\ q.op = "editRule" /\ q.at = "write"
        /\ rules[q.id] # None
        /\ rules' = IF q.changes \/ rules[q.id].dest = q.dest
              THEN [rules EXCEPT ![q.id] =
                      [dest |-> q.dest, switched |-> q.switched]]
              ELSE rules
        /\ Finish(r)
        /\ UNCHANGED <<config, destinations, history>>

RemoveRule(r, i) ==
    /\ request[r] = Idle
    /\ rules[i] # None
    /\ Goto(r, [op |-> "deleteRule", id |-> i])
    /\ UNCHANGED <<tables, history>>

DeleteRule(r) ==
    /\ request[r].op = "deleteRule"
    /\ rules' = [rules EXCEPT ![request[r].id] = None]
    /\ Finish(r)
    /\ UNCHANGED <<config, destinations, history>>

-----------------------------------------------------------------------------
(* A request ends with an error and has written nothing: a check refuses   *)
(* it, a path or a host is not as it should be, a name or label is taken,  *)
(* its row is gone or there already, the database stays locked, or the     *)
(* process is stopped.                                                     *)
Fail(r) ==
    /\ request[r] # Idle
    /\ Finish(r)
    /\ UNCHANGED <<tables, history>>

Settings(r) ==
    \/ \E save \in Saves : PutSettings(r, save) \/ PutSshSource(r, save)
    \/ Probe(r) \/ Load(r) \/ Write(r)

Kinds == {"local", "remote"}

DestinationStep(r) ==
    \/ \E kind \in Kinds : PostDestination(r, kind)
    \/ \E d \in Ids, kind \in Kinds : PutDestination(r, d, kind)
    \/ \E d \in Ids : RemoveDestination(r, d)
    \/ InsertDestination(r) \/ LoadDestination(r)
    \/ WriteDestination(r) \/ DeleteDestination(r)

RuleStep(r) ==
    \/ \E d \in Ids : PostRule(r, d)
    \/ \E i \in RuleIds, d \in Ids : PutRule(r, i, d)
    \/ \E i \in RuleIds : RemoveRule(r, i)
    \/ CheckRule(r) \/ InsertRule(r) \/ LoadRule(r)
    \/ WriteRule(r) \/ DeleteRule(r)

Next == \E r \in Requests : \/ Settings(r) \/ DestinationStep(r)
                            \/ RuleStep(r) \/ Fail(r)

Spec == Init /\ [][Next]_vars

-----------------------------------------------------------------------------
Hosts == {save.updates.host : save \in {s \in Saves : s.section = "source"}}
Given(column) == {s.updates[column] :
                     s \in {t \in Saves : column \in DOMAIN t.updates}}
Values(column) ==
    IF column = "detected"
    THEN [host : Hosts, password : Given("password")] \cup {Empty}
    ELSE Given(column) \cup {Default(column)}

IsRow(row, f) ==
    /\ DOMAIN f = RowColumns(row)
    /\ \A c \in RowColumns(row) : f[c] \in Values(c)

(* The types of the variables: a row has every column, and what was        *)
(* detected was detected with a password.                                  *)
TypeOK ==
    /\ DOMAIN config = {"app", "transmission"}
    /\ \A row \in DOMAIN config :
          config[row] = NoRow \/ IsRow(row, config[row])
    /\ destinations \in [Ids -> Kinds \cup {None}]
    /\ rules \in [RuleIds -> [dest : Ids, switched : BOOLEAN] \cup {None}]
    /\ DOMAIN request = Requests
    /\ \A r \in Requests : request[r].op = "save" =>
          /\ request[r].section \in Sections
          /\ request[r].at \in {"probe", "load", "write"}
          /\ \A c \in DOMAIN request[r].updates :
                request[r].updates[c] \in Values(c)
    /\ DOMAIN saved = Sections
    /\ crossed \in BOOLEAN
    /\ reusable \subseteq Ids

(* README.md:15 says that a remote source and a remote destination do not  *)
(* go together: the settings never hold both, whatever was refused, edited *)
(* or deleted in between, unless the two were being saved at once.         *)
NoRemoteToRemote == ~crossed => ~(SourceIsSsh /\ RemoteExists)

(* The settings are "split by section so each save only touches its own    *)
(* scope" (README.md:115): what was answered stays as it was saved, no     *)
(* matter which other sections are saved at the same time, until the next  *)
(* save of the section.  Two of one section at once may mix their columns. *)
AnsweredSaveStands ==
    \A s \in Sections : saved[s] # None =>
        /\ config[Row(s)] # NoRow
        /\ \A c \in Columns[s] : config[Row(s)][c] = saved[s][c]

(* An SSH source that is stored is one that was reached: at this host and  *)
(* with this password, the one it kept included, are the methods detected  *)
(* that transfers choose from.                                             *)
ReachedAsStored ==
    saved["source"] # None /\ SourceIsSsh =>
        config.app.detected = [host |-> config.app.host,
                               password |-> config.app.password]

(* Nothing removes the rules of a destination that is deleted.  They lead  *)
(* nowhere from then on, and never to another destination, as long as      *)
(* there has always been a destination with their id or a higher one.      *)
RuleKeepsItsDestination ==
    \A i \in Used(rules) :
        rules[i].switched => rules[i].dest \in reusable
=============================================================================
