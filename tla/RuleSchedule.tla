---------------------------- MODULE RuleSchedule ----------------------------
(***************************************************************************)
(* app/worker.py: when the poll thread runs which rules.  _run_loop wakes, *)
(* _run_cycle takes the rules that are due by _last_rule_run_at, tries     *)
(* their torrents and, when it comes to its end, stamps them.  Time goes   *)
(* in ticks; what is kept of a stamp is the time since, up to the longest  *)
(* interval.  MoveWorker leaves open which interval rules are due.         *)
(***************************************************************************)
EXTENDS Integers

CONSTANTS
    Rules,          \* ids of the enabled LabelRule rows
    Schedules,      \* what transfer_schedule may be set to
    Intervals,      \* what transfer_interval_seconds may be set to
    PollSeconds,    \* POLL_SECONDS, at least 1
    MinInterval,    \* the shortest interval in force (10 s)
    Longest,        \* bound on the times kept, as long as any interval
    UnsetWait,      \* the wait while Transmission is not set up (30 s)
    Back,           \* seconds by which the wall clock is set back
    MaxSetBacks,    \* bound on how often it is
    MaxRestarts,    \* bound on process restarts
    MaxEdits,       \* bound on changes of rules
    Never

RowType == [schedule : Schedules, interval : Intervals]

(* transfer_interval_seconds in force; 0 counts as not set.                *)
Interval(row) ==
    LET set == IF row.interval = 0 THEN PollSeconds ELSE row.interval
    IN  IF set < MinInterval THEN MinInterval ELSE set

ASSUME ScheduleAssumption ==
    /\ Schedules \subseteq {"auto", "interval", "manual"}
    /\ Intervals \subseteq Nat
    /\ PollSeconds \in Nat \ {0} /\ MinInterval \in Nat /\ UnsetWait \in Nat
    /\ Longest \in Nat /\ Longest >= MinInterval /\ Longest >= PollSeconds
    /\ \A row \in RowType : Interval(row) <= Longest
    /\ Back \in Nat /\ MaxSetBacks \in Nat
    /\ MaxRestarts \in Nat /\ MaxEdits \in Nat /\ Never \notin Int

VARIABLES
    rows,       \* the LabelRule table
    since,      \* wall-clock time since each rule's _last_rule_run_at
    pc,         \* of the poll thread: "sleep" or "cycle"
    wait,       \* what is left of its sleep
    elapsed,    \* wall-clock time since it woke
    snapshot,   \* the cycle's label_to_rule
    eligible,   \* the cycle's eligible_labels, by their rules
    tried,      \* rules whose torrents the cycle has tried
    gap,        \* true time since the poll tried each rule's torrents, unless
                \* that cycle was broken off or its process is gone
    count       \* set-backs, restarts and edits so far

thread == <<pc, wait, elapsed, snapshot, eligible>>
vars == <<rows, since, thread, tried, gap, count>>

Counts == [setbacks : 0 .. MaxSetBacks, restarts : 0 .. MaxRestarts,
           edits : 0 .. MaxEdits]

Init ==
    /\ rows \in [Rules -> RowType]
    /\ since = [r \in Rules |-> Never]
    /\ pc = "sleep" /\ wait = 0 /\ elapsed = 0
    /\ snapshot = rows /\ eligible = {}
    /\ tried = {}
    /\ gap = [r \in Rules |-> Never]
    /\ count = [setbacks |-> 0, restarts |-> 0, edits |-> 0]

-----------------------------------------------------------------------------
Later(time) == IF time = Never THEN Never
               ELSE IF time < Longest THEN time + 1 ELSE Longest

(* A second passes.                                                        *)
Tick ==
    /\ since' = [r \in Rules |-> Later(since[r])]
    /\ gap' = [r \in Rules |-> Later(gap[r])]
    /\ wait' = IF wait = 0 THEN 0 ELSE wait - 1
    /\ elapsed' = IF elapsed <= PollSeconds THEN elapsed + 1 ELSE elapsed
    /\ UNCHANGED <<rows, pc, snapshot, eligible, tried, count>>

(* Wrong: the interval is compared with the wrong sign.                    *)
DueEarly(r) ==
    \/ rows[r].schedule = "auto"
    \/ /\ rows[r].schedule = "interval"
       /\ since[r] # Never => since[r] <= Interval(rows[r])

(* The rule goes into eligible_labels.                                     *)
Due(r) ==
    \/ rows[r].schedule = "auto"
    \/ /\ rows[r].schedule = "interval"
       /\ since[r] # Never => since[r] >= Interval(rows[r])

(* Wrong: a cycle longer than the poll's time leaves a negative sleep.     *)
SleepUnclamped(time) ==
    /\ pc' = "sleep"
    /\ wait' = time
    /\ UNCHANGED <<elapsed, snapshot>>
    /\ eligible' = {}
    /\ tried' = {}

(* To the end of the poll's time, but a second at least.                   *)
Sleep(time) ==
    /\ pc' = "sleep"
    /\ wait' = IF time < 1 THEN 1 ELSE time
    /\ UNCHANGED <<elapsed, snapshot>>
    /\ eligible' = {}
    /\ tried' = {}

Wakes == pc = "sleep" /\ wait = 0

(* No Transmission settings: look again later.                             *)
NotConfigured ==
    /\ Wakes
    /\ Sleep(UnsetWait)
    /\ UNCHANGED <<rows, since, gap, count>>

NothingDue ==
    /\ Wakes
    /\ \A r \in Rules : ~Due(r)
    /\ Sleep(PollSeconds)
    /\ UNCHANGED <<rows, since, gap, count>>

BeginCycle ==
    /\ Wakes
    /\ \E r \in Rules : Due(r)
    /\ pc' = "cycle"
    /\ elapsed' = 0
    /\ snapshot' = rows
    /\ eligible' = {r \in Rules : Due(r)}
    /\ UNCHANGED <<rows, since, wait, tried, gap, count>>

(* A torrent of the rule is transferred, or the try fails.                 *)
Try(r) ==
    /\ pc = "cycle"
    /\ r \in eligible \ tried
    /\ tried' = tried \cup {r}
    /\ gap' = [gap EXCEPT ![r] = 0]
    /\ UNCHANGED <<rows, since, thread, count>>

(* Wrong: every rule of the cycle is stamped, due or not.                  *)
StampedAll == {r \in Rules : snapshot[r].schedule # "manual"}

(* The rules the end of a cycle stamps.                                    *)
Stamped == {r \in eligible : snapshot[r].schedule # "manual"}

EndCycle ==
    /\ pc = "cycle"
    /\ since' = [r \in Rules |-> IF r \in Stamped THEN 0 ELSE since[r]]
    /\ Sleep(PollSeconds - elapsed)
    /\ UNCHANGED <<rows, gap, count>>

(* The torrent list cannot be had, or an exception ends a cycle that runs  *)
(* its torrents itself: no rule is stamped.                                *)
BreakOff ==
    /\ pc = "cycle"
    /\ gap' = [r \in Rules |-> IF r \in tried THEN Never ELSE gap[r]]
    /\ Sleep(PollSeconds - elapsed)
    /\ UNCHANGED <<rows, since, count>>

-----------------------------------------------------------------------------
Counted(what, max) ==
    count[what] < max /\ count' = [count EXCEPT ![what] = @ + 1]

SaveRule(r, row) ==
    /\ Counted("edits", MaxEdits)
    /\ rows' = [rows EXCEPT ![r] = row]
    /\ UNCHANGED <<since, thread, tried, gap>>

(* time.time() is the wall clock, which may be set back.                   *)
SetBack ==
    /\ Counted("setbacks", MaxSetBacks)
    /\ since' = [r \in Rules |-> IF since[r] = Never THEN Never
                                ELSE since[r] - Back]
    /\ elapsed' = elapsed - Back
    /\ UNCHANGED <<rows, pc, wait, snapshot, eligible, tried, gap>>

(* The stamps are in memory only.                                          *)
Restart ==
    /\ Counted("restarts", MaxRestarts)
    /\ since' = [r \in Rules |-> Never]
    /\ pc' = "sleep" /\ wait' = 0 /\ elapsed' = 0
    /\ snapshot' = rows /\ eligible' = {}
    /\ tried' = {}
    /\ gap' = [r \in Rules |-> Never]
    /\ UNCHANGED rows

Next ==
    \/ Tick \/ NotConfigured \/ NothingDue \/ BeginCycle
    \/ \E r \in Rules : Try(r)
    \/ EndCycle \/ BreakOff
    \/ \E r \in Rules, row \in RowType : SaveRule(r, row)
    \/ SetBack \/ Restart

Spec == Init /\ [][Next]_vars

(* Time passes, a transfer ends, the thread wakes, and neither settings   *)
(* nor torrent list are missing for ever.                                  *)
Fairness ==
    /\ WF_vars(Tick) /\ WF_vars(NothingDue) /\ SF_vars(BeginCycle)
    /\ \A r \in Rules : SF_vars(Try(r))
    /\ WF_vars(EndCycle)

FairSpec == Spec /\ Fairness

-----------------------------------------------------------------------------
(* Properties.                                                             *)

(* The values the variables may have.                                      *)
Shortest == 0 - Back * MaxSetBacks
TypeOK ==
    /\ rows \in [Rules -> RowType]
    /\ since \in [Rules -> Shortest .. Longest \cup {Never}]
    /\ pc \in {"sleep", "cycle"}
    /\ wait \in 0 .. PollSeconds + UnsetWait - Shortest
    /\ elapsed \in Shortest .. PollSeconds + 1
    /\ snapshot \in [Rules -> RowType]
    /\ eligible \subseteq Rules
    /\ tried \subseteq eligible
    /\ gap \in [Rules -> 0 .. Longest \cup {Never}]
    /\ count \in Counts

(* README.md:89: interval is a "minimum gap between attempts per torrent". *)
(* Between two tries by the poll of a rule it has as an interval rule that *)
(* time has passed, whatever schedule the rule had at the first one, as    *)
(* long as that one's cycle came to its end, in the same process.          *)
Rested(r) == snapshot[r].schedule = "interval" /\ gap[r] # Never
             => gap[r] >= Interval(snapshot[r])
GapKept == [][\A r \in tried' \ tried : Rested(r)]_vars

(* An interval rule comes to its turn again and again, whatever other      *)
(* rules run in between, cycles broken off and clocks set back.            *)
IntervalRuns ==
    \A r \in Rules :
        <>[](rows[r].schedule = "interval") => []<>(r \in tried)
=============================================================================
