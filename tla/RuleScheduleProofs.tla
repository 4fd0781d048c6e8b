-------------------------- MODULE RuleScheduleProofs --------------------------
(***************************************************************************)
(* Proofs about RuleSchedule, for any rules, intervals and bounds.         *)
(***************************************************************************)
EXTENDS RuleSchedule, TLAPS

(* The wall clock is behind by what it was set back, at most.              *)
Behind == 0 - Back * count.setbacks

Bounded ==
    /\ rows \in [Rules -> RowType]
    /\ since \in [Rules -> Int \cup {Never}]
    /\ \A r \in Rules : since[r] # Never => since[r] \in Behind .. Longest
    /\ pc \in {"sleep", "cycle"}
    /\ wait \in 0 .. PollSeconds + UnsetWait - Shortest
    /\ elapsed \in Behind .. PollSeconds + 1
    /\ snapshot \in [Rules -> RowType]
    /\ eligible \subseteq Rules
    /\ tried \subseteq eligible
    /\ pc = "sleep" => eligible = {}
    /\ gap \in [Rules -> 0 .. Longest \cup {Never}]
    /\ count \in Counts

LEMMA Products ==
    /\ \A n \in Nat : Back * n \in Nat /\ Back * (n + 1) = Back * n + Back
    /\ Back * MaxSetBacks \in Nat
    /\ \A n \in 0 .. MaxSetBacks : Back * n <= Back * MaxSetBacks
<1>1. Back \in Nat /\ MaxSetBacks \in Nat
  BY ScheduleAssumption
<1>2. \A n \in Nat : Back * n \in Nat /\ Back * (n + 1) = Back * n + Back
  BY <1>1
<1>3. \A n \in 0 .. MaxSetBacks : Back * n <= Back * MaxSetBacks
  <2> SUFFICES ASSUME NEW n \in 0 .. MaxSetBacks
               PROVE  Back * n <= Back * MaxSetBacks
    OBVIOUS
  <2>1. PICK k \in Nat : MaxSetBacks = n + k
    <3>1. MaxSetBacks - n \in Nat /\ MaxSetBacks = n + (MaxSetBacks - n)
      BY <1>1
    <3> QED BY <3>1
  <2>2. Back * (n + k) = Back * n + Back * k
    BY <1>1
  <2>3. Back * k \in Nat /\ Back * n \in Nat
    BY <1>1
  <2> QED BY <2>1, <2>2, <2>3
<1> QED BY <1>1, <1>2, <1>3

LEMMA BehindBounded ==
    ASSUME count \in Counts
    PROVE  /\ Behind \in Int /\ Shortest \in Int
           /\ Shortest <= Behind /\ Behind <= 0
<1>1. count.setbacks \in 0 .. MaxSetBacks /\ count.setbacks \in Nat
  BY ScheduleAssumption DEF Counts
<1>2. /\ Back * count.setbacks \in Nat
      /\ Back * count.setbacks <= Back * MaxSetBacks
      /\ Back * MaxSetBacks \in Nat
  BY <1>1, Products
<1> QED BY <1>2 DEF Behind, Shortest

LEMMA BoundedTypes == Bounded => TypeOK
<1> SUFFICES ASSUME Bounded PROVE TypeOK
  OBVIOUS
<1>1. /\ Behind \in Int /\ Shortest \in Int /\ Shortest <= Behind
      /\ Longest \in Nat /\ PollSeconds \in Nat
  BY BehindBounded, ScheduleAssumption DEF Bounded
<1>2. elapsed \in Shortest .. PollSeconds + 1
  BY <1>1 DEF Bounded
<1>3. ASSUME NEW r \in Rules PROVE since[r] \in Shortest .. Longest \cup {Never}
  <2>1. since[r] # Never => since[r] \in Behind .. Longest
    BY DEF Bounded
  <2> QED BY <1>1, <2>1
<1>4. since \in [Rules -> Shortest .. Longest \cup {Never}]
  BY <1>3 DEF Bounded
<1> QED BY <1>2, <1>4 DEF Bounded, TypeOK

LEMMA InitBounded == Init => Bounded
<1> SUFFICES ASSUME Init PROVE Bounded
  OBVIOUS
<1>1. count \in Counts /\ count.setbacks = 0
  BY ScheduleAssumption DEF Init, Counts
<1>2. /\ Behind \in Int /\ Shortest \in Int /\ Shortest <= Behind
      /\ Behind <= 0
  BY <1>1, BehindBounded
<1>3. /\ wait \in 0 .. PollSeconds + UnsetWait - Shortest
      /\ elapsed \in Behind .. PollSeconds + 1
  BY <1>2, ScheduleAssumption DEF Init
<1> QED BY <1>1, <1>3 DEF Init, Bounded

LEMMA LaterBounded ==
    ASSUME NEW low \in Int, low <= 0, NEW time \in low .. Longest \cup {Never}
    PROVE  /\ Later(time) \in low .. Longest \cup {Never}
           /\ Later(time) = Never <=> time = Never
           /\ time # Never => time <= Later(time)
BY ScheduleAssumption DEF Later

(* A step keeps the types; a sleep is as long as its bound at most.        *)
LEMMA SleepBounded ==
    ASSUME Bounded, NEW time \in Int,
           time <= PollSeconds + UnsetWait - Shortest, Sleep(time)
    PROVE  /\ pc' \in {"sleep", "cycle"}
           /\ wait' \in 0 .. PollSeconds + UnsetWait - Shortest
           /\ UNCHANGED <<elapsed, snapshot>>
           /\ eligible' = {} /\ tried' = {}
<1>1. /\ PollSeconds \in Nat \ {0} /\ UnsetWait \in Nat
      /\ Shortest \in Int /\ Shortest <= 0
  BY BehindBounded, ScheduleAssumption DEF Bounded
<1> QED BY <1>1 DEF Sleep

LEMMA NextBounded == Bounded /\ [Next]_vars => Bounded'
<1> SUFFICES ASSUME Bounded, [Next]_vars PROVE Bounded'
  OBVIOUS
<1>1. /\ Behind \in Int /\ Shortest \in Int /\ Shortest <= Behind
      /\ Behind <= 0
      /\ Longest \in Nat /\ PollSeconds \in Nat \ {0} /\ UnsetWait \in Nat
      /\ Never \notin Int
  BY BehindBounded, ScheduleAssumption DEF Bounded
<1>2. elapsed \in Int /\ Behind <= elapsed
  BY <1>1 DEF Bounded
<1>3. CASE Tick
  <2>1. Behind' = Behind
    BY <1>3 DEF Tick, Behind
  <2>2. ASSUME NEW r \in Rules
        PROVE  /\ since'[r] \in Int \cup {Never}
               /\ since'[r] # Never => since'[r] \in Behind .. Longest
               /\ gap'[r] \in 0 .. Longest \cup {Never}
    <3>1. /\ since[r] \in Behind .. Longest \cup {Never}
          /\ gap[r] \in 0 .. Longest \cup {Never}
      BY DEF Bounded
    <3>2. since'[r] = Later(since[r]) /\ gap'[r] = Later(gap[r])
      BY <1>3 DEF Tick
    <3>3. /\ since'[r] \in Behind .. Longest \cup {Never}
          /\ since'[r] = Never <=> since[r] = Never
      BY <1>1, <3>1, <3>2, LaterBounded
    <3>4. gap'[r] \in 0 .. Longest \cup {Never}
      BY <1>1, <3>1, <3>2 DEF Later
    <3> QED BY <1>1, <3>3, <3>4
  <2>3. wait' \in 0 .. PollSeconds + UnsetWait - Shortest
    BY <1>1, <1>3 DEF Tick, Bounded
  <2>4. elapsed' \in Behind .. PollSeconds + 1
    BY <1>1, <1>2, <1>3 DEF Tick, Bounded
  <2>5. /\ since' \in [Rules -> Int \cup {Never}]
        /\ gap' \in [Rules -> 0 .. Longest \cup {Never}]
    BY <1>3, <2>2 DEF Tick
  <2> QED BY <1>3, <2>1, <2>2, <2>3, <2>4, <2>5 DEF Tick, Bounded
<1>4. CASE NotConfigured
  <2>1. UnsetWait <= PollSeconds + UnsetWait - Shortest
    BY <1>1
  <2> QED BY <1>1, <1>4, <2>1, SleepBounded
          DEF NotConfigured, Bounded, Behind
<1>5. CASE NothingDue
  <2>1. PollSeconds <= PollSeconds + UnsetWait - Shortest
    BY <1>1
  <2> QED BY <1>1, <1>5, <2>1, SleepBounded DEF NothingDue, Bounded, Behind
<1>6. CASE BeginCycle
  <2>1. Behind' = Behind
    BY <1>6 DEF BeginCycle, Behind
  <2>2. elapsed' \in Behind .. PollSeconds + 1
    BY <1>1, <1>6 DEF BeginCycle
  <2> QED BY <1>6, <2>1, <2>2 DEF BeginCycle, Bounded, Wakes
<1>7. ASSUME NEW r \in Rules, Try(r) PROVE Bounded'
  <2>1. Behind' = Behind
    BY <1>7 DEF Try, Behind
  <2>2. gap' \in [Rules -> 0 .. Longest \cup {Never}]
    BY <1>1, <1>7 DEF Try, Bounded
  <2> QED BY <1>7, <2>1, <2>2 DEF Try, Bounded, thread
<1>8. PollSeconds - elapsed \in Int
      /\ PollSeconds - elapsed <= PollSeconds + UnsetWait - Shortest
  BY <1>1, <1>2
<1>9. CASE EndCycle
  <2>1. Behind' = Behind
    BY <1>9 DEF EndCycle, Behind
  <2>2. ASSUME NEW r \in Rules
        PROVE  /\ since'[r] \in Int \cup {Never}
               /\ since'[r] # Never => since'[r] \in Behind .. Longest
    BY <1>1, <1>9 DEF EndCycle, Bounded
  <2>3. since' \in [Rules -> Int \cup {Never}]
    BY <1>9, <2>2 DEF EndCycle
  <2> QED BY <1>8, <1>9, <2>1, <2>2, <2>3, SleepBounded
          DEF EndCycle, Bounded
<1>10. CASE BreakOff
  <2>1. Behind' = Behind
    BY <1>10 DEF BreakOff, Behind
  <2>2. gap' \in [Rules -> 0 .. Longest \cup {Never}]
    BY <1>10 DEF BreakOff, Bounded
  <2> QED BY <1>8, <1>10, <2>1, <2>2, SleepBounded DEF BreakOff, Bounded
<1>11. ASSUME NEW r \in Rules, NEW row \in RowType, SaveRule(r, row)
       PROVE  Bounded'
  <2>1. count' \in Counts /\ count'.setbacks = count.setbacks
    BY <1>11, ScheduleAssumption
       DEF SaveRule, Counted, Counts, Bounded
  <2>2. rows' \in [Rules -> RowType]
    BY <1>11 DEF SaveRule, Bounded
  <2> QED BY <1>11, <2>1, <2>2 DEF SaveRule, Bounded, Behind, thread
<1>12. CASE SetBack
  <2>1. /\ count' \in Counts
        /\ count'.setbacks = count.setbacks + 1 /\ count.setbacks \in Nat
    BY <1>12, ScheduleAssumption DEF SetBack, Counted, Counts, Bounded
  <2>2. Behind' = Behind - Back /\ Back \in Nat
    BY <2>1, Products, ScheduleAssumption DEF Behind
  <2>3. ASSUME NEW r \in Rules
        PROVE  /\ since'[r] \in Int \cup {Never}
               /\ since'[r] # Never => since'[r] \in Behind' .. Longest
    <3>1. since'[r] = IF since[r] = Never THEN Never ELSE since[r] - Back
      BY <1>12 DEF SetBack
    <3>2. since[r] # Never => since[r] \in Behind .. Longest
      BY DEF Bounded
    <3> QED BY <1>1, <2>2, <3>1, <3>2
  <2>4. since' \in [Rules -> Int \cup {Never}]
    BY <1>12, <2>3 DEF SetBack
  <2>5. elapsed' \in Behind' .. PollSeconds + 1
    BY <1>1, <1>12, <2>2 DEF SetBack, Bounded
  <2> QED BY <1>12, <2>1, <2>3, <2>4, <2>5 DEF SetBack, Bounded
<1>13. CASE Restart
  <2>1. count' \in Counts /\ count'.setbacks = count.setbacks
    BY <1>13, ScheduleAssumption DEF Restart, Counted, Counts, Bounded
  <2>2. Behind' = Behind
    BY <2>1 DEF Behind
  <2>3. /\ wait' \in 0 .. PollSeconds + UnsetWait - Shortest
        /\ elapsed' \in Behind .. PollSeconds + 1
    BY <1>1, <1>13 DEF Restart
  <2> QED BY <1>13, <2>1, <2>2, <2>3 DEF Restart, Bounded
<1>14. CASE UNCHANGED vars
  BY <1>14 DEF vars, thread, Bounded, Behind
<1> QED BY <1>3, <1>4, <1>5, <1>6, <1>7, <1>9, <1>10, <1>11, <1>12, <1>13,
           <1>14 DEF Next

(* The poll thread's stamps and sleeps stay in the bounds that its waits   *)
(* and the clock's set-backs give them.                                    *)
THEOREM BoundedHolds == Spec => []Bounded
BY InitBounded, NextBounded, PTL DEF Spec

(* The types of the poll thread's variables, its sleep no longer than the  *)
(* longest wait and all the clock was set back, for any rules and bounds.  *)
THEOREM TypeCorrect == Spec => []TypeOK
BY BoundedHolds, BoundedTypes, PTL

-----------------------------------------------------------------------------
(* A rule that was tried, and is not stamped yet, is one of the cycle; any *)
(* other was stamped after it was tried.  One that is to be tried has      *)
(* rested.                                                                 *)
StampsFollow ==
    /\ \A r \in eligible : snapshot[r].schedule # "manual"
    /\ \A r \in Rules \ tried :
          gap[r] # Never => since[r] # Never /\ since[r] <= gap[r]
    /\ \A r \in eligible \ tried : Rested(r)

LEMMA IntervalType == \A row \in RowType : Interval(row) \in Nat
BY ScheduleAssumption DEF RowType, Interval

LEMMA NextStampsFollow ==
    Bounded /\ StampsFollow /\ [Next]_vars => StampsFollow'
<1> SUFFICES ASSUME Bounded, StampsFollow, [Next]_vars PROVE StampsFollow'
  OBVIOUS
<1>1. /\ Longest \in Nat /\ Never \notin Int /\ Back \in Nat
      /\ \A r \in Rules : /\ since[r] \in Int \cup {Never}
                          /\ since[r] # Never => since[r] <= Longest
                          /\ gap[r] \in 0 .. Longest \cup {Never}
                          /\ Interval(snapshot[r]) \in Nat
                          /\ Interval(rows[r]) \in Nat
  BY IntervalType, ScheduleAssumption, BehindBounded DEF Bounded
<1>2. tried \subseteq eligible /\ eligible \subseteq Rules
  BY DEF Bounded
<1>3. CASE Tick
  <2>1. \A r \in Rules : since'[r] = Later(since[r]) /\ gap'[r] = Later(gap[r])
    BY <1>3 DEF Tick
  <2>2. ASSUME NEW r \in Rules \ tried, gap'[r] # Never
        PROVE  since'[r] # Never /\ since'[r] <= gap'[r]
    BY <1>1, <2>1, <2>2 DEF Later, StampsFollow
  <2>3. ASSUME NEW r \in eligible \ tried PROVE Rested(r)'
    <3>1. Rested(r) /\ r \in Rules /\ snapshot' = snapshot
      BY <1>2, <1>3 DEF StampsFollow, Tick
    <3>2. gap'[r] # Never => gap[r] # Never /\ gap[r] <= gap'[r]
                             /\ gap[r] \in Int /\ gap'[r] \in Int
      BY <1>1, <2>1, <3>1 DEF Later
    <3> QED BY <1>1, <3>1, <3>2 DEF Rested
  <2> QED BY <1>3, <2>2, <2>3 DEF Tick, StampsFollow
<1>4. ASSUME NEW time, Sleep(time), UNCHANGED <<since, gap>>, pc = "sleep"
      PROVE  StampsFollow'
  BY <1>2, <1>4 DEF Sleep, StampsFollow, Bounded
<1>5. CASE NotConfigured \/ NothingDue
  BY <1>4, <1>5 DEF NotConfigured, NothingDue, Wakes
<1>6. CASE BeginCycle
  <2>1. tried = {} /\ UNCHANGED <<since, gap, tried>>
    BY <1>2, <1>6 DEF BeginCycle, Wakes, Bounded
  <2>2. ASSUME NEW r \in eligible'
        PROVE  r \in Rules /\ Due(r) /\ snapshot'[r] = rows[r]
    BY <1>6, <2>2 DEF BeginCycle
  <2>3. ASSUME NEW r \in eligible' PROVE Rested(r)'
    BY <1>1, <2>1, <2>2 DEF Rested, Due, StampsFollow
  <2>4. ASSUME NEW r \in eligible' PROVE snapshot'[r].schedule # "manual"
    BY <2>2 DEF Due
  <2> QED BY <1>6, <2>1, <2>3, <2>4 DEF BeginCycle, StampsFollow
<1>7. ASSUME NEW r \in Rules, Try(r) PROVE StampsFollow'
  <2>1. /\ tried' = tried \cup {r}
        /\ \A s \in Rules \ {r} : gap'[s] = gap[s]
        /\ UNCHANGED <<since, pc, snapshot, eligible>>
    BY <1>7 DEF Try, thread
  <2> QED BY <1>2, <2>1 DEF StampsFollow, Rested
<1>8. CASE EndCycle
  <2>1. /\ tried' = {} /\ eligible' = {} /\ pc' = "sleep" /\ gap' = gap
    BY <1>8 DEF EndCycle, Sleep
  <2>2. ASSUME NEW r \in Rules, gap[r] # Never
        PROVE  since'[r] # Never /\ since'[r] <= gap[r]
    <3>1. since'[r] = IF r \in Stamped THEN 0 ELSE since[r]
      BY <1>8 DEF EndCycle
    <3>2. r \notin Stamped => r \notin tried
      BY <1>2 DEF Stamped, StampsFollow
    <3> QED BY <1>1, <2>2, <3>1, <3>2 DEF StampsFollow
  <2> QED BY <2>1, <2>2 DEF StampsFollow
<1>9. CASE BreakOff
  <2>1. /\ tried' = {} /\ eligible' = {} /\ pc' = "sleep" /\ since' = since
        /\ \A r \in Rules : gap'[r] = IF r \in tried THEN Never ELSE gap[r]
    BY <1>9 DEF BreakOff, Sleep
  <2> QED BY <2>1 DEF StampsFollow
<1>10. ASSUME NEW r \in Rules, NEW row \in RowType, SaveRule(r, row)
       PROVE  StampsFollow'
  BY <1>10 DEF SaveRule, thread, StampsFollow, Rested
<1>11. CASE SetBack
  <2>1. /\ \A r \in Rules : since'[r] = IF since[r] = Never THEN Never
                                        ELSE since[r] - Back
        /\ UNCHANGED <<pc, snapshot, eligible, tried, gap>>
    BY <1>11 DEF SetBack
  <2>2. ASSUME NEW r \in Rules \ tried, gap[r] # Never
        PROVE  since'[r] # Never /\ since'[r] <= gap[r]
    BY <1>1, <2>1, <2>2 DEF StampsFollow
  <2> QED BY <2>1, <2>2 DEF StampsFollow, Rested
<1>12. CASE Restart
  <2>1. /\ tried' = {} /\ eligible' = {} /\ pc' = "sleep"
        /\ \A r \in Rules : gap'[r] = Never
    BY <1>12 DEF Restart
  <2> QED BY <2>1 DEF StampsFollow
<1>13. CASE UNCHANGED vars
  BY <1>13 DEF vars, thread, StampsFollow, Rested
<1> QED BY <1>3, <1>5, <1>6, <1>7, <1>8, <1>9, <1>10, <1>11, <1>12, <1>13
        DEF Next

LEMMA InitStampsFollow == Init => StampsFollow
BY DEF Init, StampsFollow

(* README.md:89, for any rules and intervals, set-backs of the clock, edits *)
(* and restarts: what the poll tries of an interval rule has rested for    *)
(* the interval since the poll last tried it in a cycle that ended.        *)
THEOREM GapKeptHolds == Spec => GapKept
<1>1. Bounded /\ StampsFollow /\ [Next]_vars
         => [\A r \in tried' \ tried : Rested(r)]_vars
  <2> SUFFICES ASSUME Bounded, StampsFollow, [Next]_vars,
                      NEW r \in tried' \ tried
               PROVE  Rested(r)
    OBVIOUS
  <2>1. r \in eligible
    <3>1. CASE \E s \in Rules : Try(s)
      BY <3>1 DEF Try
    <3>2. ASSUME ~\E s \in Rules : Try(s) PROVE FALSE
      BY <3>2 DEF Next, Tick, NotConfigured, NothingDue, BeginCycle,
           EndCycle, BreakOff, SaveRule, SetBack, Restart, Sleep, vars
    <3> QED BY <3>1, <3>2
  <2> QED BY <2>1 DEF StampsFollow
<1>2. Bounded /\ StampsFollow /\ [Next]_vars => StampsFollow'
  BY NextStampsFollow
<1> QED BY <1>1, <1>2, InitStampsFollow, BoundedHolds, PTL DEF Spec, GapKept
=============================================================================
