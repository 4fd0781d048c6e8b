----------------------------- MODULE AccessProofs -----------------------------
(***************************************************************************)
(* Proofs about Access, for any threads, passwords, times and limits.      *)
(***************************************************************************)
EXTENDS Access, WellFoundedInduction, TLAPS

Age == 0 .. CacheTTL * Sec + 1

(* Credentials and cache: a cache that says there are none is older than   *)
(* they are.                                                               *)
Entry ==
    /\ creds \in 0 .. Passwords
    /\ sinceSet \in Age
    /\ cache \in [age : Age, set : BOOLEAN]
    /\ creds # 0 /\ ~cache.set => cache.age >= sinceSet

(* The limiter: a lockout outlasts what a client was told by less than a   *)
(* second, until another client's failure sets a new one.                  *)
Limits ==
    /\ fails \in Nat
    /\ login \in [Logins -> LoginType]
    /\ lock \in Int \cup {Never}
    /\ told \in [Logins -> Int \cup {Never}]
    /\ \A l \in Logins \ outdone :
           told[l] # Never /\ lock # Never /\ told[l] >= 0 =>
               lock < told[l] + Sec

-----------------------------------------------------------------------------
(* Powers of two.                                                          *)
LEMMA OnNat ==
    ASSUME NEW S, S \subseteq Nat, 0 \in S, \A n \in S : n + 1 \in S
    PROVE  S = Nat
<1> DEFINE R == OpToRel(<, Nat)
           T == Nat \ S
<1>1. SUFFICES ASSUME T # {} PROVE FALSE
  OBVIOUS
<1>2. IsWellFoundedOn(R, Nat)
  BY NatLessThanWellFounded
<1>3. PICK n \in T : \A m \in T : <<m, n>> \notin R
  <2> HIDE DEF R
  <2> QED BY <1>1, <1>2, WFMin
<1> HIDE DEF R
<1>4. n \in Nat /\ n # 0 /\ n - 1 \in Nat /\ n - 1 < n
  OBVIOUS
<1>5. <<n - 1, n>> \in R
  BY <1>4 DEF OpToRel, R
<1>6. n - 1 \in S
  BY <1>3, <1>4, <1>5
<1>7. (n - 1) + 1 = n
  BY <1>4
<1> QED BY <1>3, <1>6, <1>7

Starts(n) == {g \in [0 .. n -> Nat] :
                 g[0] = 1 /\ \A k \in 1 .. n : g[k] = 2 * g[k - 1]}

LEMMA StartsExist == \A n \in Nat : Starts(n) # {}
<1> DEFINE S == {n \in Nat : Starts(n) # {}}
<1>1. 0 \in S
  <2>1. [k \in 0 .. 0 |-> 1] \in Starts(0)
    BY DEF Starts
  <2> QED BY <2>1
<1>2. ASSUME NEW n \in S PROVE n + 1 \in S
  <2>1. PICK g : g \in Starts(n)
    OBVIOUS
  <2> DEFINE h == [k \in 0 .. n + 1 |-> IF k = n + 1 THEN 2 * g[n] ELSE g[k]]
  <2>2. n \in Nat /\ g \in [0 .. n -> Nat] /\ g[0] = 1
        /\ \A k \in 1 .. n : g[k] = 2 * g[k - 1]
    BY <2>1 DEF Starts
  <2>3. h \in [0 .. n + 1 -> Nat] /\ h[0] = 1
    BY <2>2
  <2>4. ASSUME NEW k \in 1 .. n + 1 PROVE h[k] = 2 * h[k - 1]
    BY <2>2
  <2> HIDE DEF h
  <2>5. h \in Starts(n + 1)
    BY <2>3, <2>4 DEF Starts
  <2> QED BY <2>2, <2>5
<1> HIDE DEF S
<1>3. S = Nat
  BY <1>1, <1>2, OnNat DEF S
<1> QED BY <1>3 DEF S

LEMMA StartsAgree ==
    \A k, n, m \in Nat : k <= n /\ k <= m =>
        \A g \in Starts(n), h \in Starts(m) : g[k] = h[k]
<1> DEFINE S == {k \in Nat : \A n, m \in Nat : k <= n /\ k <= m =>
                    \A g \in Starts(n), h \in Starts(m) : g[k] = h[k]}
<1>1. 0 \in S
  BY DEF Starts
<1>2. ASSUME NEW k \in S PROVE k + 1 \in S
  <2> SUFFICES ASSUME NEW n \in Nat, NEW m \in Nat, k + 1 <= n, k + 1 <= m,
                      NEW g \in Starts(n), NEW h \in Starts(m)
               PROVE  g[k + 1] = h[k + 1]
    OBVIOUS
  <2>1. k \in Nat /\ k <= n /\ k <= m /\ k + 1 \in 1 .. n /\ k + 1 \in 1 .. m
        /\ (k + 1) - 1 = k
    OBVIOUS
  <2>2. g[k] = h[k]
    BY <2>1
  <2>3. g[k + 1] = 2 * g[k] /\ h[k + 1] = 2 * h[k]
    BY <2>1 DEF Starts
  <2> QED BY <2>2, <2>3
<1> HIDE DEF S
<1>3. S = Nat
  BY <1>1, <1>2, OnNat DEF S
<1> QED BY <1>3 DEF S

LEMMA DoubledIs ==
    Doubled = [n \in Nat |-> IF n = 0 THEN 1 ELSE 2 * Doubled[n - 1]]
<1> DEFINE Pick(n) == CHOOSE g : g \in Starts(n)
           f == [n \in Nat |-> Pick(n)[n]]
<1>1. \A n \in Nat : Pick(n) \in Starts(n)
  BY StartsExist
<1> HIDE DEF Pick
<1>2. ASSUME NEW n \in Nat PROVE f[n] = IF n = 0 THEN 1 ELSE 2 * f[n - 1]
  <2>1. CASE n = 0
    BY <1>1, <2>1 DEF Starts
  <2>2. CASE n # 0
    <3>1. n - 1 \in Nat /\ n - 1 <= n /\ n \in 1 .. n
      BY <2>2
    <3>2. Pick(n)[n] = 2 * Pick(n)[n - 1]
      BY <1>1, <3>1 DEF Starts
    <3>3. Pick(n)[n - 1] = Pick(n - 1)[n - 1]
      BY <1>1, <3>1, StartsAgree
    <3> QED BY <2>2, <3>1, <3>2, <3>3
  <2> QED BY <2>1, <2>2
<1>3. f = [n \in Nat |-> IF n = 0 THEN 1 ELSE 2 * f[n - 1]]
  BY <1>2
<1> HIDE DEF f
<1> QED BY <1>3, Zenon DEF Doubled

LEMMA Doubles ==
    /\ Doubled[0] = 1
    /\ \A n \in Nat : /\ Doubled[n] \in Nat \ {0}
                      /\ Doubled[n + 1] = 2 * Doubled[n]
<1> DEFINE D == Doubled
           S == {n \in Nat : Doubled[n] \in Nat \ {0}}
<1>1. D = [n \in Nat |-> IF n = 0 THEN 1 ELSE 2 * D[n - 1]]
  BY DoubledIs
<1> HIDE DEF D
<1>2. D[0] = 1 /\ \A n \in Nat : D[n + 1] = 2 * D[n]
  BY <1>1
<1>3. \A n \in S : n + 1 \in S
  BY <1>2 DEF D
<1>4. 0 \in S
  BY <1>2 DEF D
<1> HIDE DEF S
<1>5. S = Nat
  BY <1>3, <1>4, OnNat DEF S
<1> QED BY <1>2, <1>5 DEF D, S

-----------------------------------------------------------------------------
LEMMA Products ==
    /\ CacheTTL * Sec \in Nat
    /\ CacheTTL * Sec + 1 \in Age /\ 0 \in Age
    /\ Age \subseteq Nat
<1>1. CacheTTL * Sec \in Nat
  BY AccessAssumption
<1> DEFINE c == CacheTTL * Sec
<1>2. c \in Nat
  BY <1>1
<1> HIDE DEF c
<1>3. c + 1 \in 0 .. c + 1 /\ 0 \in 0 .. c + 1 /\ 0 .. c + 1 \subseteq Nat
  BY <1>2
<1> QED BY <1>1, <1>3 DEF c, Age

LEMMA Empty ==
    /\ EmptyCache \in [age : Age, set : BOOLEAN]
    /\ \A a \in Age : EmptyCache.age >= a
<1> DEFINE c == CacheTTL * Sec
<1>1. c \in Nat /\ c + 1 \in Age /\ Age = 0 .. c + 1
  BY Products DEF Age
<1>2. EmptyCache = [age |-> c + 1, set |-> FALSE]
  BY DEF EmptyCache
<1> HIDE DEF c
<1> QED BY <1>1, <1>2

LEMMA IdleType == 0 \in 0 .. Passwords /\ IdleLogin \in LoginType
BY AccessAssumption DEF IdleLogin, LoginType

LEMMA Constants == Never \notin Int /\ Sec \in Nat \ {0}
BY AccessAssumption

LEMMA InitEntry ==
    ASSUME Init
    PROVE  Entry
<1>1. creds \in 0 .. Passwords /\ sinceSet \in Age
  BY AccessAssumption, Products DEF Init
<1>2. cache \in [age : Age, set : BOOLEAN] /\ cache.age >= sinceSet
  BY <1>1, Empty DEF Init
<1> QED BY <1>1, <1>2 DEF Entry

LEMMA InitLimits ==
    ASSUME Init
    PROVE  Limits
<1>1. login \in [Logins -> LoginType]
  BY IdleType DEF Init
<1> QED BY <1>1 DEF Init, Limits

-----------------------------------------------------------------------------
(* Credentials and cache.                                                  *)
LEMMA TickEntry ==
    ASSUME Entry, Tick
    PROVE  Entry'
<1> DEFINE c == CacheTTL * Sec + 1
<1>1. c \in Nat /\ Age = 0 .. c /\ Never \notin Int
  BY Products, Constants DEF Age
<1>2. creds' = creds /\ sinceSet' = After(sinceSet, c)
  BY DEF Tick
<1>3. cache' = [cache EXCEPT !.age = After(cache.age, c)]
  BY DEF Tick
<1> HIDE DEF c
<1>4. \A a \in Age : After(a, c) = IF a < c THEN a + 1 ELSE a
  BY <1>1 DEF After
<1>5. sinceSet' \in Age /\ After(cache.age, c) \in Age
  BY <1>1, <1>2, <1>4 DEF Entry
<1>6. /\ cache' \in [age : Age, set : BOOLEAN]
      /\ cache'.set = cache.set /\ cache'.age = After(cache.age, c)
  BY <1>3, <1>5 DEF Entry
<1>7. cache.age >= sinceSet => After(cache.age, c) >= After(sinceSet, c)
  BY <1>1, <1>4 DEF Entry
<1> QED BY <1>2, <1>5, <1>6, <1>7 DEF Entry

LEMMA LookedUpIs ==
    ASSUME Entry
    PROVE  /\ LookedUp \in [age : Age, set : BOOLEAN]
           /\ creds # 0 /\ ~LookedUp.set => LookedUp.age >= sinceSet
<1>1. CASE cache.age > CacheTTL * Sec
  BY <1>1, Products DEF LookedUp
<1>2. CASE ~(cache.age > CacheTTL * Sec)
  BY <1>2 DEF LookedUp, Entry
<1> QED BY <1>1, <1>2

LEMMA AdminEntry ==
    ASSUME Entry, NEW a \in Admins, AdminStep(a)
    PROVE  Entry'
<1>1. CASE Admit(a)
  BY <1>1, LookedUpIs DEF Admit, Entry
<1>2. CASE WriteCredentials(a)
  <2>1. creds' \in 0 .. Passwords /\ cache' = cache
        /\ sinceSet' = (IF creds = 0 THEN 0 ELSE sinceSet)
    BY <1>2, AccessAssumption DEF WriteCredentials, Entry
  <2>2. cache.age \in Age /\ \A n \in Nat : n >= 0
    BY DEF Entry
  <2>3. 0 \in Age /\ cache.age >= 0
    BY <2>2, Products
  <2> QED BY <2>1, <2>3 DEF Entry
<1>3. CASE BeginChange(a) \/ BeginSetup(a) \/ Answer(a)
  BY <1>3 DEF BeginChange, BeginSetup, Answer, Entry
<1> QED BY <1>1, <1>2, <1>3 DEF AdminStep

LEMMA RestartEntry ==
    ASSUME Entry, Restart
    PROVE  Entry'
<1>1. creds' \in 0 .. Passwords /\ sinceSet' \in Age
  BY AccessAssumption, Products DEF Restart, Entry
<1>2. /\ cache' \in [age : Age, set : BOOLEAN]
      /\ cache'.age >= sinceSet'
  BY <1>1, Empty DEF Restart
<1> QED BY <1>1, <1>2 DEF Entry

LEMMA NextEntry ==
    ASSUME Entry, [Next]_vars
    PROVE  Entry'
<1>1. ASSUME NEW l \in Logins, LoginStep(l) PROVE Entry'
  BY <1>1 DEF LoginStep, Look, Refuse, Pass, Succeed, Count, Punish, Entry
<1>2. CASE EndSession \/ UNCHANGED vars
  BY <1>2 DEF EndSession, vars, Entry
<1> QED BY <1>1, <1>2, TickEntry, AdminEntry, RestartEntry DEF Next

-----------------------------------------------------------------------------
(* The limiter.                                                            *)
LEMMA TickLimits ==
    ASSUME Limits, Tick
    PROVE  Limits'
<1>1. /\ lock' = Before(lock) /\ UNCHANGED <<fails, login, outdone>>
      /\ told' = [l \in Logins |-> Before(told[l])]
  BY DEF Tick
<1>2. lock' \in Int \cup {Never} /\ told' \in [Logins -> Int \cup {Never}]
  BY <1>1, Constants DEF Limits, Before
<1>3. ASSUME NEW l \in Logins \ outdone,
             told'[l] # Never, lock' # Never, told'[l] >= 0
      PROVE  lock' < told'[l] + Sec
  <2>1. told[l] # Never /\ lock # Never /\ told[l] \in Int /\ lock \in Int
    BY <1>1, <1>3, Constants DEF Limits, Before
  <2>2. /\ told'[l] = (IF told[l] = 0 THEN told[l] ELSE told[l] - 1)
        /\ lock' = (IF lock = 0 THEN lock ELSE lock - 1)
    BY <1>1, <2>1 DEF Before
  <2>3. told[l] >= 0 => lock < told[l] + Sec
    BY <2>1 DEF Limits
  <2> QED BY <1>3, <2>1, <2>2, <2>3, Constants
<1> QED BY <1>1, <1>2, <1>3 DEF Limits

LEMMA LookLimits ==
    ASSUME Limits, NEW l \in Logins, NEW guess \in 0 .. Passwords,
           Look(l, guess)
    PROVE  Limits'
<1> DEFINE over == lock = 0
           q == [IdleLogin EXCEPT !.pc = "looked", !.guess = guess,
                                  !.expired = over]
<1>1. over \in BOOLEAN
  OBVIOUS
<1>2. /\ login' = [login EXCEPT ![l] = q] /\ UNCHANGED <<fails, lock>>
      /\ told' = [told EXCEPT ![l] = Never] /\ outdone' = outdone \ {l}
  BY DEF Look, limiter
<1> HIDE DEF over
<1>3. q \in LoginType
  BY <1>1, IdleType DEF LoginType
<1> HIDE DEF q
<1> QED BY <1>2, <1>3 DEF Limits

LEMMA SeenIs ==
    ASSUME Limits, NEW l \in Logins
    PROVE  LockSeen(l) = Never \/ LockSeen(l) = lock
BY DEF LockSeen

LEMMA RefuseLimits ==
    ASSUME Limits, NEW l \in Logins, Refuse(l)
    PROVE  Limits'
<1> DEFINE s == LockSeen(l)
           w == (s \div Sec) * Sec
<1>1. s # Never
  BY DEF Refuse, Allowed
<1>2. s \in Int /\ Sec \in Nat \ {0}
  BY <1>1, SeenIs, Constants DEF Limits
<1>3. /\ lock' = s /\ told' = [told EXCEPT ![l] = w]
      /\ UNCHANGED <<fails, outdone>>
      /\ login' = [login EXCEPT ![l] = IdleLogin]
  BY DEF Refuse
<1>4. s = lock
  BY <1>1, SeenIs
<1> HIDE DEF s
<1>5. w \in Int /\ s < w + Sec
  BY <1>2
<1> HIDE DEF w
<1>6. login' \in [Logins -> LoginType]
  BY <1>3, IdleType DEF Limits
<1>7. \A k \in Logins : told'[k] = IF k = l THEN w ELSE told[k]
  BY <1>3 DEF Limits
<1> QED BY <1>2, <1>3, <1>4, <1>5, <1>6, <1>7 DEF Limits

LEMMA PassLimits ==
    ASSUME Limits, NEW l \in Logins, Pass(l), Entry
    PROVE  Limits'
<1> DEFINE known == creds
           q == [login[l] EXCEPT !.pc = "comparing", !.known = known]
<1>1. lock' = LockSeen(l) /\ UNCHANGED <<fails, told, outdone>>
  BY DEF Pass
<1>2. login' = [login EXCEPT ![l] = IF creds = 0 THEN IdleLogin ELSE q]
  BY DEF Pass, Limits
<1>3. known \in 0 .. Passwords
  BY DEF Entry
<1> HIDE DEF known
<1>4. q \in LoginType
  BY <1>3 DEF Limits, LoginType
<1> HIDE DEF q
<1>5. login' \in [Logins -> LoginType]
  BY <1>2, <1>4, IdleType DEF Limits
<1> QED BY <1>1, <1>5, SeenIs DEF Limits

LEMMA SucceedLimits ==
    ASSUME Limits, NEW l \in Logins, Succeed(l)
    PROVE  Limits'
BY IdleType DEF Succeed, Limits

LEMMA CountLimits ==
    ASSUME Limits, NEW l \in Logins, Count(l)
    PROVE  Limits'
<1> DEFINE streak == IF Forgotten THEN 0 ELSE fails
           q == [login[l] EXCEPT !.pc = "counting", !.streak = streak]
<1>1. streak \in Nat
  BY DEF Limits
<1>2. fails' = streak /\ UNCHANGED <<lock, told, outdone>>
      /\ login' = [login EXCEPT ![l] = q]
  BY DEF Count, Limits
<1> HIDE DEF streak
<1>3. q \in LoginType
  BY <1>1 DEF Limits, LoginType
<1> HIDE DEF q
<1> QED BY <1>1, <1>2, <1>3 DEF Limits

(* A lockout is no longer than the longest, and no longer than twice the   *)
(* one before, of which the first is Base.                                 *)
LEMMA LockoutIs ==
    ASSUME NEW n \in Nat, n > MaxAttempts
    PROVE  /\ Lockout(n) \in 0 .. MaxLockout
           /\ Lockout(n + 1) <= 2 * Lockout(n)
           /\ n = MaxAttempts + 1 => Lockout(n) <= Base
<1> DEFINE k == n - MaxAttempts - 1
           D == Doubled
<1>1. /\ k \in Nat /\ (n + 1) - MaxAttempts - 1 = k + 1
      /\ n = MaxAttempts + 1 => k = 0
      /\ Base \in Nat /\ MaxLockout \in Nat
  BY AccessAssumption
<1> HIDE DEF k, D
<1>2. D[k] \in Nat /\ D[k + 1] = 2 * D[k] /\ D[0] = 1
  BY <1>1, Doubles DEF D
<1> DEFINE s == Base * D[k]
<1>3. s \in Nat /\ Base * D[k + 1] = 2 * s /\ (k = 0 => s = Base)
  BY <1>1, <1>2
<1>4. /\ Lockout(n) = IF s < MaxLockout THEN s ELSE MaxLockout
      /\ Lockout(n + 1) = IF 2 * s < MaxLockout THEN 2 * s ELSE MaxLockout
  BY <1>1, <1>3 DEF Lockout, k, D
<1> HIDE DEF s
<1> QED BY <1>1, <1>3, <1>4

LEMMA TimesSec ==
    /\ \A m \in Nat : m * Sec \in Nat
    /\ \A m, n \in Nat : m <= n => m * Sec <= n * Sec
<1>1. Sec \in Nat
  BY AccessAssumption
<1>2. ASSUME NEW m \in Nat, NEW n \in Nat, m <= n PROVE m * Sec <= n * Sec
  <2>1. n - m \in Nat /\ n = m + (n - m)
    BY <1>2
  <2> DEFINE k == n - m
  <2>2. (m + k) * Sec = m * Sec + k * Sec /\ k * Sec \in Nat /\ m * Sec \in Nat
    BY <1>1, <2>1
  <2> HIDE DEF k
  <2>3. n = m + k
    BY <2>1 DEF k
  <2> QED BY <2>2, <2>3
<1> QED BY <1>1, <1>2

LEMMA LockedFor ==
    ASSUME NEW n \in Nat, n > MaxAttempts
    PROVE  Lockout(n) * Sec \in 0 .. MaxLockout * Sec
<1>1. Lockout(n) \in Nat /\ MaxLockout \in Nat /\ Lockout(n) <= MaxLockout
  BY LockoutIs, AccessAssumption
<1> QED BY <1>1, TimesSec

LEMMA PunishLimits ==
    ASSUME Limits, NEW l \in Logins, Punish(l)
    PROVE  Limits'
<1> DEFINE n == login[l].streak + 1
           time == Lockout(n) * Sec
<1>1. n \in Nat
  BY DEF Limits, LoginType
<1>2. /\ fails' = n /\ login' = [login EXCEPT ![l] = IdleLogin]
      /\ \/ /\ n > MaxAttempts
            /\ lock' = time /\ told' = [told EXCEPT ![l] = time]
            /\ outdone' = {k \in Logins : told[k] # Never}
         \/ UNCHANGED <<lock, told, outdone>>
  BY DEF Punish
<1> HIDE DEF n
<1>3. n > MaxAttempts => time \in Int
  BY <1>1, LockedFor
<1> HIDE DEF time
<1>4. login' \in [Logins -> LoginType]
  BY <1>2, IdleType DEF Limits
<1>5. time \in Int => time < time + Sec
  BY Constants
<1> QED BY <1>1, <1>2, <1>3, <1>4, <1>5 DEF Limits

LEMMA RestartLimits ==
    ASSUME Limits, Restart
    PROVE  Limits'
<1>1. login' \in [Logins -> LoginType]
  BY IdleType DEF Restart
<1> QED BY <1>1 DEF Restart, Limits

LEMMA NextLimits ==
    ASSUME Entry, Limits, [Next]_vars
    PROVE  Limits'
<1>1. ASSUME NEW l \in Logins, LoginStep(l) PROVE Limits'
  BY <1>1, LookLimits, RefuseLimits, PassLimits, SucceedLimits, CountLimits,
     PunishLimits DEF LoginStep
<1>2. ASSUME NEW a \in Admins, AdminStep(a) PROVE Limits'
  BY <1>2 DEF AdminStep, Admit, BeginChange, BeginSetup, WriteCredentials,
              Answer, limiter, Limits
<1>3. CASE EndSession \/ UNCHANGED vars
  BY <1>3 DEF EndSession, vars, limiter, Limits
<1> QED BY <1>1, <1>2, <1>3, TickLimits, RestartLimits DEF Next

-----------------------------------------------------------------------------
(* Types.                                                                  *)
LEMMA InitTypes ==
    ASSUME Init
    PROVE  TypeOK
<1>1. /\ creds \in 0 .. Passwords /\ sinceSet \in Age
      /\ cache \in [age : Age, set : BOOLEAN]
  BY InitEntry DEF Entry
<1>2. login \in [Logins -> LoginType]
  BY IdleType DEF Init
<1>3. restarts \in 0 .. MaxRestarts
  BY AccessAssumption DEF Init
<1> QED BY <1>1, <1>2, <1>3 DEF Init, TypeOK, Age

LEMMA TickTypes ==
    ASSUME TypeOK, Entry', Limits', Tick
    PROVE  TypeOK'
<1> DEFINE w == Window * Sec
           m == MaxLockout * Sec
<1>1. w \in Nat /\ m \in Nat /\ Never \notin Int
  BY AccessAssumption, TimesSec
<1>2. /\ sinceFail' = After(sinceFail, w + 1)
      /\ lock' = Before(lock)
      /\ told' = [l \in Logins |-> Before(told[l])]
      /\ UNCHANGED <<session, outdone, admin, overlapped, restarts>>
  BY DEF Tick
<1>3. /\ sinceFail \in 0 .. w + 1 \cup {Never}
      /\ lock \in 0 .. m \cup {Never}
      /\ told \in [Logins -> 0 .. m \cup {Never}]
  BY DEF TypeOK
<1> HIDE DEF w, m
<1>4. /\ sinceFail' \in 0 .. w + 1 \cup {Never}
      /\ lock' \in 0 .. m \cup {Never}
      /\ told' \in [Logins -> 0 .. m \cup {Never}]
  BY <1>1, <1>2, <1>3 DEF After, Before
<1> QED BY <1>2, <1>4 DEF TypeOK, Entry, Limits, Age, w, m

(* The seconds told are no more than what is left.                         *)
LEMMA RefuseTypes ==
    ASSUME TypeOK, NEW l \in Logins, Refuse(l)
    PROVE  /\ lock' \in 0 .. MaxLockout * Sec \cup {Never}
           /\ told' \in [Logins -> 0 .. MaxLockout * Sec \cup {Never}]
<1> DEFINE s == LockSeen(l)
           w == (s \div Sec) * Sec
           m == MaxLockout * Sec
<1>1. s # Never /\ lock' = s /\ told' = [told EXCEPT ![l] = w]
  BY DEF Refuse, Allowed
<1>2. m \in Nat /\ Sec \in Nat \ {0}
  BY AccessAssumption, TimesSec
<1>3. s \in 0 .. m
  BY <1>1 DEF LockSeen, TypeOK
<1> HIDE DEF s, m
<1>4. w \in Nat /\ w <= s
  BY <1>2, <1>3
<1> HIDE DEF w
<1>5. w \in 0 .. m /\ told \in [Logins -> 0 .. m \cup {Never}]
  BY <1>2, <1>3, <1>4 DEF m, TypeOK
<1> QED BY <1>1, <1>3, <1>5 DEF m

LEMMA LoginTypes ==
    ASSUME TypeOK, Entry', Limits', NEW l \in Logins, LoginStep(l)
    PROVE  TypeOK'
<1> DEFINE M == 0 .. MaxLockout * Sec \cup {Never}
           W == 0 .. Window * Sec + 1 \cup {Never}
<1>1. SUFFICES /\ lock' \in M /\ told' \in [Logins -> M] /\ sinceFail' \in W
               /\ outdone' \subseteq Logins
               /\ session' \in BOOLEAN /\ overlapped' \in BOOLEAN
               /\ UNCHANGED <<admin, restarts>>
  BY DEF TypeOK, Entry, Limits, Age
<1>2. lock \in M /\ told \in [Logins -> M] /\ sinceFail \in W /\ Never \in M
      /\ outdone \subseteq Logins
      /\ Never \in W /\ session \in BOOLEAN /\ overlapped \in BOOLEAN
  BY DEF TypeOK
<1>3. 0 \in W
  <2>1. Window * Sec \in Nat
    BY AccessAssumption, TimesSec
  <2> QED BY <2>1
<1> HIDE DEF M, W
<1>4. ASSUME NEW guess \in 0 .. Passwords, Look(l, guess) PROVE <1>1!1
  BY <1>2, <1>4 DEF Look, limiter
<1>5. CASE Refuse(l)
  BY <1>2, <1>5, RefuseTypes DEF Refuse, M
<1>6. CASE Pass(l)
  BY <1>2, <1>6 DEF Pass, LockSeen
<1>7. CASE Succeed(l)
  BY <1>2, <1>7 DEF Succeed
<1>8. CASE Count(l)
  BY <1>2, <1>3, <1>8 DEF Count
<1>9. CASE Punish(l)
  <2>1. login[l].streak + 1 \in Nat
    BY DEF TypeOK, LoginType
  <2> DEFINE n == login[l].streak + 1
  <2>2. /\ \/ /\ n > MaxAttempts /\ lock' = Lockout(n) * Sec
              /\ told' = [told EXCEPT ![l] = Lockout(n) * Sec]
              /\ outdone' \subseteq Logins
           \/ UNCHANGED <<lock, told, outdone>>
        /\ UNCHANGED <<session, sinceFail, admin, overlapped, restarts>>
    BY <1>9 DEF Punish
  <2> HIDE DEF n
  <2> QED BY <1>2, <2>1, <2>2, LockedFor DEF M, n
<1> QED BY <1>4, <1>5, <1>6, <1>7, <1>8, <1>9 DEF LoginStep

LEMMA NextTypes ==
    ASSUME TypeOK, Entry', Limits', [Next]_vars
    PROVE  TypeOK'
<1>1. ASSUME NEW a \in Admins, AdminStep(a) PROVE TypeOK'
  BY <1>1 DEF AdminStep, Admit, BeginChange, BeginSetup, WriteCredentials,
              Answer, Goto, limiter, TypeOK, Entry, Limits, Age
<1>2. CASE EndSession
  BY <1>2 DEF EndSession, limiter, TypeOK
<1>3. CASE UNCHANGED vars
  BY <1>3 DEF vars, limiter, TypeOK
<1>4. CASE Restart
  BY <1>4, AccessAssumption DEF Restart, TypeOK, Entry, Limits, Age
<1> QED BY <1>1, <1>2, <1>3, <1>4, TickTypes, LoginTypes DEF Next

-----------------------------------------------------------------------------
(* The ceiling.  The last failure still counts, and had a lockout.         *)
Recent == sinceFail # Never /\ sinceFail <= Window * Sec
Long == Recent /\ fails > MaxAttempts

(* What is left of the lockout, and what has gone by of it.                *)
Left == IF lock = Never THEN 0 ELSE lock
Served ==
    Long /\ (\A l \in Logins : login[l].pc # "counting") =>
        sinceFail + Left >= Lockout(fails) * Sec

(* Of logins that do not overlap at most one is in progress.  It has seen  *)
(* the lockout at its end, has been let in when less than a second of it   *)
(* was left, and counts on from a streak whose lockout was no longer than  *)
(* the window.                                                             *)
Lone == \A k, l \in Logins :
            login[k].pc # "idle" /\ login[l].pc # "idle" => k = l
Expired(l) == login[l].pc = "looked" /\ login[l].expired => lock = 0
LetIn(l) == login[l].pc = "comparing" /\ Long =>
                sinceFail + Sec > Lockout(fails) * Sec
CountsOn(l) ==
    login[l].pc = "counting" /\ login[l].streak > MaxAttempts =>
        Lockout(login[l].streak) <= Window
Stages == \A l \in Logins : Expired(l) /\ LetIn(l) /\ CountsOn(l)

Ceiling == ~overlapped => /\ Lone /\ Stages /\ Served
                          /\ lock # Never => lock <= 2 * Window * Sec

LEMMA Spans ==
    /\ Window * Sec \in Nat /\ MaxLockout * Sec \in Nat
    /\ 2 * Window * Sec \in Nat
    /\ \A n \in Nat : n > MaxAttempts => Lockout(n) * Sec \in Nat
<1>1. Window \in Nat /\ MaxLockout \in Nat /\ 2 * Window \in Nat
  BY AccessAssumption
<1>2. ASSUME NEW n \in Nat, n > MaxAttempts PROVE Lockout(n) * Sec \in Nat
  <2>1. MaxLockout * Sec \in Nat
    BY <1>1, TimesSec
  <2> QED BY <1>2, <2>1, LockedFor
<1> QED BY <1>1, <1>2, TimesSec

LEMMA InitCeiling ==
    ASSUME Init
    PROVE  Ceiling
BY DEF Init, IdleLogin, Ceiling, Lone, Stages, Expired, LetIn, CountsOn,
       Served, Long, Recent

LEMMA TickCeiling ==
    ASSUME TypeOK, Ceiling, Tick, ~overlapped'
    PROVE  Ceiling'
<1> DEFINE w == Window * Sec
           c == 2 * Window * Sec
           L(n) == Lockout(n) * Sec
<1>1. /\ w \in Nat /\ c \in Nat /\ Sec \in Nat \ {0} /\ Never \notin Int
      /\ \A n \in Nat : n > MaxAttempts => L(n) \in Nat
  BY Spans, Constants
<1>2. /\ sinceFail' = After(sinceFail, w + 1) /\ lock' = Before(lock)
      /\ fails' = fails /\ login' = login /\ overlapped' = overlapped
  BY DEF Tick
<1>3. /\ sinceFail \in Nat \cup {Never} /\ lock \in Nat \cup {Never}
      /\ fails \in Nat
  BY <1>1, Spans DEF TypeOK
<1>4. Long' => Long /\ sinceFail' = sinceFail + 1
  BY <1>1, <1>2, <1>3 DEF Long, Recent, After, w
<1>5. Left + 1 >= Left' /\ Left' + 1 >= Left /\ Left \in Nat /\ Left' \in Nat
  BY <1>1, <1>2, <1>3 DEF Left, Before
<1>6. Served'
  <2> SUFFICES ASSUME Long', \A l \in Logins : login[l].pc # "counting"
               PROVE  sinceFail' + Left' >= L(fails)
    BY <1>2 DEF Served
  <2>1. sinceFail + Left >= L(fails) /\ Long /\ sinceFail' = sinceFail + 1
    BY <1>2, <1>4 DEF Ceiling, Served
  <2>2. L(fails) \in Nat /\ sinceFail \in Nat
    BY <1>1, <1>3, <2>1 DEF Long, Recent
  <2> DEFINE a == Left
             b == Left'
             d == L(fails)
             e == sinceFail
  <2>3. e + a >= d /\ b + 1 >= a /\ {a, b, d, e} \subseteq Nat
    BY <1>5, <2>1, <2>2
  <2> HIDE DEF a, b, d, e
  <2>4. (e + 1) + b >= d
    BY <2>3
  <2> QED BY <2>1, <2>4 DEF a, b, d, e
<1>7. Stages'
  <2> SUFFICES ASSUME NEW l \in Logins
               PROVE  Expired(l)' /\ LetIn(l)' /\ CountsOn(l)'
    BY DEF Stages
  <2>1. Expired(l) /\ LetIn(l) /\ CountsOn(l) /\ login[l].pc # "looked"
    BY <1>2 DEF Ceiling, Stages, Tick
  <2>2. LetIn(l)'
    <3> SUFFICES ASSUME login[l].pc = "comparing", Long'
                 PROVE  sinceFail' + Sec > L(fails)
      BY <1>2 DEF LetIn
    <3>1. sinceFail + Sec > L(fails) /\ sinceFail' = sinceFail + 1
          /\ L(fails) \in Nat /\ sinceFail \in Nat
      BY <1>1, <1>3, <1>4, <2>1 DEF LetIn, Long, Recent
    <3> HIDE DEF L
    <3> QED BY <1>1, <3>1
  <2> QED BY <1>2, <2>1, <2>2 DEF Expired, CountsOn
<1>8. lock' # Never => lock' <= c
  <2>1. lock # Never => lock <= c
    BY <1>2 DEF Ceiling
  <2> HIDE DEF c
  <2> QED BY <1>1, <1>2, <1>3, <2>1 DEF Before
<1> QED BY <1>2, <1>6, <1>7, <1>8 DEF Ceiling, Lone

(* A step of the one login in progress leaves the others idle.             *)
LEMMA Alone ==
    ASSUME Lone, NEW l \in Logins, login[l].pc # "idle",
           \A k \in Logins : k # l => login'[k] = login[k]
    PROVE  /\ Lone'
           /\ \A k \in Logins : k # l =>
                  login[k].pc = "idle" /\ login'[k].pc = "idle"
BY DEF Lone

LEMMA LookCeiling ==
    ASSUME TypeOK, Ceiling, NEW l \in Logins, NEW guess \in 0 .. Passwords,
           Look(l, guess), ~overlapped'
    PROVE  Ceiling'
<1> DEFINE over == lock = 0
           q == [IdleLogin EXCEPT !.pc = "looked", !.guess = guess,
                                  !.expired = over]
<1>1. /\ login' = [login EXCEPT ![l] = q]
      /\ UNCHANGED <<fails, lock, sinceFail>>
      /\ ~overlapped /\ \A k \in Logins : login[k].pc = "idle"
  BY DEF Look, limiter
<1>2. q.pc = "looked" /\ q.expired = over
  BY DEF IdleLogin
<1> HIDE DEF q
<1>3. /\ login'[l] = q
      /\ \A k \in Logins : k # l => login'[k].pc = "idle"
  BY <1>1 DEF TypeOK
<1>4. Lone' /\ Stages'
  BY <1>1, <1>2, <1>3 DEF Lone, Stages, Expired, LetIn, CountsOn
<1>5. Served' /\ (lock' # Never => lock' <= 2 * Window * Sec)
  BY <1>1 DEF Ceiling, Served, Left, Long, Recent
<1> QED BY <1>4, <1>5 DEF Ceiling

LEMMA RefuseCeiling ==
    ASSUME TypeOK, Ceiling, NEW l \in Logins, Refuse(l), ~overlapped'
    PROVE  Ceiling'
<1>1. /\ login' = [login EXCEPT ![l] = IdleLogin] /\ login[l].pc = "looked"
      /\ UNCHANGED <<fails, sinceFail, overlapped>> /\ lock' = lock
  BY DEF Refuse, LockSeen, Allowed
<1>2. /\ login'[l].pc = "idle"
      /\ \A k \in Logins : k # l => login'[k] = login[k]
  BY <1>1 DEF TypeOK, IdleLogin
<1>3. Lone'
  BY <1>1, <1>2, Alone DEF Ceiling
<1>4. Stages'
  BY <1>1, <1>2 DEF Ceiling, Stages, Expired, LetIn, CountsOn, Long, Recent
<1>5. Served' /\ (lock' # Never => lock' <= 2 * Window * Sec)
  BY <1>1, <1>2 DEF Ceiling, Served, Left, Long, Recent
<1> QED BY <1>3, <1>4, <1>5 DEF Ceiling

(* A login is let in near the end of the lockout, or past it.              *)
LEMMA PassCeiling ==
    ASSUME TypeOK, Ceiling, NEW l \in Logins, Pass(l), ~overlapped'
    PROVE  Ceiling'
<1>1. /\ login[l].pc = "looked" /\ UNCHANGED <<fails, sinceFail, overlapped>>
      /\ lock' = LockSeen(l) /\ Allowed(LockSeen(l))
  BY DEF Pass
<1>2. login'[l].pc \in {"idle", "comparing"}
  BY DEF Pass, IdleLogin, TypeOK
<1>3. \A k \in Logins : k # l => login'[k] = login[k]
  BY DEF Pass, TypeOK
<1>4. Lone' /\ \A k \in Logins : k # l =>
                   login[k].pc = "idle" /\ login'[k].pc = "idle"
  BY <1>1, <1>3, Alone DEF Ceiling
<1>5. Expired(l)
  BY <1>1 DEF Ceiling, Stages
<1>6. /\ Never \notin Int /\ Sec \in Nat \ {0} /\ lock \in Nat \cup {Never}
      /\ fails \in Nat /\ sinceFail \in Nat \cup {Never}
  BY Constants, Spans DEF TypeOK
<1>7. Left' = Left /\ Left \in Nat /\ Left < Sec
  <2>1. CASE login[l].expired
    <3>1. lock = 0 /\ lock' = Never
      BY <1>1, <1>5, <2>1 DEF LockSeen, Expired
    <3> QED BY <1>6, <3>1 DEF Left
  <2>2. CASE ~login[l].expired
    <3>1. lock' = lock /\ (lock # Never => lock < Sec)
      BY <1>1, <2>2 DEF LockSeen, Allowed
    <3> QED BY <1>6, <3>1 DEF Left
  <2> QED BY <2>1, <2>2
<1>8. Served
  BY <1>1 DEF Ceiling
<1>9. Served'
  BY <1>1, <1>4, <1>7, <1>8 DEF Served, Long, Recent
<1>10. Long => sinceFail + Sec > Lockout(fails) * Sec
  <2> SUFFICES ASSUME Long PROVE sinceFail + Sec > Lockout(fails) * Sec
    OBVIOUS
  <2> DEFINE d == Lockout(fails) * Sec
             b == Left
  <2>1. sinceFail \in Nat /\ d \in Nat
    BY <1>6, Spans DEF Long, Recent
  <2>2. sinceFail + b >= d /\ b \in Nat /\ b < Sec
    BY <1>1, <1>4, <1>7, <1>8 DEF Served
  <2> HIDE DEF b, d
  <2>3. sinceFail + Sec > d
    BY <1>6, <2>1, <2>2
  <2> QED BY <2>3 DEF d
<1>11. Stages'
  BY <1>1, <1>2, <1>4, <1>10 DEF Stages, Expired, LetIn, CountsOn, Long, Recent
<1>12. lock' # Never => lock' <= 2 * Window * Sec
  BY <1>1 DEF Ceiling, LockSeen
<1> QED BY <1>4, <1>9, <1>11, <1>12 DEF Ceiling

LEMMA SucceedCeiling ==
    ASSUME TypeOK, Ceiling, NEW l \in Logins, Succeed(l), ~overlapped'
    PROVE  Ceiling'
<1>1. /\ login' = [login EXCEPT ![l] = IdleLogin] /\ login[l].pc = "comparing"
      /\ sinceFail' = Never /\ lock' = Never /\ overlapped' = overlapped
  BY DEF Succeed
<1>2. /\ login'[l].pc = "idle"
      /\ \A k \in Logins : k # l => login'[k] = login[k]
  BY <1>1 DEF TypeOK, IdleLogin
<1>3. Lone' /\ \A k \in Logins : login'[k].pc = "idle"
  BY <1>1, <1>2, Alone DEF Ceiling
<1> QED BY <1>1, <1>3 DEF Ceiling, Stages, Expired, LetIn, CountsOn, Served,
                          Long, Recent

(* A failure that counts on from a lockout comes within the window, hence  *)
(* that lockout was no longer.                                             *)
LEMMA CountCeiling ==
    ASSUME TypeOK, Ceiling, NEW l \in Logins, Count(l), ~overlapped'
    PROVE  Ceiling'
<1> DEFINE streak == IF Forgotten THEN 0 ELSE fails
           q == [login[l] EXCEPT !.pc = "counting", !.streak = streak]
<1>1. /\ login[l].pc = "comparing" /\ login' = [login EXCEPT ![l] = q]
      /\ UNCHANGED <<lock, overlapped>>
  BY DEF Count, TypeOK
<1> HIDE DEF streak
<1>2. q.pc = "counting" /\ q.streak = streak
  BY DEF TypeOK, LoginType
<1> HIDE DEF q
<1>3. /\ login'[l] = q
      /\ \A k \in Logins : k # l => login'[k] = login[k]
  BY <1>1 DEF TypeOK
<1>4. Lone' /\ \A k \in Logins : k # l => login'[k].pc = "idle"
  BY <1>1, <1>3, Alone DEF Ceiling
<1>5. streak > MaxAttempts => Lockout(streak) <= Window
  <2> SUFFICES ASSUME streak > MaxAttempts PROVE Lockout(streak) <= Window
    OBVIOUS
  <2>1. /\ MaxAttempts \in Nat /\ Window \in Nat /\ MaxLockout \in Nat
        /\ Sec \in Nat /\ Never \notin Int
    BY AccessAssumption
  <2>2. ~Forgotten /\ streak = fails /\ fails \in Nat
    BY <2>1 DEF streak, TypeOK
  <2>3. Long /\ sinceFail \in Nat /\ sinceFail <= Window * Sec
    BY <2>1, <2>2, Spans DEF TypeOK, Forgotten, Long, Recent
  <2>4. sinceFail + Sec > Lockout(fails) * Sec
    BY <1>1, <2>3 DEF Ceiling, Stages, LetIn
  <2> DEFINE L == Lockout(fails)
  <2>5. L \in Nat
    BY <2>1, <2>2, LockoutIs
  <2> HIDE DEF L
  <2>6. ASSUME Window + 1 <= L PROVE FALSE
    <3>1. (Window + 1) * Sec <= L * Sec
      BY <2>1, <2>5, <2>6, TimesSec
    <3>2. (Window + 1) * Sec = Window * Sec + Sec
      BY <2>1
    <3> DEFINE w == Window * Sec
               d == L * Sec
    <3>3. w \in Nat /\ d \in Nat /\ w + Sec <= d /\ sinceFail <= w
          /\ sinceFail + Sec > d
      BY <2>1, <2>3, <2>4, <2>5, <3>1, <3>2, TimesSec DEF L
    <3> HIDE DEF w, d
    <3> QED BY <2>1, <2>3, <3>3
  <2> QED BY <2>1, <2>2, <2>5, <2>6 DEF L
<1>6. Stages'
  BY <1>2, <1>3, <1>4, <1>5 DEF Stages, Expired, LetIn, CountsOn
<1>7. Served'
  BY <1>2, <1>3 DEF Served
<1> QED BY <1>1, <1>4, <1>6, <1>7 DEF Ceiling

(* The next lockout is at most twice as long, or the first.                *)
LEMMA PunishCeiling ==
    ASSUME TypeOK, Ceiling, NEW l \in Logins, Punish(l), ~overlapped'
    PROVE  Ceiling'
<1> DEFINE s == login[l].streak
           n == s + 1
<1>1. /\ login' = [login EXCEPT ![l] = IdleLogin] /\ login[l].pc = "counting"
      /\ UNCHANGED <<sinceFail, overlapped>> /\ fails' = n
      /\ IF n > MaxAttempts THEN lock' = Lockout(n) * Sec ELSE lock' = lock
  BY DEF Punish
<1>2. /\ login'[l].pc = "idle"
      /\ \A k \in Logins : k # l => login'[k] = login[k]
  BY <1>1 DEF TypeOK, IdleLogin
<1>3. Lone' /\ \A k \in Logins : login'[k].pc = "idle"
  BY <1>1, <1>2, Alone DEF Ceiling
<1>4. Stages'
  BY <1>3 DEF Stages, Expired, LetIn, CountsOn
<1>5. /\ s \in Nat /\ Base \in Nat /\ Window \in Nat /\ Base <= 2 * Window
      /\ MaxAttempts \in Nat /\ MaxLockout \in Nat /\ Never \notin Int
      /\ s > MaxAttempts => Lockout(s) <= Window
  BY <1>1, AccessAssumption DEF TypeOK, LoginType, Ceiling, Stages, CountsOn
<1> HIDE DEF s
<1>6. n > MaxAttempts => Lockout(n) \in Nat /\ Lockout(n) <= 2 * Window
  <2> SUFFICES ASSUME n > MaxAttempts
               PROVE  Lockout(n) \in Nat /\ Lockout(n) <= 2 * Window
    OBVIOUS
  <2> DEFINE L(m) == Lockout(m)
  <2>1. /\ L(n) \in 0 .. MaxLockout
        /\ n = MaxAttempts + 1 => L(n) <= Base
    BY <1>5, LockoutIs
  <2>2. s > MaxAttempts => L(s) \in 0 .. MaxLockout /\ L(n) <= 2 * L(s)
    BY <1>5, LockoutIs
  <2> HIDE DEF L
  <2>3. L(n) \in Nat /\ L(n) <= 2 * Window
    BY <1>5, <2>1, <2>2 DEF L
  <2> QED BY <2>3 DEF L
<1>7. lock' # Never => lock' <= 2 * Window * Sec
  <2>1. n > MaxAttempts => Lockout(n) * Sec <= 2 * Window * Sec
    BY <1>5, <1>6, TimesSec
  <2> QED BY <1>1, <2>1 DEF Ceiling
<1>8. Served'
  <2> SUFFICES ASSUME Long' PROVE sinceFail' + Left' >= Lockout(n) * Sec
    BY <1>1 DEF Served
  <2> DEFINE d == Lockout(n) * Sec
  <2>1. n > MaxAttempts /\ sinceFail \in Nat /\ sinceFail' = sinceFail
    BY <1>1, Spans DEF Long, Recent, TypeOK
  <2>2. d \in Nat /\ lock' = d
    BY <1>1, <1>5, <2>1, Spans
  <2> HIDE DEF d
  <2>3. Left' = d /\ sinceFail + d >= d
    BY <1>5, <2>1, <2>2 DEF Left
  <2> QED BY <2>1, <2>3 DEF d
<1> QED BY <1>1, <1>3, <1>4, <1>7, <1>8 DEF Ceiling

LEMMA RestartCeiling ==
    ASSUME Restart
    PROVE  Ceiling'
BY DEF Restart, IdleLogin, Ceiling, Lone, Stages, Expired, LetIn, CountsOn,
       Served, Long, Recent

LEMMA NextCeiling ==
    ASSUME TypeOK, Ceiling, [Next]_vars
    PROVE  Ceiling'
<1>1. SUFFICES ASSUME ~overlapped' PROVE Ceiling'
  BY DEF Ceiling
<1>2. ASSUME NEW l \in Logins, LoginStep(l) PROVE Ceiling'
  BY <1>1, <1>2, LookCeiling, RefuseCeiling, PassCeiling, SucceedCeiling,
     CountCeiling, PunishCeiling DEF LoginStep
<1>3. CASE UNCHANGED <<limiter, login, overlapped>>
  BY <1>3 DEF limiter, Ceiling, Lone, Stages, Expired, LetIn, CountsOn,
              Served, Left, Long, Recent
<1>4. ASSUME NEW a \in Admins, AdminStep(a) PROVE Ceiling'
  BY <1>3, <1>4 DEF AdminStep, Admit, BeginChange, BeginSetup,
                    WriteCredentials, Answer
<1>5. CASE EndSession \/ UNCHANGED vars
  BY <1>3, <1>5 DEF EndSession, vars
<1> QED BY <1>1, <1>2, <1>4, <1>5, TickCeiling, RestartCeiling DEF Next

-----------------------------------------------------------------------------
(* Waiting.  Of logins that do not overlap one is let in only when less    *)
(* than a second is left, and hence drops no lockout that a client is      *)
(* waiting for.                                                            *)
Near(l) == login[l].pc = "comparing" /\ lock # Never => lock < Sec
Waits(l) == told[l] # Never /\ told[l] >= Sec =>
                lock # Never /\ lock >= told[l]

Waiting == ~overlapped => /\ \A l \in Logins : Near(l)
                          /\ \A l \in Logins \ outdone : Waits(l)

LEMMA InitWaiting ==
    ASSUME Init
    PROVE  Waiting
BY DEF Init, IdleLogin, Waiting, Near, Waits

LEMMA TickWaiting ==
    ASSUME TypeOK, Waiting, Tick, ~overlapped'
    PROVE  Waiting'
<1>1. /\ lock' = Before(lock) /\ UNCHANGED <<login, outdone, overlapped>>
      /\ told' = [l \in Logins |-> Before(told[l])]
  BY DEF Tick
<1>2. /\ Never \notin Int /\ Sec \in Nat \ {0} /\ lock \in Nat \cup {Never}
      /\ \A l \in Logins : told[l] \in Nat \cup {Never}
  BY Constants, Spans DEF TypeOK
<1>3. ASSUME NEW l \in Logins, Near(l) PROVE Near(l)'
  BY <1>1, <1>2, <1>3 DEF Near, Before
<1>4. ASSUME NEW l \in Logins, Waits(l) PROVE Waits(l)'
  BY <1>1, <1>2, <1>4 DEF Waits, Before
<1> QED BY <1>1, <1>3, <1>4 DEF Waiting

LEMMA LoginWaiting ==
    ASSUME TypeOK, Ceiling, Waiting, NEW l \in Logins, LoginStep(l),
           ~overlapped'
    PROVE  Waiting'
<1>1. /\ Never \notin Int /\ Sec \in Nat \ {0} /\ lock \in Nat \cup {Never}
      /\ told \in [Logins -> Nat \cup {Never}] /\ outdone \subseteq Logins
  BY Constants, Spans DEF TypeOK
<1>2. ASSUME NEW guess \in 0 .. Passwords, Look(l, guess) PROVE Waiting'
  <2>1. /\ ~overlapped /\ lock' = lock /\ outdone' = outdone \ {l}
        /\ told' = [told EXCEPT ![l] = Never]
    BY <1>2 DEF Look, limiter
  <2>2. /\ login'[l].pc = "looked"
        /\ \A k \in Logins : k # l => login'[k] = login[k]
    BY <1>2 DEF Look, IdleLogin, TypeOK
  <2> QED BY <1>1, <2>1, <2>2 DEF Waiting, Near, Waits
<1>3. CASE Refuse(l)
  <2> DEFINE w == (lock \div Sec) * Sec
  <2>1. /\ lock' = lock /\ lock # Never /\ told' = [told EXCEPT ![l] = w]
        /\ UNCHANGED <<outdone, overlapped>>
        /\ login' = [login EXCEPT ![l] = IdleLogin]
    BY <1>3 DEF Refuse, LockSeen, Allowed
  <2>2. w <= lock
    BY <1>1, <2>1
  <2> HIDE DEF w
  <2>3. /\ login'[l].pc = "idle"
        /\ \A k \in Logins : k # l => login'[k] = login[k]
    BY <2>1 DEF TypeOK, IdleLogin
  <2> QED BY <1>1, <2>1, <2>2, <2>3 DEF Waiting, Near, Waits
<1>4. CASE Pass(l)
  <2>1. /\ login[l].pc = "looked" /\ lock' = LockSeen(l)
        /\ Allowed(LockSeen(l)) /\ UNCHANGED <<told, outdone, overlapped>>
    BY <1>4 DEF Pass
  <2>2. /\ \A k \in Logins : k # l => login'[k] = login[k]
    BY <1>4 DEF Pass, TypeOK
  <2>3. Expired(l) /\ Lone
    BY <2>1 DEF Ceiling, Stages
  <2>4. Near(l)'
    BY <2>1 DEF Near, Allowed
  <2>5. ASSUME NEW k \in Logins, k # l PROVE Near(k)'
    BY <2>1, <2>2, <2>3, <2>5 DEF Near, Lone
  <2>6. ASSUME NEW k \in Logins, Waits(k) PROVE Waits(k)'
    <3>1. CASE login[l].expired
      <4>1. lock = 0
        BY <2>1, <2>3, <3>1 DEF Expired
      <4> QED BY <1>1, <2>1, <2>6, <4>1 DEF Waits
    <3>2. CASE ~login[l].expired
      BY <2>1, <2>6, <3>2 DEF Waits, LockSeen
    <3> QED BY <3>1, <3>2
  <2> QED BY <2>1, <2>4, <2>5, <2>6 DEF Waiting
<1>5. CASE Succeed(l)
  <2>1. /\ login[l].pc = "comparing" /\ lock' = Never
        /\ UNCHANGED <<told, outdone, overlapped>>
    BY <1>5 DEF Succeed
  <2>2. lock # Never => lock < Sec
    BY <2>1 DEF Waiting, Near
  <2> QED BY <1>1, <2>1, <2>2 DEF Waiting, Near, Waits
<1>6. CASE Count(l)
  <2>1. /\ UNCHANGED <<lock, told, outdone, overlapped>>
        /\ login[l].pc = "comparing"
    BY <1>6 DEF Count
  <2>2. /\ login'[l].pc = "counting"
        /\ \A k \in Logins : k # l => login'[k] = login[k]
    BY <1>6 DEF Count, TypeOK, LoginType
  <2> QED BY <2>1, <2>2 DEF Waiting, Near, Waits
<1>7. CASE Punish(l)
  <2> DEFINE time == Lockout(login[l].streak + 1) * Sec
  <2>1. /\ overlapped' = overlapped /\ login[l].pc = "counting"
        /\ login' = [login EXCEPT ![l] = IdleLogin]
        /\ \/ /\ lock' = time /\ told' = [told EXCEPT ![l] = time]
              /\ login[l].streak + 1 > MaxAttempts
              /\ outdone' = {k \in Logins : told[k] # Never}
           \/ UNCHANGED <<lock, told, outdone>>
    BY <1>7 DEF Punish
  <2>2. login[l].streak + 1 > MaxAttempts => time \in Nat
    <3>1. login[l].streak + 1 \in Nat
      BY DEF TypeOK, LoginType
    <3> QED BY <3>1, Spans
  <2> HIDE DEF time
  <2>3. \A k \in Logins : login'[k].pc = "idle"
    BY <2>1 DEF Ceiling, Lone, IdleLogin, TypeOK
  <2> QED BY <1>1, <2>1, <2>2, <2>3 DEF Waiting, Near, Waits
<1> QED BY <1>2, <1>3, <1>4, <1>5, <1>6, <1>7 DEF LoginStep

LEMMA NextWaiting ==
    ASSUME TypeOK, Ceiling, Waiting, [Next]_vars
    PROVE  Waiting'
<1>1. SUFFICES ASSUME ~overlapped' PROVE Waiting'
  BY DEF Waiting
<1>2. CASE UNCHANGED <<limiter, told, outdone, login, overlapped>>
  BY <1>2 DEF limiter, Waiting, Near, Waits
<1>3. ASSUME NEW a \in Admins, AdminStep(a) PROVE Waiting'
  BY <1>2, <1>3 DEF AdminStep, Admit, BeginChange, BeginSetup,
                    WriteCredentials, Answer
<1>4. CASE EndSession \/ UNCHANGED vars
  BY <1>2, <1>4 DEF EndSession, vars
<1>5. CASE Restart
  BY <1>5 DEF Restart, IdleLogin, Waiting, Near, Waits
<1> QED BY <1>1, <1>3, <1>4, <1>5, TickWaiting, LoginWaiting DEF Next

-----------------------------------------------------------------------------
(* Credentials, cache and limiter stay as described, whatever overlaps.    *)
THEOREM DoorsInvariance == Spec => [](Entry /\ Limits)
<1>1. Entry /\ Limits /\ [Next]_vars => Entry' /\ Limits'
  BY NextEntry, NextLimits
<1> QED BY <1>1, InitEntry, InitLimits, PTL DEF Spec

(* The variables of entry and limiter keep their types: no handler writes  *)
(* a time, a streak or a password number out of its range.                 *)
THEOREM TypeCorrect == Spec => []TypeOK
<1>1. TypeOK /\ (Entry /\ Limits)' /\ [Next]_vars => TypeOK'
  BY NextTypes
<1> QED BY <1>1, InitTypes, DoorsInvariance, PTL DEF Spec

(* Logins that do not overlap keep each other under the ceiling: a login   *)
(* is let in only near the end of the last lockout.                        *)
THEOREM CeilingInvariance == Spec => []Ceiling
<1>1. TypeOK /\ Ceiling /\ [Next]_vars => Ceiling'
  BY NextCeiling
<1> QED BY <1>1, InitCeiling, TypeCorrect, PTL DEF Spec

(* No lockout of record_failed_attempt is longer than twice the window,    *)
(* whatever the constants, as long as logins do not overlap.               *)
THEOREM LockoutCeilingHolds == Spec => []LockoutCeiling
<1>1. Ceiling => LockoutCeiling
  BY DEF Ceiling, LockoutCeiling
<1> QED BY <1>1, CeilingInvariance, PTL

(* What a client was told stands until another one's failure sets a new    *)
(* lockout, and is kept both ways: whoever waits as long as told by login  *)
(* is let in to try, and of logins that do not overlap nobody before.      *)
THEOREM RetryHonestHolds == Spec => []RetryHonest
<1>1. Waiting /\ Ceiling /\ TypeOK /\ [Next]_vars => Waiting'
  BY NextWaiting
<1>2. Limits /\ Waiting => RetryHonest
  <2> SUFFICES ASSUME Limits, Waiting, NEW l \in Logins \ outdone
               PROVE  /\ told[l] = 0 => Allowed(lock)
                      /\ ~overlapped /\ told[l] # Never /\ told[l] >= Sec =>
                             ~Allowed(lock)
    BY DEF RetryHonest
  <2>1. /\ told[l] \in Int \cup {Never} /\ lock \in Int \cup {Never}
        /\ Never \notin Int /\ Sec \in Nat \ {0}
    BY Constants DEF Limits
  <2>2. told[l] = 0 => Allowed(lock)
    BY <2>1 DEF Limits, Allowed
  <2>3. ~overlapped /\ told[l] # Never /\ told[l] >= Sec => ~Allowed(lock)
    BY <2>1 DEF Waiting, Waits, Allowed
  <2> QED BY <2>2, <2>3
<1> QED BY <1>1, <1>2, InitWaiting, DoorsInvariance, TypeCorrect,
           CeilingInvariance, PTL DEF Spec

(* Requests without a session pass for the cache's time only:              *)
(* _is_web_auth_enabled.                                                   *)
THEOREM OpenOnlyBrieflyHolds == Spec => []OpenOnlyBriefly
<1>1. Entry /\ Limits => OpenOnlyBriefly
  <2>1. ASSUME Entry, creds # 0, sinceSet > CacheTTL * Sec, ~LookedUp.set
        PROVE  FALSE
    <3> DEFINE c == CacheTTL * Sec
    <3>1. c \in Nat /\ Age \subseteq Nat
      BY Products
    <3>2. cache.age \in Nat /\ sinceSet \in Nat /\ sinceSet > c
      BY <2>1, <3>1 DEF Entry
    <3>3. cache.age > c => LookedUp.set
      BY <2>1 DEF LookedUp
    <3>4. ~(cache.age > c) => LookedUp = cache
      BY DEF LookedUp
    <3> HIDE DEF c
    <3> QED BY <2>1, <3>1, <3>2, <3>3, <3>4 DEF Entry
  <2>2. LookedUp.set \in BOOLEAN \/ ~Entry
    BY LookedUpIs
  <2> QED BY <2>1, <2>2 DEF OpenOnlyBriefly
<1> QED BY <1>1, DoorsInvariance, PTL
=============================================================================
