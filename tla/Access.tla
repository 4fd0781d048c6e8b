------------------------------- MODULE Access -------------------------------
(***************************************************************************)
(* Who gets in: the middleware and its cache (app/main.py), setup, login   *)
(* and change of password (app/routers/auth.py), sessions                  *)
(* (app/auth_session.py) and the limiter of failed logins                  *)
(* (app/rate_limiter.py), for one address and one session.  Passwords are  *)
(* hashed and compared slowly, between what a handler reads and what it    *)
(* writes.  Time goes in ticks, Sec of them to the second.                 *)
(***************************************************************************)
EXTENDS Integers

CONSTANTS
    Logins,         \* clients of the address, each in one login at a time
    Admins,         \* threads in any other request
    Sec,            \* ticks per second
    MaxAttempts,    \* _MAX_ATTEMPTS (5)
    Base,           \* _BASE_LOCKOUT_SECONDS (30)
    MaxLockout,     \* _MAX_LOCKOUT_SECONDS (1800)
    Window,         \* _WINDOW_SECONDS (300)
    CacheTTL,       \* _AUTH_CACHE_TTL_SECONDS (5)
    Passwords,      \* bound on the passwords ever set
    MaxRestarts,    \* bound on process restarts
    Never

ASSUME AccessAssumption ==
    /\ Sec \in Nat \ {0} /\ MaxAttempts \in Nat /\ CacheTTL \in Nat
    /\ Base \in Nat \ {0} /\ MaxLockout \in Nat /\ Base <= MaxLockout
    /\ Window \in Nat /\ Base <= 2 * Window
    /\ Passwords \in Nat \ {0} /\ MaxRestarts \in Nat /\ Never \notin Int

VARIABLES
    creds,      \* table WebAuth: the number of the password, 0 if none
    sinceSet,   \* time since there are credentials
    cache,      \* _auth_cache: time since it was loaded, and what it says
    session,    \* whether a session is live
    fails,      \* _failed_attempts
    sinceFail,  \* time since _last_failure_at, or Never
    lock,       \* time until _lockout_until, or Never
    told,       \* per client: time until it was told to try again, or Never
    outdone,    \* the clients after whose last answer another one's failure
                \* has set a lockout
    login,      \* per thread: the locals of login
    admin,      \* per thread: where its request is
    overlapped, \* whether two logins have been in progress at once
    restarts    \* process restarts so far

limiter == <<fails, sinceFail, lock>>
vars == <<creds, sinceSet, cache, session, limiter, told, outdone, login,
          admin, overlapped, restarts>>

IdleLogin == [pc |-> "idle", guess |-> 0, known |-> 0, expired |-> FALSE,
              streak |-> 0]

(* Nothing is cached, and time.monotonic() is past the cache's time, since *)
(* the host has been up for longer.                                        *)
EmptyCache == [age |-> CacheTTL * Sec + 1, set |-> FALSE]

(* on_startup may find credentials in the environment.                     *)
Init ==
    /\ creds \in {0, 1}
    /\ sinceSet = 0
    /\ cache = EmptyCache
    /\ session = FALSE
    /\ fails = 0 /\ sinceFail = Never /\ lock = Never
    /\ told = [l \in Logins |-> Never] /\ outdone = {}
    /\ login = [l \in Logins |-> IdleLogin]
    /\ admin = [a \in Admins |-> "idle"]
    /\ overlapped = FALSE
    /\ restarts = 0

-----------------------------------------------------------------------------
After(time, most) == IF time = Never THEN Never
                     ELSE IF time < most THEN time + 1 ELSE time

(* What is left of a lockout is nothing at least.                          *)
Before(time) == IF time = Never \/ time = 0 THEN time ELSE time - 1

(* A tick passes; a failure is recorded within one.                        *)
Tick ==
    /\ \A l \in Logins : login[l].pc \notin {"looked", "counting"}
    /\ sinceSet' = After(sinceSet, CacheTTL * Sec + 1)
    /\ cache' = [cache EXCEPT !.age = After(@, CacheTTL * Sec + 1)]
    /\ sinceFail' = After(sinceFail, Window * Sec + 1)
    /\ lock' = Before(lock)
    /\ told' = [l \in Logins |-> Before(told[l])]
    /\ UNCHANGED <<creds, session, fails, outdone, login, admin, overlapped,
                   restarts>>

-----------------------------------------------------------------------------
(* Login.                                                                  *)

(* A client comes, or comes back, with which what it was told has served;  *)
(* get_rate_limit_status looks whether the lockout is over ...             *)
Look(l, guess) ==
    /\ login[l].pc = "idle"
    /\ login' = [login EXCEPT ![l] = [IdleLogin EXCEPT
                    !.pc = "looked", !.guess = guess, !.expired = lock = 0]]
    /\ overlapped' = (overlapped \/ \E k \in Logins : login[k].pc # "idle")
    /\ told' = [told EXCEPT ![l] = Never]
    /\ outdone' = outdone \ {l}
    /\ UNCHANGED <<creds, sinceSet, cache, session, limiter, admin, restarts>>

(* ... then drops it, and takes what there is now.                         *)
LockSeen(l) == IF login[l].expired THEN Never ELSE lock

(* Wrong: as long as any of the lockout is left.                           *)
AllowedAtEnd(left) == left # Never => left = 0

(* Less than a second left counts as none.                                 *)
Allowed(left) == left # Never => left < Sec

Refuse(l) ==
    /\ login[l].pc = "looked"
    /\ ~Allowed(LockSeen(l))
    /\ lock' = LockSeen(l)
    /\ told' = [told EXCEPT ![l] = (LockSeen(l) \div Sec) * Sec]
    /\ login' = [login EXCEPT ![l] = IdleLogin]
    /\ UNCHANGED <<creds, sinceSet, cache, session, fails, sinceFail, outdone,
                   admin, overlapped, restarts>>

(* The credentials are read, if there are any, and compared.               *)
Pass(l) ==
    /\ login[l].pc = "looked"
    /\ Allowed(LockSeen(l))
    /\ lock' = LockSeen(l)
    /\ login' = [login EXCEPT ![l] =
                    IF creds = 0 THEN IdleLogin
                    ELSE [@ EXCEPT !.pc = "comparing", !.known = creds]]
    /\ UNCHANGED <<creds, sinceSet, cache, session, fails, sinceFail, told,
                   outdone, admin, overlapped, restarts>>

(* A session is made, unless writing the audit log fails.                  *)
Succeed(l) ==
    /\ login[l].pc = "comparing"
    /\ login[l].guess = login[l].known
    /\ fails' = 0 /\ sinceFail' = Never /\ lock' = Never
    /\ session' \in {session, TRUE}
    /\ login' = [login EXCEPT ![l] = IdleLogin]
    /\ UNCHANGED <<creds, sinceSet, cache, told, outdone, admin, overlapped,
                   restarts>>

(* Wrong: the streak is never forgotten.                                   *)
ForgottenNever == sinceFail = Never

(* The last failure is too long ago to count.                              *)
Forgotten == sinceFail = Never \/ sinceFail > Window * Sec

(* record_failed_attempt reads the streak ...                              *)
Count(l) ==
    LET streak == IF Forgotten THEN 0 ELSE fails
    IN  /\ login[l].pc = "comparing"
        /\ login[l].guess # login[l].known
        /\ fails' = streak
        /\ sinceFail' = 0
        /\ login' = [login EXCEPT ![l].pc = "counting", ![l].streak = streak]
        /\ UNCHANGED <<creds, sinceSet, cache, session, lock, told, outdone,
                       admin, overlapped, restarts>>

(* 2 ** n.                                                                 *)
Doubled[n \in Nat] == IF n = 0 THEN 1 ELSE 2 * Doubled[n - 1]

(* Wrong: the longest lockout is not heeded.                               *)
LockoutUncapped(failures) == Base * Doubled[failures - MaxAttempts - 1]

(* Every failure doubles the lockout.                                      *)
Lockout(failures) ==
    LET seconds == Base * Doubled[failures - MaxAttempts - 1]
    IN  IF seconds < MaxLockout THEN seconds ELSE MaxLockout

(* ... and writes it, with a lockout if it is long: all the other clients  *)
(* of the address are locked out with this one.                            *)
Punish(l) ==
    LET failures == login[l].streak + 1
        time == Lockout(failures) * Sec
    IN  /\ login[l].pc = "counting"
        /\ fails' = failures
        /\ IF failures > MaxAttempts
           THEN /\ lock' = time
                /\ told' = [told EXCEPT ![l] = time]
                /\ outdone' = {k \in Logins : told[k] # Never}
           ELSE UNCHANGED <<lock, told, outdone>>
        /\ login' = [login EXCEPT ![l] = IdleLogin]
        /\ UNCHANGED <<creds, sinceSet, cache, session, sinceFail, admin,
                       overlapped, restarts>>

-----------------------------------------------------------------------------
(* Other requests.                                                         *)

Goto(a, from, to) == admin[a] = from /\ admin' = [admin EXCEPT ![a] = to]

(* Wrong: every look makes the cache young again.                          *)
LookedUpYoung ==
    [age |-> 0, set |-> IF cache.age > CacheTTL * Sec THEN creds # 0
                        ELSE cache.set]

(* _is_web_auth_enabled: the cache, loaded again when it is old.           *)
LookedUp == IF cache.age > CacheTTL * Sec
            THEN [age |-> 0, set |-> creds # 0] ELSE cache

(* enforce_session_auth lets the request pass, or not.                     *)
Admit(a) ==
    /\ cache' = LookedUp
    /\ Goto(a, "idle",
            IF ~LookedUp.set \/ session THEN "admitted" ELSE "idle")
    /\ UNCHANGED <<creds, sinceSet, session, limiter, told, outdone, login,
                   overlapped, restarts>>

(* change_password compares the old password with what it reads.           *)
BeginChange(a) ==
    /\ creds # 0
    /\ Goto(a, "admitted", "changing")
    /\ UNCHANGED <<creds, sinceSet, cache, session, limiter, told, outdone,
                   login, overlapped, restarts>>

(* The setup of credentials passes the middleware, and finds none.         *)
BeginSetup(a) ==
    /\ creds = 0
    /\ Goto(a, "idle", "setting")
    /\ UNCHANGED <<creds, sinceSet, cache, session, limiter, told, outdone,
                   login, overlapped, restarts>>

(* The new password is hashed and written over what there is by now.       *)
WriteCredentials(a) ==
    /\ creds < Passwords
    /\ admin[a] \in {"changing", "setting"}
    /\ admin' = [admin EXCEPT ![a] = "idle"]
    /\ creds' = creds + 1
    /\ sinceSet' = IF creds = 0 THEN 0 ELSE sinceSet
    /\ UNCHANGED <<cache, session, limiter, told, outdone, login, overlapped,
                   restarts>>

(* Any other answer, or an error.                                          *)
Answer(a) ==
    /\ admin[a] # "idle"
    /\ admin' = [admin EXCEPT ![a] = "idle"]
    /\ UNCHANGED <<creds, sinceSet, cache, session, limiter, told, outdone,
                   login, overlapped, restarts>>

(* The session is logged out, or its time is over.                         *)
EndSession ==
    /\ session
    /\ session' = FALSE
    /\ UNCHANGED <<creds, sinceSet, cache, limiter, told, outdone, login,
                   admin, overlapped, restarts>>

(* Sessions, cache and limiter are in memory only: nobody is locked out,   *)
(* whatever it was told.                                                   *)
Restart ==
    /\ restarts < MaxRestarts
    /\ restarts' = restarts + 1
    /\ creds' \in IF creds = 0 THEN {0, 1} ELSE {creds}
    /\ sinceSet' = IF creds = 0 THEN 0 ELSE sinceSet
    /\ cache' = EmptyCache
    /\ session' = FALSE
    /\ fails' = 0 /\ sinceFail' = Never /\ lock' = Never
    /\ told' = [l \in Logins |-> Never] /\ outdone' = {}
    /\ login' = [l \in Logins |-> IdleLogin]
    /\ admin' = [a \in Admins |-> "idle"]
    /\ UNCHANGED overlapped

-----------------------------------------------------------------------------
LoginStep(l) ==
    \/ \E guess \in 0 .. Passwords : Look(l, guess)
    \/ Refuse(l) \/ Pass(l) \/ Succeed(l) \/ Count(l) \/ Punish(l)

AdminStep(a) ==
    \/ Admit(a) \/ BeginChange(a) \/ BeginSetup(a) \/ WriteCredentials(a)
    \/ Answer(a)

Next ==
    \/ Tick \/ EndSession \/ Restart
    \/ \E l \in Logins : LoginStep(l)
    \/ \E a \in Admins : AdminStep(a)

Spec == Init /\ [][Next]_vars

-----------------------------------------------------------------------------
(* Properties.                                                             *)

(* The values the variables may have.                                      *)
LoginType == [pc : {"idle", "looked", "comparing", "counting"},
              guess : 0 .. Passwords, known : 0 .. Passwords,
              expired : BOOLEAN, streak : Nat]

TypeOK ==
    /\ creds \in 0 .. Passwords
    /\ sinceSet \in 0 .. CacheTTL * Sec + 1
    /\ cache \in [age : 0 .. CacheTTL * Sec + 1, set : BOOLEAN]
    /\ session \in BOOLEAN
    /\ fails \in Nat
    /\ sinceFail \in 0 .. Window * Sec + 1 \cup {Never}
    /\ lock \in 0 .. MaxLockout * Sec \cup {Never}
    /\ told \in [Logins -> 0 .. MaxLockout * Sec \cup {Never}]
    /\ outdone \subseteq Logins
    /\ login \in [Logins -> LoginType]
    /\ admin \in [Admins -> {"idle", "admitted", "changing", "setting"}]
    /\ overlapped \in BOOLEAN
    /\ restarts \in 0 .. MaxRestarts

(* Of logins that do not overlap none is locked out for longer than twice  *)
(* the window: the next failure then counts as a first one.  With a window *)
(* of 300 s the longest lockout of 1800 s is never reached.                *)
LockoutCeiling ==
    ~overlapped /\ lock # Never => lock <= 2 * Window * Sec

(* A client that was told to try again in n seconds is let in to try when  *)
(* they are over, the seconds told being truncated and so the check; but   *)
(* not if another client's failure has set a lockout since: one address    *)
(* has one lockout, and the new one is longer.  As long as logins do not   *)
(* overlap nobody is let in before, either: what another login does to the *)
(* lockout in the meantime does not shorten it.                            *)
RetryHonest ==
    \A l \in Logins \ outdone :
        /\ told[l] = 0 => Allowed(lock)
        /\ ~overlapped /\ told[l] # Never /\ told[l] >= Sec => ~Allowed(lock)

(* Requests without a session pass only until the cache's time has gone by *)
(* since there are credentials, however the look-ups and a restart fall.   *)
OpenOnlyBriefly == creds # 0 /\ sinceSet > CacheTTL * Sec => LookedUp.set
=============================================================================
