----------------------------- MODULE RateLimits -----------------------------
(***************************************************************************)
(* The two limiters of server/app/ratelimit.py as the login endpoint uses  *)
(* them (login in server/app/api.py): the fixed window per client, and the *)
(* backoff per account, for one account that is tried by one client and by *)
(* others.                                                                 *)
(*                                                                         *)
(* login runs on a pool of threads, and neither limiter has a lock: every  *)
(* statement that reads the clock, or reads or writes what the threads     *)
(* share, is a step.  An entry of a limiter's dictionary is an object: a   *)
(* thread that has fetched it goes on with it after another has replaced   *)
(* or removed the entry.  One += is one step, as in CPython with its GIL,  *)
(* which the image runs: it switches threads at calls.                     *)
(*                                                                         *)
(* Time is whole seconds of the monotonic clock; base_seconds is 1.        *)
(***************************************************************************)
EXTENDS Integers, FiniteSets

CONSTANTS
  Attempts,     \* the threads that log in
  Objects,      \* bound: the objects of each limiter in memory at once
  NoObject,     \* None
  MaxHits,      \* RateLimitRule.max_hits
  Window,       \* RateLimitRule.window_seconds
  FreeRetries,  \* BackoffRule.free_retries
  MaxDelay,     \* BackoffRule.max_seconds
  MaxExponent,  \* the largest n for which 2 ** n is still a float
  MaxFailures,  \* bound: failures of a streak
  MaxTime       \* bound: seconds

ASSUME RateLimitsAssumption ==
  /\ NoObject \notin Objects
  /\ MaxHits \in Nat \ {0}
  /\ Window \in Nat \ {0}
  /\ FreeRetries \in Nat
  /\ MaxDelay \in Nat \ {0}
  /\ MaxExponent \in Nat /\ MaxFailures \in Nat
  /\ MaxTime \in Nat
  /\ IsFiniteSet(Attempts)

VARIABLES
  now,         \* time.monotonic()
  windowOf,    \* the client's entry of _key_to_window
  window,      \* the _Window objects
  streakOf,    \* the account's entry of _key_to_streak
  streak,      \* the _Streak objects
  attempt,     \* attempt[t]: a call of login, see NoLogin
  wrongs       \* history: failures counted of passwords looked at since the last right one

limitVars == <<now, windowOf, window, streakOf, streak, attempt, wrongs>>

(* through: history, how many hits of it were let through.                 *)
NoWindow == [hits |-> 0, resets |-> 0, through |-> 0]
NoStreak == [failures |-> 0, locked |-> 0]

(* moment, win, streak and delay are locals of the functions that run.     *)
(* fresh and late are history: the account had no right password since     *)
(* this one was looked at, and another failure's lock was written since    *)
(* this one read the clock.                                                *)
NoLogin == [pc |-> "idle", moment |-> 0, win |-> NoObject, streak |-> NoObject, delay |-> 0,
            fresh |-> FALSE, late |-> FALSE]

(* Where record_failure may be preempted.                                  *)
Recording == {"setdefault", "fail", "penalize", "lock"}

Smaller(a, b) == IF a < b THEN a ELSE b

LimitsTypeOK ==
  /\ now \in 0 .. MaxTime
  /\ windowOf \in Objects \cup {NoObject} /\ streakOf \in Objects \cup {NoObject}
  /\ window \in [Objects ->
       [hits : 0 .. MaxHits + 1, resets : 0 .. MaxTime + Window, through : Nat]]
  /\ streak \in [Objects -> [failures : 0 .. MaxFailures, locked : 0 .. MaxTime + MaxDelay]]
  /\ attempt \in [Attempts ->
       [pc : {"idle", "get", "renew", "hit", "compare", "find", "clock", "gate", "hash"}
               \cup Recording,
        moment : 0 .. MaxTime, win : Objects \cup {NoObject}, streak : Objects \cup {NoObject},
        delay : 0 .. MaxDelay, fresh : BOOLEAN, late : BOOLEAN]]
  /\ wrongs \in Nat

LimitsInit ==
  /\ now = 0
  /\ windowOf = NoObject /\ window = [o \in Objects |-> NoWindow]
  /\ streakOf = NoObject /\ streak = [o \in Objects |-> NoStreak]
  /\ attempt = [t \in Attempts |-> NoLogin]
  /\ wrongs = 0

Tick ==
  /\ now < MaxTime
  /\ now' = now + 1
  /\ UNCHANGED <<windowOf, window, streakOf, streak, attempt, wrongs>>

Goes(t, there) == attempt' = [attempt EXCEPT ![t] = there]
GoesTo(t, pc) == Goes(t, [attempt[t] EXCEPT !.pc = pc])
Answered(t) == Goes(t, NoLogin)

-----------------------------------------------------------------------------
(* FixedWindowRateLimiter.check: the clock.                                *)
Check(t) ==
  /\ attempt[t].pc = "idle"
  /\ Goes(t, [NoLogin EXCEPT !.pc = "get", !.moment = now])
  /\ UNCHANGED <<now, windowOf, window, streakOf, streak, wrongs>>

(* Another client has a window of its own, which is left out.              *)
CheckOther(t) ==
  /\ attempt[t].pc = "idle"
  /\ Goes(t, [NoLogin EXCEPT !.pc = "find"])
  /\ UNCHANGED <<now, windowOf, window, streakOf, streak, wrongs>>

(* The entry is fetched and looked at; resets_at is never written again.   *)
Get(t) ==
  /\ attempt[t].pc = "get"
  /\ IF windowOf = NoObject \/ attempt[t].moment >= window[windowOf].resets
     THEN GoesTo(t, "renew")
     ELSE Goes(t, [NoLogin EXCEPT !.pc = "hit", !.win = windowOf])
  /\ UNCHANGED <<now, windowOf, window, streakOf, streak, wrongs>>

(* An object that nothing refers to any more may be made again; which one  *)
(* of them makes no difference.                                            *)
OneOf(objects) == IF objects = {} THEN {} ELSE {CHOOSE o \in objects : TRUE}
FreeWindows == {o \in Objects \ {windowOf} : \A t \in Attempts : attempt[t].win # o}
FreeStreaks == {o \in Objects \ {streakOf} : \A t \in Attempts : attempt[t].streak # o}

(* Another thread may have stored a new window since: this one replaces it.*)
Renew(t) ==
  /\ attempt[t].pc = "renew"
  /\ \E o \in OneOf(FreeWindows) :
       /\ windowOf' = o
       /\ window' = [window EXCEPT ![o] =
            [hits |-> 1, resets |-> attempt[t].moment + Window, through |-> 1]]
  /\ Goes(t, [NoLogin EXCEPT !.pc = "find"])
  /\ UNCHANGED <<now, streakOf, streak, wrongs>>

(* No count over the limit is told from another.                           *)
Hit(t) ==
  /\ attempt[t].pc = "hit"
  /\ window' = [window EXCEPT ![attempt[t].win].hits = Smaller(@ + 1, MaxHits + 1)]
  /\ GoesTo(t, "compare")
  /\ UNCHANGED <<now, windowOf, streakOf, streak, wrongs>>

(* (Mutant: one hit too many.)                                             *)
WithinLoose(hits) == hits <= MaxHits + 1
Within(hits) == hits <= MaxHits

Compare(t) ==
  LET o == attempt[t].win IN
  /\ attempt[t].pc = "compare"
  /\ IF Within(window[o].hits)
     THEN /\ window' = [window EXCEPT ![o].through = @ + 1]
          /\ Goes(t, [NoLogin EXCEPT !.pc = "find"])
     ELSE Answered(t) /\ UNCHANGED window
  /\ UNCHANGED <<now, windowOf, streakOf, streak, wrongs>>

-----------------------------------------------------------------------------
(* LoginBackoff.retry_after: the entry, the clock, the lock.  What is let  *)
(* through goes on to the query and the slow hash.                         *)
Find(t) ==
  /\ attempt[t].pc = "find"
  /\ Goes(t, [attempt[t] EXCEPT !.pc = IF streakOf = NoObject THEN "hash" ELSE "clock",
                                !.streak = streakOf])
  /\ UNCHANGED <<now, windowOf, window, streakOf, streak, wrongs>>

ReadClock(t) ==
  /\ attempt[t].pc = "clock"
  /\ Goes(t, [attempt[t] EXCEPT !.pc = "gate", !.moment = now])
  /\ UNCHANGED <<now, windowOf, window, streakOf, streak, wrongs>>

Gate(t) ==
  /\ attempt[t].pc = "gate"
  /\ Goes(t, [NoLogin EXCEPT !.pc =
       IF streak[attempt[t].streak].locked > attempt[t].moment THEN "idle" ELSE "hash"])
  /\ UNCHANGED <<now, windowOf, window, streakOf, streak, wrongs>>

(* The password is wrong: record_failure, and its clock.                   *)
Wrong(t) ==
  /\ attempt[t].pc = "hash"
  /\ Goes(t, [NoLogin EXCEPT !.pc = "setdefault", !.moment = now, !.fresh = TRUE])
  /\ UNCHANGED <<now, windowOf, window, streakOf, streak, wrongs>>

(* The account's streak, if it has one.                                    *)
(* (Mutant: only one whose lock is not over.)                              *)
EntryLocked(t) ==
  IF streakOf # NoObject /\ streak[streakOf].locked > attempt[t].moment
  THEN streakOf ELSE NoObject
Entry(t) == streakOf

SetDefault(t) ==
  /\ attempt[t].pc = "setdefault"
  /\ \E o \in IF Entry(t) = NoObject THEN OneOf(FreeStreaks) ELSE {Entry(t)} :
       /\ streak' = IF Entry(t) = NoObject THEN [streak EXCEPT ![o] = NoStreak] ELSE streak
       /\ streakOf' = o
       /\ Goes(t, [attempt[t] EXCEPT !.pc = "fail", !.streak = o])
  /\ UNCHANGED <<now, windowOf, window, wrongs>>

Fail(t) ==
  /\ attempt[t].pc = "fail"
  /\ streak[attempt[t].streak].failures < MaxFailures
  /\ streak' = [streak EXCEPT ![attempt[t].streak].failures = @ + 1]
  /\ wrongs' = IF attempt[t].fresh THEN wrongs + 1 ELSE wrongs
  /\ GoesTo(t, "penalize")
  /\ UNCHANGED <<now, windowOf, window, streakOf>>

(* 2 ** n.                                                                 *)
PowerOfTwo[n \in Nat] == IF n = 0 THEN 1 ELSE 2 * PowerOfTwo[n - 1]

(* The first failures are free, then the lock doubles.                     *)
(* (Mutant: the ladder starts over at its top.)                            *)
DelayWraps(failures) ==
  IF failures <= FreeRetries THEN 0
  ELSE LET d == PowerOfTwo[failures - FreeRetries - 1] IN IF d > MaxDelay THEN 1 ELSE d
Delay(failures) ==
  IF failures <= FreeRetries THEN 0 ELSE Smaller(PowerOfTwo[failures - FreeRetries - 1], MaxDelay)

(* The product with the float raises OverflowError before min sees it: the *)
(* failure is counted, the lock is not written, the answer is a 500.       *)
Penalize(t) ==
  LET failures == streak[attempt[t].streak].failures IN
  /\ attempt[t].pc = "penalize"
  /\ IF failures <= FreeRetries \/ failures - FreeRetries - 1 > MaxExponent
     THEN Answered(t)
     ELSE Goes(t, [attempt[t] EXCEPT !.pc = "lock", !.delay = Delay(failures)])
  /\ UNCHANGED <<now, windowOf, window, streakOf, streak, wrongs>>

Lock(t) ==
  /\ attempt[t].pc = "lock"
  /\ streak' = [streak EXCEPT ![attempt[t].streak].locked = attempt[t].moment + attempt[t].delay]
  /\ attempt' = [o \in Attempts |->
       IF o = t THEN NoLogin
       ELSE [attempt[o] EXCEPT !.late = @ \/ attempt[o].pc \in Recording]]
  /\ UNCHANGED <<now, windowOf, window, streakOf, wrongs>>

(* The password is right: record_success drops the streak.                 *)
Right(t) ==
  /\ attempt[t].pc = "hash"
  /\ streakOf' = NoObject
  /\ wrongs' = 0
  /\ attempt' = [o \in Attempts |-> IF o = t THEN NoLogin ELSE [attempt[o] EXCEPT !.fresh = FALSE]]
  /\ UNCHANGED <<now, windowOf, window, streak>>

(* The account is not verified, or the query fails: the streak is kept.    *)
TurnAway(t) ==
  /\ attempt[t].pc = "hash"
  /\ Answered(t)
  /\ UNCHANGED <<now, windowOf, window, streakOf, streak, wrongs>>

LimitsNext ==
  \/ Tick
  \/ \E t \in Attempts :
       \/ Check(t) \/ CheckOther(t) \/ Get(t) \/ Renew(t) \/ Hit(t) \/ Compare(t)
       \/ Find(t) \/ ReadClock(t) \/ Gate(t)
       \/ Wrong(t) \/ SetDefault(t) \/ Fail(t) \/ Penalize(t) \/ Lock(t)
       \/ Right(t) \/ TurnAway(t)

LimitsSpec == LimitsInit /\ [][LimitsNext]_limitVars

-----------------------------------------------------------------------------
(* A window lets no more than MaxHits hits through, however the threads    *)
(* overlap, those included that still hold it after it was replaced.  (It  *)
(* is not a cap on a stretch of time: every thread that finds a window     *)
(* over stores one of its own, and each of them has its MaxHits.)          *)
WindowBounds == \A o \in Objects : window[o].through <= MaxHits

(* No wrong password is lost on the ladder: each that was looked at since  *)
(* the last right one, and whose failure was recorded, is in the count of  *)
(* the streak there is, those that overlapped or overflowed included.      *)
FailuresAreCounted ==
  wrongs <= IF streakOf = NoObject THEN 0 ELSE streak[streakOf].failures

(* A lock is made shorter only by a failure that overlaps with the one     *)
(* that wrote it: one that reads the clock later extends it, although its  *)
(* request passed the gate before there was a lock.                        *)
LocksAreKept ==
  [][streakOf' = streakOf /\ streakOf # NoObject /\
       streak'[streakOf].locked < streak[streakOf].locked =>
     \E t \in Attempts : Lock(t) /\ attempt[t].late]_limitVars

(* Nobody is locked out for longer than the failures counted by now        *)
(* deserve, counted from now.                                              *)
LocksAreEarned ==
  \A o \in Objects : streak[o].locked <= now + Delay(streak[o].failures)

=============================================================================
