---------------------------- MODULE RequestLimits ----------------------------
(***************************************************************************)
(* The two limiters in front of the handlers: UiSessionRateLimiter, which  *)
(* counts failed logins of an address and tenant, and rateLimitMiddleware, *)
(* which counts a tenant's requests in fixed windows                       *)
(* (src/service/security/ui-session-rate-limit.ts,                         *)
(* src/service/api/middleware/rate-limit.ts).  Keys are counted apart, so  *)
(* the module follows one key of each.  guesses and served are history.    *)
(***************************************************************************)
EXTENDS Naturals, Sequences, FiniteSets

CONSTANTS
  MaxFailures,               \* failed logins until the key is blocked
  LoginWindow, BlockTime,    \* ticks a count and a block last
  RateLimit, RateWindow,     \* requests served in a window, and its ticks
  MaxTries, MaxLimitTime     \* bounds of the model: entries of a history, ticks

ASSUME LimitAssumption ==
  /\ {MaxFailures, LoginWindow, BlockTime, RateLimit, RateWindow} \subseteq Nat \ {0}
  /\ {MaxTries, MaxLimitTime} \subseteq Nat

VARIABLES
  attempts,    \* the state of the login key, or nothing
  window,      \* the state of the tenant's window, or nothing
  guesses,     \* times of the failed logins since the last successful one
  served,      \* times of the requests served
  limitClock

limitVars == <<attempts, window, guesses, served, limitClock>>

NoCount == <<>>

LimitInit ==
  /\ attempts = NoCount
  /\ window = NoCount
  /\ guesses = <<>>
  /\ served = <<>>
  /\ limitClock = 0

Blocked == attempts # NoCount /\ attempts.blockedUntil > limitClock

\* The count of the window under way; a window that is over is begun anew, and
\* with it a block.
Counting ==
  IF attempts = NoCount \/ limitClock - attempts.first > LoginWindow
    THEN [failures |-> 0, first |-> limitClock, blockedUntil |-> 0]
    ELSE attempts

\* Mutant: one failure more.
CountFailureLate(state) ==
  IF state.failures >= MaxFailures
    THEN [failures |-> 0, first |-> limitClock, blockedUntil |-> limitClock + BlockTime]
    ELSE [state EXCEPT !.failures = @ + 1]

CountFailure(state) ==
  IF state.failures + 1 >= MaxFailures
    THEN [failures |-> 0, first |-> limitClock, blockedUntil |-> limitClock + BlockTime]
    ELSE [state EXCEPT !.failures = @ + 1]

\* POST /ui/session with a key that is not known, when check has let it pass.
LoginFails ==
  /\ ~Blocked /\ Len(guesses) < MaxTries
  /\ attempts' = CountFailure(Counting)
  /\ guesses' = Append(guesses, limitClock)
  /\ UNCHANGED <<window, served, limitClock>>

\* The same with a good key: what failed before is forgotten.
LoginSucceeds ==
  /\ ~Blocked
  /\ attempts' = NoCount
  /\ guesses' = <<>>
  /\ UNCHANGED <<window, served, limitClock>>

ForgetAttempts ==
  /\ attempts # NoCount /\ ~Blocked
  /\ limitClock - attempts.first > 2 * LoginWindow
  /\ attempts' = NoCount
  /\ UNCHANGED <<window, guesses, served, limitClock>>

CurrentWindow ==
  IF window = NoCount \/ limitClock - window.start >= RateWindow
    THEN [start |-> limitClock, count |-> 0]
    ELSE window

\* Every request counts, those that are refused too.
Request ==
  LET counted == [CurrentWindow EXCEPT !.count = @ + 1]
  IN  /\ Len(served) < MaxTries
      /\ window' = counted
      /\ served' = IF counted.count > RateLimit THEN served ELSE Append(served, limitClock)
      /\ counted.count <= RateLimit + 1     \* a bound of the model
      /\ UNCHANGED <<attempts, guesses, limitClock>>

ForgetWindow ==
  /\ window # NoCount /\ limitClock - window.start >= 3 * RateWindow
  /\ window' = NoCount
  /\ UNCHANGED <<attempts, guesses, served, limitClock>>

LimitTick ==
  /\ limitClock < MaxLimitTime
  /\ limitClock' = limitClock + 1
  /\ UNCHANGED <<attempts, window, guesses, served>>

LimitNext ==
  \/ LoginFails \/ LoginSucceeds \/ ForgetAttempts
  \/ Request \/ ForgetWindow
  \/ LimitTick

LimitSpec == LimitInit /\ [][LimitNext]_limitVars

-----------------------------------------------------------------------------
(* What should hold. *)

\* The shapes of the variables.
LimitTypeOK ==
  /\ attempts # NoCount => attempts \in [failures : 0..(MaxFailures - 1), first : 0..limitClock,
                                         blockedUntil : 0..(limitClock + BlockTime)]
  /\ window # NoCount => window \in [start : 0..limitClock, count : 1..(RateLimit + 1)]
  /\ guesses \in Seq(0..MaxLimitTime) /\ served \in Seq(0..MaxLimitTime)
  /\ limitClock \in 0..MaxLimitTime

Within(times, span) ==   \* the most entries in any span of so many ticks
  {n \in 0..Len(times) : \E t \in 0..limitClock :
     n = Cardinality({i \in 1..Len(times) : times[i] \in t..(t + span - 1)})}

GuessSpan == IF BlockTime < LoginWindow THEN BlockTime ELSE LoginWindow

\* A count that begins anew lets a key try once more as often, and no oftener:
\* in a span no longer than window and block a key is refused after this many
\* wrong guesses, unless a login succeeds in between.
GuessRate == \A n \in Within(guesses, GuessSpan) : n <= 2 * MaxFailures - 1

\* Across the border of two windows a tenant gets twice its limit, never more.
RequestRate == \A n \in Within(served, RateWindow) : n <= 2 * RateLimit

\* The two limits together.
LimitersHold == GuessRate /\ RequestRate
=============================================================================
