----------------------------- MODULE UiSessions -----------------------------
(***************************************************************************)
(* The dashboard's sessions: UiSessionStore with its two eviction queues   *)
(* and its debounced file (src/service/security/ui-session-store.ts), the  *)
(* routes under /ui/session, and the administrator's routes behind the     *)
(* hook that authenticates (src/service/api).                              *)
(*                                                                         *)
(* A token is the number of the session it was issued for, so the order of *)
(* numbers is the order of createdAt.  Handlers run without an await, but  *)
(* the hook runs when a request's headers arrive and the handler when its  *)
(* body has: a request between the two is in admitted.  The file is        *)
(* written a debounce after the last change, one write at a time, and      *)
(* nothing flushes it when the process stops.                              *)
(*                                                                         *)
(* RequestLimits models the limiter a login passes first.                  *)
(***************************************************************************)
EXTENDS Naturals, Sequences, FiniteSets, Sublists

CONSTANTS
  SessionTenants,
  TenantCap, GlobalCap,   \* UI_SESSION_MAX_SESSIONS_PER_TENANT, ..._GLOBAL
  SessionTtl, MaxIdle,    \* lifetime and idle window, in ticks
  MaxSessions,            \* bounds of the model: sessions issued,
  MaxSessionTime,         \* ticks,
  MaxAdmitted,            \* requests between hook and handler,
  MaxWaiting,             \* writes waiting for the one under way,
  MaxRestarts             \* restarts

ASSUME SessionAssumption ==
  /\ {TenantCap, GlobalCap, SessionTtl, MaxIdle} \subseteq Nat \ {0}
  /\ {MaxSessions, MaxSessionTime, MaxAdmitted, MaxWaiting, MaxRestarts} \subseteq Nat

VARIABLES
  store,         \* the live sessions and the queues of tokens, oldest first
  issuedTokens,  \* sessions issued so far
  saveTimer,  \* the debounce timer is armed
  waiting,    \* writes chained behind the one under way
  writing,    \* what the write under way took, or nothing
  saved,      \* the file
  admitted,   \* requests that passed the hook and wait for their body
  closed,     \* tokens a user or an administrator has revoked or refreshed
  clock, restarts

sessionVars == <<store, issuedTokens, saveTimer, waiting, writing, saved, admitted, closed,
                 clock, restarts>>
diskVars == <<waiting, writing, saved>>

Tokens == 1..MaxSessions
Session == [tenant : SessionTenants, expires : Nat, seen : Nat]
NoSessions == [s \in {} |-> 0]
IsSnapshot(f) == DOMAIN f \subseteq Tokens /\ f \in [DOMAIN f -> Session]
Admission == [tenant : SessionTenants, current : {0} \cup Tokens]  \* 0: an API key

EmptyStore == [live |-> NoSessions, global |-> <<>>, tenant |-> [t \in SessionTenants |-> <<>>]]

SessionInit ==
  /\ store = EmptyStore
  /\ issuedTokens = 0
  /\ saveTimer = FALSE
  /\ waiting = 0
  /\ writing = <<>>
  /\ saved = NoSessions
  /\ admitted = {}
  /\ closed = {}
  /\ clock = 0
  /\ restarts = 0

-----------------------------------------------------------------------------
(* The store's operations, as functions of its state. *)

Live == DOMAIN store.live

Without(queue, X) == Picked(queue, {i \in 1..Len(queue) : queue[i] \notin X})

\* Mutant: the tenant's queue is forgotten.
RevokedFromGlobal(st, X) ==
  [st EXCEPT !.live = [s \in DOMAIN st.live \ X |-> st.live[s]],
             !.global = Without(st.global, X)]

\* revokeByHash for every token of X: out of the map and out of both queues.
Revoked(st, X) ==
  [live   |-> [s \in DOMAIN st.live \ X |-> st.live[s]],
   global |-> Without(st.global, X),
   tenant |-> [t \in SessionTenants |-> Without(st.tenant[t], X)]]

Expired(st) == {s \in DOMAIN st.live : clock >= st.live[s].expires}
Idle(st)    == {s \in DOMAIN st.live : clock - st.live[s].seen >= MaxIdle}
Ended(st)   == Expired(st) \cup Idle(st)

Registered(st, s, session) ==
  [live   |-> [x \in DOMAIN st.live \cup {s} |-> IF x = s THEN session ELSE st.live[x]],
   global |-> Append(st.global, s),
   tenant |-> [st.tenant EXCEPT ![session.tenant] = Append(@, s)]]

\* What stands before the last cap entries of a queue.
Excess(queue, cap) ==
  IF Len(queue) > cap THEN {queue[i] : i \in 1..(Len(queue) - cap)} ELSE {}

TenantCapped(st, t) == Revoked(st, Excess(st.tenant[t], TenantCap))
GlobalCapped(st)    == Revoked(st, Excess(st.global, GlobalCap))

\* Mutant: the global cap is applied first.
IssuedGlobally(st, t) ==
  TenantCapped(GlobalCapped(
    Registered(Revoked(st, Expired(st)), issuedTokens + 1,
               [tenant |-> t, expires |-> clock + SessionTtl, seen |-> clock])), t)

\* issue prunes what has expired, not what is idle.
Issued(st, t) ==
  GlobalCapped(TenantCapped(
    Registered(Revoked(st, Expired(st)), issuedTokens + 1,
               [tenant |-> t, expires |-> clock + SessionTtl, seen |-> clock]), t))

\* hydrateFromDisk keeps what has not expired, whether idle or not.
Hydrated(snapshot) ==
  LET kept  == {s \in DOMAIN snapshot : snapshot[s].expires > clock}
      In(t) == {s \in kept : snapshot[s].tenant = t}
  IN  [live   |-> [s \in kept |-> snapshot[s]],
       global |-> Ascending(kept),
       tenant |-> [t \in SessionTenants |-> Ascending(In(t))]]

-----------------------------------------------------------------------------
(* What a handler leaves behind.  The timer is armed anew by every change. *)

\* Mutant: a change during a write is left to that write.
KeepUnlessWriting(st) ==
  store' = st /\ saveTimer' = (saveTimer \/ (st # store /\ writing = <<>>))

Keep(st) == store' = st /\ saveTimer' = (saveTimer \/ st # store)

\* A known token that does not resolve is revoked on the spot.
Resolves(s, sameAgent) == s \notin Ended(store) /\ sameAgent

CanIssue == issuedTokens < MaxSessions
Issue(st, t) ==
  /\ Keep(Issued(st, t))
  /\ issuedTokens' = issuedTokens + 1

\* POST /ui/session with a valid key.
Login(t) ==
  /\ CanIssue
  /\ Issue(store, t)
  /\ UNCHANGED <<admitted, closed, clock, restarts>> /\ UNCHANGED diskVars

\* GET /ui/session, which does not count as use.  What it does with a known token
\* that does not resolve the three requests below do alike.
Inspect(s, sameAgent) ==
  /\ ~Resolves(s, sameAgent)
  /\ Keep(Revoked(store, {s}))
  /\ UNCHANGED <<issuedTokens, closed, admitted, clock, restarts>> /\ UNCHANGED diskVars

Rotated(s) == Issued(Revoked(store, {s}), store.live[s].tenant)

\* POST /ui/session/refresh: the token is rotated before the tenant is compared;
\* under the wrong tenant the new session is revoked at once.
Refresh(s, sameTenant) ==
  /\ Resolves(s, TRUE) /\ CanIssue
  /\ Keep(IF sameTenant THEN Rotated(s) ELSE Revoked(Rotated(s), {issuedTokens + 1}))
  /\ closed' = closed \cup (IF sameTenant THEN {s} ELSE {s, issuedTokens + 1})
  /\ issuedTokens' = issuedTokens + 1
  /\ UNCHANGED <<admitted, clock, restarts>> /\ UNCHANGED diskVars

\* POST /ui/session/revoke, silent about another tenant's token.
Logout(s) ==
  /\ Resolves(s, TRUE)
  /\ Keep(Revoked(store, {s}))
  /\ closed' = closed \cup {s}
  /\ UNCHANGED <<issuedTokens, admitted, clock, restarts>> /\ UNCHANGED diskVars

\* authMiddleware on a session's token: it counts as use before the tenant, the
\* origin and the scope are compared; only an administrator's request goes on.
Touched(s) == [store EXCEPT !.live[s].seen = clock]

Authenticate(s, isAdmin) ==
  /\ Resolves(s, TRUE)
  /\ store' = Touched(s)
  /\ saveTimer' = TRUE
  /\ \/ ~isAdmin /\ UNCHANGED admitted
     \/ /\ isAdmin /\ Cardinality(admitted) < MaxAdmitted
        /\ admitted' = admitted \cup {[tenant |-> store.live[s].tenant, current |-> s]}
  /\ UNCHANGED <<issuedTokens, closed, clock, restarts>> /\ UNCHANGED diskVars

\* The same hook on an API key, which may name any tenant.
AuthenticateKey(t) ==
  /\ Cardinality(admitted) < MaxAdmitted
  /\ admitted' = admitted \cup {[tenant |-> t, current |-> 0]}
  /\ UNCHANGED <<store, issuedTokens, saveTimer, closed, clock, restarts>>
  /\ UNCHANGED diskVars

Handles(a) ==
  /\ a \in admitted
  /\ admitted' = admitted \ {a}
  /\ UNCHANGED <<issuedTokens, clock, restarts>>

\* GET /v1/ui/sessions prunes idle sessions of every tenant before it lists.
PrunedForList == Revoked(store, Ended(store))

ListSessions(a) ==
  /\ Handles(a)
  /\ Keep(PrunedForList)
  /\ UNCHANGED closed /\ UNCHANGED diskVars

\* POST /v1/ui/sessions/:sessionId/revoke, in vain for another tenant's session.
OwnedBy(s, t) == s \in Live /\ store.live[s].tenant = t

RevokeSession(a, s) ==
  /\ Handles(a)
  /\ \/ /\ OwnedBy(s, a.tenant)
        /\ Keep(Revoked(store, {s}))
        /\ closed' = closed \cup {s}
     \/ /\ ~OwnedBy(s, a.tenant)
        /\ UNCHANGED <<store, saveTimer, closed>>
  /\ UNCHANGED diskVars

\* POST /v1/ui/sessions/revoke-all; the session spared is the one the hook saw.
AllOf(t, spared) ==
  LET queue == store.tenant[t]
  IN  {queue[i] : i \in 1..Len(queue)} \ spared

RevokeAll(a, exceptCurrent) ==
  LET going == AllOf(a.tenant, IF exceptCurrent THEN {a.current} ELSE {})
  IN  /\ Handles(a)
      /\ Keep(Revoked(store, going))
      /\ closed' = closed \cup going
      /\ UNCHANGED diskVars

-----------------------------------------------------------------------------
(* The file. *)

\* The timer's callback chains a write behind those before it.
TimerFires ==
  /\ saveTimer /\ waiting < MaxWaiting
  /\ saveTimer' = FALSE
  /\ waiting' = waiting + 1
  /\ UNCHANGED <<store, issuedTokens, writing, saved, admitted, closed, clock, restarts>>

\* persistSnapshot takes the sessions when its turn has come ...
WriteBegins ==
  /\ waiting > 0 /\ writing = <<>>
  /\ waiting' = waiting - 1
  /\ writing' = <<store.live>>
  /\ UNCHANGED <<store, issuedTokens, saveTimer, saved, admitted, closed, clock, restarts>>

\* ... and the rename puts them in place.
WriteEnds ==
  /\ writing # <<>>
  /\ saved' = writing[1]
  /\ writing' = <<>>
  /\ UNCHANGED <<store, issuedTokens, saveTimer, waiting, admitted, closed, clock, restarts>>

\* The process stops, by a crash, a signal or the unhandled rejection of a write
\* that failed, and starts again.
Restart ==
  /\ restarts < MaxRestarts
  /\ restarts' = restarts + 1
  /\ store' = Hydrated(saved)
  /\ saveTimer' = FALSE
  /\ waiting' = 0
  /\ writing' = <<>>
  /\ admitted' = {}
  /\ UNCHANGED <<issuedTokens, saved, closed, clock>>

SessionTick ==
  /\ clock < MaxSessionTime
  /\ clock' = clock + 1
  /\ UNCHANGED <<store, issuedTokens, saveTimer, admitted, closed, restarts>>
  /\ UNCHANGED diskVars

AsUser ==   \* an unknown token changes nothing
  \E s \in Live :
    \/ \E sameAgent \in BOOLEAN : Inspect(s, sameAgent)
    \/ \E sameTenant \in BOOLEAN : Refresh(s, sameTenant)
    \/ Logout(s)
    \/ \E isAdmin \in BOOLEAN : Authenticate(s, isAdmin)

AsAdministrator ==
  \/ \E t \in SessionTenants : AuthenticateKey(t)
  \/ \E a \in admitted :
       \/ ListSessions(a)
       \/ \E s \in Tokens : RevokeSession(a, s)
       \/ \E exceptCurrent \in BOOLEAN : RevokeAll(a, exceptCurrent)

SessionNext ==
  \/ \E t \in SessionTenants : Login(t)
  \/ AsUser
  \/ AsAdministrator
  \/ TimerFires \/ WriteBegins \/ WriteEnds
  \/ Restart
  \/ SessionTick

SessionSpec == SessionInit /\ [][SessionNext]_sessionVars

-----------------------------------------------------------------------------
(* What should hold. *)

\* The shapes of the variables.
SessionTypeOK ==
  /\ IsSnapshot(store.live)
  /\ store.global \in Seq(Tokens)
  /\ store.tenant \in [SessionTenants -> Seq(Tokens)]
  /\ issuedTokens \in 0..MaxSessions
  /\ saveTimer \in BOOLEAN
  /\ waiting \in 0..MaxWaiting
  /\ writing # <<>> => Len(writing) = 1 /\ IsSnapshot(writing[1])
  /\ IsSnapshot(saved)
  /\ admitted \in SUBSET Admission
  /\ closed \in SUBSET Tokens
  /\ clock \in 0..MaxSessionTime
  /\ restarts \in 0..MaxRestarts

\* The two queues hold exactly the live sessions, each once and oldest first,
\* and stay within the caps, through expiry, refresh, eviction and restart.
IsQueueOf(queue, S) ==
  /\ {queue[i] : i \in 1..Len(queue)} = S
  /\ \A i, j \in 1..Len(queue) : i < j => queue[i] < queue[j]

QueuesMatchSessions ==
  /\ IsQueueOf(store.global, Live)
  /\ Len(store.global) <= GlobalCap
  /\ \A t \in SessionTenants :
       /\ IsQueueOf(store.tenant[t], {s \in Live : store.live[s].tenant = t})
       /\ Len(store.tenant[t]) <= TenantCap

\* When no write is due, waiting or under way the file restores the very sessions
\* that are live: no change falls between a snapshot and the timer it should arm.
NothingDue == ~saveTimer /\ waiting = 0 /\ writing = <<>>

SettledFileRestores == NothingDue => \A s \in DOMAIN saved \cup Live :
  IF s \in Live THEN s \in DOMAIN saved /\ saved[s] = store.live[s]
                ELSE clock >= saved[s].expires

\* A login ends no session but expired ones and the oldest of a tenant, and none
\* of other tenants when its own tenant is at its cap: that one makes the room.
\* A refresh ends the session it is sent with and no other.
LoginEvictsOldest ==
  [][LET gone  == Live \ (Expired(store) \cup Live')
         Of(t) == {s \in Live \ Expired(store) : store.live[s].tenant = t}
     IN  /\ \A t \in SessionTenants : Login(t) =>
              /\ \A u \in SessionTenants : \A s, older \in Of(u) :
                   s \in gone /\ older < s => older \in gone
              /\ Cardinality(Of(t)) >= TenantCap => gone \subseteq Of(t)
         /\ \A s \in Live, sameTenant \in BOOLEAN :
              Refresh(s, sameTenant) => gone = {s}
      ]_sessionVars
=============================================================================
