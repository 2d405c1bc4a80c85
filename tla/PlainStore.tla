------------------------------ MODULE PlainStore ------------------------------
(***************************************************************************)
(* A file of tenants' entries that is kept with plain fs calls and neither *)
(* a lock nor a temporary name: ensureStoreExists, readStore and           *)
(* writeStore of model-policy.ts and of key-store.ts in                    *)
(* src/service/security.                                                   *)
(*                                                                         *)
(* A call is one update from the route to its answer.  Every fs call is    *)
(* awaited, so other calls run between any two of its steps.  fs.writeFile *)
(* truncates the file first and writes it then.                            *)
(***************************************************************************)
EXTENDS Naturals, FiniteSets

CONSTANTS
  StoreTenants,
  NoEntry,           \* no entry for a tenant
  StoreCalls,        \* bounds of the model: one name for every update at once,
  MaxEditions        \* times the file is truncated

VARIABLES
  plain,     \* the file
  edition,   \* history: how often the file has been truncated
  updates,   \* the updates under way
  answered,  \* history: what the last answered update of a tenant stored
  stale      \* history: a call wrote over something it had not read

storeVars == <<plain, edition, updates, answered, stale>>

NoEntries == [t \in StoreTenants |-> NoEntry]
Holding(form, map) == [form |-> form, map |-> map]
Whole(map) == Holding("whole", map)

PlainInit ==
  /\ plain = Holding("missing", NoEntries)
  /\ edition = 0
  /\ updates = [c \in {} |-> 0]
  /\ answered = NoEntries
  /\ stale = FALSE

Reached(c, step) == c \in DOMAIN updates /\ updates[c].step = step
Joined(c, call) == [d \in DOMAIN updates \cup {c} |-> IF d = c THEN call ELSE updates[d]]
Finished(c) == [d \in DOMAIN updates \ {c} |-> updates[d]]
Goes(c, step) == updates' = [updates EXCEPT ![c].step = step]

Asks(c, request) ==
  /\ c \in StoreCalls \ DOMAIN updates
  /\ updates' = Joined(c, [step |-> "access", request |-> request, read |-> 0, map |-> NoEntries])
  /\ UNCHANGED <<plain, edition, answered, stale>>

\* ensureStoreExists: whoever finds no file creates an empty one, even if another
\* has stored something meanwhile.
Accesses(c) ==
  /\ Reached(c, "access")
  /\ Goes(c, IF plain.form = "missing" THEN "create" ELSE "read")
  /\ UNCHANGED <<plain, edition, answered, stale>>

Truncates(c, knows, next) ==
  /\ edition < MaxEditions
  /\ plain' = Holding("blank", NoEntries)
  /\ edition' = edition + 1
  /\ stale' = (stale \/ ~knows)
  /\ Goes(c, next)
  /\ UNCHANGED answered

Creates(c) == Reached(c, "create") /\ Truncates(c, plain.form = "missing", "fill")

\* Over what another has written since, a shorter content leaves a tail.
LaidOver(map) == {Whole(map)} \cup
  (IF plain.form = "blank" \/ plain = Whole(map) THEN {} ELSE {Holding("garbled", NoEntries)})

Fills(c) ==
  /\ Reached(c, "fill")
  /\ plain' \in LaidOver(NoEntries)
  /\ Goes(c, "read")
  /\ UNCHANGED <<edition, answered, stale>>

\* JSON.parse throws on what is blank or garbled, and the request fails.
ReadsFile(c) ==
  /\ Reached(c, "read")
  /\ \/ /\ plain.form = "whole"
        /\ updates' = [updates EXCEPT ![c].step = "decide",
                                      ![c].read = edition, ![c].map = plain.map]
     \/ /\ plain.form # "whole"
        /\ updates' = Finished(c)
  /\ UNCHANGED <<plain, edition, answered, stale>>

\* The owner of the store decides what to write, or answers at once.
Puts(c, entry) ==
  /\ Reached(c, "decide")
  /\ updates' = [updates EXCEPT ![c].step = "open", ![c].map[updates[c].request.tenant] = entry]
  /\ UNCHANGED <<plain, edition, answered, stale>>

Refuses(c) ==
  /\ Reached(c, "decide")
  /\ updates' = Finished(c)
  /\ UNCHANGED <<plain, edition, answered, stale>>

BeginsWrite(c) == Reached(c, "open") /\ Truncates(c, updates[c].read = edition, "write")

EndsWrite(c) ==
  LET tenant == updates[c].request.tenant
  IN  /\ Reached(c, "write")
      /\ plain' \in LaidOver(updates[c].map)
      /\ answered' = [answered EXCEPT ![tenant] = updates[c].map[tenant]]
      /\ updates' = Finished(c)
      /\ UNCHANGED <<edition, stale>>

StoreStep ==
  \E c \in DOMAIN updates :
    Accesses(c) \/ Creates(c) \/ Fills(c) \/ ReadsFile(c) \/ BeginsWrite(c) \/ EndsWrite(c)

\* The process dies; what it truncated stays blank.
UpdatesDie ==
  /\ updates' = [c \in {} |-> 0]
  /\ UNCHANGED <<plain, edition, answered, stale>>

-----------------------------------------------------------------------------

Files(entries) ==
  [form : {"missing", "blank", "garbled", "whole"}, map : [StoreTenants -> entries]]

StoreTypeOK(entries, requests) ==
  /\ plain \in Files(entries)
  /\ edition \in 0..MaxEditions
  /\ updates \in [DOMAIN updates ->
       [step : {"access", "create", "fill", "read", "decide", "open", "write"},
        request : requests, read : 0..edition, map : [StoreTenants -> entries]]]
  /\ answered \in [StoreTenants -> entries]
  /\ stale \in BOOLEAN

\* As long as no call has written over something it had not read, every tenant's
\* entry is the one of its last answered update: those of other tenants, a failed
\* read and a crash have not touched it.
AnsweredIsStored == ~stale /\ plain.form = "whole" => plain.map = answered
=============================================================================
