------------------------------- MODULE KeyStore -------------------------------
(***************************************************************************)
(* The tenants' OpenRouter keys (src/service/security/key-store.ts,        *)
(* src/service/api/routes/keys.ts): one file of all tenants' keys, kept    *)
(* like the model policies but without revisions.  A key stands for its    *)
(* ciphertext.  Keys owns a file of its own, in module PlainStore.         *)
(***************************************************************************)
EXTENDS Naturals

CONSTANTS
  KeyTenants, TenantKeys, NoKey,
  KeyCalls, MaxKeyWrites     \* bounds of the model, as in PlainStore

ASSUME KeyAssumption == NoKey \notin TenantKeys /\ MaxKeyWrites \in Nat

VARIABLES keyFile, keyWrites, keyUpdates, keysAnswered, keysStale

Keys == INSTANCE PlainStore WITH
  StoreTenants <- KeyTenants, NoEntry <- NoKey, StoreCalls <- KeyCalls, MaxEditions <- MaxKeyWrites,
  plain <- keyFile, edition <- keyWrites, updates <- keyUpdates, answered <- keysAnswered,
  stale <- keysStale

keyVars == <<keyFile, keyWrites, keyUpdates, keysAnswered, keysStale>>

KeyInit == Keys!PlainInit

KeyRequest(op, t, k) == [op |-> op, tenant |-> t, key |-> k]

\* POST /v1/keys/openrouter, with a key of the right shape.
PostKey(c, t, k) == Keys!Asks(c, KeyRequest("set", t, k))

\* DELETE /v1/keys/openrouter.
DeleteKey(c, t) == Keys!Asks(c, KeyRequest("delete", t, NoKey))

\* GET /v1/keys/openrouter/status, and every call of a language model for a tenant.
ReadKey(c, t) == Keys!Asks(c, KeyRequest("get", t, NoKey))

\* setTenantOpenRouterKey and deleteTenantOpenRouterKey once the file is read; a
\* key that is not there is not deleted.
StoresKey(c) ==
  /\ Keys!Reached(c, "decide")
  /\ LET request == keyUpdates[c].request
         exists  == keyUpdates[c].map[request.tenant] # NoKey
     IN  \/ request.op = "set" /\ Keys!Puts(c, request.key)
         \/ request.op = "delete" /\ exists /\ Keys!Puts(c, NoKey)
         \/ request.op = "delete" /\ ~exists /\ Keys!Refuses(c)
         \/ request.op = "get" /\ Keys!Refuses(c)

KeyNext ==
  \/ \E c \in KeyCalls, t \in KeyTenants :
       \/ \E k \in TenantKeys : PostKey(c, t, k)
       \/ DeleteKey(c, t)
       \/ ReadKey(c, t)
  \/ \E c \in DOMAIN keyUpdates : StoresKey(c)
  \/ Keys!StoreStep
  \/ Keys!UpdatesDie

KeySpec == KeyInit /\ [][KeyNext]_keyVars

-----------------------------------------------------------------------------

\* The shapes of the variables.
KeyTypeOK ==
  Keys!StoreTypeOK(TenantKeys \cup {NoKey},
    [op : {"set", "delete", "get"}, tenant : KeyTenants, key : TenantKeys \cup {NoKey}])

\* As long as no call has written over something it had not read, every tenant
\* has the key it was last told it has, and none it was told is gone, whatever
\* other tenants set or delete and wherever the process has died meanwhile.
KeysAreAsAnswered == Keys!AnsweredIsStored
=============================================================================
