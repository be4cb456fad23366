----------------------------- MODULE Connections -----------------------------
(***************************************************************************)
(* Connections to external systems: the credential manager with its vault, *)
(* the OAuth sessions, the connectors with their health reports, and the   *)
(* router with its quota (app/integrations/credentials.py, secrets.py,     *)
(* oauth.py, connectors/, health.py, router.py, rate_limits.py).           *)
(*                                                                         *)
(* Every operation is one step: the coroutines of the connectors, which    *)
(* are stand-ins for the systems, never suspend.  A tick of the clock is   *)
(* the time in which the quota refills by one request.                     *)
(***************************************************************************)
EXTENDS Naturals, FiniteSetsExt

CONSTANTS
  Ref,            \* references of credentials
  User,           \* a user of a tenant
  tenant,         \* each user's tenant
  default_tenant,
  Connector,
  Checking,       \* the connectors that look at the credential: GitHub
  max_requests,   \* max_requests_per_minute
  MaxTime,        \* bound: ticks
  MaxSessions     \* bound: OAuth sessions at once

ASSUME ConnectionsAssumption ==
  /\ Checking \subseteq Connector /\ DOMAIN tenant = User
  /\ max_requests \in Nat \ {0} /\ {MaxTime, MaxSessions} \subseteq Nat

VARIABLES
  credentials,    \* the owner of each credential: {} or {user}
  vault,          \* the references a secret is stored for
  sessions,       \* OAuth sessions to exchange: a user and a number
  linked,         \* the connectors that are _connected
  health,         \* the status of each connector's last health report
  tokens, refilled,   \* the router's quota
  now,
  passed          \* history: requests the quota let pass

quotaVars == <<tokens, refilled, passed>>
connectorVars == <<linked, health>>
credentialVars == <<credentials, vault, sessions>>
connectionsVars == <<credentialVars, connectorVars, quotaVars, now>>

ConnectionsInit ==
  /\ credentials = [r \in Ref |-> {}] /\ vault = {} /\ sessions = {}
  /\ linked = Connector \ Checking
  /\ health = [c \in Connector |-> "none"]
  /\ tokens = max_requests /\ refilled = 0 /\ now = 0 /\ passed = 0
------------------------------------------------------------------------------
(* Credentials. *)
(* With a reference of the caller's choice it takes the place of another's. *)
Registered(r, u) ==
  credentials' = [credentials EXCEPT ![r] = {u}] /\ vault' = vault \union {r}

register_credential(r, u) ==
  Registered(r, u) /\ UNCHANGED <<sessions, connectorVars, quotaVars, now>>

generate_authorization_url(u) ==
  /\ Cardinality(sessions) < MaxSessions
  /\ sessions' = sessions \union {<<u, Cardinality(sessions) + 1>>}
  /\ UNCHANGED <<credentials, vault, connectorVars, quotaVars, now>>

(* A state is good for one exchange, which registers a new reference. *)
verify_and_exchange_code(s, r) ==
  /\ credentials[r] = {} /\ sessions' = sessions \ {s}
  /\ Registered(r, s[1])
  /\ UNCHANGED <<connectorVars, quotaVars, now>>

(* get_credential_metadata: another tenant's or user's is not found. *)
Found(r, u, t) == \E o \in credentials[r] : tenant[o] = t /\ o = u

(* Fault: the metadata goes and the secret stays. *)
SecretsKept(r) == vault

SecretsWithout(r) == vault \ {r}

(* Whoever asks. *)
revoke_credential(r) ==
  /\ credentials[r] # {}
  /\ credentials' = [credentials EXCEPT ![r] = {}] /\ vault' = SecretsWithout(r)
  /\ UNCHANGED <<sessions, connectorVars, quotaVars, now>>

(* Connectors.  GitHub's resolves the secret with the user's name and the  *)
(* default tenant's, whatever tenant the context names.                    *)
Resolves(r, u) == Found(r, u, default_tenant) /\ r \in vault

Connected(c, u, refs) == c \in Checking => \A r \in refs : Resolves(r, u)

Reports(c, status) == health' = [health EXCEPT ![c] = status]

ConnectTo(c, u, refs) ==
  IF Connected(c, u, refs) THEN linked' = linked \union {c} /\ Reports(c, "CONNECTED")
  ELSE linked' = linked \ {c} /\ Reports(c, "AUTHENTICATION_REQUIRED")

connect_integration(c, u, refs) == ConnectTo(c, u, refs) /\ UNCHANGED <<credentialVars, quotaVars, now>>

disconnect_integration(c) ==
  /\ linked' = linked \ {c} /\ Reports(c, "DISCONNECTED")
  /\ UNCHANGED <<credentialVars, quotaVars, now>>

(* The action is executed whether or not the connector is connected by     *)
(* then; only a checking one tries to connect.                             *)
execute(c, u, refs) ==
  IF c \in Checking \ linked THEN ConnectTo(c, u, refs) ELSE UNCHANGED connectorVars
------------------------------------------------------------------------------
(* The router. *)
(* Fault: the time of the refill is not noted. *)
NotNoted == refilled

Noted == now

Refilled == Min({max_requests, tokens + (now - refilled)})

(* check_and_consume comes before the look at the connector's              *)
(* capabilities, so that an unsupported action uses the quota too.         *)
route_and_execute(c, u, refs, supported) ==
  /\ refilled' = Noted
  /\ IF Refilled >= 1
     THEN /\ tokens' = Refilled - 1 /\ passed' = passed + 1
          /\ IF supported THEN execute(c, u, refs) ELSE UNCHANGED connectorVars
     ELSE tokens' = Refilled /\ UNCHANGED <<passed, connectorVars>>
  /\ UNCHANGED <<credentialVars, now>>

QuotaTick == now < MaxTime /\ now' = now + 1
             /\ UNCHANGED <<credentialVars, connectorVars, quotaVars>>

Context == User \X {refs \in SUBSET Ref : refs = {} \/ \E r \in Ref : refs = {r}}

ConnectionsNext ==
  \/ \E r \in Ref, u \in User : \/ register_credential(r, u)
                                \/ \E s \in sessions : verify_and_exchange_code(s, r)
  \/ \E r \in Ref : revoke_credential(r)
  \/ \E u \in User : generate_authorization_url(u)
  \/ \E c \in Connector, ctx \in Context : connect_integration(c, ctx[1], ctx[2])
  \/ \E c \in Connector : disconnect_integration(c)
  \/ \E c \in Connector, ctx \in Context, supported \in BOOLEAN :
       route_and_execute(c, ctx[1], ctx[2], supported)
  \/ QuotaTick
------------------------------------------------------------------------------
(* In any span of time from the start, the router lets no more requests    *)
(* pass than a full quota and what has refilled since.                     *)
CallsWithinQuota == passed <= max_requests + now

(* The manager and the vault, two stores, name the same credentials, and a *)
(* connector that checks them is not reported connected when it is not.    *)
VaultFollowsCredentials ==
  /\ vault = {r \in Ref : credentials[r] # {}}
  /\ \A c \in Connector : health[c] # "none" => (c \in linked <=> health[c] = "CONNECTED")
=============================================================================
