--------------------------- MODULE PlatformStores ----------------------------
(***************************************************************************)
(* What the platform keeps: its database and its cache first, then its     *)
(* models.                                                                 *)
(***************************************************************************)
EXTENDS Naturals, FiniteSets

(***************************************************************************)
(* The platform's database and cache (app/platform/database.py,            *)
(* caching.py).  Both are dictionaries, every operation is one step.  The  *)
(* clock is what ends an entry of the cache.                               *)
(***************************************************************************)
CONSTANTS
  Entity,         \* the custom ids entities are saved with
  Tenant,
  Key,
  Value,          \* what is cached; strings that hold a token are Secrets
  Secrets,
  Lifetimes,      \* the values of ttl_seconds
  MaxSaves,       \* bound: versions of an entity
  LastTime        \* bound: the clock

ASSUME StoresAssumption ==
  /\ Secrets \subseteq Value /\ Lifetimes \subseteq Nat \ {0}
  /\ {MaxSaves, LastTime} \subseteq Nat

VARIABLES
  entities,       \* {} or the entity of each id: its tenant, its data's, its version
  cache,          \* {} or the entry of each key
  time,
  latest,         \* history: the entry last wanted of each key, unless invalidated
  shared          \* history: ids two tenants have saved under

databaseVars == <<entities, shared>>
cacheVars == <<cache, time, latest>>
storesVars == <<databaseVars, cacheVars>>

StoresInit ==
  /\ entities = [e \in Entity |-> {}] /\ shared = {}
  /\ cache = [k \in Key |-> {}] /\ latest = [k \in Key |-> {}] /\ time = 0
------------------------------------------------------------------------------
(* An entity stays its first tenant's whoever saves it again. *)
save_entity(e, t) ==
  /\ \/ /\ entities[e] = {}
        /\ entities' = [entities EXCEPT ![e] = {[tenant |-> t, from |-> t, version |-> 1]}]
        /\ UNCHANGED shared
     \/ \E old \in entities[e] :
          /\ old.version < MaxSaves
          /\ entities' = [entities EXCEPT ![e] =
                            {[old EXCEPT !.from = t, !.version = old.version + 1]}]
          /\ shared' = IF old.tenant = t THEN shared ELSE shared \union {e}
  /\ UNCHANGED cacheVars

(* Fault: another tenant's entity is found. *)
AnyEntity(e, t) == entities[e]

get_entity(e, t) == {x \in entities[e] : x.tenant = t}

delete_entity(e, t) ==
  /\ get_entity(e, t) # {}
  /\ entities' = [entities EXCEPT ![e] = {}] /\ shared' = shared \ {e}
  /\ UNCHANGED cacheVars
------------------------------------------------------------------------------
Entry(v, ttl) == [value |-> v, expires |-> time + ttl]

Expired(entry) == entry.expires < time

(* get takes an entry out once it has expired. *)
get(k) ==
  /\ \E entry \in cache[k] : Expired(entry)
  /\ cache' = [cache EXCEPT ![k] = {}]
  /\ UNCHANGED <<databaseVars, time, latest>>

(* What get returns. *)
Cached(k) == {entry \in cache[k] : ~Expired(entry)}

(* Fault: a value is kept as long as the one before it. *)
Renewed(k, v, ttl) == {[entry EXCEPT !.value = v] : entry \in cache[k]}

Stored(k, v, ttl) == {Entry(v, ttl)}

(* set: a secret is not stored, and what was stored stays. *)
set(k, v, ttl) ==
  /\ cache' = IF v \in Secrets THEN cache ELSE [cache EXCEPT ![k] = Stored(k, v, ttl)]
  /\ latest' = [latest EXCEPT ![k] = {Entry(v, ttl)}]
  /\ UNCHANGED <<databaseVars, time>>

invalidate(k) ==
  /\ cache[k] # {}
  /\ cache' = [cache EXCEPT ![k] = {}] /\ latest' = [latest EXCEPT ![k] = {}]
  /\ UNCHANGED <<databaseVars, time>>

TimePasses == time < LastTime /\ time' = time + 1 /\ UNCHANGED <<databaseVars, cache, latest>>

StoresNext ==
  \/ TimePasses
  \/ \E e \in Entity, t \in Tenant : save_entity(e, t) \/ delete_entity(e, t)
  \/ \E k \in Key : get(k) \/ invalidate(k) \/ \E v \in Value, ttl \in Lifetimes : set(k, v, ttl)
------------------------------------------------------------------------------
(* The cache gives what was last set for the key and within its time, and  *)
(* gives it all that time; only where that is a secret does it go on with  *)
(* what was there before.                                                  *)
CacheIsCurrent ==
  \A k \in Key : LET current == {entry \in latest[k] : ~Expired(entry)} IN
    (\A entry \in latest[k] : entry.value \notin Secrets) => Cached(k) = current

(* What a tenant reads of an entity is what that tenant saved, unless two  *)
(* tenants have saved under one id: the second then replaces the data of   *)
(* the first.                                                              *)
TenantReadsItsOwn ==
  \A e \in Entity \ shared, t \in Tenant : \A x \in get_entity(e, t) : x.from = t
------------------------------------------------------------------------------
(***************************************************************************)
(* The platform's models and their fall-backs                              *)
(* (app/platform/model_lifecycle.py).  A search for a model that may be    *)
(* used never suspends, so that nothing else happens while it goes on; its *)
(* loop is modelled turn by turn, for it may not end.                      *)
(***************************************************************************)
CONSTANTS
  Model,
  Shipped,        \* the models the manager begins with
  NoModel

ASSUME LifecycleAssumption == NoModel \notin Model

VARIABLES
  models,         \* each model's profile, {} before it is registered
  at,             \* the fallback_id of the search that goes on, {} without one
  vision,         \* whether that search requires vision
  answer          \* what the last search returned

lifecycleVars == <<models, at, vision, answer>>

Profile == [active : BOOLEAN, vision : BOOLEAN, fallback : Model \union {NoModel}]

LifecycleInit ==
  /\ models = Shipped /\ at = {} /\ vision = FALSE /\ answer = NoModel
------------------------------------------------------------------------------
register_model(m, profile) ==
  /\ at = {}
  /\ models' = [models EXCEPT ![m] = {profile}]
  /\ UNCHANGED <<at, vision, answer>>

Returns(m) == at' = {} /\ vision' = FALSE /\ answer' = m /\ UNCHANGED models

(* resolve_model_or_fallback: a model that is active is the answer,        *)
(* whatever it can do.                                                     *)
resolve_model_or_fallback(m, needs) ==
  /\ at = {}
  /\ IF \A p \in models[m] : p.active
     THEN Returns(IF models[m] = {} THEN NoModel ELSE m)
     ELSE /\ at' = {p.fallback : p \in models[m]}
          /\ vision' = needs /\ answer' = NoModel /\ UNCHANGED models

(* Of the capabilities only vision is looked at. *)
Serves(p) == p.active /\ (vision => p.vision)

Missing(id) == id \notin {m \in Model : models[m] # {}}

(* Fault: a fall-back that does not serve is looked at again. *)
Again(id, p) == id

Further(id, p) == p.fallback

(* One turn of the loop. *)
LookAt(id) ==
  \/ Missing(id) /\ Returns(NoModel)
  \/ ~Missing(id) /\ \E p \in models[id] :
       IF Serves(p) THEN Returns(id)
       ELSE at' = {Further(id, p)} /\ UNCHANGED <<models, vision, answer>>

LifecycleNext ==
  \/ \E m \in Model, profile \in Profile : register_model(m, profile)
  \/ \E m \in Model, needs \in BOOLEAN : resolve_model_or_fallback(m, needs)
  \/ \E id \in at : LookAt(id)

LifecycleFairness == WF_lifecycleVars(\E id \in at : LookAt(id))
------------------------------------------------------------------------------
(* The fall-back of a model, and that of its fall-back, and so on. *)
FallbackOf(m) == IF Missing(m) THEN NoModel ELSE (CHOOSE p \in models[m] : TRUE).fallback

Chain(m) ==
  LET nth[n \in 0..Cardinality(Model)] == IF n = 0 THEN m ELSE FallbackOf(nth[n - 1])
  IN {nth[n] : n \in 0..Cardinality(Model)}

(* A search ends unless the fall-backs go round in a circle.  A search for *)
(* a model in a circle none of whose members serves never does, and no     *)
(* other request is answered any more.                                     *)
SearchEndsUnlessCircular ==
  (at # {}) ~> (at = {} \/ \A id \in at : NoModel \notin Chain(id))
==============================================================================
