---------------------------- MODULE MCOperations ----------------------------
(***************************************************************************)
(* What surrounds the agent, for TLC: GPU memory, budgets and limits, the  *)
(* circuit breaker, improvement proposals, release gates, connections to   *)
(* external systems, the platform's stores and models, and the browser's   *)
(* end of the chat.  They share no variable, so a behaviour is about one   *)
(* of them: part says which, and the others stay as they began.            *)
(***************************************************************************)
EXTENDS PlatformResources, Evaluation, ReleaseGates, Connections, PlatformStores, ChatClient

CONSTANTS c1, c2, u1, u2, m1, m2

VARIABLE part

restVars == <<gpuVars, breakerVars, improvementVars, gatesVars, connectionsVars, accountsVars,
              storesVars, lifecycleVars, clientVars>>
vars == <<restVars, part>>

TwoTenants == [u \in {u1, u2} |-> IF u = u1 THEN "default_tenant" ELSE "other"]

(* As the manager begins, but for the third model. *)
ShippedModels ==
  [m \in {m1, m2} |->
     {[active |-> TRUE, vision |-> TRUE, fallback |-> IF m = m1 THEN m2 ELSE NoModel]}]

Parts == {"devices", "breaker", "improvement", "release", "links", "accounts", "stores", "models",
          "client"}

Init ==
  /\ part \in Parts
  /\ GPUInit /\ BreakerInit /\ ImprovementInit /\ GatesInit /\ ConnectionsInit /\ AccountsInit
  /\ StoresInit /\ LifecycleInit /\ ClientInit
  /\ part # "breaker" => mended
  /\ part # "client" => given = {}

Next ==
  /\ UNCHANGED part
  /\ \/ /\ part = "devices" /\ GPUNext
        /\ UNCHANGED <<breakerVars, improvementVars, gatesVars, connectionsVars, accountsVars,
                       storesVars, lifecycleVars, clientVars>>
     \/ /\ part = "breaker" /\ BreakerNext
        /\ UNCHANGED <<gpuVars, improvementVars, gatesVars, connectionsVars, accountsVars,
                       storesVars, lifecycleVars, clientVars>>
     \/ /\ part = "improvement" /\ ImprovementNext
        /\ UNCHANGED <<gpuVars, breakerVars, gatesVars, connectionsVars, accountsVars,
                       storesVars, lifecycleVars, clientVars>>
     \/ /\ part = "release" /\ GatesNext
        /\ UNCHANGED <<gpuVars, breakerVars, improvementVars, connectionsVars, accountsVars,
                       storesVars, lifecycleVars, clientVars>>
     \/ /\ part = "links" /\ ConnectionsNext
        /\ UNCHANGED <<gpuVars, breakerVars, improvementVars, gatesVars, accountsVars,
                       storesVars, lifecycleVars, clientVars>>
     \/ /\ part = "accounts" /\ AccountsNext
        /\ UNCHANGED <<gpuVars, breakerVars, improvementVars, gatesVars, connectionsVars,
                       storesVars, lifecycleVars, clientVars>>
     \/ /\ part = "stores" /\ StoresNext
        /\ UNCHANGED <<gpuVars, breakerVars, improvementVars, gatesVars, connectionsVars,
                       accountsVars, lifecycleVars, clientVars>>
     \/ /\ part = "models" /\ LifecycleNext
        /\ UNCHANGED <<gpuVars, breakerVars, improvementVars, gatesVars, connectionsVars,
                       accountsVars, storesVars, clientVars>>
     \/ /\ part = "client" /\ ClientNext
        /\ UNCHANGED <<gpuVars, breakerVars, improvementVars, gatesVars, connectionsVars,
                       accountsVars, storesVars, lifecycleVars>>

Spec ==
  /\ Init /\ [][Next]_vars
  /\ part = "breaker" => BreakerFairness
  /\ part = "models" => LifecycleFairness
  /\ part = "client" => ClientFairness

(* What is held, spent and scaled is accounted for (PlatformResources).     *)
ResourcesAreAccounted == DeviceMemoryIsAccounted /\ BudgetsAreCharged /\ PoolWithinSize

(* Nothing takes effect outside before it has passed its gate (Evaluation,  *)
(* ReleaseGates).                                                           *)
EffectsAreEarned == PromotionIsEarned /\ EffectsAreGated

(* Two stores of one thing agree, and what is read is current (Connections, *)
(* PlatformStores).                                                         *)
StoresAreCurrent == CallsWithinQuota /\ VaultFollowsCredentials /\ CacheIsCurrent /\ TenantReadsItsOwn

(* No message of a view is lost or doubled, nor its socket (ChatClient).    *)
LinkIsSound == SentInOrder /\ SecondSocketNeedsReconnect
=============================================================================
