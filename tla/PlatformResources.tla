-------------------------- MODULE PlatformResources --------------------------
(***************************************************************************)
(* What tasks are given of the platform's resources, and what they are     *)
(* charged for it: the memory of its devices first, then limits, budgets   *)
(* and workers.                                                            *)
(***************************************************************************)
EXTENDS Integers, FiniteSets, FiniteSetsExt

(***************************************************************************)
(* Memory of the GPU devices (app/platform/gpu_scheduler.py).  Nothing but *)
(* a device's total is recorded; who holds how much is the callers' own    *)
(* account, kept here as history.  A caller gives back what it took, and   *)
(* may or may not say which task it is, as the test does                   *)
(* (tests/platform/test_gpu_scheduling.py:19).                             *)
(***************************************************************************)
CONSTANTS
  GPUTask,        \* each asks for memory once at a time
  Device,         \* numbered in the order they are tried
  Total,          \* total_vram_mb
  Amounts,        \* the values of required_vram_mb
  NoTask

ASSUME GPUAssumption ==
  /\ Device \subseteq Nat /\ Total \in Nat \ {0} /\ Amounts \subseteq 1..Total
  /\ NoTask \notin GPUTask

VARIABLES
  allocated,      \* allocated_vram_mb
  exclusive,      \* exclusive_task_id
  held,           \* history: what each task holds, and on which device
  muddled         \* history: devices reset while another task held a share of them

gpuVars == <<allocated, exclusive, held, muddled>>

Grant == [task : GPUTask, device : Device, amount : Amounts \union {Total}]

On(d) == {h \in held : h.device = d}
HeldOn(d) == MapThenSumSet(LAMBDA h : h.amount, On(d))

GPUInit ==
  /\ allocated = [d \in Device |-> 0]
  /\ exclusive = [d \in Device |-> NoTask]
  /\ held = {} /\ muddled = {}
------------------------------------------------------------------------------
(* Fault: an exclusive task gets a device that is shared. *)
SharedToo(d) == TRUE

Idle(d) == allocated[d] = 0

Fits(d, amount, whole) ==
  /\ exclusive[d] = NoTask
  /\ IF whole THEN Idle(d) ELSE Total - allocated[d] >= amount

Suits(amount, whole) == {d \in Device : Fits(d, amount, whole)}

(* allocate_gpu: the first device that suits, or None and nothing changes. *)
allocate_gpu(t, amount, whole) ==
  /\ t \notin {h.task : h \in held} /\ Suits(amount, whole) # {}
  /\ LET d == Min(Suits(amount, whole)) IN
     IF whole
     THEN /\ exclusive' = [exclusive EXCEPT ![d] = t]
          /\ allocated' = [allocated EXCEPT ![d] = Total]
          /\ held' = held \union {[task |-> t, device |-> d, amount |-> Total]}
     ELSE /\ allocated' = [allocated EXCEPT ![d] = @ + amount]
          /\ held' = held \union {[task |-> t, device |-> d, amount |-> amount]}
          /\ UNCHANGED exclusive
  /\ UNCHANGED muddled

(* release_gpu of what h holds, by a caller that says it is task id.  No   *)
(* task is the exclusive task of a shared device, so that a caller that    *)
(* says none has the whole device reset.                                   *)
release_gpu(h, id) ==
  LET d == h.device  reset == exclusive[d] = id \/ exclusive[d] # NoTask IN
  /\ held' = held \ {h}
  /\ exclusive' = IF reset THEN [exclusive EXCEPT ![d] = NoTask] ELSE exclusive
  /\ allocated' = [allocated EXCEPT ![d] =
                     IF reset THEN 0 ELSE Max({0, @ - h.amount})]
  /\ muddled' = IF reset /\ On(d) # {h} THEN muddled \union {d} ELSE muddled

Release(h) == \E id \in {h.task, NoTask} : release_gpu(h, id)

GPUNext ==
  \/ \E t \in GPUTask, amount \in Amounts, whole \in BOOLEAN : allocate_gpu(t, amount, whole)
  \/ \E h \in held : Release(h)
------------------------------------------------------------------------------
(* The total of a device is what its tasks hold, never more than there is, *)
(* unless a share of it was once given back without a task id while others *)
(* held theirs: then memory in use is handed out again.                    *)
DeviceMemoryIsAccounted ==
  \A d \in Device \ muddled : allocated[d] = HeldOn(d) /\ HeldOn(d) <= Total
------------------------------------------------------------------------------
(***************************************************************************)
(* What tasks may use: the limits of a task's resources, the budgets of a  *)
(* task, its user and its project, and the size of a worker pool           *)
(* (app/platform/resource_limiter.py, cost_governance.py, autoscaler.py).  *)
(* Every operation is one step.  Amounts are whole units; tokens and tool  *)
(* calls of a task are limited alike, and stand as two kinds of one use.   *)
(***************************************************************************)
CONSTANTS
  Kind,           \* what record_usage counts: tokens, tool calls
  max_use,        \* the limit of each
  MaxUse,         \* bound: a use counted after the limit
  Uses, Costs,    \* the amounts of one call
  max_budget,     \* the sum set for an entity
  MaxSpend,       \* bound: what is spent altogether
  min_workers, max_workers, tasks_per_worker, cooldown,
  Depths          \* the depths of the queue

ASSUME AccountsAssumption ==
  /\ {max_use, MaxUse, max_budget, MaxSpend} \subseteq Nat /\ Uses \union Costs \subseteq Nat
  /\ min_workers \in Nat /\ max_workers \in Nat /\ min_workers <= max_workers
  /\ tasks_per_worker \in Nat \ {0} /\ cooldown \in Nat /\ Depths \subseteq Nat

(* The order in which an expense is charged. *)
ChargeOrder == <<"user", "project", "task">>

VARIABLES
  used, within,   \* a task's use of each kind; what record_usage last returned
  spend,          \* current_spend_usd of each entity that has a budget, -1 without one
  expenses,       \* history: what was recorded
  owed,           \* history: what was recorded for each since its budget was set
  passedOver,     \* history: the entities an expense stopped short of
  stopped,        \* history: the entities an expense stopped at
  workers, cooling    \* the pool, and the time until it may be scaled again

limitVars == <<used, within>>
budgetVars == <<spend, expenses, owed, passedOver, stopped>>
poolVars == <<workers, cooling>>
accountsVars == <<limitVars, budgetVars, poolVars>>

AccountsInit ==
  /\ used = [k \in Kind |-> 0] /\ within = TRUE
  /\ spend = [i \in DOMAIN ChargeOrder |-> -1] /\ expenses = 0
  /\ owed = [i \in DOMAIN ChargeOrder |-> 0] /\ passedOver = {} /\ stopped = {}
  /\ workers = min_workers /\ cooling = 0
------------------------------------------------------------------------------
(* initialize_task: again, it starts from nothing. *)
initialize_task ==
  /\ used' = [k \in Kind |-> 0]
  /\ UNCHANGED <<within, budgetVars, poolVars>>

(* The use is counted first and looked at then: it may be over the limit   *)
(* by one call, and a task told so may go on.                              *)
record_usage(k, n) ==
  /\ used[k] + n <= MaxUse
  /\ used' = [used EXCEPT ![k] = @ + n]
  /\ within' = (\A j \in Kind : used'[j] <= max_use)
  /\ UNCHANGED <<budgetVars, poolVars>>
------------------------------------------------------------------------------
(* A new budget, with nothing spent. *)
set_budget(i) ==
  /\ spend' = [spend EXCEPT ![i] = 0] /\ owed' = [owed EXCEPT ![i] = 0]
  /\ passedOver' = passedOver \ {i}
  /\ UNCHANGED <<expenses, stopped, limitVars, poolVars>>

Budgeted == {i \in DOMAIN ChargeOrder : spend[i] # -1}

(* The budgets that n more puts over their limit. *)
Over(n) == {i \in Budgeted : spend[i] + n > max_budget}

(* Fault: charging stops before the first budget that is over. *)
ChargedBelow(n) == {i \in Budgeted : \A j \in Over(n) : i < j}

(* Charging stops after the first budget that is over. *)
Charged(n) == {i \in Budgeted : \A j \in Over(n) : i <= j}

record_expense(n) ==
  /\ expenses + n <= MaxSpend /\ expenses' = expenses + n
  /\ spend' = [i \in DOMAIN ChargeOrder |-> IF i \in Charged(n) THEN spend[i] + n ELSE spend[i]]
  /\ owed' = [i \in DOMAIN ChargeOrder |-> IF i \in Budgeted THEN owed[i] + n ELSE owed[i]]
  /\ passedOver' = passedOver \union {i \in Budgeted \ Charged(n) : n > 0}
  /\ stopped' = stopped \union (Over(n) \intersect Charged(n))
  /\ UNCHANGED <<limitVars, poolVars>>
------------------------------------------------------------------------------
Scales(target) == workers' = target /\ cooling' = cooldown /\ UNCHANGED <<limitVars, budgetVars>>

(* Fault: the pool grows by what is wanted. *)
Ungoverned(depth) == Max({workers + 2, (depth \div tasks_per_worker) + 1})

Target(depth) == Min({max_workers, Max({workers + 2, (depth \div tasks_per_worker) + 1})})

(* evaluate_scaling, and the pool is made as large as it says.  busy and   *)
(* quiet: more than 80 and less than 20 percent of the workers at work.    *)
ScaleUp(depth, busy) ==
  /\ cooling = 0 /\ (depth > workers * tasks_per_worker \/ busy)
  /\ Target(depth) > workers /\ Scales(Target(depth))

ScaleDown(depth, quiet) ==
  /\ cooling = 0 /\ depth = 0 /\ quiet /\ workers > min_workers
  /\ Scales(Max({min_workers, workers - 1}))

Cools == cooling > 0 /\ cooling' = cooling - 1 /\ UNCHANGED <<limitVars, budgetVars, workers>>

AccountsNext ==
  \/ initialize_task \/ \E k \in Kind, n \in Uses : record_usage(k, n)
  \/ \E i \in DOMAIN ChargeOrder : set_budget(i)
  \/ \E n \in Costs : record_expense(n)
  \/ \E depth \in Depths, flag \in BOOLEAN : ScaleUp(depth, flag) \/ ScaleDown(depth, flag)
  \/ Cools
------------------------------------------------------------------------------
(* A budget shows all that was recorded for its entity since it was set,   *)
(* unless an expense stopped at the budget, over its limit, of an entity   *)
(* charged before: a task's own spending is not charged to it while its    *)
(* user is over the limit.                                                 *)
BudgetsAreCharged ==
  \A i \in Budgeted :
    /\ i \notin passedOver => spend[i] = owed[i]
    /\ i \in passedOver => spend[i] < owed[i] /\ \E j \in stopped : j < i

(* The pool stays within its size. *)
PoolWithinSize == min_workers <= workers /\ workers <= max_workers
==============================================================================
