----------------------------- MODULE Evaluation ------------------------------
(***************************************************************************)
(* What keeps the agent from doing harm again: the circuit breaker of a    *)
(* resource first, then the proposals to improve.                          *)
(***************************************************************************)
EXTENDS Naturals, FiniteSets

(***************************************************************************)
(* The circuit breaker of one resource                                     *)
(* (app/evaluation/circuit_breaker.py), with the calls it lets through.  A *)
(* caller asks can_execute, calls the resource, and records how that went, *)
(* perhaps long after, when the breaker is in another state.  The breaker  *)
(* does not tell whose result it is.                                       *)
(***************************************************************************)
CONSTANTS
  Caller,
  failure_threshold, success_threshold,
  Recovery        \* recovery_time_seconds, in ticks of the clock

ASSUME BreakerAssumption ==
  {failure_threshold, success_threshold, Recovery} \subseteq Nat \ {0}

VARIABLES
  circuit,        \* the breaker's state
  failure_count, success_count,
  rested,         \* ticks since last_failure_time, up to Recovery
  calling,        \* each caller: idle, or how its call to the resource will go
  mended          \* whether the resource answers

breakerVars == <<circuit, failure_count, success_count, rested, calling, mended>>

BreakerInit ==
  /\ circuit = "CLOSED" /\ failure_count = 0 /\ success_count = 0
  /\ rested = Recovery                       \* last_failure_time is 0.0
  /\ calling = [c \in Caller |-> "idle"]
  /\ mended \in BOOLEAN
------------------------------------------------------------------------------
(* Fault: a half-open circuit lets one call through. *)
OneProbe == circuit = "CLOSED" \/ (circuit = "OPEN" /\ rested = Recovery)

LetsThrough == circuit # "OPEN" \/ rested = Recovery

(* can_execute, and the call that follows it.  A call to a resource that   *)
(* is mended succeeds; before, it may go either way.                       *)
can_execute(c) ==
  /\ calling[c] = "idle" /\ LetsThrough
  /\ IF circuit = "OPEN"
     THEN circuit' = "HALF_OPEN" /\ success_count' = 0
     ELSE UNCHANGED <<circuit, success_count>>
  /\ \E way \in (IF mended THEN {"succeeds"} ELSE {"succeeds", "fails"}) :
       calling' = [calling EXCEPT ![c] = way]
  /\ UNCHANGED <<failure_count, rested, mended>>

record_success(c) ==
  /\ calling[c] = "succeeds"
  /\ calling' = [calling EXCEPT ![c] = "idle"]
  /\ CASE circuit = "HALF_OPEN" /\ success_count + 1 >= success_threshold ->
            circuit' = "CLOSED" /\ failure_count' = 0 /\ success_count' = success_count + 1
       [] circuit = "HALF_OPEN" /\ success_count + 1 < success_threshold ->
            success_count' = success_count + 1 /\ UNCHANGED <<circuit, failure_count>>
       [] circuit = "CLOSED" -> failure_count' = 0 /\ UNCHANGED <<circuit, success_count>>
       [] circuit = "OPEN" -> UNCHANGED <<circuit, failure_count, success_count>>
  /\ UNCHANGED <<rested, mended>>

record_failure(c) ==
  /\ calling[c] = "fails"
  /\ calling' = [calling EXCEPT ![c] = "idle"]
  /\ rested' = 0
  /\ failure_count' = IF circuit = "CLOSED" THEN failure_count + 1 ELSE failure_count
  /\ circuit' = IF circuit = "HALF_OPEN" \/ failure_count' >= failure_threshold
                THEN "OPEN" ELSE circuit
  /\ UNCHANGED <<success_count, mended>>

ClockTicks == rested < Recovery /\ rested' = rested + 1
              /\ UNCHANGED <<circuit, failure_count, success_count, calling, mended>>

Mend == ~mended /\ mended' = TRUE
        /\ UNCHANGED <<circuit, failure_count, success_count, rested, calling>>

BreakerNext ==
  \/ ClockTicks \/ Mend
  \/ \E c \in Caller : can_execute(c) \/ record_success(c) \/ record_failure(c)

(* Time passes, calls end and are recorded, and there is always another    *)
(* call.  Nothing has to mend the resource.                                *)
BreakerFairness ==
  /\ WF_breakerVars(ClockTicks)
  /\ \A c \in Caller : /\ WF_breakerVars(can_execute(c))
                       /\ WF_breakerVars(record_success(c)) /\ WF_breakerVars(record_failure(c))
------------------------------------------------------------------------------
(* Once the resource answers, the breaker ends up closed and stays closed, *)
(* however late the failures of earlier calls are recorded and whatever    *)
(* they do to a circuit that is half open.                                 *)
MendedCircuitCloses == <>[](mended => circuit = "CLOSED")
------------------------------------------------------------------------------
(***************************************************************************)
(* Improvement proposals (app/evaluation/improvement.py): a safety scan,   *)
(* the benchmarks, the regression suite and the promotion.  Benchmarks and *)
(* regression cases run the agent, so that a validation is suspended in    *)
(* each of them, and another of the same proposal may be asked meanwhile   *)
(* (POST /improvement/validate looks at no status).                        *)
(***************************************************************************)
CONSTANTS
  Proposal,
  Dangerous,      \* the proposals whose diff has "ignore" or "exec" in it
  Validation,     \* the requests to validate, numbered in the order they begin
  GoldenTask,     \* the tasks of the benchmark
  Case            \* the regression cases

ASSUME ImprovementAssumption == Dangerous \subseteq Proposal /\ Validation \subseteq Nat

VARIABLES
  proposal_status,
  report,         \* what validation_report says of each proposal: none, error or passed
  phase,          \* where each validation is
  subject,        \* the proposal it validates
  left,           \* the tasks or cases it has still to run
  failed,         \* how many of those it ran did not pass
  judged          \* history: the verdict of the last validation that ended

improvementVars == <<proposal_status, report, phase, subject, left, failed, judged>>

Verdict == {"none", "error", "passed"}
Judged == {"APPROVED_CANDIDATE", "PROMOTED_TO_PRODUCTION"}

ImprovementInit ==
  /\ proposal_status = [p \in Proposal |-> "PROPOSED"]
  /\ report = [p \in Proposal |-> "none"] /\ judged = [p \in Proposal |-> "none"]
  /\ phase = [v \in Validation |-> "unasked"]
  /\ subject = [v \in Validation |-> CHOOSE p \in Proposal : TRUE]
  /\ left = [v \in Validation |-> {}] /\ failed = [v \in Validation |-> 0]
------------------------------------------------------------------------------
(* The verdict of v on p, with the status and the report it leaves. *)
Concludes(v, p, status, verdict) ==
  /\ proposal_status' = [proposal_status EXCEPT ![p] = status]
  /\ report' = [report EXCEPT ![p] = verdict]
  /\ judged' = [judged EXCEPT ![p] = verdict]
  /\ phase' = [phase EXCEPT ![v] = "ended"]
  /\ UNCHANGED <<left, failed>>

Rejects(v, p) == Concludes(v, p, "REJECTED_REGRESSION", "error")

(* validate_proposal: with a dangerous diff it ends before the first await *)
(* and else goes into the benchmarks.  The report of an earlier validation *)
(* stays.                                                                  *)
validate_proposal(v, p) ==
  /\ phase[v] = "unasked" /\ \A w \in Validation : w < v => phase[w] # "unasked"
  /\ subject' = [subject EXCEPT ![v] = p]
  /\ IF p \in Dangerous THEN Concludes(v, p, "REJECTED_SAFETY", "error")
     ELSE /\ proposal_status' = [proposal_status EXCEPT ![p] = "SANDBOX_VALIDATING"]
          /\ phase' = [phase EXCEPT ![v] = "benchmarks"]
          /\ left' = [left EXCEPT ![v] = GoldenTask]
          /\ UNCHANGED <<report, failed, judged>>

(* One task of the benchmarks, or one case of the suite, has been run.     *)
RunOne(v) ==
  /\ left[v] # {}
  /\ \E t \in left[v], passes \in BOOLEAN :
       /\ left' = [left EXCEPT ![v] = @ \ {t}]
       /\ failed' = [failed EXCEPT ![v] = IF passes THEN @ ELSE @ + 1]
  /\ UNCHANGED <<proposal_status, report, phase, subject, judged>>

(* pass_rate < 0.60 *)
BelowRate(v) ==
  10 * (Cardinality(GoldenTask) - failed[v]) < 6 * Cardinality(GoldenTask)

BenchmarksEnd(v) ==
  /\ phase[v] = "benchmarks" /\ left[v] = {}
  /\ IF BelowRate(v) THEN Rejects(v, subject[v])
     ELSE /\ phase' = [phase EXCEPT ![v] = "regression"]
          /\ left' = [left EXCEPT ![v] = Case] /\ failed' = [failed EXCEPT ![v] = 0]
          /\ UNCHANGED <<proposal_status, report, judged>>
  /\ UNCHANGED subject

RegressionEnds(v) ==
  /\ phase[v] = "regression" /\ left[v] = {}
  /\ IF failed[v] > 0 THEN Rejects(v, subject[v])
     ELSE Concludes(v, subject[v], "APPROVED_CANDIDATE", "passed")
  /\ UNCHANGED subject

(* Fault: a candidate is a proposal whose report has passed. *)
ReportPassed(p) == report[p] = "passed"

IsCandidate(p) == proposal_status[p] = "APPROVED_CANDIDATE"

promote_candidate(p) ==
  /\ IsCandidate(p)
  /\ proposal_status' = [proposal_status EXCEPT ![p] = "PROMOTED_TO_PRODUCTION"]
  /\ UNCHANGED <<report, phase, subject, left, failed, judged>>

ImprovementNext ==
  \/ \E p \in Proposal : promote_candidate(p) \/ \E v \in Validation : validate_proposal(v, p)
  \/ \E v \in Validation : RunOne(v) \/ BenchmarksEnd(v) \/ RegressionEnds(v)

------------------------------------------------------------------------------
(* A candidate, and what is promoted, has the report of the last validation *)
(* that ended, and that one passed both gates: a validation that runs or    *)
(* has failed since takes the proposal out of both.                         *)
PromotionIsEarned ==
  \A p \in Proposal :
    proposal_status[p] \in Judged =>
      p \notin Dangerous /\ report[p] = "passed" /\ judged[p] = "passed"
==============================================================================
