----------------------------- MODULE TaskIntake -----------------------------
(***************************************************************************)
(* What the agent makes of a request before it plans: what it needs and    *)
(* risks (app/agent/understanding.py), its type (classifier.py), and the   *)
(* tool that stands for a capability (router.py).                          *)
(*                                                                         *)
(* A request is the set of the known phrases in it: Within gives the       *)
(* phrases within a phrase, and Opens those a question begins with.        *)
(***************************************************************************)
EXTENDS Naturals, FiniteSetsExt, Sequences, SequencesExt, ToolPermissions

CONSTANTS
  Phrase,       \* of requests
  Within,     \* Within[p]: the phrases found in p, p itself among them
  ToolTier,     \* the permission tier of every registered tool
  Capability,   \* what a step may need, tool names among them
  Candidates,   \* CAPABILITY_TOOL_MAP, empty where it has no entry
  NoRoute, NoRequest

ASSUME IntakeAssumption ==
  /\ \A p \in Phrase : p \in Within[p]
  /\ \A t \in DOMAIN ToolTier : ToolTier[t] \in PermissionTier
  /\ Candidates \in [Capability -> Seq(STRING)] /\ NoRoute \notin DOMAIN ToolTier

VARIABLES
  original_request,      \* the phrases in it
  understanding, task_type,
  registry,     \* the tools that are registered
  route         \* the capability routed last, the grant and the tool

intakeVars == <<original_request, understanding, task_type, registry, route>>

IntakeInit ==
  /\ original_request = {} /\ understanding = NoRequest /\ task_type = NoRequest
  /\ registry \in {DOMAIN ToolTier} \union {(DOMAIN ToolTier) \ {t} : t \in DOMAIN ToolTier}
  /\ route = NoRequest
------------------------------------------------------------------------------
Found(said) == UNION {Within[p] : p \in said}

Says(said, phrases) == Found(said) \intersect phrases # {}

Code == {"code", "python", "script", "function", "class", "test", "debug", "refactor", "bug",
         "implement"}
Web == {"search", "find out", "research", "browse", "website", "documentation", "latest", "news",
        "google", "arxiv"}
Write == {"write", "create file", "save", "modify", "edit", "update file", "delete", "remove"}
Verify == {"verify", "check", "fact-check", "is it true", "compatible", "test it", "validate",
           "confirm"}
Math == {"calculate", "solve", "matrix", "equation", "formula", "convert", "unit"}
Data == {"csv", "json", "dataset", "dataframe", "columns", "average", "statistics"}
Destroys == {"rm -rf", "delete", "destroy", "drop database", "overwrite", "kill"}
Installs == {"system", "sudo", "execute", "install", "pip install", "npm install"}

(* LOW, MEDIUM and HIGH. *)
RiskOfWriting(said) ==
  IF Says(said, Destroys) THEN 2 ELSE IF Says(said, Write) THEN 1 ELSE 0

(* Fault: what is installed makes the risk medium, whatever it was. *)
RiskOfLast(said) == IF Says(said, Installs) THEN 1 ELSE RiskOfWriting(said)

Risk(said) ==
  IF Says(said, Installs) /\ RiskOfWriting(said) # 2 THEN 1 ELSE RiskOfWriting(said)

(* The evidence required, and a criterion of success for each. *)
Needs(said) ==
  {need \in {"sources", "primary", "tests", "computation", "schema"} :
     CASE need = "primary"     -> Says(said, Verify)
       [] need = "sources"     -> Says(said, Web)
       [] need = "tests"       -> Says(said, Code)
       [] need = "computation" -> Says(said, Math)
       [] need = "schema"      -> Says(said, Data)}

understand(said) ==
  [risk_level |-> Risk(said), required_evidence |-> Needs(said),
   constraints |-> Found(said) \intersect {"without", "only"},
   requires_code_execution |-> Says(said, Code),
   requires_web_research |-> Says(said, Web),
   requires_filesystem_write |-> Says(said, Write),
   requires_verification |-> Says(said, Verify) \/ Says(said, Code)]

(* The domains of a request, in the order they are asked for one by one.   *)
Domains ==
  <<[type |-> "CODING", phrases |-> {"write code", "implement", "create function", "fix bug",
      "refactor", "unit test", "write script", "debug", "run test", "write a test",
      "test in python", "coding"}],
    [type |-> "RESEARCH", phrases |-> {"search", "research", "find out", "check documentation",
      "browse"}],
    [type |-> "DATA_ANALYSIS", phrases |-> {"csv", "dataset", "dataframe", "columns",
      "calculate statistics"}],
    [type |-> "MATHEMATICAL", phrases |-> {"calculate", "solve equation", "matrix", "integral",
      "convert unit", "sqrt("}],
    [type |-> "BROWSER_TASK", phrases |-> {"open browser", "click element", "fill form",
      "browser screenshot", "puppeteer", "playwright"}],
    [type |-> "DOCUMENT_ANALYSIS", phrases |-> {"pdf document", "docx document",
      "summarize doc", "extract table from doc"}],
    [type |-> "SYSTEM_TASK", phrases |-> {"system info", "cpu info", "memory info", "gpu info",
      "disk usage", "os info"}]>>

Claims == {"fact-check", "is it true that", "verify claim", "contradiction", "check whether",
           "compatible with", "verify compatibility"}

(* A question is known by its first word. *)
Questions == {"what", "how", "why", "who", "when", "where", "explain", "describe", "tell me"}

classify(said, opening) ==
  LET asked == SelectSeq(Domains, LAMBDA d : Says(said, d.phrases))
      claim == Says(said, Claims)
  IN  IF claim /\ ~Says(said, Domains[1].phrases) THEN "FACT_CHECK"
      ELSE IF Len(asked) >= 2 THEN "MULTI_DOMAIN"
      ELSE IF claim THEN "FACT_CHECK"
      ELSE IF asked # <<>>
           THEN IF asked[1].type = "CODING" /\ Says(said, {"debug", "error", "traceback", "fix",
                     "exception", "broken", "failing"})
                THEN "DEBUGGING" ELSE asked[1].type
      ELSE IF opening \in Questions THEN "GENERAL_QUESTION" ELSE "UNKNOWN"

(* Stages 1 and 2 of run_task, which has one request. *)
Receive ==
  /\ understanding = NoRequest
  /\ \E said \in SUBSET Phrase : \E opening \in said \union {"the"} :
       /\ original_request' = said
       /\ understanding' = understand(said) /\ task_type' = classify(said, opening)
       /\ UNCHANGED <<registry, route>>
------------------------------------------------------------------------------
Usable(tool, granted) == tool \in registry /\ check_permission(ToolTier[tool], granted)

(* Fault: a capability that is itself a tool is taken without a check. *)
DirectUnchecked(capability, granted) ==
  IF capability \in registry THEN capability ELSE NoRoute

Direct(capability, granted) == IF Usable(capability, granted) THEN capability ELSE NoRoute

(* A tool that is preferred, the first candidate, or a tool of that name.  *)
route_capability(capability, granted, preferred) ==
  LET list == Candidates[capability]
      usable == {i \in DOMAIN list : Usable(list[i], granted)}
  IN  IF preferred # NoRoute /\ Usable(preferred, granted) THEN preferred
      ELSE IF usable # {} THEN list[Min(usable)]
      ELSE Direct(capability, granted)

(* A routing leaves nothing behind: one is enough to look at. *)
Route ==
  /\ route = NoRequest
  /\ \E capability \in Capability, granted \in PermissionTier,
        preferred \in (DOMAIN ToolTier) \union {NoRoute} :
       route' = [capability |-> capability, granted |-> granted, preferred |-> preferred,
                 tool |-> route_capability(capability, granted, preferred)]
  /\ UNCHANGED <<original_request, understanding, task_type, registry>>

IntakeNext == Receive \/ Route
------------------------------------------------------------------------------
(* A request that says more is never taken for less dangerous, nor needs   *)
(* less evidence or verification, than one that says less.                 *)
RiskIsMonotone ==
  understanding # NoRequest =>
    \A said \in SUBSET original_request :
      LET less == understand(said)
      IN  /\ less.risk_level <= understanding.risk_level
          /\ less.required_evidence \subseteq understanding.required_evidence
          /\ less.requires_verification => understanding.requires_verification

(* A capability is routed to a registered tool within the tier granted, if *)
(* there is any; who is granted more never finds less.                     *)
RouteIsGranted ==
  route # NoRequest =>
    /\ route.tool # NoRoute => Usable(route.tool, route.granted)
    /\ route.tool = NoRoute =>
         \A t \in ToSet(Candidates[route.capability]) \union {route.capability} :
           t \in registry => ToolTier[t] > route.granted
    /\ \A more \in route.granted..SYSTEM :
         route.tool # NoRoute =>
           route_capability(route.capability, more, route.preferred) # NoRoute
=============================================================================
