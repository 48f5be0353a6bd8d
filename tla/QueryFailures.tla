---------------------------- MODULE QueryFailures ----------------------------
(***************************************************************************)
(* The failure vocabulary of the query pipeline: the user-safe failure     *)
(* record of orchestrator/state.py and the constructor of                  *)
(* orchestrator/query_failures.py.  Wording (user_safe_reason,             *)
(* suggested_action) is left out: no decision of the code reads it.        *)
(***************************************************************************)
EXTENDS Naturals

ToolNames == {"sql", "graph"}

NoTool == "none"

FailureKinds == {"user_correctable", "infrastructure", "internal"}

FailureStages ==
  {"entity_resolution", "routing", "planning", "validation", "execution",
   "result", "dependency"}

FailureCodes ==
  {"QUERY_VALIDATION_INTERNAL_ERROR", "QUERY_POLICY_BLOCKED",
   "QUERY_CONTRACT_FAILED", "QUERY_TIMEOUT", "QUERY_EXECUTION_FAILED",
   "INFRASTRUCTURE_UNAVAILABLE", "INTERNAL_QUERY_FAILURE",
   "DEPENDENCY_FAILED", "INPUT_BINDING_INVALID", "REQUEST_POLICY_BLOCKED",
   "OFF_TOPIC", "ENTITY_NOT_FOUND", "QUERY_UNDERSTANDING_FAILED"}

\* The failure record.  Python's None is NoFailure.
QueryFailure ==
  [code : FailureCodes, stage : FailureStages, kind : FailureKinds,
   failed_tool : ToolNames \cup {NoTool}, dependent_failure : BOOLEAN]

NoFailure ==
  [code |-> "none", stage |-> "none", kind |-> "none",
   failed_tool |-> NoTool, dependent_failure |-> FALSE]

MaybeFailure == QueryFailure \cup {NoFailure}

make_query_failure(code, stage, kind, tool, dependent) ==
  [code |-> code, stage |-> stage, kind |-> kind,
   failed_tool |-> tool, dependent_failure |-> dependent]

entity_not_found_failure ==
  make_query_failure("ENTITY_NOT_FOUND", "entity_resolution",
                     "user_correctable", NoTool, FALSE)

query_understanding_failure(stage) ==
  make_query_failure("QUERY_UNDERSTANDING_FAILED", stage,
                     "user_correctable", NoTool, FALSE)
=============================================================================
