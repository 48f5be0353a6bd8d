------------------------------- MODULE MCChat -------------------------------
(***************************************************************************)
(* A request, two admins and a user, and a pipeline result of each sort:   *)
(* Chat for TLC.                                                           *)
(***************************************************************************)
EXTENDS Chat, TLC

ToolFailure(tool) ==
  make_query_failure("QUERY_EXECUTION_FAILED", "execution", "user_correctable",
                     tool, FALSE)

Blocked ==
  make_query_failure("REQUEST_POLICY_BLOCKED", "validation", "user_correctable",
                     NoTool, FALSE)

Tools(sql, graph) == [t \in ToolNames |-> IF t = "sql" THEN sql ELSE graph]

\* The pipeline reports one failure, that of execute_plan's _prefer_failure: of
\* two equal ones the first in the plan, never that of a tool not invoked.
PipelineResults ==
  {[tools |-> Tools(Answered(1), NotRun), failure |-> NoFailure],
   [tools |-> Tools(Answered(1), Answered(2)), failure |-> NoFailure],
   [tools |-> Tools(Failed(3), NotRun), failure |-> ToolFailure("sql")],
   [tools |-> Tools(Answered(2), Failed(3)), failure |-> ToolFailure("graph")],
   [tools |-> NoResponse, failure |-> Blocked]}

BothFailed ==
  {[tools |-> Tools(Failed(3), Failed(3)), failure |-> ToolFailure("sql")],
   [tools |-> Tools(NotInvoked, Failed(3)), failure |-> ToolFailure("graph")]}

AllResults == PipelineResults \cup BothFailed

\* What can be stored; a question that was not understood has no tools.
Responses == {ChatResponse(res) : res \in AllResults} \cup {NoResponse}

=============================================================================
