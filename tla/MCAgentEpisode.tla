--------------------------- MODULE MCAgentEpisode ---------------------------
(* Values for the runs of AgentEpisode.  Recovery sessions repair a query that *)
(* names a dropped column; the evaluation loop runs them with the user and     *)
(* knowledge tools; free queries also write the same query in another letter   *)
(* case, one that answers something else, one that writes and an empty one.    *)
EXTENDS AgentEpisode

Recovery ==
  [ tools |-> ToolNames \ {"get_knowledge_definition", "ask_user"},
    executionOnly |-> FALSE, knowledgeFirst |-> FALSE, evaluation |-> FALSE,
    sqls |-> {"fixed", "stale"}, topics |-> {"all"},
    maxTurns |-> 6, maxToolCalls |-> 6 ]

Evaluations ==
  [ tools |-> ToolNames \ {"get_schema"},
    executionOnly |-> FALSE, knowledgeFirst |-> TRUE, evaluation |-> TRUE,
    sqls |-> {"fixed", "broken"}, topics |-> {"all"},
    maxTurns |-> 6, maxToolCalls |-> 6 ]

Query ==
  [ tools |-> ToolNames \ {"get_schema_version", "inspect_schema_diff", "ask_user"},
    executionOnly |-> TRUE, knowledgeFirst |-> FALSE, evaluation |-> FALSE,
    sqls |-> {"good", "GOOD", "other", "delete", "blank"}, topics |-> {"all", "one"},
    maxTurns |-> 5, maxToolCalls |-> 5 ]

AllProfiles == {Recovery, Evaluations, Query}
AllSqls == Recovery.sqls \cup Evaluations.sqls \cup Query.sqls
MCNormalForm ==
  [sql \in AllSqls |-> IF sql = "GOOD" THEN "good" ELSE sql]
=============================================================================
