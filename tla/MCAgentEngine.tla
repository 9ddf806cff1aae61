--------------------------- MODULE MCAgentEngine ---------------------------
(* AgentEngine for TLC: the responses and plans its runs choose from.      *)
EXTENDS AgentEngine, TLC

CONSTANTS read, bash, bash2, fetch, plan_create, gone, react

(* Single calls; batches in which a gated call is first, last or two; calls *)
(* that repeat, are refused, end the run or give it a plan.                *)
SomeBatches ==
    {<<read>>, <<read, read>>, <<gone>>, <<fetch, react>>, <<plan_create, read>>,
     <<bash>>, <<read, bash>>, <<bash, bash2>>, <<bash, fetch, read>>}

(* Nothing started, too much started, all done, and a plan to be repaired.  *)
SomePlans ==
    {<<"pending", "other">>, <<"in_progress", "in_progress">>, <<"completed", "completed">>,
     <<"completed", "in_progress", "other", "in_progress">>}
=============================================================================
