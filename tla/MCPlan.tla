------------------------------- MODULE MCPlan -------------------------------
(* Sizes in units: the tiers begin at 1, 512 bytes are 2, 4096 bytes are 3.    *)
EXTENDS Plan

CONSTANTS x, y

\* The defaults of a small dataset, churn alone, growth alone, deletion of everything.
MCRequests == {<<50, 50, 50>>, <<0, 50, 0>>, <<0, 0, 30>>, <<40, 100, 0>>}
MCTiers == {<<1, 2>>, <<2, 3>>}
=============================================================================
