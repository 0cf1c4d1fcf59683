-------------------------- MODULE MCClaudeMonitor --------------------------
(* ClaudeMonitor with two goroutines that refresh: neither can be told from*)
(* the other, but the liveness property rules out symmetry.                *)
EXTENDS ClaudeMonitor
============================================================================
