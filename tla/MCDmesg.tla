-------------------------------- MODULE MCDmesg --------------------------------
(* Two tasks that log, the lower-priority Alive task and the CSP task, and the *)
(* command line that lists.                                                    *)
EXTENDS Dmesg

CONSTANTS alive, csp, cli

MCPriority == [t \in Tasks |-> IF t = alive THEN 1 ELSE 2]
================================================================================
