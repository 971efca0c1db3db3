------------------------------ MODULE MCService ------------------------------
(* A process and a job of each of two releases; the jobs may compete.        *)
EXTENDS Service

MCPods   == {"p1", "p2"}
MCJobs   == {"j1", "j2"}
MCTarget == [x \in MCPods \cup MCJobs |-> IF x \in {"p1", "j1"} THEN 1 ELSE 2]
=============================================================================
