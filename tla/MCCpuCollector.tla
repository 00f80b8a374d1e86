---------------------------- MODULE MCCpuCollector ----------------------------
(* CpuCollector on a machine with fewer CPUs than PROCFAST_MAX_CPUS.       *)
EXTENDS CpuCollector

MCPossible == {0, 2}
===============================================================================
