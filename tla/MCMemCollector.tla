---------------------------- MODULE MCMemCollector ----------------------------
(* MemCollector on one CPU and on two.                                     *)
EXTENDS MemCollector

OneCpu == {"cpu0"}
TwoCpus == {"cpu0", "cpu1"}
===============================================================================
