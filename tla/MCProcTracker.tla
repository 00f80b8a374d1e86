----------------------------- MODULE MCProcTracker -----------------------------
(* ProcTracker on processes of one thread each, and with a second thread.  *)
EXTENDS ProcTracker

CONSTANTS p1, p2, t1, idle

TwoProcesses == {p1, p2}
OwnLeaders == [t \in TwoProcesses |-> t]
OneAlive == {p1}

OneProcess == {p1}
OwnLeader == [t \in OneProcess |-> t]

ProcessAndThread == {p1, t1}
LedByP1 == [t \in ProcessAndThread |-> p1]
NoneAlive == {}

JustSleep == {"sleeping"}
SleepOrTrace == {"sleeping", "traced"}
===============================================================================
