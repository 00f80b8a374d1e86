------------------------------- MODULE MCClients -------------------------------
\* Values of the constants of Daemon and Clients: three collectors, one with two maps.
EXTENDS Clients, TLC

CONSTANTS cpu, proc, fd, cpu_data, proc_header, proc_stats, fd_entries

PinnedMaps ==
  [c \in {cpu, proc, fd} |->
     CASE c = cpu -> {cpu_data}
       [] c = proc -> {proc_header, proc_stats}
       [] c = fd -> {fd_entries}]

\* Which daemon is which makes no difference.
AnyDaemon == Permutations(Daemons)

StatsOrder == <<proc_header, proc_stats>>

HandleOrder == <<cpu_data, proc_header, proc_stats, fd_entries>>
===============================================================================
