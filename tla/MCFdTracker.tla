------------------------------ MODULE MCFdTracker ------------------------------
\* Values of FdTracker's constants: threads that are their processes, keys spread
\* over the buckets by descriptor.
EXTENDS FdTracker

OneThreadEach == [t \in Threads |-> t]
ByFd == [k \in Procs \X Fds |-> k[2] % NBuckets]
===============================================================================
