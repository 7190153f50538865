----------------------------- MODULE MCDaemonLock -----------------------------
(* DaemonLock with two ids that daemons and their starts get, and one for the *)
(* other commands.                                                            *)
EXTENDS DaemonLock, TLC

CONSTANTS d1, d2, c1

MayRun == [p \in Procs |-> IF p = c1 THEN {"stop", "status", "restart"}
                           ELSE {"daemon", "start"}]

Symmetry == Permutations({d1, d2}) \cup Permutations(Inodes) \cup Permutations(CmdInodes)

\* States that no invariant tells apart, now or later: a daemon that ends heeds no
\* signal, its service does not care where its files are, and once a file in use was
\* removed and a process killed, neither Singleton nor EndsClean says anything.
Heeded == {p \in signalled : pc[p] \notin {"giveup", "giveupRemove", "unlock", "unlockRemove",
                                           "unlockPid", "unlocked"}}
Stopping == {p \in Procs : pc[p] = "unlock" /\ svc[p] = "stopping"}
View == IF raced /\ crashes > 0 THEN <<>>
        ELSE <<pc, ret, seen, pidVars, lockVars, cmdVars, Heeded, Stopping, raced, crashes>>
=============================================================================
