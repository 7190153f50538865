------------------------- MODULE MCConflictResolution -------------------------
(* ConflictResolution up to what EditAtHand and ListedIsWhole can tell apart.  *)
EXTENDS ConflictResolution

\* A stash whose second has passed is read by the pull that made it only.
StashInUse ==
  [t \in Times |-> IF t = now \/ \E p \in Procs : pc[p] \in StashPcs /\ job[p].at = t
                   THEN stash[t] ELSE [f \in Paths |-> NoStash]]

\* No step depends on what the user wrote, or when, or on a coincidence.
Excused == odd \cap {"edit", "second", "failure", "processes", "resolvers"} # {}
HalfWay == "failure" \in odd
View == <<setupVars, treeVars, remote, StashInUse, arts, now, processVars, edits, resolveVars,
          Excused, HalfWay, IF Excused THEN <<>> ELSE mine>>
=============================================================================
