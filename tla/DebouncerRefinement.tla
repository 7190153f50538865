-------------------------- MODULE DebouncerRefinement --------------------------
(***************************************************************************)
(* AdvancedDebouncer implements DebouncerContract while Start and Stop are *)
(* not under way at the same time.                                         *)
(***************************************************************************)
EXTENDS AdvancedDebouncer

\* A timer that has fired is still pending until it holds d.mu to run its callback.
AbstractCall(t) ==
  CASE tstate[t] = "unused" -> "new"
    [] tstate[t] \in {"armed", "fired", "waiting", "dropping"} -> "pending"
    [] tstate[t] \in {"entered", "running"} -> "running"
    [] OTHER -> "over"

\* A request counts as queued until the worker or Stop calls its function.
AbstractRequest(r) ==
  CASE rstate[r] \in {"idle", "answered"} -> rstate[r]
    [] rstate[r] = "queued" -> "queued"
    [] rstate[r] = "taken" /\ rexec[r] # Own -> "queued"
    [] rstate[r] = "running" /\ rexec[r] # Own -> "serving"
    [] OTHER -> "own"

AbstractLife ==
  CASE ~stopped -> "open"
    [] stopped /\ ~once.done -> "closing"
    [] OTHER -> "closed"

abstractCall    == [t \in Timers |-> AbstractCall(t)]
abstractRequest == [r \in Requests |-> AbstractRequest(r)]

Contract == INSTANCE DebouncerContract WITH
  Calls <- Timers,
  call <- abstractCall,
  request <- abstractRequest,
  life <- AbstractLife,
  cancelled <- ctxDone

\* The debouncer keeps its contract: one call at a time under d.mu, none let in
\* once the context is cancelled, and a Stop that ends with every queued request
\* answered (AddWithContext, handleManualSync, Stop, Start).
ImplementsContract == Contract!ContractSpec
=============================================================================
