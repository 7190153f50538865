--------------------------- MODULE DebouncerContract ---------------------------
(***************************************************************************)
(* What a debouncer promises to the sync service that uses it, without     *)
(* timers, keys, queues and channels: delayed calls run one at a time and  *)
(* none is let in once the context is cancelled, though one that was let   *)
(* in before may do its first step after; a request for an immediate sync  *)
(* is either refused or served; a shutdown is over when every request it   *)
(* accepted has been answered.                                             *)
(* AdvancedDebouncer and BasicDebouncer implement it.                      *)
(***************************************************************************)
CONSTANTS
  Calls,      \* functions handed over to be called later
  Requests    \* functions to be called at once

VARIABLES
  call,       \* what has become of each call; "running" once it is let in
  request,    \* what has become of each request
  life,       \* does the debouncer accept requests, or is it shutting down?
  cancelled   \* its context is cancelled

contractVars == <<call, request, life, cancelled>>

ContractTypeOK ==
  /\ call \in [Calls -> {"new", "pending", "running", "over"}]
  /\ request \in [Requests -> {"idle", "queued", "serving", "own", "answered"}]
  /\ life \in {"open", "closing", "closed"}
  /\ cancelled \in BOOLEAN

ContractInit ==
  /\ call = [c \in Calls |-> "new"]
  /\ request = [r \in Requests |-> "idle"]
  /\ life = "open"
  /\ cancelled = FALSE

\* No call holds the lock under which calls run, are added and are withdrawn.
Free == \A c \in Calls : call[c] # "running"

\* Some pending calls will not run: replaced, cancelled or dropped.
Withdraw ==
  \E S \in SUBSET {c \in Calls : call[c] = "pending"} :
    call' = [c \in Calls |-> IF c \in S THEN "over" ELSE call[c]]

Submit(c) ==
  /\ Free
  /\ call[c] = "new"
  /\ \E S \in SUBSET {d \in Calls : call[d] = "pending"} :
       call' = [d \in Calls |-> IF d = c THEN "pending" ELSE
                                IF d \in S THEN "over" ELSE call[d]]
  /\ UNCHANGED <<request, life, cancelled>>

WithdrawSome == Free /\ Withdraw /\ UNCHANGED <<request, life, cancelled>>

Begin(c) ==
  /\ Free
  /\ call[c] = "pending"
  /\ ~cancelled
  /\ call' = [call EXCEPT ![c] = "running"]
  /\ UNCHANGED <<request, life, cancelled>>

Finish(c) ==
  /\ call[c] = "running"
  /\ call' = [call EXCEPT ![c] = "over"]
  /\ UNCHANGED <<request, life, cancelled>>

\* The shutdown will wait for a request that was queued.
Accept(r) ==
  /\ life = "open"
  /\ request[r] = "idle"
  /\ request' = [request EXCEPT ![r] = "queued"]
  /\ UNCHANGED <<call, life, cancelled>>

\* It will not wait for one that runs in a goroutine of its own.
Bypass(r) ==
  /\ request[r] = "idle"
  /\ request' = [request EXCEPT ![r] = "own"]
  /\ UNCHANGED call \/ (Free /\ Withdraw)
  /\ UNCHANGED <<life, cancelled>>

Serve(r) ==
  /\ Free
  /\ request[r] = "queued"
  /\ request' = [request EXCEPT ![r] = "serving"]
  /\ Withdraw
  /\ UNCHANGED <<life, cancelled>>

Answer(r) ==
  /\ request[r] \in {"serving", "own"}
  /\ request' = [request EXCEPT ![r] = "answered"]
  /\ UNCHANGED <<call, life, cancelled>>

BeginClose ==
  /\ life = "open"
  /\ life' = "closing"
  /\ UNCHANGED <<call, request, cancelled>>

CancelContext ==
  /\ life = "closing"
  /\ cancelled' = TRUE
  /\ UNCHANGED <<call, request, life>>

EndClose ==
  /\ life = "closing"
  /\ \A r \in Requests : request[r] \notin {"queued", "serving"}
  /\ life' = "closed"
  /\ UNCHANGED <<call, request, cancelled>>

\* The context stays cancelled.
Reopen ==
  /\ life = "closed"
  /\ life' = "open"
  /\ UNCHANGED <<call, request, cancelled>>

ContractNext ==
  \/ \E c \in Calls : Submit(c) \/ Begin(c) \/ Finish(c)
  \/ WithdrawSome
  \/ \E r \in Requests : Accept(r) \/ Bypass(r) \/ Serve(r) \/ Answer(r)
  \/ BeginClose \/ CancelContext \/ EndClose \/ Reopen

ContractSpec == ContractInit /\ [][ContractNext]_contractVars
=============================================================================
