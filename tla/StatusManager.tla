---------------------------- MODULE StatusManager ----------------------------
(***************************************************************************)
(* internal/status/status.go: the Unix socket server of the daemon and the *)
(* state it reports.                                                       *)
(*                                                                         *)
(* Start and Stop are called by the processes of Clients; smPc is where    *)
(* such a call has come.  Each Start launches a goroutine that accepts     *)
(* connections.  sm.socket is not guarded by a lock: every access to it is *)
(* a step.                                                                 *)
(***************************************************************************)
EXTENDS Naturals

CONSTANTS
  Clients,     \* callers of Start and Stop
  SlowAccept,  \* may a goroutine take longer than the two seconds Stop waits?
  Nobody       \* not one of them

ASSUME StatusAssumption == Nobody \notin Clients /\ SlowAccept \in BOOLEAN

VARIABLES
  smRunning,   \* sm.running
  smSocket,    \* sm.socket: the Start whose listener it is, or Nobody
  listening,   \* the Starts whose listener is not closed
  smDone,      \* sm.ctx is cancelled
  smOnce,      \* sm.shutdownOnce: done flag and the Stop that runs it
  accept,      \* progress of the goroutine of each Start
  reported,    \* sm.status.CurrentState
  smPc,        \* progress of each call
  smPanic      \* a goroutine called Accept on a nil socket

serverVars == <<smRunning, smSocket, listening, smDone, smOnce, accept>>
statusVars == <<serverVars, reported, smPc, smPanic>>

StatusTypeOK ==
  /\ smRunning \in BOOLEAN
  /\ smSocket \in Clients \cup {Nobody}
  /\ listening \subseteq Clients
  /\ smDone \in BOOLEAN
  /\ smOnce \in [done : BOOLEAN, holder : Clients \cup {Nobody}]
  /\ accept \in [Clients -> {"none", "check", "deadline", "accepting", "exited"}]
  /\ reported \in {"starting", "running", "syncing", "stopping", "error"}
  /\ smPc \in [Clients -> {"idle", "start", "listen", "serve", "stop", "once", "wait",
                           "close", "remove", "ok", "failed"}]
  /\ smPanic \in BOOLEAN

\* NewStatusManager
StatusInit ==
  /\ smRunning = FALSE /\ smSocket = Nobody /\ listening = {}
  /\ smDone = FALSE /\ smOnce = [done |-> FALSE, holder |-> Nobody]
  /\ accept = [c \in Clients |-> "none"]
  /\ reported = "starting"
  /\ smPc = [c \in Clients |-> "idle"]
  /\ smPanic = FALSE

StatusAt(c, here, next) ==
  /\ ~smPanic
  /\ smPc[c] = here
  /\ smPc' = [smPc EXCEPT ![c] = next]

\* SetState and SetError, from the sync service.
SetState(s) == reported' = s
-----------------------------------------------------------------------------
(* Start *)

StatusStart(c) ==
  /\ \/ ~smRunning /\ StatusAt(c, "start", "listen")
     \/ smRunning /\ StatusAt(c, "start", "failed")
  /\ smRunning' = TRUE
  /\ UNCHANGED <<smSocket, listening, smDone, smOnce, accept, reported,
                 smPanic>>

\* The old file is removed, the directory and the listener are made, the file
\* gets its mode; what was made goes when a step fails, sm.running stays.
StatusListen(c) ==
  /\ \/ StatusAt(c, "listen", "serve") /\ listening' = listening \cup {c}
     \/ StatusAt(c, "listen", "failed") /\ UNCHANGED listening
  /\ UNCHANGED <<smRunning, smSocket, smDone, smOnce, accept, reported, smPanic>>

StatusServe(c) ==
  /\ StatusAt(c, "serve", "ok")
  /\ smSocket' = c
  /\ reported' = "running"
  /\ accept' = [accept EXCEPT ![c] = "check"]
  /\ UNCHANGED <<smRunning, listening, smDone, smOnce, smPanic>>

-----------------------------------------------------------------------------
(* acceptConnections *)

AcceptStep(c, here, next) ==
  /\ ~smPanic
  /\ accept[c] = here
  /\ accept' = [accept EXCEPT ![c] = next]
  /\ UNCHANGED <<smRunning, smSocket, listening, smDone, smOnce, reported,
                 smPc>>

AcceptCheck(c) ==
  /\ \/ smDone /\ AcceptStep(c, "check", "exited")
     \/ ~smDone /\ AcceptStep(c, "check", "deadline")
  /\ UNCHANGED smPanic

\* sm.socket is read to set its deadline and again to call Accept.
AcceptDeadline(c) ==
  /\ AcceptStep(c, "deadline", "accepting")
  /\ smPanic' = (smSocket = Nobody)

\* Accept returns a connection or an error; after one that is not the deadline of
\* one second the context is looked at.
AcceptReturns(c) ==
  /\ \/ AcceptStep(c, "accepting", "check")
     \/ smDone /\ AcceptStep(c, "accepting", "exited")
  /\ UNCHANGED smPanic

AcceptLoop(c) == AcceptCheck(c) \/ AcceptDeadline(c) \/ AcceptReturns(c)

-----------------------------------------------------------------------------
(* Stop *)

StatusStop(c) ==
  /\ \/ smRunning /\ StatusAt(c, "stop", "once")
     \/ ~smRunning /\ StatusAt(c, "stop", "ok")
  /\ smRunning' = FALSE
  /\ UNCHANGED <<smSocket, listening, smDone, smOnce, accept, reported,
                 smPanic>>

\* Only the first Stop to come here shuts the server down; phase 1.
StatusSignal(c) ==
  /\ \/ /\ smOnce.done
        /\ StatusAt(c, "once", "ok")
        /\ UNCHANGED <<smOnce, smDone, reported>>
     \/ /\ ~smOnce.done /\ smOnce.holder = Nobody
        /\ StatusAt(c, "once", "wait")
        /\ smOnce' = [done |-> FALSE, holder |-> c]
        /\ reported' = "stopping"
        /\ smDone' = TRUE
  /\ UNCHANGED <<smRunning, smSocket, listening, accept, smPanic>>

AcceptExited == \A c \in Clients : accept[c] \in {"none", "exited"}

\* Mutant: the socket is closed without waiting for the goroutine.
StatusWaitNot(c) ==
  StatusAt(c, "wait", "close") /\ UNCHANGED <<serverVars, reported, smPanic>>

\* Phase 2: acceptWG, for two seconds.
StatusWait(c) ==
  /\ AcceptExited \/ SlowAccept
  /\ StatusAt(c, "wait", "close")
  /\ UNCHANGED <<serverVars, reported, smPanic>>

\* Mutant: the socket is dropped without being closed.
StatusForget(c) ==
  /\ StatusAt(c, "close", "remove")
  /\ smSocket' = Nobody
  /\ UNCHANGED <<smRunning, listening, smDone, smOnce, accept, reported, smPanic>>

\* Phase 3.
StatusClose(c) ==
  /\ StatusAt(c, "close", "remove")
  /\ listening' = listening \ {smSocket}
  /\ smSocket' = Nobody
  /\ UNCHANGED <<smRunning, smDone, smOnce, accept, reported, smPanic>>

\* Phase 4, best effort, and the end of the Once.  An error of phase 2 or 3 is
\* what Stop returns.
StatusRemove(c) ==
  /\ \/ StatusAt(c, "remove", "ok")
     \/ StatusAt(c, "remove", "failed")
  /\ smOnce' = [done |-> TRUE, holder |-> Nobody]
  /\ UNCHANGED <<smRunning, smSocket, listening, smDone, accept, reported, smPanic>>

StatusCall(c) ==
  \/ StatusStart(c) \/ StatusListen(c) \/ StatusServe(c)
  \/ StatusStop(c) \/ StatusSignal(c) \/ StatusWait(c) \/ StatusClose(c)
  \/ StatusRemove(c)

StatusNext == \E c \in Clients : StatusCall(c) \/ AcceptLoop(c)
-----------------------------------------------------------------------------
(* Properties *)

\* The goroutine that accepts connections never meets the nil that Stop writes
\* into sm.socket: "guaranteed safe - goroutine exited" (line 232).
NoNilSocket == ~smPanic

\* When the shutdown is over, the server is: no goroutine accepts, nothing
\* listens.
ServerIsDown == smOnce.done => AcceptExited /\ listening = {}
=============================================================================
