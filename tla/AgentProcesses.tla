--------------------------- MODULE AgentProcesses ---------------------------
(***************************************************************************)
(* LiveKitAgentProcessManager (app/livekit_agent_process.py) and its two   *)
(* routes in the threaded health server: at most one agent process is kept *)
(* per room, while processes end by themselves, ignore the signal to       *)
(* terminate, or outlive even the kill for longer than stop() waits.       *)
(***************************************************************************)
EXTENDS Naturals, FiniteSets

CONSTANTS
  Rooms,
  MaxProcesses, \* bound on the processes started
  None

VARIABLES
  agents,   \* _agents: the process of each room, running or not
  alive,    \* the processes that have not ended: the room of each (external)
  started,  \* how many have been started
  stopping  \* the stop() that holds _lock, and the signal it has sent

vars == <<agents, alive, started, stopping>>

Free == stopping.room = None
NotStopping == [room |-> None, sent |-> "none"]
IsRunning(room) == agents[room] \in DOMAIN alive

Init ==
  /\ agents = [room \in Rooms |-> 0]
  /\ alive = [p \in {} |-> None]
  /\ started = 0
  /\ stopping = NotStopping

Launched(room) == [p \in DOMAIN alive \cup {started + 1} |->
                     IF p = started + 1 THEN room ELSE alive[p]]

\* Variant: a process that has been told to stop is not looked for.
StartAnyway ==
  \E room \in Rooms :
    /\ started < MaxProcesses
    /\ ~IsRunning(room) \/ stopping.room = room
    /\ started' = started + 1
    /\ alive' = Launched(room)
    /\ agents' = [agents EXCEPT ![room] = started + 1]
    /\ UNCHANGED stopping

\* POST agent/start and start: a room whose process runs keeps it.
Start ==
  \E room \in Rooms :
    /\ Free
    /\ started < MaxProcesses
    /\ ~IsRunning(room)
    /\ started' = started + 1
    /\ alive' = Launched(room)
    /\ agents' = [agents EXCEPT ![room] = started + 1]
    /\ UNCHANGED stopping

\* POST agent/stop and _AgentProcess.stop, up to the first wait.
Terminate ==
  \E room \in Rooms :
    /\ Free
    /\ IsRunning(room)
    /\ stopping' = [room |-> room, sent |-> "terminate"]
    /\ UNCHANGED <<agents, alive, started>>

\* Five seconds are over.
Kill ==
  /\ stopping.sent = "terminate"
  /\ IsRunning(stopping.room)
  /\ stopping' = [stopping EXCEPT !.sent = "kill"]
  /\ UNCHANGED <<agents, alive, started>>

\* wait returns.
StopReturns ==
  /\ ~Free
  /\ ~IsRunning(stopping.room)
  /\ stopping' = NotStopping
  /\ UNCHANGED <<agents, alive, started>>

\* Five more seconds are over: TimeoutExpired leaves stop() and the lock, and
\* the process runs on.
StopRaises ==
  /\ stopping.sent = "kill"
  /\ IsRunning(stopping.room)
  /\ stopping' = NotStopping
  /\ UNCHANGED <<agents, alive, started>>

\* A process ends, told to or not.
Ends ==
  \E p \in DOMAIN alive :
    /\ alive' = [q \in DOMAIN alive \ {p} |-> alive[q]]
    /\ UNCHANGED <<agents, started, stopping>>

Next == Start \/ Terminate \/ Kill \/ StopReturns \/ StopRaises \/ Ends

Spec == Init /\ [][Next]_vars

\* A room never has two agents talking in it, and the one it has can still be
\* stopped: it is the one the manager knows.
OneAgentPerRoom ==
  \A p \in DOMAIN alive : agents[alive[p]] = p
=============================================================================
