---------------------------- MODULE EventSocket ----------------------------
(***************************************************************************)
(* FreeSwitchPlaybackController and its clients                            *)
(* (app/freeswitch_event_socket.py).  Requests to break a playback share   *)
(* one connection under a lock; the protocol answers commands in order and *)
(* names none of them.  Each request is given up after a second            *)
(* (app/realtime_phone_gateway.py), wherever it stands, while FreeSWITCH   *)
(* may answer late and either connection may die.  A task of its own reads *)
(* the playback events from the other connection.                          *)
(***************************************************************************)
EXTENDS Naturals, Sequences

CONSTANTS
  Requests,    \* calls of break_playback
  MaxFailures, \* bound on the connections that die
  None

VARIABLES
  at,       \* where each request stands
  lock,     \* the request that holds _api_lock
  api,      \* _api_client: commands not yet executed, replies not yet read
  answer,   \* the request whose reply each request took for its own
  loop,     \* where _run_event_loop stands
  events,   \* _event_client: whether it is alive, and subscribed
  failures  \* how many connections have died

vars == <<at, lock, api, answer, loop, events, failures>>

loopVars == <<loop, events>>

NoEvents == [alive |-> FALSE, subscribed |-> FALSE]
NoApi == [link |-> "none", commands |-> <<>>, replies |-> <<>>]
Sent(c, r) == IF c.link = "open" THEN [c EXCEPT !.commands = Append(@, r)] ELSE c
Fresh == [NoApi EXCEPT !.link = "open"]
Holding == {"connecting", "reading", "closing", "reconnecting", "rereading"}

Init ==
  /\ at = [r \in Requests |-> "idle"]
  /\ lock = None
  /\ api = NoApi
  /\ answer = [r \in Requests |-> None]
  /\ loop = "off"
  /\ events = NoEvents
  /\ failures = 0

-----------------------------------------------------------------------------
(* break_playback                                                          *)

Stands(r, where) == at' = [at EXCEPT ![r] = where]

BreakPlayback(r) ==
  /\ at[r] = "idle"
  /\ loop # "off"
  /\ Stands(r, "waiting")
  /\ UNCHANGED <<lock, api, answer, loopVars, failures>>

\* Variant: whoever comes may use the connection.
EnsureUnlocked(r) ==
  /\ at[r] = "waiting"
  /\ lock' = r
  /\ \/ api.link # "open" /\ Stands(r, "connecting") /\ UNCHANGED api
     \/ api.link # "none" /\ Stands(r, "reading") /\ api' = Sent(api, r)
  /\ UNCHANGED <<answer, loopVars, failures>>

\* It has the lock: _ensure_api_client, and the command.  A dead connection may
\* not have been noticed.
Ensure(r) ==
  /\ at[r] = "waiting"
  /\ lock = None
  /\ lock' = r
  /\ \/ api.link # "open" /\ Stands(r, "connecting") /\ UNCHANGED api
     \/ api.link # "none" /\ Stands(r, "reading") /\ api' = Sent(api, r)
  /\ UNCHANGED <<answer, loopVars, failures>>

\* connect: the greeting and the password are over.
Connects(r) ==
  /\ \/ at[r] = "connecting" /\ Stands(r, "reading")
     \/ at[r] = "reconnecting" /\ Stands(r, "rereading")
  /\ api' = Sent(Fresh, r)
  /\ UNCHANGED <<lock, answer, loopVars, failures>>

Release(r, where) ==
  /\ Stands(r, where)
  /\ lock' = IF lock = r THEN None ELSE lock

ConnectFails(r) ==
  /\ at[r] \in {"connecting", "reconnecting"}
  /\ Release(r, "failed")
  /\ UNCHANGED <<api, answer, loopVars, failures>>

\* api takes the next reply there is for the answer to its command.
ReplyRead(r) ==
  /\ at[r] \in {"reading", "rereading"}
  /\ api.replies # <<>>
  /\ answer' = [answer EXCEPT ![r] = Head(api.replies)]
  /\ api' = [api EXCEPT !.replies = Tail(@)]
  /\ Release(r, "done")
  /\ UNCHANGED <<loopVars, failures>>

\* The connection has ended: once, it is closed and made anew.
ReadFails(r) ==
  /\ at[r] \in {"reading", "rereading"}
  /\ api.link # "open" /\ api.replies = <<>>
  /\ IF at[r] = "reading" THEN Stands(r, "closing") /\ api' = NoApi /\ UNCHANGED lock
     ELSE Release(r, "failed") /\ UNCHANGED api
  /\ UNCHANGED <<answer, loopVars, failures>>

Closed(r) ==
  /\ at[r] = "closing"
  /\ Stands(r, "reconnecting")
  /\ UNCHANGED <<lock, api, answer, loopVars, failures>>

\* wait_for cancels it after a second: the lock is released, the reply will
\* still come.
TimesOut(r) ==
  /\ at[r] \in Holding \cup {"waiting"}
  /\ Release(r, "gone")
  /\ UNCHANGED <<api, answer, loopVars, failures>>

Break(r) ==
  \/ BreakPlayback(r) \/ Ensure(r) \/ Connects(r) \/ ConnectFails(r)
  \/ ReplyRead(r) \/ ReadFails(r) \/ Closed(r) \/ TimesOut(r)

\* FreeSWITCH executes the next command.
Executes ==
  /\ api.link = "open"
  /\ api.commands # <<>>
  /\ api' = [api EXCEPT !.commands = Tail(@), !.replies = Append(@, Head(api.commands))]
  /\ UNCHANGED <<at, lock, answer, loopVars, failures>>

ApiDies ==
  /\ failures < MaxFailures
  /\ failures' = failures + 1
  /\ api.link = "open"
  /\ api' = [api EXCEPT !.link = "dead", !.commands = <<>>]
  /\ UNCHANGED <<at, lock, answer, loopVars>>

-----------------------------------------------------------------------------
(* start, stop and _run_event_loop                                         *)

Start ==
  /\ loop = "off"
  /\ loop' = "reading"
  /\ api' = Fresh
  /\ events' = [alive |-> TRUE, subscribed |-> TRUE]
  /\ UNCHANGED <<at, lock, answer, failures>>

\* Both clients are closed, without the lock.
Stop ==
  /\ loop \notin {"off", "stopped"}
  /\ loop' = "stopped"
  /\ api' = NoApi
  /\ events' = NoEvents
  /\ UNCHANGED <<at, lock, answer, failures>>

\* _ensure_event_client
EventConnects ==
  /\ loop = "ensuring"
  /\ loop' = "subscribing"
  /\ events' = [alive |-> TRUE, subscribed |-> FALSE]
  /\ UNCHANGED <<at, lock, api, answer, failures>>

Subscribes ==
  /\ loop = "subscribing"
  /\ events.alive
  /\ loop' = "reading"
  /\ events' = [events EXCEPT !.subscribed = TRUE]
  /\ UNCHANGED <<at, lock, api, answer, failures>>

\* Connecting, subscribing or reading fails, or the handler raises:
\* _reset_event_client, a pause, and again.
LoopFails ==
  /\ loop \in {"ensuring", "subscribing", "reading"}
  /\ loop' = "ensuring"
  /\ events' = NoEvents
  /\ UNCHANGED <<at, lock, api, answer, failures>>

EventsDie ==
  /\ failures < MaxFailures
  /\ failures' = failures + 1
  /\ events.alive
  /\ events' = [events EXCEPT !.alive = FALSE]
  /\ UNCHANGED <<at, lock, api, answer, loop>>

EventLoop ==
  \/ Start \/ Stop \/ EventConnects \/ Subscribes \/ LoopFails \/ EventsDie

Next == (\E r \in Requests : Break(r)) \/ Executes \/ ApiDies \/ EventLoop

Spec == Init /\ [][Next]_vars

-----------------------------------------------------------------------------
\* As long as nobody gives up, a request that is told whether the playback was
\* broken is told so by the answer to its own command.  Once somebody has, the
\* answers may be shifted, but never is one taken from a request that still
\* waits for it.
OwnAnswer ==
  \A r \in Requests : answer[r] \notin {None, r} =>
    /\ \E q \in Requests : at[q] = "gone"
    /\ at[answer[r]] \in {"gone", "done"}

\* The loop never waits for events on a connection that was not told to send
\* them.
ListensSubscribed == loop = "reading" => events.subscribed

EventSocketSafe == OwnAnswer /\ ListensSubscribed
=============================================================================
