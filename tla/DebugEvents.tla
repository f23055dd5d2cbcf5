---------------------------- MODULE DebugEvents ----------------------------
(***************************************************************************)
(* LiveKitDebugEventStore (app/livekit_debug_events.py): agents post       *)
(* events to the threaded health server, which keeps the newest; browsers  *)
(* poll for the events of their room after the last one they saw, and get  *)
(* the newest of those.                                                    *)
(***************************************************************************)
EXTENDS Naturals, Sequences, FiniteSets, FiniteSetsExt

CONSTANTS
  Rooms,
  Pollers,    \* the browsers
  RoomOf,     \* the room each of them shows
  MaxEvents,  \* max_events
  PollLimit,  \* the limit of list_events
  OwnNumbers, \* what a posted event may have in a field "sequence" of its own
  MaxPosted   \* bound on the events posted

VARIABLES
  posted,   \* the rooms of all events posted
  sequence, \* _sequence
  events,   \* _events: the sequence number and room of each, and which post it was
  renumbered, \* a field of an event has taken the place of its number
  after,    \* the "after" each browser will ask with
  seen,     \* the posts each browser has been given
  polledAt  \* the posts there were when it last asked

vars == <<posted, sequence, events, renumbered, after, seen, polledAt>>

Newest(n, s) == IF Len(s) > n THEN SubSeq(s, Len(s) - n + 1, Len(s)) ELSE s

Init ==
  /\ posted = <<>>
  /\ sequence = 0
  /\ events = <<>>
  /\ renumbered = FALSE
  /\ after = [p \in Pollers |-> 0]
  /\ seen = [p \in Pollers |-> {}]
  /\ polledAt = [p \in Pollers |-> 0]

Event(n, room) == [sequence |-> n, room |-> room, post |-> Len(posted) + 1]

\* The fields of an event are added after its number, and may replace it.
Numbered(n, counter) == renumbered' = (renumbered \/ n # counter)

\* Variant: events are numbered by how many are kept.
AppendByLength(room) ==
  /\ Len(posted) < MaxPosted
  /\ posted' = Append(posted, room)
  /\ sequence' = Len(events) + 1
  /\ \E n \in OwnNumbers \cup {sequence'} :
       /\ Numbered(n, sequence')
       /\ events' = Newest(MaxEvents, Append(events, Event(n, room)))
  /\ UNCHANGED <<after, seen, polledAt>>

\* POST livekit/web-debug/events
AppendEvent(room) ==
  /\ Len(posted) < MaxPosted
  /\ posted' = Append(posted, room)
  /\ sequence' = sequence + 1
  /\ \E n \in OwnNumbers \cup {sequence'} :
       /\ Numbered(n, sequence')
       /\ events' = Newest(MaxEvents, Append(events, Event(n, room)))
  /\ UNCHANGED <<after, seen, polledAt>>

\* list_events: where those events stand that match, the newest of them.
ListEvents(room, from) ==
  LET matching == {i \in DOMAIN events : events[i].sequence > from /\ events[i].room = room}
  IN {i \in matching : Cardinality({j \in matching : j > i}) < PollLimit}

\* GET livekit/web-debug/events, whose nextSequence is asked with next.
Poll(p) ==
  LET listed == ListEvents(RoomOf[p], after[p])
  IN /\ after' = IF listed = {} THEN after
                 ELSE [after EXCEPT ![p] = events[Max(listed)].sequence]
     /\ seen' = [seen EXCEPT ![p] = @ \cup {events[i].post : i \in listed}]
     /\ polledAt' = [polledAt EXCEPT ![p] = Len(posted)]
     /\ UNCHANGED <<posted, sequence, events, renumbered>>

Next == (\E room \in Rooms : AppendEvent(room)) \/ (\E p \in Pollers : Poll(p))

Spec == Init /\ [][Next]_vars

Since(p) == polledAt[p] + 1 .. Len(posted)
Fresh(p) == {n \in Since(p) : posted[n] = RoomOf[p]}

\* While no event has brought a number of its own along, a browser that polls
\* often enough for the limits of the store and of a poll is given every event
\* of its room, and none twice.
NothingMissed ==
  [][\A p \in Pollers :
       /\ ~renumbered /\ Poll(p)
       /\ Cardinality(Fresh(p)) <= PollLimit /\ Cardinality(Since(p)) <= MaxEvents
       => seen'[p] \ seen[p] = Fresh(p)]_vars
=============================================================================
