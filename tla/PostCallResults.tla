--------------------------- MODULE PostCallResults ---------------------------
(***************************************************************************)
(* LiveKitPostCallResultStore (app/livekit_post_call.py) behind the        *)
(* threaded health server, and the external workers that claim its         *)
(* analysis tasks.  A result may be posted again for the same call, which  *)
(* puts new tasks in the place of the old ones, claimed or not; nothing    *)
(* gives back the task of a worker that has died.                          *)
(***************************************************************************)
EXTENDS Naturals, FiniteSets

CONSTANTS
  Calls,
  TaskTypes,   \* DEFAULT_ANALYSIS_TASK_TYPES
  Analysts,    \* the workers (external)
  MaxPosts,    \* bound on the results posted
  None

VARIABLES
  posts,   \* how many results have been posted: the clock of created_at_ms
  created, \* _results: when the result of a call was created; 0 if there is none
  tasks,   \* status of each task of the current results
  held     \* the task each analyst works on, and the result it is of

vars == <<posts, created, tasks, held>>

Task(c, y, p) == [call |-> c, type |-> y, post |-> p]

Init ==
  /\ posts = 0
  /\ created = [c \in Calls |-> 0]
  /\ tasks = [c \in Calls |-> [y \in TaskTypes |-> "none"]]
  /\ held = [a \in Analysts |-> None]

\* POST post-call-results and create_result
CreateResult(c) ==
  /\ posts < MaxPosts
  /\ posts' = posts + 1
  /\ created' = [created EXCEPT ![c] = posts + 1]
  /\ tasks' = [tasks EXCEPT ![c] = [y \in TaskTypes |-> "queued"]]
  /\ UNCHANGED held

\* The calls asked for with a queued task asked for whose result is the oldest.
OldestQueued(cs, ys) ==
  LET queued == {c \in cs : \E y \in ys : tasks[c][y] = "queued"}
  IN {c \in queued : \A other \in queued : created[c] <= created[other]}

\* Variant: a task that runs may be claimed once more.
ClaimRunning(a, cs, ys) ==
  /\ held[a] = None
  /\ \E c \in cs, y \in ys :
       /\ tasks[c][y] \in {"queued", "running"}
       /\ tasks' = [tasks EXCEPT ![c][y] = "running"]
       /\ held' = [held EXCEPT ![a] = Task(c, y, created[c])]
  /\ UNCHANGED <<posts, created>>

\* POST post-call-analysis/claim and claim_next_analysis_task, for any call and
\* type or for one: the first queued task in the order of
\* DEFAULT_ANALYSIS_TASK_TYPES is taken, here any.
Claim(a, cs, ys) ==
  /\ held[a] = None
  /\ \E c \in OldestQueued(cs, ys), y \in ys :
       /\ tasks[c][y] = "queued"
       /\ tasks' = [tasks EXCEPT ![c][y] = "running"]
       /\ held' = [held EXCEPT ![a] = Task(c, y, created[c])]
  /\ UNCHANGED <<posts, created>>

\* POST post-call-analysis/complete or fail and _finish_analysis_task: the
\* status is set whatever it was, and whosever task it is by now.
Finish(a, status) ==
  /\ held[a] # None
  /\ tasks' = [tasks EXCEPT ![held[a].call][held[a].type] = status]
  /\ held' = [held EXCEPT ![a] = None]
  /\ UNCHANGED <<posts, created>>

\* A worker dies with its task.
Dies(a) ==
  /\ held[a] # None
  /\ held' = [held EXCEPT ![a] = None]
  /\ UNCHANGED <<posts, created, tasks>>

Next ==
  \/ \E c \in Calls : CreateResult(c)
  \/ \E a \in Analysts :
       \/ \E cs \in {Calls} \cup {{c} : c \in Calls} :
            \E ys \in {TaskTypes} \cup {{y} : y \in TaskTypes} : Claim(a, cs, ys)
       \/ \E status \in {"completed", "failed"} : Finish(a, status)
       \/ Dies(a)

Spec == Init /\ [][Next]_vars

\* One analyst at most works on a task of a posted result, and a task that
\* is queued is nobody's.
OneAnalystPerTask ==
  \A a \in Analysts : held[a] # None =>
    /\ \A b \in Analysts \ {a} : held[b] # held[a]
    /\ held[a].post = created[held[a].call] => tasks[held[a].call][held[a].type] # "queued"
=============================================================================
