----------------------------- MODULE PartsProofs -----------------------------
(***************************************************************************)
(* What the small components guarantee for any constants.  Each behaviour  *)
(* of the whole is a behaviour of every component; an invariant is proved  *)
(* of the component and carried over.                                      *)
(***************************************************************************)
EXTENDS Parts, FiniteSets, FiniteSetTheorems, SequenceTheorems,
        WellFoundedInduction, TLAPS

LEMMA PartsInit ==
  Init => /\ Socket!Init /\ Flake!Init /\ Processes!Init /\ Results!Init
          /\ DebugLog!Init /\ Recordings!Init /\ Voice!Init /\ Playout!Init
          /\ Transcript!Init
BY DEF Init

LEMMA PartsStep ==
  ASSUME [Next]_vars
  PROVE  /\ [Socket!Next]_(Socket!vars)
         /\ [Flake!Next]_(Flake!vars)
         /\ [Processes!Next]_(Processes!vars)
         /\ [Results!Next]_(Results!vars)
         /\ [DebugLog!Next]_(DebugLog!vars)
         /\ [Recordings!Next]_(Recordings!vars)
         /\ [Voice!Next]_(Voice!vars)
         /\ [Playout!Next]_(Playout!vars)
         /\ [Transcript!Next]_(Transcript!vars)
BY DEF Next, Moves, vars, socketVars, flakeVars, processVars, resultVars, eventVars,
   downloadVars, voiceVars, playoutVars, transcriptVars, Socket!vars, Socket!loopVars,
   Flake!vars, Processes!vars, Results!vars, DebugLog!vars, Recordings!vars,
   Voice!vars, Playout!vars, Transcript!vars

-----------------------------------------------------------------------------
(* Snowflake: the ids of recordings.                                       *)

\* What a caller finds under the lock: the id given out last is that of the
\* millisecond and the sequence number, unless the sequence has been used up.
IdRemembered ==
  /\ fLast \in Nat \cup {-1}
  /\ fSequence \in 0..Sequences - 1
  /\ fWaiting \in BOOLEAN
  /\ fId \in Int
  /\ fLast = -1 => fId = -1 /\ fWaiting = FALSE
  /\ fWaiting = FALSE /\ fLast # -1 => fId = Flake!IdOf(fLast, fSequence)
  /\ fWaiting = TRUE => fSequence = 0 /\ fId = Flake!IdOf(fLast, Sequences - 1)

\* An id of a later millisecond is greater, whatever the sequence numbers.
LEMMA LaterIsGreater ==
  ASSUME NEW t \in Nat, NEW u \in Nat, t < u, NEW s \in 0..Sequences - 1
  PROVE  Flake!IdOf(t, s) \in Nat /\ Flake!IdOf(u, 0) \in Nat /\ Flake!IdOf(t, s) < Flake!IdOf(u, 0)
<1> DEFINE a == t * Workers + Worker
           b == u * Workers + Worker
<1>1. t * Workers \in Nat /\ u * Workers \in Nat
  BY SnowflakeAssumption
<1>2. a \in Nat /\ b \in Nat
  BY <1>1, SnowflakeAssumption
<1>3. u * Workers >= (t + 1) * Workers
  BY SnowflakeAssumption
<1>4. (t + 1) * Workers = t * Workers + Workers
  BY SnowflakeAssumption
<1>5. b >= a + 1
  BY <1>1, <1>3, <1>4, SnowflakeAssumption
<1> HIDE DEF a, b
<1>6. b * Sequences >= (a + 1) * Sequences
  BY <1>2, <1>5, SnowflakeAssumption
<1>7. (a + 1) * Sequences = a * Sequences + Sequences
  BY <1>2, SnowflakeAssumption
<1>8. a * Sequences \in Nat /\ b * Sequences \in Nat
  BY <1>2, SnowflakeAssumption
<1>9. Flake!IdOf(t, s) = a * Sequences + s /\ Flake!IdOf(u, 0) = b * Sequences
  BY <1>8 DEF Flake!IdOf, a, b
<1> QED BY <1>6, <1>7, <1>8, <1>9, SnowflakeAssumption

\* Ids of one millisecond grow with the sequence number.
LEMMA NextIsGreater ==
  ASSUME NEW t \in Nat, NEW s \in 0..Sequences - 1, NEW n \in 0..Sequences - 1, s < n
  PROVE  Flake!IdOf(t, s) < Flake!IdOf(t, n)
<1> DEFINE a == (t * Workers + Worker) * Sequences
<1>1. a \in Nat
  BY SnowflakeAssumption
<1> HIDE DEF a
<1>2. Flake!IdOf(t, s) = a + s /\ Flake!IdOf(t, n) = a + n
  BY DEF Flake!IdOf, a
<1> QED BY <1>1, <1>2, SnowflakeAssumption

\* The first id of a later millisecond, or of the first one.
LEMMA ReturnGrows ==
  ASSUME IdRemembered, NEW now \in Flake!Clock, now > fLast, Flake!Return(now, 0)
  PROVE  IdRemembered' /\ fId' > fId
<1>1. now \in Nat /\ 0 \in 0..Sequences - 1
  BY SnowflakeAssumption DEF Flake!Clock
<1>2. Flake!IdOf(now, 0) \in Nat
  BY <1>1, SnowflakeAssumption DEF Flake!IdOf
<1>3. fId' > fId
  <2>1. CASE fLast = -1
    BY <1>2, <2>1 DEF IdRemembered, Flake!Return
  <2>2. CASE fLast # -1
    <3>1. PICK s \in 0..Sequences - 1 : fId = Flake!IdOf(fLast, s)
      <4>1. Sequences - 1 \in 0..Sequences - 1 /\ fSequence \in 0..Sequences - 1
        BY SnowflakeAssumption DEF IdRemembered
      <4>2. fWaiting = TRUE \/ fWaiting = FALSE
        BY DEF IdRemembered
      <4> QED BY <2>2, <4>1, <4>2 DEF IdRemembered
    <3>2. fLast \in Nat
      BY <2>2 DEF IdRemembered
    <3>3. Flake!IdOf(fLast, s) < Flake!IdOf(now, 0)
      BY <1>1, <3>1, <3>2, LaterIsGreater
    <3> QED BY <3>1, <3>3 DEF Flake!Return
  <2> QED BY <2>1, <2>2
<1>4. fLast' = now /\ fSequence' = 0 /\ fId' = Flake!IdOf(now, 0) /\ fWaiting' = FALSE
  BY DEF Flake!Return
<1>5. IdRemembered'
  <2>1. /\ fLast' \in Nat \cup {-1} /\ fSequence' \in 0..Sequences - 1 /\ fId' \in Int
        /\ fLast' # -1 /\ fId' = Flake!IdOf(fLast', fSequence')
    BY <1>1, <1>2, <1>4
  <2>2. fWaiting' \in BOOLEAN /\ fWaiting' # TRUE
    BY <1>4
  <2> QED BY <2>1, <2>2 DEF IdRemembered
<1> QED BY <1>3, <1>5

\* Every step keeps IdRemembered, and gives out only a greater id.
LEMMA StepGrows ==
  ASSUME IdRemembered, [Flake!Next]_(Flake!vars)
  PROVE  IdRemembered' /\ (fId' # fId => fId' > fId)
<1>1. CASE Flake!GenerateInNewMillisecond
  BY <1>1, ReturnGrows DEF Flake!GenerateInNewMillisecond
<1>2. CASE Flake!GenerateInSameMillisecond
  <2> DEFINE n == (fSequence + 1) % Sequences
  <2>1. n \in 0..Sequences - 1 /\ (n # 0 => n = fSequence + 1) /\ (n = 0 => fSequence = Sequences - 1)
    BY SnowflakeAssumption DEF IdRemembered
  <2>2. fLast \in Nat /\ fWaiting = FALSE
    <3>1. fLast \in Nat
      BY <1>2 DEF Flake!GenerateInSameMillisecond, Flake!Clock, IdRemembered
    <3> QED BY <1>2, <3>1 DEF Flake!GenerateInSameMillisecond, IdRemembered
  <2>3. fSequence \in 0..Sequences - 1 /\ fId = Flake!IdOf(fLast, fSequence)
    BY <2>2 DEF IdRemembered
  <2>4. CASE n # 0
    <3>1. Flake!Return(fLast, n)
      BY <1>2, <2>4 DEF Flake!GenerateInSameMillisecond
    <3>2. Flake!IdOf(fLast, fSequence) < Flake!IdOf(fLast, n)
      BY <2>1, <2>2, <2>3, <2>4, NextIsGreater
    <3>3. Flake!IdOf(fLast, n) \in Int
      BY <2>1, <2>2, SnowflakeAssumption DEF Flake!IdOf
    <3> HIDE DEF n
    <3>4. fLast' = fLast /\ fSequence' = n /\ fId' = Flake!IdOf(fLast, n) /\ fWaiting' = FALSE
      BY <3>1 DEF Flake!Return
    <3>5. /\ fLast' \in Nat \cup {-1} /\ fSequence' \in 0..Sequences - 1 /\ fId' \in Int
          /\ fLast' # -1 /\ fId' = Flake!IdOf(fLast', fSequence')
      BY <2>1, <2>2, <3>3, <3>4
    <3>6. fWaiting' \in BOOLEAN /\ fWaiting' # TRUE
      BY <3>4
    <3>7. IdRemembered'
      BY <3>5, <3>6 DEF IdRemembered
    <3> QED BY <2>3, <3>2, <3>4, <3>7
  <2>5. CASE n = 0
    <3>1. fSequence' = 0 /\ fWaiting' = TRUE /\ fLast' = fLast /\ fId' = fId
      BY <1>2, <2>5 DEF Flake!GenerateInSameMillisecond
    <3> HIDE DEF n
    <3>2. /\ fLast' \in Nat \cup {-1} /\ fSequence' \in 0..Sequences - 1 /\ fId' \in Int
          /\ fLast' # -1 /\ fSequence' = 0 /\ fId' = Flake!IdOf(fLast', Sequences - 1)
      BY <2>1, <2>2, <2>3, <2>5, <3>1, SnowflakeAssumption DEF IdRemembered
    <3>3. fWaiting' \in BOOLEAN /\ fWaiting' # FALSE
      BY <3>1
    <3>4. IdRemembered'
      BY <3>2, <3>3 DEF IdRemembered
    <3> QED BY <3>1, <3>4
  <2> QED BY <2>4, <2>5
<1>3. CASE Flake!WaitIsOver
  BY <1>3, ReturnGrows DEF Flake!WaitIsOver
<1>4. CASE UNCHANGED Flake!vars
  BY <1>4 DEF Flake!vars, IdRemembered
<1> QED BY <1>1, <1>2, <1>3, <1>4 DEF Flake!Next

\* No id is given out twice by one process, whatever the clock does.
THEOREM IdsGrow == Spec => IdsIncrease
<1>1. Flake!Init => IdRemembered
  <2> SUFFICES ASSUME Flake!Init PROVE IdRemembered
    OBVIOUS
  <2>1. fLast = -1 /\ fSequence = 0 /\ fId = -1 /\ 0 \in 0..Sequences - 1 /\ -1 \in Int
    BY SnowflakeAssumption DEF Flake!Init
  <2>2. fWaiting = FALSE /\ fWaiting \in BOOLEAN /\ fWaiting # TRUE
    BY DEF Flake!Init
  <2> QED BY <2>1, <2>2 DEF IdRemembered
<1>2. IdRemembered /\ [Next]_vars => IdRemembered'
  BY PartsStep, StepGrows
<1>3. IdRemembered /\ [Next]_vars => [fId' # fId => fId' > fId]_(Flake!vars)
  BY PartsStep, StepGrows
<1> QED BY PartsInit, <1>1, <1>2, <1>3, PTL DEF Spec, IdsIncrease, Flake!IdsIncrease

-----------------------------------------------------------------------------
(* AgentProcesses: the agents of the rooms.                                *)

\* The processes that live are among those started, and the manager knows
\* each under its room.
ProcessesInv ==
  /\ pStarted \in Nat
  /\ pAgents \in [Rooms -> Nat]
  /\ DOMAIN pAlive \subseteq 1..pStarted
  /\ \A room \in Rooms : pAgents[room] <= pStarted
  /\ \A p \in DOMAIN pAlive : pAlive[p] \in Rooms /\ pAgents[pAlive[p]] = p

\* A process is started only in a room whose own has ended.
LEMMA StartKeeps ==
  ASSUME ProcessesInv, Processes!Start
  PROVE  ProcessesInv'
<1>1. PICK room \in Rooms :
        /\ ~Processes!IsRunning(room)
        /\ pStarted' = pStarted + 1
        /\ pAlive' = Processes!Launched(room)
        /\ pAgents' = [pAgents EXCEPT ![room] = pStarted + 1]
  BY DEF Processes!Start
<1> DEFINE new == pStarted + 1
<1>2. pStarted \in Nat /\ new \in Nat /\ new \notin DOMAIN pAlive
  BY DEF ProcessesInv
<1>3. /\ DOMAIN pAlive' = DOMAIN pAlive \cup {new}
      /\ pAlive'[new] = room
      /\ \A p \in DOMAIN pAlive : pAlive'[p] = pAlive[p]
  BY <1>1, <1>2 DEF Processes!Launched
<1>4. /\ pAgents' \in [Rooms -> Nat] /\ pAgents'[room] = new
      /\ \A other \in Rooms \ {room} : pAgents'[other] = pAgents[other]
  BY <1>1, <1>2 DEF ProcessesInv
<1>5. \A p \in DOMAIN pAlive : pAlive[p] \in Rooms \ {room} /\ pAgents[pAlive[p]] = p
  BY <1>1 DEF ProcessesInv, Processes!IsRunning
<1>6. DOMAIN pAlive' \subseteq 1..pStarted'
  BY <1>1, <1>2, <1>3 DEF ProcessesInv
<1>7. \A other \in Rooms : pAgents'[other] <= pStarted'
  BY <1>1, <1>2, <1>4 DEF ProcessesInv
<1>8. \A p \in DOMAIN pAlive' : pAlive'[p] \in Rooms /\ pAgents'[pAlive'[p]] = p
  BY <1>3, <1>4, <1>5
<1>9. pStarted' \in Nat
  BY <1>1, <1>2
<1> QED BY <1>4, <1>6, <1>7, <1>8, <1>9 DEF ProcessesInv

LEMMA ProcessesStep ==
  ASSUME ProcessesInv, [Processes!Next]_(Processes!vars)
  PROVE  ProcessesInv'
<1>1. CASE Processes!Start
  BY <1>1, StartKeeps
<1>2. CASE Processes!Ends
  <2>1. PICK p \in DOMAIN pAlive :
          /\ pAlive' = [q \in DOMAIN pAlive \ {p} |-> pAlive[q]]
          /\ UNCHANGED <<pAgents, pStarted>>
    BY <1>2 DEF Processes!Ends
  <2> QED BY <2>1 DEF ProcessesInv
<1>3. CASE UNCHANGED <<pAgents, pAlive, pStarted>>
  BY <1>3 DEF ProcessesInv
<1> QED BY <1>1, <1>2, <1>3 DEF Processes!Next, Processes!vars, Processes!Terminate,
           Processes!Kill, Processes!StopReturns, Processes!StopRaises

\* However processes are started, stopped, ignore their signals and end, each
\* that lives is the one the manager knows of its room: there is no other.
THEOREM OneAgent == Spec => []OneAgentPerRoom
<1>1. Processes!Init => ProcessesInv
  BY DEF Processes!Init, ProcessesInv
<1>2. ProcessesInv /\ [Next]_vars => ProcessesInv'
  BY PartsStep, ProcessesStep
<1>3. ProcessesInv => OneAgentPerRoom
  BY DEF ProcessesInv, OneAgentPerRoom, Processes!OneAgentPerRoom
<1> QED BY PartsInit, <1>1, <1>2, <1>3, PTL DEF Spec

-----------------------------------------------------------------------------
(* PostCallResults: the analysis tasks.                                    *)

AnalysisTasks == {Results!Task(c, y, p) : c \in Calls, y \in TaskTypes, p \in Nat}
TaskStatuses == {"none", "queued", "running", "completed", "failed"}

\* Nobody holds a task of a result that has yet to be posted.
ResultsInv ==
  /\ cPosts \in Nat
  /\ cCreated \in [Calls -> Nat]
  /\ cTasks \in [Calls -> [TaskTypes -> TaskStatuses]]
  /\ cHeld \in [Analysts -> AnalysisTasks \cup {None}]
  /\ \A c \in Calls : cCreated[c] <= cPosts
  /\ \A a \in Analysts : cHeld[a] # None => cHeld[a].post <= cPosts
  /\ OneAnalystPerTask

LEMMA HeldTask ==
  ASSUME ResultsInv, NEW a \in Analysts, cHeld[a] # None
  PROVE  /\ cHeld[a].call \in Calls /\ cHeld[a].type \in TaskTypes /\ cHeld[a].post \in Nat
         /\ cHeld[a] = Results!Task(cHeld[a].call, cHeld[a].type, cHeld[a].post)
BY DEF ResultsInv, AnalysisTasks, Results!Task

\* A result that is posted again has tasks nobody holds yet.
LEMMA CreateKeeps ==
  ASSUME ResultsInv, NEW c \in Calls, Results!CreateResult(c)
  PROVE  ResultsInv'
<1>1. /\ cPosts' = cPosts + 1 /\ cHeld' = cHeld
      /\ cCreated' = [cCreated EXCEPT ![c] = cPosts + 1]
      /\ cTasks' = [cTasks EXCEPT ![c] = [y \in TaskTypes |-> "queued"]]
  BY DEF Results!CreateResult
<1>2. cPosts \in Nat /\ cPosts' \in Nat /\ cCreated' \in [Calls -> Nat]
  BY <1>1 DEF ResultsInv
<1>3. cTasks' \in [Calls -> [TaskTypes -> TaskStatuses]]
  BY <1>1 DEF ResultsInv, TaskStatuses
<1>4. \A other \in Calls : cCreated'[other] <= cPosts'
  BY <1>1, <1>2 DEF ResultsInv
<1>5. \A a \in Analysts : cHeld[a] # None => cHeld[a].post \in Nat /\ cHeld[a].post <= cPosts
  BY HeldTask DEF ResultsInv
<1>6. OneAnalystPerTask'
  <2> SUFFICES ASSUME NEW a \in Analysts, cHeld[a] # None
               PROVE  /\ \A b \in Analysts \ {a} : cHeld[b] # cHeld[a]
                      /\ cHeld[a].post = cCreated'[cHeld[a].call]
                           => cTasks'[cHeld[a].call][cHeld[a].type] # "queued"
    BY <1>1 DEF OneAnalystPerTask, Results!OneAnalystPerTask
  <2>1. \A b \in Analysts \ {a} : cHeld[b] # cHeld[a]
    BY DEF ResultsInv, OneAnalystPerTask, Results!OneAnalystPerTask
  <2>2. cHeld[a].call = c => cHeld[a].post # cCreated'[c]
    BY <1>1, <1>2, <1>5 DEF ResultsInv
  <2>3. cHeld[a].call # c =>
          /\ cCreated'[cHeld[a].call] = cCreated[cHeld[a].call]
          /\ cTasks'[cHeld[a].call] = cTasks[cHeld[a].call]
    BY <1>1, HeldTask DEF ResultsInv
  <2> QED BY <2>1, <2>2, <2>3 DEF ResultsInv, OneAnalystPerTask, Results!OneAnalystPerTask
<1>7. \A a \in Analysts : cHeld'[a] # None => cHeld'[a].post <= cPosts'
  BY <1>1, <1>2, <1>5
<1>8. cHeld' \in [Analysts -> AnalysisTasks \cup {None}]
  BY <1>1 DEF ResultsInv
<1> QED BY <1>2, <1>3, <1>4, <1>6, <1>7, <1>8 DEF ResultsInv

\* What is claimed was queued, hence nobody's.
LEMMA ClaimKeeps ==
  ASSUME ResultsInv, NEW a \in Analysts, NEW cs \in SUBSET Calls, NEW ys \in SUBSET TaskTypes,
         Results!Claim(a, cs, ys)
  PROVE  ResultsInv'
<1>1. PICK c \in Calls, y \in TaskTypes :
        /\ cTasks[c][y] = "queued"
        /\ cTasks' = [cTasks EXCEPT ![c][y] = "running"]
        /\ cHeld' = [cHeld EXCEPT ![a] = Results!Task(c, y, cCreated[c])]
        /\ UNCHANGED <<cPosts, cCreated>>
  BY DEF Results!Claim, Results!OldestQueued
<1> DEFINE task == Results!Task(c, y, cCreated[c])
<1>2. task \in AnalysisTasks /\ task.call = c /\ task.type = y /\ task.post = cCreated[c]
  BY DEF ResultsInv, AnalysisTasks, Results!Task
<1>3. /\ cTasks' \in [Calls -> [TaskTypes -> TaskStatuses]]
      /\ cTasks'[c][y] = "running"
      /\ \A d \in Calls, z \in TaskTypes : d # c \/ z # y => cTasks'[d][z] = cTasks[d][z]
  BY <1>1 DEF ResultsInv, TaskStatuses
<1> HIDE DEF task
<1>4. /\ cHeld' \in [Analysts -> AnalysisTasks \cup {None}] /\ cHeld'[a] = task
      /\ \A b \in Analysts \ {a} : cHeld'[b] = cHeld[b]
  BY <1>1, <1>2 DEF ResultsInv, task
<1>5. ASSUME NEW b \in Analysts \ {a}, cHeld[b] # None PROVE cHeld[b] # task
  BY <1>1, <1>2, <1>5 DEF ResultsInv, OneAnalystPerTask, Results!OneAnalystPerTask
<1>6. OneAnalystPerTask'
  <2> SUFFICES ASSUME NEW b \in Analysts, cHeld'[b] # None
               PROVE  /\ \A d \in Analysts \ {b} : cHeld'[d] # cHeld'[b]
                      /\ cHeld'[b].post = cCreated[cHeld'[b].call]
                           => cTasks'[cHeld'[b].call][cHeld'[b].type] # "queued"
    BY <1>1 DEF OneAnalystPerTask, Results!OneAnalystPerTask
  <2>1. CASE b = a
    <3>1. \A d \in Analysts \ {b} : cHeld'[d] # cHeld'[b]
      BY <1>4, <1>5, <2>1
    <3> QED BY <1>2, <1>3, <1>4, <2>1, <3>1
  <2>2. CASE b # a
    <3>1. cHeld'[b] = cHeld[b] /\ cHeld[b] # None
      BY <1>4, <2>2
    <3>2. \A d \in Analysts \ {b} : cHeld'[d] # cHeld[b]
      BY <1>4, <1>5, <2>2, <3>1 DEF ResultsInv, OneAnalystPerTask, Results!OneAnalystPerTask
    <3>3. cHeld[b].post = cCreated[cHeld[b].call]
            => cTasks[cHeld[b].call][cHeld[b].type] # "queued"
      BY <3>1 DEF ResultsInv, OneAnalystPerTask, Results!OneAnalystPerTask
    <3> QED BY <1>3, <3>1, <3>2, <3>3, HeldTask
  <2> QED BY <2>1, <2>2
<1>7. \A b \in Analysts : cHeld'[b] # None => cHeld'[b].post <= cPosts'
  BY <1>1, <1>2, <1>4 DEF ResultsInv
<1> QED BY <1>1, <1>3, <1>4, <1>6, <1>7 DEF ResultsInv

LEMMA FinishKeeps ==
  ASSUME ResultsInv, NEW a \in Analysts, NEW status \in {"completed", "failed"},
         Results!Finish(a, status) \/ Results!Dies(a)
  PROVE  ResultsInv'
<1>1. /\ cHeld[a] # None /\ cHeld' = [cHeld EXCEPT ![a] = None] /\ UNCHANGED <<cPosts, cCreated>>
      /\ \/ cTasks' = cTasks
         \/ cTasks' = [cTasks EXCEPT ![cHeld[a].call][cHeld[a].type] = status]
  BY DEF Results!Finish, Results!Dies
<1>2. cHeld[a].call \in Calls /\ cHeld[a].type \in TaskTypes
  BY <1>1, HeldTask
<1>3. /\ cTasks' \in [Calls -> [TaskTypes -> TaskStatuses]]
      /\ \A c \in Calls, y \in TaskTypes : cTasks'[c][y] = cTasks[c][y] \/ cTasks'[c][y] = status
  BY <1>1, <1>2 DEF ResultsInv, TaskStatuses
<1>4. /\ cHeld' \in [Analysts -> AnalysisTasks \cup {None}]
      /\ \A b \in Analysts : cHeld'[b] # None => cHeld'[b] = cHeld[b]
  BY <1>1 DEF ResultsInv
<1>5. OneAnalystPerTask'
  <2> SUFFICES ASSUME NEW b \in Analysts, cHeld'[b] # None
               PROVE  /\ \A d \in Analysts \ {b} : cHeld'[d] # cHeld'[b]
                      /\ cHeld'[b].post = cCreated[cHeld'[b].call]
                           => cTasks'[cHeld'[b].call][cHeld'[b].type] # "queued"
    BY <1>1 DEF OneAnalystPerTask, Results!OneAnalystPerTask
  <2>1. cHeld'[b] = cHeld[b] /\ cHeld[b] # None
    BY <1>4
  <2>2. \A d \in Analysts \ {b} : cHeld'[d] # cHeld[b]
    BY <1>4, <2>1 DEF ResultsInv, OneAnalystPerTask, Results!OneAnalystPerTask
  <2>3. cHeld[b].post = cCreated[cHeld[b].call]
          => cTasks[cHeld[b].call][cHeld[b].type] # "queued"
    BY <2>1 DEF ResultsInv, OneAnalystPerTask, Results!OneAnalystPerTask
  <2>4. status # "queued"
    OBVIOUS
  <2> QED BY <1>3, <2>1, <2>2, <2>3, <2>4, HeldTask
<1> QED BY <1>1, <1>3, <1>4, <1>5 DEF ResultsInv

LEMMA ResultsStep ==
  ASSUME ResultsInv, [Results!Next]_(Results!vars)
  PROVE  ResultsInv'
<1>1. CASE UNCHANGED Results!vars
  BY <1>1 DEF Results!vars, ResultsInv, OneAnalystPerTask, Results!OneAnalystPerTask
<1>2. ASSUME NEW a \in Analysts,
             NEW cs \in {Calls} \cup {{c} : c \in Calls},
             NEW ys \in {TaskTypes} \cup {{y} : y \in TaskTypes}, Results!Claim(a, cs, ys)
      PROVE  ResultsInv'
  BY <1>2, ClaimKeeps
<1> QED BY <1>1, <1>2, CreateKeeps, FinishKeeps DEF Results!Next

\* A result may be posted again while its tasks are worked on, and workers may
\* die: still no task has two workers, and no queued one has a worker.
THEOREM OneAnalyst == Spec => []OneAnalystPerTask
<1>1. Results!Init => ResultsInv
  <2> SUFFICES ASSUME Results!Init PROVE ResultsInv
    OBVIOUS
  <2>1. \A a \in Analysts : cHeld[a] = None
    BY DEF Results!Init
  <2>2. OneAnalystPerTask
    BY <2>1 DEF OneAnalystPerTask, Results!OneAnalystPerTask
  <2> QED BY <2>1, <2>2 DEF Results!Init, ResultsInv, TaskStatuses
<1>2. ResultsInv /\ [Next]_vars => ResultsInv'
  BY PartsStep, ResultsStep
<1>3. ResultsInv => OneAnalystPerTask
  BY DEF ResultsInv
<1> QED BY PartsInit, <1>1, <1>2, <1>3, PTL DEF Spec

-----------------------------------------------------------------------------
(* HandoffTranscript: the two recordings of a conversation.                *)

ThreadPlaces ==
  {Transcript!At(side).submit : side \in Transcript!Sides}
    \cup {Transcript!At(side).query : side \in Transcript!Sides}
    \cup {Transcript!Idle, Transcript!Turns, Transcript!Error, Transcript!Gone}

TranscriptType ==
  /\ tWorker \in [Jobs -> {"idle", "waiting", "failed", "turns"}]
  /\ tThread \in [Jobs -> ThreadPlaces]
  /\ tTasks \in [Jobs -> [Transcript!Sides
                            -> {"none", "processing", "text", "silent", "broken"}]]
  /\ tTexts \in [Jobs -> SUBSET Transcript!Sides]

\* Turns have been made of these recordings, each with a text.
TextsOf(j, sides) ==
  tTexts[j] = sides /\ \A side \in sides : tTasks[j][side] = "text"

\* What the thread knows where it stands, and the worker when it has turns.
JobInv(j) ==
  /\ tThread[j] \in {Transcript!Idle, Transcript!At("agent").submit,
                     Transcript!At("agent").query} => TextsOf(j, {})
  /\ tThread[j] \in {Transcript!At("customer").submit, Transcript!At("customer").query}
       => TextsOf(j, {"agent"})
  /\ tThread[j] = Transcript!Turns => TextsOf(j, Transcript!Sides)
  /\ tWorker[j] = "turns" =>
       tThread[j] = Transcript!Gone /\ TextsOf(j, Transcript!Sides)
  /\ tWorker[j] = "idle" => tThread[j] = Transcript!Idle

TranscriptInv == TranscriptType /\ \A j \in Jobs : JobInv(j)

\* A step of one conversation leaves the others alone.
LEMMA OtherJobs ==
  ASSUME TranscriptInv, TranscriptType', NEW j \in Jobs, JobInv(j)',
         \A i \in Jobs \ {j} : /\ tWorker'[i] = tWorker[i] /\ tThread'[i] = tThread[i]
                               /\ tTasks'[i] = tTasks[i] /\ tTexts'[i] = tTexts[i]
  PROVE  TranscriptInv'
<1>1. ASSUME NEW i \in Jobs \ {j} PROVE JobInv(i)'
  <2>1. JobInv(i)
    BY DEF TranscriptInv
  <2>2. tWorker'[i] = tWorker[i] /\ tThread'[i] = tThread[i]
        /\ tTasks'[i] = tTasks[i] /\ tTexts'[i] = tTexts[i]
    BY <1>1
  <2> QED BY <2>1, <2>2 DEF JobInv, TextsOf
<1> QED BY <1>1 DEF TranscriptInv

\* The places are distinct.
LEMMA Places ==
  /\ Transcript!Sides = {"agent", "customer"}
  /\ \A side \in Transcript!Sides :
       /\ Transcript!At(side).submit = <<"submit", side>>
       /\ Transcript!At(side).query = <<"query", side>>
       /\ Transcript!At(side).submit \in ThreadPlaces
       /\ Transcript!At(side).query \in ThreadPlaces
  /\ Transcript!Idle = <<"idle", "both">> /\ Transcript!Turns = <<"turns", "both">>
  /\ Transcript!Error = <<"error", "both">> /\ Transcript!Gone = <<"gone", "both">>
  /\ {Transcript!Idle, Transcript!Turns, Transcript!Error, Transcript!Gone}
       \subseteq ThreadPlaces
BY DEF Transcript!Sides, Transcript!At, Transcript!Idle, Transcript!Turns,
   Transcript!Error, Transcript!Gone, ThreadPlaces

\* The worker's steps.
LEMMA ProcessKeeps ==
  ASSUME TranscriptInv, NEW j \in Jobs, Transcript!Process(j)
  PROVE  TranscriptInv'
<1>1. /\ tWorker \in [Jobs -> {"idle", "waiting", "failed", "turns"}]
      /\ tThread \in [Jobs -> ThreadPlaces]
      /\ JobInv(j)
  BY DEF TranscriptInv, TranscriptType
<1>2. UNCHANGED <<tTasks, tTexts>>
  BY DEF Transcript!Process, Transcript!Request, Transcript!Unreachable,
     Transcript!Answer, Transcript!GivesUp
<1>3. PICK w \in {"waiting", "failed", "turns"}, t \in ThreadPlaces :
        /\ tWorker' = [tWorker EXCEPT ![j] = w]
        /\ tThread' = [tThread EXCEPT ![j] = t]
        /\ \/ t \in {Transcript!At("agent").submit, Transcript!Error}
              /\ w = "waiting" /\ tThread[j] = Transcript!Idle
           \/ t = tThread[j] /\ w = "failed"
           \/ t = Transcript!Gone /\ w = tWorker[j] /\ w # "waiting"
              /\ tThread[j] \in {Transcript!Turns, Transcript!Error}
           \/ t = Transcript!Gone /\ w = "turns" /\ tThread[j] = Transcript!Turns
           \/ t = Transcript!Gone /\ w = "failed"
  <2>1. CASE Transcript!Request(j)
    BY <1>1, <2>1, Places DEF Transcript!Request, Transcript!Moves, JobInv
  <2>2. CASE Transcript!Unreachable(j) \/ Transcript!GivesUp(j)
    <3>1. tThread' = [tThread EXCEPT ![j] = tThread[j]] /\ tThread[j] \in ThreadPlaces
      BY <1>1, <2>2 DEF Transcript!Unreachable, Transcript!GivesUp
    <3> QED BY <2>2, <3>1 DEF Transcript!Unreachable, Transcript!GivesUp
  <2>3. CASE Transcript!Answer(j)
    <3>1. tWorker[j] # "idle"
      BY <1>1, <2>3, Places DEF JobInv, Transcript!Answer
    <3>2. tThread' = [tThread EXCEPT ![j] = Transcript!Gone]
          /\ tThread[j] \in {Transcript!Turns, Transcript!Error}
      BY <2>3 DEF Transcript!Answer, Transcript!Moves
    <3>3. CASE tWorker[j] # "waiting"
      <4>1. tWorker' = [tWorker EXCEPT ![j] = tWorker[j]] /\ tWorker[j] \in {"failed", "turns"}
        BY <1>1, <2>3, <3>1, <3>3 DEF Transcript!Answer
      <4> QED BY <3>2, <3>3, <4>1, Places
    <3>4. CASE tWorker[j] = "waiting"
      <4>1. tWorker' = [tWorker EXCEPT ![j] =
                          IF tThread[j] = Transcript!Turns THEN "turns" ELSE "failed"]
        BY <1>1, <2>3, <3>4 DEF Transcript!Answer
      <4> QED BY <3>2, <4>1, Places
    <3> QED BY <3>3, <3>4
  <2> QED BY <2>1, <2>2, <2>3 DEF Transcript!Process
<1>4. TranscriptType'
  BY <1>1, <1>2, <1>3 DEF TranscriptInv, TranscriptType
<1>5. tWorker'[j] = w /\ tThread'[j] = t
  BY <1>1, <1>3
<1>6. JobInv(j)'
  BY <1>1, <1>2, <1>3, <1>5, Places DEF JobInv, TextsOf
<1> QED BY <1>1, <1>2, <1>3, <1>4, <1>6, OtherJobs

\* The steps of the adapter's thread and of the service.
LEMMA TranscribeKeeps ==
  ASSUME TranscriptInv, NEW j \in Jobs, NEW side \in Transcript!Sides,
         Transcript!Transcribe(j, side)
  PROVE  TranscriptInv'
<1>1. TranscriptType /\ JobInv(j)
  BY DEF TranscriptInv
<1>2. /\ tWorker' = tWorker
      /\ tWorker[j] = "turns" => tThread[j] = Transcript!Gone
      /\ tWorker[j] = "idle" => tThread[j] = Transcript!Idle
  BY <1>1 DEF JobInv, Transcript!Transcribe, Transcript!Submit, Transcript!SubmitFails,
     Transcript!QueryAnswered, Transcript!QueryPending, Transcript!QueryFails,
     Transcript!Transcribes
<1>3. CASE Transcript!Submit(j, side)
  <2>1. /\ tThread[j] = Transcript!At(side).submit /\ tTexts' = tTexts
        /\ tThread' = [tThread EXCEPT ![j] = Transcript!At(side).query]
        /\ tTasks' = [tTasks EXCEPT ![j][side] = "processing"]
    BY <1>3 DEF Transcript!Submit, Transcript!Moves
  <2>2. TranscriptType'
    <3>1. tThread' \in [Jobs -> ThreadPlaces]
      BY <1>1, <2>1, Places DEF TranscriptType
    <3>2. tTasks' \in [Jobs -> [Transcript!Sides
                                -> {"none", "processing", "text", "silent", "broken"}]]
      BY <1>1, <2>1 DEF TranscriptType
    <3> QED BY <1>1, <1>2, <2>1, <3>1, <3>2 DEF TranscriptType
  <2>3. /\ tThread'[j] = Transcript!At(side).query
        /\ \A other \in Transcript!Sides \ {side} : tTasks'[j][other] = tTasks[j][other]
    BY <1>1, <2>1 DEF TranscriptType
  <2>4. JobInv(j)'
    BY <1>1, <1>2, <2>1, <2>3, Places DEF JobInv, TextsOf
  <2> QED BY <1>1, <1>2, <2>1, <2>2, <2>4, OtherJobs DEF TranscriptType
<1>4. CASE Transcript!SubmitFails(j, side) \/ Transcript!QueryFails(j, side)
  <2>1. /\ tThread[j] \in {Transcript!At(side).submit, Transcript!At(side).query}
        /\ tTexts' = tTexts
        /\ tThread' = [tThread EXCEPT ![j] = Transcript!Error]
        /\ tTasks' = tTasks \/ \E status \in {"none", "processing"} :
                                  tTasks' = [tTasks EXCEPT ![j][side] = status]
    BY <1>4 DEF Transcript!SubmitFails, Transcript!QueryFails, Transcript!Moves
  <2>2. TranscriptType'
    <3>1. tThread' \in [Jobs -> ThreadPlaces]
      BY <1>1, <2>1, Places DEF TranscriptType
    <3>2. tTasks' \in [Jobs -> [Transcript!Sides
                                -> {"none", "processing", "text", "silent", "broken"}]]
      BY <1>1, <2>1 DEF TranscriptType
    <3> QED BY <1>1, <1>2, <2>1, <3>1, <3>2 DEF TranscriptType
  <2>3. tThread'[j] = Transcript!Error
    BY <1>1, <2>1 DEF TranscriptType
  <2>4. JobInv(j)'
    BY <1>1, <1>2, <2>1, <2>3, Places DEF JobInv
  <2> QED BY <1>1, <1>2, <2>1, <2>2, <2>4, OtherJobs DEF TranscriptType
<1>5. CASE Transcript!QueryPending(j, side)
  BY <1>5, <1>2 DEF Transcript!QueryPending, TranscriptInv, TranscriptType, JobInv,
     TextsOf
<1>6. CASE Transcript!QueryAnswered(j, side)
  <2>1. /\ tThread[j] = Transcript!At(side).query /\ tTasks' = tTasks
        /\ tTasks[j][side] = "text"
        /\ tTexts' = [tTexts EXCEPT ![j] = @ \cup {side}]
        /\ tThread' = [tThread EXCEPT ![j] = Transcript!After(side)]
    BY <1>6 DEF Transcript!QueryAnswered, Transcript!Moves, Transcript!Parsed
  <2>2. Transcript!After(side) \in ThreadPlaces
    BY Places DEF Transcript!After
  <2>3. TranscriptType'
    BY <1>1, <1>2, <2>1, <2>2 DEF TranscriptType
  <2>4. tThread'[j] = Transcript!After(side) /\ tTexts'[j] = tTexts[j] \cup {side}
    BY <1>1, <2>1 DEF TranscriptType
  <2>5. tWorker[j] \notin {"turns", "idle"}
    BY <1>2, <2>1, Places
  <2>6. CASE side = "agent"
    <3>1. tTexts[j] = {}
      BY <1>1, <2>1, <2>6, Places DEF JobInv, TextsOf
    <3>2. TextsOf(j, {"agent"})'
      BY <2>1, <2>4, <2>6, <3>1 DEF TextsOf
    <3>3. JobInv(j)'
      BY <1>2, <2>4, <2>5, <2>6, <3>2, Places DEF JobInv, Transcript!After
    <3> QED BY <1>1, <1>2, <2>1, <2>3, <3>3, OtherJobs DEF TranscriptType
  <2>7. CASE side = "customer"
    <3>1. TextsOf(j, {"agent"})
      BY <1>1, <2>1, <2>7, Places DEF JobInv
    <3>2. TextsOf(j, Transcript!Sides)'
      BY <2>1, <2>4, <2>7, <3>1, Places DEF TextsOf
    <3>3. JobInv(j)'
      BY <1>2, <2>4, <2>5, <2>7, <3>2, Places DEF JobInv, Transcript!After
    <3> QED BY <1>1, <1>2, <2>1, <2>3, <3>3, OtherJobs DEF TranscriptType
  <2> QED BY <2>6, <2>7, Places
<1>7. CASE Transcript!Transcribes(j, side)
  <2>1. PICK status \in {"text", "silent", "broken"} :
          /\ tTasks[j][side] = "processing" /\ UNCHANGED <<tThread, tTexts>>
          /\ tTasks' = [tTasks EXCEPT ![j][side] = status]
    BY <1>7 DEF Transcript!Transcribes
  <2>2. TranscriptType'
    BY <1>1, <1>2, <2>1 DEF TranscriptType
  <2>3. \A other \in Transcript!Sides \ {side} : tTasks'[j][other] = tTasks[j][other]
    BY <1>1, <2>1 DEF TranscriptType
  <2>4. ASSUME NEW sides \in SUBSET Transcript!Sides, TextsOf(j, sides)
        PROVE  TextsOf(j, sides)'
    BY <2>1, <2>3, <2>4 DEF TextsOf
  <2>5. JobInv(j)'
    BY <1>1, <1>2, <2>1, <2>4, Places DEF JobInv
  <2> QED BY <1>1, <1>2, <2>1, <2>2, <2>5, OtherJobs DEF TranscriptType
<1> QED BY <1>3, <1>4, <1>5, <1>6, <1>7 DEF Transcript!Transcribe

LEMMA TranscriptStep ==
  ASSUME TranscriptInv, [Transcript!Next]_(Transcript!vars)
  PROVE  TranscriptInv'
<1>1. CASE UNCHANGED Transcript!vars
  BY <1>1 DEF Transcript!vars, TranscriptInv, TranscriptType, JobInv, TextsOf
<1> QED BY <1>1, ProcessKeeps, TranscribeKeeps DEF Transcript!Next

\* A worker that is given turns has both recordings, whatever is silent, late,
\* refused, lost or broken, and whoever gave up meanwhile.
THEOREM WholeTranscript == Spec => []TranscriptIsWhole
<1>1. Transcript!Init => TranscriptInv
  BY Places DEF Transcript!Init, TranscriptInv, TranscriptType, JobInv, TextsOf
<1>2. TranscriptInv /\ [Next]_vars => TranscriptInv'
  BY PartsStep, TranscriptStep
<1>3. TranscriptInv => TranscriptIsWhole
  BY DEF TranscriptInv, JobInv, TextsOf, TranscriptIsWhole,
     Transcript!TranscriptIsWhole
<1> QED BY PartsInit, <1>1, <1>2, <1>3, PTL DEF Spec

-----------------------------------------------------------------------------
(* RecordingFile: the bodies of recordings.                                *)

DownloadPlaces == {"idle", "refused", "head", "promised", "garbled", "copying", "ended"}
DownloadStates == [at : DownloadPlaces, start : Nat, length : Nat, sent : Nat]

\* What is promised was in the file, which only grows, and is not yet sent
\* unless the copy has ended.
DownloadInv(d) ==
  /\ dDownload[d].start + dDownload[d].length <= dSize
  /\ dDownload[d].sent <= dDownload[d].length
  /\ dDownload[d].at = "ended" => dDownload[d].sent = dDownload[d].length
  /\ dDownload[d].at = "garbled" => dRemoved

UploadInv ==
  /\ dUpload \in [at : {"polling", "reading", "read", "failed"},
                  last : Nat \cup {None}, read : Nat]
  /\ dUpload.at = "reading" => dUpload.last \in 1..dSize
  /\ dUpload.at = "read" => dUpload.last \in 1..dUpload.read

RecordingInv ==
  /\ dSize \in Nat
  /\ dDownload \in [Downloads -> DownloadStates]
  /\ \A d \in Downloads : DownloadInv(d)
  /\ UploadInv

\* A range that is answered lies within the file.
LEMMA ParsedWithin ==
  ASSUME NEW size \in Nat, NEW range \in Recordings!Ranges,
         Recordings!ParseByteRange(range, size) \notin {None, "invalid"}
  PROVE  \E start \in Nat, end \in Nat :
           /\ Recordings!ParseByteRange(range, size) = <<start, end>>
           /\ start <= end /\ end < size
<1>1. range # None /\ size > 0
  BY DEF Recordings!ParseByteRange
<1>2. /\ Recordings!Bounds \subseteq Nat
      /\ range[1] \in Recordings!Bounds \cup {None} /\ range[2] \in Recordings!Bounds \cup {None}
  BY <1>1, RecordingAssumption DEF Recordings!Ranges, Recordings!Bounds
<1>3. CASE range[1] = None
  <2>1. range[2] \in Nat \ {0}
    BY <1>1, <1>2, <1>3 DEF Recordings!ParseByteRange
  <2> DEFINE start == IF size > range[2] THEN size - range[2] ELSE 0
  <2>2. start \in Nat /\ size - 1 \in Nat /\ start <= size - 1 /\ size - 1 < size
    BY <1>1, <2>1
  <2>3. Recordings!ParseByteRange(range, size) = <<start, size - 1>>
    BY <1>1, <1>3 DEF Recordings!ParseByteRange
  <2> QED BY <2>2, <2>3
<1>4. CASE range[1] # None
  <2> DEFINE asked == IF range[2] = None THEN size - 1 ELSE range[2]
             end   == Recordings!Smaller(asked, size - 1)
  <2>0. range[1] \in Nat
    BY <1>2, <1>4
  <2>1. asked \in Nat
    <3>1. CASE range[2] = None
      BY <1>1, <3>1
    <3>2. CASE range[2] # None
      BY <1>2, <3>2
    <3> QED BY <3>1, <3>2
  <2>2. /\ ~(range[1] >= size \/ asked < range[1])
        /\ Recordings!ParseByteRange(range, size) = <<range[1], end>>
    BY <1>1, <1>4 DEF Recordings!ParseByteRange
  <2>3. end \in Nat /\ range[1] <= end /\ end < size
    BY <1>1, <2>0, <2>1, <2>2 DEF Recordings!Smaller
  <2> QED BY <2>0, <2>2, <2>3
<1> QED BY <1>3, <1>4

\* A download takes a new state that keeps its promise.
LEMMA BecomesKeeps ==
  ASSUME RecordingInv, NEW d \in Downloads, NEW new \in DownloadStates,
         Recordings!Becomes(d, new),
         new.start + new.length <= dSize, new.sent <= new.length,
         new.at = "ended" => new.sent = new.length,
         new.at = "garbled" => dRemoved
  PROVE  RecordingInv'
<1>1. dDownload' = [dDownload EXCEPT ![d] = new] /\ UNCHANGED <<dSize, dRemoved, dUpload>>
  BY DEF Recordings!Becomes
<1>2. /\ dDownload' \in [Downloads -> DownloadStates] /\ dDownload'[d] = new
      /\ \A e \in Downloads \ {d} : dDownload'[e] = dDownload[e]
  BY <1>1 DEF RecordingInv
<1>3. \A e \in Downloads : DownloadInv(e)'
  BY <1>1, <1>2 DEF RecordingInv, DownloadInv
<1> QED BY <1>1, <1>2, <1>3 DEF RecordingInv, UploadInv

LEMMA PromiseKeeps ==
  ASSUME RecordingInv, NEW d \in Downloads, NEW range \in Recordings!Ranges,
         NEW includeBody \in BOOLEAN, Recordings!Promise(d, range, includeBody)
  PROVE  RecordingInv'
<1> DEFINE parsed == Recordings!ParseByteRange(range, dSize)
           span   == IF parsed = None THEN <<0, dSize - 1>> ELSE parsed
           body   == [at |-> "promised", start |-> span[1],
                      length |-> span[2] - span[1] + 1, sent |-> 0]
<1>0. dSize \in Nat
  BY DEF RecordingInv
<1>1. /\ Recordings!Becomes(d, IF parsed = "invalid" THEN Recordings!Answered("refused")
                               ELSE IF ~includeBody THEN Recordings!Answered("head")
                               ELSE body)
  BY DEF Recordings!Promise
<1>2. ASSUME NEW answer \in {"refused", "head"} PROVE
        LET new == Recordings!Answered(answer)
        IN /\ new \in DownloadStates /\ new.start = 0 /\ new.length = 0 /\ new.sent = 0
           /\ new.at = answer
  BY DEF Recordings!Answered, Recordings!Idle, DownloadStates, DownloadPlaces
<1>3. CASE parsed = "invalid" \/ ~includeBody
  <2>1. PICK answer \in {"refused", "head"} : Recordings!Becomes(d, Recordings!Answered(answer))
    BY <1>1, <1>3
  <2> HIDE DEF parsed, span, body
  <2> QED BY <1>0, <1>2, <2>1, BecomesKeeps
<1>4. CASE parsed # "invalid" /\ includeBody
  <2>1. Recordings!Becomes(d, body)
    BY <1>1, <1>4
  <2>2. PICK start \in Nat, end \in Int :
          span = <<start, end>> /\ start <= end + 1 /\ end < dSize
    <3>1. CASE parsed = None
      <4>1. span = <<0, dSize - 1>>
        BY <3>1
      <4>2. 0 \in Nat /\ dSize - 1 \in Int /\ 0 <= (dSize - 1) + 1 /\ dSize - 1 < dSize
        BY <1>0
      <4> QED BY <4>1, <4>2
    <3>2. CASE parsed # None
      <4>1. PICK s \in Nat, e \in Nat : parsed = <<s, e>> /\ s <= e /\ e < dSize
        BY <1>0, <1>4, <3>2, ParsedWithin
      <4>2. e \in Int /\ s <= e + 1 /\ span = <<s, e>>
        BY <3>2, <4>1
      <4> QED BY <4>1, <4>2
    <3> QED BY <3>1, <3>2
  <2> HIDE DEF parsed, span
  <2>3. span[1] = start /\ span[2] = end /\ end - start + 1 \in Nat
    BY <2>2
  <2>4. /\ body.start = start /\ body.length = end - start + 1 /\ body.sent = 0
        /\ body.at = "promised"
    BY <2>3
  <2>5. body \in DownloadStates
    BY <2>3 DEF DownloadStates, DownloadPlaces
  <2> HIDE DEF body
  <2>6. body.start + body.length <= dSize /\ body.sent <= body.length
    BY <1>0, <2>2, <2>3, <2>4
  <2> QED BY <2>1, <2>4, <2>5, <2>6, BecomesKeeps
<1> QED BY <1>3, <1>4

\* Copying ends only when everything promised has been sent.
LEMMA CopyKeeps ==
  ASSUME RecordingInv, NEW d \in Downloads, Recordings!Copy(d)
  PROVE  RecordingInv'
<1> DEFINE now   == dDownload[d]
           left  == now.length - now.sent
           chunk == Recordings!Smaller(Recordings!Smaller(left, Chunk),
                                       dSize - (now.start + now.sent))
<1>1. /\ now \in DownloadStates /\ dSize \in Nat /\ DownloadInv(d)
  BY DEF RecordingInv
<1>2. /\ now.length \in Nat /\ now.sent \in Nat /\ now.start \in Nat
      /\ now.sent <= now.length /\ now.start + now.length <= dSize
      /\ now.at = "copying"
      /\ Recordings!Becomes(d, IF now.sent = now.length \/ chunk <= 0
                                 THEN [now EXCEPT !.at = "ended"]
                               ELSE [now EXCEPT !.sent = @ + chunk])
  BY <1>1 DEF DownloadStates, DownloadInv, Recordings!Copy
<1>3. chunk \in Int /\ chunk <= left /\ (chunk <= 0 => now.sent = now.length)
  <2>1. left \in Nat /\ dSize - (now.start + now.sent) >= left
        /\ dSize - (now.start + now.sent) \in Int
    BY <1>1, <1>2
  <2> DEFINE first == Recordings!Smaller(left, Chunk)
  <2>2. first \in Int /\ first <= left /\ (first <= 0 => left = 0)
    BY <2>1, RecordingAssumption DEF Recordings!Smaller
  <2> HIDE DEF first
  <2>3. Recordings!Smaller(first, dSize - (now.start + now.sent)) = first
    BY <2>1, <2>2 DEF Recordings!Smaller
  <2>4. chunk = first
    BY <2>3 DEF first
  <2> HIDE DEF chunk
  <2> QED BY <1>2, <2>2, <2>4
<1> HIDE DEF chunk
<1>4. CASE now.sent = now.length \/ chunk <= 0
  <2>1. Recordings!Becomes(d, [now EXCEPT !.at = "ended"]) /\ now.sent = now.length
    BY <1>2, <1>3, <1>4
  <2>2. /\ [now EXCEPT !.at = "ended"] \in DownloadStates
        /\ [now EXCEPT !.at = "ended"].sent = now.sent
        /\ [now EXCEPT !.at = "ended"].length = now.length
        /\ [now EXCEPT !.at = "ended"].start = now.start
        /\ [now EXCEPT !.at = "ended"].at = "ended"
    BY <1>1 DEF DownloadStates, DownloadPlaces
  <2> QED BY <1>2, <2>1, <2>2, BecomesKeeps
<1>5. CASE ~(now.sent = now.length \/ chunk <= 0)
  <2> DEFINE new == [now EXCEPT !.sent = @ + chunk]
  <2>1. Recordings!Becomes(d, new)
    BY <1>2, <1>5
  <2>2. chunk \in Nat /\ now.sent + chunk \in Nat /\ now.sent + chunk <= now.length
    BY <1>2, <1>3, <1>5
  <2>3. /\ new \in DownloadStates /\ new.sent = now.sent + chunk
        /\ new.length = now.length /\ new.start = now.start /\ new.at = "copying"
    BY <1>1, <1>2, <2>2 DEF DownloadStates, DownloadPlaces
  <2> HIDE DEF new
  <2> QED BY <1>2, <2>1, <2>2, <2>3, BecomesKeeps
<1> QED BY <1>4, <1>5

\* The other steps of a download.
LEMMA DownloadKeeps ==
  ASSUME RecordingInv, NEW d \in Downloads,
         Recordings!NotFound(d) \/ Recordings!Open(d) \/ Recordings!OpenFails(d)
  PROVE  RecordingInv'
<1>1. dDownload[d] \in DownloadStates /\ dSize \in Nat /\ DownloadInv(d)
  BY DEF RecordingInv
<1>2. CASE Recordings!NotFound(d)
  <2> DEFINE new == Recordings!Answered("refused")
  <2>1. /\ new \in DownloadStates /\ new.start = 0 /\ new.length = 0 /\ new.sent = 0
        /\ new.at = "refused" /\ Recordings!Becomes(d, new)
    BY <1>2 DEF Recordings!NotFound, Recordings!Answered, Recordings!Idle, DownloadStates,
       DownloadPlaces
  <2> HIDE DEF new
  <2> QED BY <1>1, <2>1, BecomesKeeps
<1>3. ASSUME NEW at \in {"copying", "garbled"}, at = "garbled" => dRemoved,
             Recordings!Becomes(d, [dDownload[d] EXCEPT !.at = at])
      PROVE  RecordingInv'
  <2> DEFINE new == [dDownload[d] EXCEPT !.at = at]
  <2>1. /\ new \in DownloadStates /\ new.start = dDownload[d].start
        /\ new.length = dDownload[d].length /\ new.sent = dDownload[d].sent /\ new.at = at
    BY <1>1 DEF DownloadStates, DownloadPlaces
  <2>2. Recordings!Becomes(d, new)
    BY <1>3
  <2>3. new.start + new.length <= dSize /\ new.sent <= new.length
    BY <1>1, <2>1 DEF DownloadInv
  <2> HIDE DEF new
  <2> QED BY <1>3, <2>1, <2>2, <2>3, BecomesKeeps
<1> QED BY <1>2, <1>3 DEF Recordings!Open, Recordings!OpenFails

\* The upload and the file.
LEMMA FileKeeps ==
  ASSUME RecordingInv,
         Recordings!Grow \/ Recordings!Remove \/ Recordings!Poll \/ Recordings!Read
           \/ Recordings!NotReady
  PROVE  RecordingInv'
<1>1. dSize \in Nat /\ dDownload \in [Downloads -> DownloadStates] /\ UploadInv
      /\ \A d \in Downloads : /\ DownloadInv(d) /\ dDownload[d].start \in Nat
                              /\ dDownload[d].length \in Nat
  BY DEF RecordingInv, DownloadStates
<1>2. CASE Recordings!Grow
  <2>1. dSize' = dSize + 1 /\ UNCHANGED <<dRemoved, dDownload, dUpload>>
    BY <1>2 DEF Recordings!Grow
  <2>2. \A d \in Downloads : DownloadInv(d)'
    BY <1>1, <2>1 DEF DownloadInv
  <2>3. UploadInv'
    BY <1>1, <2>1 DEF UploadInv
  <2> QED BY <1>1, <2>1, <2>2, <2>3 DEF RecordingInv
<1>3. CASE Recordings!Remove
  BY <1>1, <1>3 DEF Recordings!Remove, RecordingInv, DownloadInv, UploadInv
<1>4. CASE Recordings!Poll
  <2> DEFINE polled == IF dRemoved \/ dSize = 0 THEN None ELSE dSize
  <2>1. /\ dUpload.at = "polling" /\ UNCHANGED <<dSize, dRemoved, dDownload>>
        /\ dUpload' = IF polled # None /\ polled = dUpload.last
                        THEN [dUpload EXCEPT !.at = "reading"]
                      ELSE [dUpload EXCEPT !.last = polled]
    BY <1>4 DEF Recordings!Poll
  <2>2. polled \in Nat \cup {None} /\ (polled # None => polled \in 1..dSize)
    BY <1>1
  <2> HIDE DEF polled
  <2>3. UploadInv'
    BY <1>1, <2>1, <2>2 DEF UploadInv
  <2> QED BY <1>1, <2>1, <2>3 DEF RecordingInv, DownloadInv
<1>5. CASE Recordings!Read \/ Recordings!NotReady
  <2>1. /\ UNCHANGED <<dSize, dRemoved, dDownload>>
        /\ \/ dUpload' = [dUpload EXCEPT !.at = "failed"]
           \/ dUpload.at = "reading" /\ dUpload' = [dUpload EXCEPT !.at = "read", !.read = dSize]
    BY <1>5 DEF Recordings!Read, Recordings!NotReady
  <2>2. UploadInv'
    BY <1>1, <2>1 DEF UploadInv
  <2> QED BY <1>1, <2>1, <2>2 DEF RecordingInv, DownloadInv
<1> QED BY <1>2, <1>3, <1>4, <1>5

LEMMA RecordingStep ==
  ASSUME RecordingInv, [Recordings!Next]_(Recordings!vars)
  PROVE  RecordingInv'
<1>1. CASE UNCHANGED Recordings!vars
  BY <1>1 DEF Recordings!vars, RecordingInv, DownloadInv, UploadInv
<1> QED BY <1>1, PromiseKeeps, CopyKeeps, DownloadKeeps, FileKeeps DEF Recordings!Next

\* For any size, range and chunk, and however the file grows or goes between
\* two steps, a body is as long as promised and an upload not shorter than the
\* size seen twice.
THEOREM WholeBodies == Spec => []BodiesAreWhole
<1>1. Recordings!Init => RecordingInv
  <2> SUFFICES ASSUME Recordings!Init PROVE RecordingInv
    OBVIOUS
  <2>1. dSize \in Nat /\ dUpload = [at |-> "polling", last |-> None, read |-> 0]
        /\ dDownload = [d \in Downloads |-> Recordings!Idle]
    BY DEF Recordings!Init
  <2>2. /\ Recordings!Idle \in DownloadStates /\ Recordings!Idle.start = 0
        /\ Recordings!Idle.length = 0 /\ Recordings!Idle.sent = 0 /\ Recordings!Idle.at = "idle"
    BY DEF Recordings!Idle, DownloadStates, DownloadPlaces
  <2>3. UploadInv
    BY <2>1 DEF UploadInv
  <2> QED BY <2>1, <2>2, <2>3 DEF RecordingInv, DownloadInv
<1>2. RecordingInv /\ [Next]_vars => RecordingInv'
  BY PartsStep, RecordingStep
<1>3. RecordingInv => BodiesAreWhole
  <2> SUFFICES ASSUME RecordingInv, NEW d \in Downloads
               PROVE  /\ dDownload[d].at = "ended" => dDownload[d].sent = dDownload[d].length
                      /\ dDownload[d].sent <= dDownload[d].length
                      /\ dDownload[d].at = "garbled" => dRemoved
                      /\ dUpload.at = "read" => dUpload.read > 0 /\ dUpload.read >= dUpload.last
    BY DEF BodiesAreWhole, Recordings!BodiesAreWhole
  <2>1. dUpload.at = "read" => dUpload.last \in 1..dUpload.read /\ dUpload.read \in Nat
    BY DEF RecordingInv, UploadInv
  <2> QED BY <2>1 DEF RecordingInv, DownloadInv
<1> QED BY PartsInit, <1>1, <1>2, <1>3, PTL DEF Spec

-----------------------------------------------------------------------------
(* EventSocket: whose reply a request takes for its own.                   *)

SocketPlaces ==
  Socket!Holding \cup {"idle", "waiting", "done", "failed", "gone"}

Reading(r) == sAt[r] \in {"reading", "rereading"}
Over(r) == sAt[r] \in {"gone", "done"}

\* Whoever uses the connection holds the lock.
LockInv ==
  /\ sAt \in [Requests -> SocketPlaces]
  /\ sLock \in Requests \cup {None}
  /\ \A r \in Requests : sAt[r] \in Socket!Holding <=> sLock = r

\* A command or a reply on the connection belongs to a request that is over,
\* unless it is the last of all and somebody is reading for it.
CommandsInv ==
  \A i \in 1..Len(sApi.commands) :
    \/ Over(sApi.commands[i])
    \/ i = Len(sApi.commands) /\ Reading(sApi.commands[i])
RepliesInv ==
  \A i \in 1..Len(sApi.replies) :
    \/ Over(sApi.replies[i])
    \/ i = Len(sApi.replies) /\ sApi.commands = <<>> /\ Reading(sApi.replies[i])

SomebodyGone == \E q \in Requests : sAt[q] = "gone"

\* One who has an answer leaves another's behind only if somebody gave up.
ShiftedInv ==
  /\ \A i \in 1..Len(sApi.commands) : sAt[sApi.commands[i]] = "done" => SomebodyGone
  /\ \A i \in 1..Len(sApi.replies) : sAt[sApi.replies[i]] = "done" => SomebodyGone

ApiInv ==
  /\ sApi \in [link : {"none", "open", "dead"}, commands : Seq(Requests),
               replies : Seq(Requests)]
  /\ sApi.link # "open" => sApi.commands = <<>>
  /\ CommandsInv /\ RepliesInv /\ ShiftedInv

AnswerInv ==
  /\ sAnswer \in [Requests -> Requests \cup {None}]
  /\ Socket!OwnAnswer

ListenInv ==
  /\ sEvents \in [alive : BOOLEAN, subscribed : BOOLEAN]
  /\ Socket!ListensSubscribed

SocketInv == LockInv /\ ApiInv /\ AnswerInv /\ ListenInv

\* A request that is over stays so, and nobody's place but r's changes.
Stood(r, where) ==
  /\ sAt'[r] = where
  /\ \A q \in Requests \ {r} : sAt'[q] = sAt[q]

LEMMA StandsStood ==
  ASSUME LockInv, NEW r \in Requests, NEW where \in SocketPlaces, Socket!Stands(r, where)
  PROVE  sAt' \in [Requests -> SocketPlaces] /\ Stood(r, where)
BY DEF LockInv, Socket!Stands, Stood

\* A step of r inside or outside the lock.
LEMMA LockKept ==
  ASSUME LockInv, NEW r \in Requests, NEW where \in SocketPlaces,
         Socket!Stands(r, where), UNCHANGED sLock,
         where \in Socket!Holding <=> sAt[r] \in Socket!Holding
  PROVE  LockInv'
<1>1. sAt' \in [Requests -> SocketPlaces] /\ Stood(r, where)
  BY StandsStood
<1> QED BY <1>1 DEF LockInv, Stood

LEMMA LockReleased ==
  ASSUME LockInv, NEW r \in Requests, NEW where \in SocketPlaces \ Socket!Holding,
         Socket!Release(r, where)
  PROVE  LockInv'
<1>1. sAt' \in [Requests -> SocketPlaces] /\ Stood(r, where)
  BY StandsStood DEF Socket!Release
<1>2. sLock' = IF sLock = r THEN None ELSE sLock
  BY DEF Socket!Release
<1> QED BY <1>1, <1>2, SocketAssumption DEF LockInv, Stood

LEMMA LockTaken ==
  ASSUME LockInv, NEW r \in Requests, NEW where \in Socket!Holding,
         Socket!Stands(r, where), sLock = None, sLock' = r
  PROVE  LockInv'
<1>1. sAt' \in [Requests -> SocketPlaces] /\ Stood(r, where)
  BY StandsStood DEF SocketPlaces
<1> QED BY <1>1, SocketAssumption DEF LockInv, Stood

\* The queues of a connection that is new, closed or dead.
LEMMA ApiCleared ==
  ASSUME sApi' \in {Socket!NoApi, Socket!Fresh}
  PROVE  ApiInv'
<1>1. /\ sApi' \in [link : {"none", "open", "dead"}, commands : Seq(Requests),
                   replies : Seq(Requests)]
      /\ sApi'.commands = <<>> /\ sApi'.replies = <<>>
  <2>1. /\ Socket!NoApi = [link |-> "none", commands |-> <<>>, replies |-> <<>>]
        /\ Socket!Fresh = [link |-> "open", commands |-> <<>>, replies |-> <<>>]
    BY DEF Socket!NoApi, Socket!Fresh
  <2>2. <<>> \in Seq(Requests)
    OBVIOUS
  <2>3. CASE sApi' = Socket!NoApi
    BY <2>1, <2>2, <2>3
  <2>4. CASE sApi' = Socket!Fresh
    BY <2>1, <2>2, <2>4
  <2> QED BY <2>3, <2>4
<1>2. Len(sApi'.commands) = 0 /\ Len(sApi'.replies) = 0
  BY <1>1
<1> QED BY <1>1, <1>2 DEF ApiInv, CommandsInv, RepliesInv, ShiftedInv

\* Nothing on the connection belongs to a request that is not over and does
\* not read, so such a one may move as long as it is not called done.
LEMMA ApiOfOthers ==
  ASSUME LockInv, ApiInv, NEW r \in Requests, NEW where \in SocketPlaces \ {"done"},
         Socket!Stands(r, where), ~Over(r), UNCHANGED sApi,
         ~Reading(r) \/ where = "gone" \/ (sApi.commands = <<>> /\ sApi.replies = <<>>)
  PROVE  ApiInv'
<1>1. Stood(r, where)
  BY StandsStood
<1>2. /\ sApi.commands \in Seq(Requests) /\ sApi.replies \in Seq(Requests)
      /\ \A i \in 1..Len(sApi.commands) : sApi.commands[i] \in Requests
      /\ \A i \in 1..Len(sApi.replies) : sApi.replies[i] \in Requests
  BY DEF ApiInv
<1>3. SomebodyGone => SomebodyGone'
  BY <1>1 DEF SomebodyGone, Stood, Over
<1>4. \A q \in Requests \ {r} : sAt'[q] = sAt[q] /\ Over(q)' = Over(q) /\ Reading(q)' = Reading(q)
  BY <1>1 DEF Stood, Over, Reading
<1>5. Over(r)' <=> where = "gone"
  BY <1>1 DEF Stood, Over
<1>6. CASE sApi.commands = <<>> /\ sApi.replies = <<>>
  <2>1. Len(sApi.commands) = 0 /\ Len(sApi.replies) = 0
    BY <1>6
  <2> QED BY <1>6, <2>1 DEF ApiInv, CommandsInv, RepliesInv, ShiftedInv
<1>7. CASE ~Reading(r) \/ where = "gone"
  <2>1. CommandsInv'
    BY <1>2, <1>4, <1>5, <1>7 DEF ApiInv, CommandsInv
  <2>2. RepliesInv'
    BY <1>2, <1>4, <1>5, <1>7 DEF ApiInv, RepliesInv
  <2>3. ShiftedInv'
    BY <1>1, <1>2, <1>3 DEF ApiInv, ShiftedInv, Stood
  <2> QED BY <2>1, <2>2, <2>3 DEF ApiInv
<1> QED BY <1>6, <1>7

\* A request sends its command while nobody else reads.
LEMMA ApiSent ==
  ASSUME LockInv, NEW r \in Requests, NEW where \in {"reading", "rereading"},
         Socket!Stands(r, where), ~Over(r),
         NEW api, api \in [link : {"none", "open", "dead"}, commands : Seq(Requests),
                           replies : Seq(Requests)],
         api.link # "open" => api.commands = <<>>,
         \A i \in 1..Len(api.commands) :
           Over(api.commands[i]) /\ (sAt[api.commands[i]] = "done" => SomebodyGone),
         \A i \in 1..Len(api.replies) :
           Over(api.replies[i]) /\ (sAt[api.replies[i]] = "done" => SomebodyGone),
         sApi' = Socket!Sent(api, r)
  PROVE  ApiInv'
<1>1. Stood(r, where)
  BY StandsStood DEF SocketPlaces, Socket!Holding
<1>2. SomebodyGone => SomebodyGone'
  BY <1>1 DEF SomebodyGone, Stood, Over
<1>3. \A q \in Requests : Over(q) => Over(q)' /\ sAt'[q] = sAt[q]
  BY <1>1 DEF Stood, Over
<1>4. Reading(r)' /\ ~Over(r)' /\ sAt'[r] # "done"
  BY <1>1 DEF Stood, Over, Reading
<1>5. /\ api.commands \in Seq(Requests) /\ api.replies \in Seq(Requests)
      /\ \A i \in 1..Len(api.commands) : api.commands[i] \in Requests
      /\ \A i \in 1..Len(api.replies) : api.replies[i] \in Requests
  OBVIOUS
<1>6. CASE api.link # "open"
  <2>1. sApi' = api
    BY <1>6 DEF Socket!Sent
  <2>2. CommandsInv' /\ RepliesInv' /\ ShiftedInv'
    BY <1>2, <1>3, <1>5, <2>1 DEF CommandsInv, RepliesInv, ShiftedInv
  <2> QED BY <2>1, <2>2 DEF ApiInv
<1>7. CASE api.link = "open"
  <2>0. PICK commands : commands = Append(api.commands, r)
    OBVIOUS
  <2>1. sApi' = [api EXCEPT !.commands = commands]
    BY <1>7, <2>0 DEF Socket!Sent
  <2>2. /\ commands \in Seq(Requests) /\ Len(commands) = Len(api.commands) + 1
        /\ Len(api.commands) \in Nat
        /\ commands[Len(commands)] = r
        /\ \A i \in 1..Len(api.commands) : commands[i] = api.commands[i]
    BY <1>5, <2>0
  <2>3. /\ sApi' \in [link : {"none", "open", "dead"}, commands : Seq(Requests),
                     replies : Seq(Requests)]
        /\ sApi'.commands = commands /\ sApi'.replies = api.replies /\ sApi'.link = "open"
    BY <1>7, <2>1, <2>2
  <2>4. CommandsInv'
    <3>1. ASSUME NEW i \in 1..Len(commands) PROVE
          \/ sAt'[commands[i]] \in {"gone", "done"}
          \/ i = Len(commands) /\ sAt'[commands[i]] \in {"reading", "rereading"}
      <4>1. CASE i = Len(commands)
        BY <1>4, <2>2, <4>1 DEF Reading
      <4>2. CASE i # Len(commands)
        <5>1. i \in 1..Len(api.commands)
          BY <2>2, <4>2
        <5>2. commands[i] \in Requests /\ Over(commands[i])
          BY <1>5, <2>2, <5>1
        <5> QED BY <1>3, <5>2 DEF Over
      <4> QED BY <4>1, <4>2
    <3> QED BY <2>3, <3>1 DEF CommandsInv, Over, Reading
  <2>5. RepliesInv'
    BY <1>3, <1>5, <2>3 DEF RepliesInv
  <2>6. ShiftedInv'
    <3>1. ASSUME NEW i \in 1..Len(commands), sAt'[commands[i]] = "done" PROVE SomebodyGone'
      <4>1. i # Len(commands)
        BY <1>4, <2>2, <3>1
      <4>2. i \in 1..Len(api.commands)
        BY <2>2, <4>1
      <4> QED BY <1>2, <1>3, <1>5, <2>2, <3>1, <4>2
    <3>2. ASSUME NEW i \in 1..Len(api.replies), sAt'[api.replies[i]] = "done" PROVE SomebodyGone'
      BY <1>2, <1>3, <1>5, <3>2
    <3> QED BY <2>3, <3>1, <3>2 DEF ShiftedInv
  <2> QED BY <2>3, <2>4, <2>5, <2>6 DEF ApiInv
<1> QED BY <1>6, <1>7

\* Where nobody holds the lock, all that is on the connection is over.
LEMMA FreeIsOver ==
  ASSUME LockInv, ApiInv, sLock = None
  PROVE  /\ \A i \in 1..Len(sApi.commands) : Over(sApi.commands[i])
         /\ \A i \in 1..Len(sApi.replies) : Over(sApi.replies[i])
<1>1. \A r \in Requests : ~Reading(r)
  BY SocketAssumption DEF LockInv, Reading, Socket!Holding
<1>2. /\ sApi.commands \in Seq(Requests) /\ sApi.replies \in Seq(Requests)
      /\ \A i \in 1..Len(sApi.commands) : sApi.commands[i] \in Requests
      /\ \A i \in 1..Len(sApi.replies) : sApi.replies[i] \in Requests
  BY DEF ApiInv
<1> QED BY <1>1, <1>2 DEF ApiInv, CommandsInv, RepliesInv

\* What was told to a request stays right while others become over.
LEMMA AnswersStand ==
  ASSUME AnswerInv, UNCHANGED sAnswer, \A q \in Requests : Over(q) => sAt'[q] = sAt[q]
  PROVE  AnswerInv'
<1>1. \A q \in Requests : Over(q) => Over(q)' /\ (sAt[q] = "gone" => sAt'[q] = "gone")
  BY DEF Over
<1> QED BY <1>1 DEF AnswerInv, Socket!OwnAnswer, Over

\* The reply that is read next is that of a request that is over, or r's own
\* and then the last on the connection.
LEMMA ReplyKeeps ==
  ASSUME LockInv, ApiInv, AnswerInv, NEW r \in Requests, Socket!ReplyRead(r)
  PROVE  LockInv' /\ ApiInv' /\ AnswerInv'
<1>1. /\ sAt[r] \in {"reading", "rereading"} /\ sApi.replies # <<>>
      /\ Socket!Stands(r, "done") /\ Socket!Release(r, "done")
      /\ "done" \in SocketPlaces \ Socket!Holding
  BY DEF Socket!ReplyRead, Socket!Release, SocketPlaces, Socket!Holding
<1>2. LockInv'
  BY <1>1, LockReleased
<1>3. Stood(r, "done")
  BY <1>1, StandsStood
<1>4. /\ sApi \in [link : {"none", "open", "dead"}, commands : Seq(Requests),
                   replies : Seq(Requests)]
      /\ sApi.commands \in Seq(Requests) /\ sApi.replies \in Seq(Requests)
      /\ Len(sApi.replies) \in Nat \ {0}
      /\ \A i \in 1..Len(sApi.commands) : sApi.commands[i] \in Requests
      /\ \A i \in 1..Len(sApi.replies) : sApi.replies[i] \in Requests
  BY <1>1 DEF ApiInv
<1>5. PICK c, replies : c = Head(sApi.replies) /\ replies = Tail(sApi.replies)
  OBVIOUS
<1>6. /\ c \in Requests /\ c = sApi.replies[1] /\ 1 \in 1..Len(sApi.replies)
      /\ replies \in Seq(Requests) /\ Len(replies) = Len(sApi.replies) - 1
      /\ \A i \in 1..Len(replies) : replies[i] = sApi.replies[i + 1]
  BY <1>1, <1>4, <1>5
<1>7. sAnswer' = [sAnswer EXCEPT ![r] = c] /\ sApi' = [sApi EXCEPT !.replies = replies]
  BY <1>5 DEF Socket!ReplyRead
<1>8. /\ sApi' \in [link : {"none", "open", "dead"}, commands : Seq(Requests),
                   replies : Seq(Requests)]
      /\ sApi'.commands = sApi.commands /\ sApi'.replies = replies /\ sApi'.link = sApi.link
  BY <1>4, <1>6, <1>7
<1>9. \A q \in Requests : Reading(q) => q = r
  BY <1>1, SocketAssumption DEF LockInv, Reading, Socket!Holding
<1>10. ~Over(r)
  BY <1>1 DEF Over
<1>11. SomebodyGone => SomebodyGone'
  BY <1>1, <1>3 DEF SomebodyGone, Stood
<1>12. \A q \in Requests : Over(q) => sAt'[q] = sAt[q]
  BY <1>3, <1>10 DEF Stood
<1>13. CASE c = r
  <2>1. Len(sApi.replies) = 1 /\ sApi.commands = <<>>
    BY <1>6, <1>10, <1>13, <1>4 DEF ApiInv, RepliesInv
  <2>2. Len(replies) = 0 /\ Len(sApi.commands) = 0
    BY <1>6, <2>1
  <2>3. ApiInv'
    BY <1>8, <2>1, <2>2 DEF ApiInv, CommandsInv, RepliesInv, ShiftedInv
  <2>4. AnswerInv'
    <3>1. \A q \in Requests : Over(q) => Over(q)' /\ (sAt[q] = "gone" => sAt'[q] = "gone")
      BY <1>12 DEF Over
    <3>2. sAnswer' \in [Requests -> Requests \cup {None}] /\ sAnswer'[r] = r
          /\ \A q \in Requests \ {r} : sAnswer'[q] = sAnswer[q]
      BY <1>7, <1>13 DEF AnswerInv
    <3> QED BY <3>1, <3>2 DEF AnswerInv, Socket!OwnAnswer, Over
  <2> QED BY <1>2, <2>3, <2>4
<1>14. CASE c # r
  <2>1. Over(c) /\ SomebodyGone
    <3>1. Over(c)
      BY <1>6, <1>9, <1>14 DEF ApiInv, RepliesInv
    <3>2. sAt[c] = "done" => SomebodyGone
      BY <1>6 DEF ApiInv, ShiftedInv
    <3> QED BY <1>6, <3>1, <3>2 DEF Over, SomebodyGone
  <2>2. \A q \in Requests : Over(q) \/ Reading(q) => Over(q)'
    BY <1>3, <1>9, <1>12 DEF Over, Stood
  <2>3. CommandsInv'
    BY <1>4, <1>8, <2>2 DEF ApiInv, CommandsInv
  <2>4. RepliesInv'
    <3>1. ASSUME NEW i \in 1..Len(replies) PROVE Over(replies[i]) \/ Reading(replies[i])
      <4>1. i + 1 \in 1..Len(sApi.replies)
        BY <1>4, <1>6
      <4> QED BY <1>6, <4>1 DEF ApiInv, RepliesInv
    <3>2. \A i \in 1..Len(replies) : replies[i] \in Requests
      BY <1>6
    <3> QED BY <1>8, <2>2, <3>1, <3>2 DEF RepliesInv, Over
  <2>5. ApiInv'
    BY <1>8, <1>11, <2>1, <2>3, <2>4 DEF ApiInv, ShiftedInv
  <2>6. AnswerInv'
    <3>1. \A q \in Requests : Over(q) => Over(q)' /\ (sAt[q] = "gone" => sAt'[q] = "gone")
      BY <1>12 DEF Over
    <3>2. sAnswer' \in [Requests -> Requests \cup {None}] /\ sAnswer'[r] = c
          /\ \A q \in Requests \ {r} : sAnswer'[q] = sAnswer[q]
      BY <1>6, <1>7 DEF AnswerInv
    <3>3. Over(c)' /\ \E q \in Requests : sAt'[q] = "gone"
      BY <1>6, <1>11, <2>1, <3>1 DEF SomebodyGone
    <3> QED BY <3>1, <3>2, <3>3 DEF AnswerInv, Socket!OwnAnswer, Over
  <2> QED BY <1>2, <2>5, <2>6
<1> QED BY <1>13, <1>14

LEMMA RequestKeeps ==
  ASSUME SocketInv, NEW r \in Requests, Socket!Break(r)
  PROVE  SocketInv'
<1>0. /\ LockInv /\ ApiInv /\ AnswerInv /\ ListenInv
      /\ sApi \in [link : {"none", "open", "dead"}, commands : Seq(Requests),
                   replies : Seq(Requests)]
  BY DEF SocketInv, ApiInv
<1>1. ListenInv'
  BY DEF SocketInv, ListenInv, Socket!ListensSubscribed, Socket!Break, Socket!BreakPlayback,
     Socket!Ensure, Socket!Connects, Socket!ConnectFails, Socket!ReplyRead, Socket!ReadFails,
     Socket!Closed, Socket!TimesOut, Socket!loopVars
<1>2. ASSUME NEW where, Socket!Stands(r, where), where \in SocketPlaces, ~Over(r)
      PROVE  \A q \in Requests : Over(q) => sAt'[q] = sAt[q]
  BY <1>0, <1>2, StandsStood DEF Stood
<1>3. CASE Socket!BreakPlayback(r)
  <2>1. /\ Socket!Stands(r, "waiting") /\ UNCHANGED <<sLock, sApi, sAnswer>>
        /\ ~Over(r) /\ ~Reading(r) /\ "waiting" \in SocketPlaces \ {"done"}
        /\ "waiting" \notin Socket!Holding /\ sAt[r] \notin Socket!Holding
    BY <1>3 DEF Socket!BreakPlayback, Over, Reading, SocketPlaces, Socket!Holding
  <2>2. LockInv'
    BY <1>0, <2>1, LockKept
  <2>3. ApiInv'
    BY <1>0, <2>1, ApiOfOthers
  <2>4. AnswerInv'
    BY <1>0, <1>2, <2>1, AnswersStand
  <2> QED BY <1>1, <2>2, <2>3, <2>4 DEF SocketInv
<1>4. CASE Socket!Ensure(r)
  <2>1. sAt[r] = "waiting" /\ sLock = None /\ sLock' = r /\ UNCHANGED sAnswer /\ ~Over(r) /\ ~Reading(r)
    BY <1>4 DEF Socket!Ensure, Over, Reading
  <2>2. CASE Socket!Stands(r, "connecting") /\ UNCHANGED sApi
    <3>1. "connecting" \in Socket!Holding /\ "connecting" \in SocketPlaces \ {"done"}
      BY DEF SocketPlaces, Socket!Holding
    <3>2. LockInv'
      BY <1>0, <2>1, <2>2, <3>1, LockTaken
    <3>3. ApiInv'
      BY <1>0, <2>1, <2>2, <3>1, ApiOfOthers
    <3>4. AnswerInv'
      BY <1>0, <1>2, <2>1, <2>2, <3>1, AnswersStand
    <3> QED BY <1>1, <3>2, <3>3, <3>4 DEF SocketInv
  <2>3. CASE Socket!Stands(r, "reading") /\ sApi' = Socket!Sent(sApi, r)
    <3>1. "reading" \in Socket!Holding /\ "reading" \in SocketPlaces
      BY DEF SocketPlaces, Socket!Holding
    <3>2. LockInv'
      BY <1>0, <2>1, <2>3, <3>1, LockTaken
    <3>3. ApiInv'
      <4>1. /\ \A i \in 1..Len(sApi.commands) :
                 Over(sApi.commands[i]) /\ (sAt[sApi.commands[i]] = "done" => SomebodyGone)
            /\ \A i \in 1..Len(sApi.replies) :
                 Over(sApi.replies[i]) /\ (sAt[sApi.replies[i]] = "done" => SomebodyGone)
            /\ sApi.link # "open" => sApi.commands = <<>>
        BY <1>0, <2>1, FreeIsOver DEF ApiInv, ShiftedInv
      <4> QED BY <1>0, <2>1, <2>3, <4>1, ApiSent
    <3>4. AnswerInv'
      BY <1>0, <1>2, <2>1, <2>3, <3>1, AnswersStand
    <3> QED BY <1>1, <3>2, <3>3, <3>4 DEF SocketInv
  <2> QED BY <1>4, <2>2, <2>3 DEF Socket!Ensure
<1>5. CASE Socket!Connects(r)
  <2>1. PICK where \in {"reading", "rereading"} : Socket!Stands(r, where)
    BY <1>5 DEF Socket!Connects
  <2>2. /\ where \in Socket!Holding /\ where \in SocketPlaces
        /\ sAt[r] \in Socket!Holding /\ ~Over(r)
        /\ sApi' = Socket!Sent(Socket!Fresh, r) /\ UNCHANGED <<sLock, sAnswer>>
    BY <1>5, <2>1 DEF Socket!Connects, SocketPlaces, Socket!Holding, Over
  <2>3. LockInv'
    BY <1>0, <2>1, <2>2, LockKept
  <2>4. ApiInv'
    <3>1. PICK fresh : fresh = Socket!Fresh
      OBVIOUS
    <3>2. fresh = [link |-> "open", commands |-> <<>>, replies |-> <<>>]
      BY <3>1 DEF Socket!NoApi, Socket!Fresh
    <3>3. /\ fresh \in [link : {"none", "open", "dead"}, commands : Seq(Requests),
                       replies : Seq(Requests)]
          /\ fresh.link = "open" /\ Len(fresh.commands) = 0 /\ Len(fresh.replies) = 0
      BY <3>2
    <3>4. 1..Len(fresh.commands) = {} /\ 1..Len(fresh.replies) = {}
      BY <3>3
    <3>5. sApi' = Socket!Sent(fresh, r)
      BY <2>2, <3>1
    <3> QED BY <1>0, <2>1, <2>2, <3>3, <3>4, <3>5, ApiSent
  <2>5. AnswerInv'
    BY <1>0, <1>2, <2>1, <2>2, AnswersStand
  <2> QED BY <1>1, <2>3, <2>4, <2>5 DEF SocketInv
<1>6. CASE Socket!ConnectFails(r)
  <2>1. /\ Socket!Release(r, "failed") /\ Socket!Stands(r, "failed")
        /\ UNCHANGED <<sApi, sAnswer>> /\ ~Over(r) /\ ~Reading(r)
        /\ "failed" \in SocketPlaces \ Socket!Holding
    BY <1>6 DEF Socket!ConnectFails, Socket!Release, Over, Reading, SocketPlaces, Socket!Holding
  <2>2. LockInv'
    BY <1>0, <2>1, LockReleased
  <2>3. ApiInv'
    BY <1>0, <2>1, ApiOfOthers
  <2>4. AnswerInv'
    BY <1>0, <1>2, <2>1, AnswersStand
  <2> QED BY <1>1, <2>2, <2>3, <2>4 DEF SocketInv
<1>7. CASE Socket!ReplyRead(r)
  BY <1>0, <1>1, <1>7, ReplyKeeps DEF SocketInv
<1>8. CASE Socket!ReadFails(r)
  <2>1. sApi.link # "open" /\ sApi.replies = <<>> /\ sApi.commands = <<>> /\ ~Over(r)
        /\ UNCHANGED sAnswer /\ sAt[r] \in Socket!Holding
    BY <1>0, <1>8 DEF Socket!ReadFails, ApiInv, Over, Socket!Holding
  <2>2. CASE sAt[r] = "reading"
    <3>1. /\ Socket!Stands(r, "closing") /\ sApi' = Socket!NoApi /\ UNCHANGED sLock
          /\ "closing" \in SocketPlaces /\ "closing" \in Socket!Holding
      BY <1>8, <2>2 DEF Socket!ReadFails, SocketPlaces, Socket!Holding
    <3>2. LockInv'
      BY <1>0, <2>1, <3>1, LockKept
    <3>3. ApiInv'
      BY <3>1, ApiCleared
    <3>4. AnswerInv'
      BY <1>0, <1>2, <2>1, <3>1, AnswersStand
    <3> QED BY <1>1, <3>2, <3>3, <3>4 DEF SocketInv
  <2>3. CASE sAt[r] # "reading"
    <3>1. /\ Socket!Release(r, "failed") /\ Socket!Stands(r, "failed") /\ UNCHANGED sApi
          /\ "failed" \in SocketPlaces \ Socket!Holding
      BY <1>8, <2>3 DEF Socket!ReadFails, Socket!Release, SocketPlaces, Socket!Holding
    <3>2. LockInv'
      BY <1>0, <3>1, LockReleased
    <3>3. ApiInv'
      BY <1>0, <2>1, <3>1, ApiOfOthers
    <3>4. AnswerInv'
      BY <1>0, <1>2, <2>1, <3>1, AnswersStand
    <3> QED BY <1>1, <3>2, <3>3, <3>4 DEF SocketInv
  <2> QED BY <2>2, <2>3
<1>9. CASE Socket!Closed(r)
  <2>1. /\ Socket!Stands(r, "reconnecting") /\ UNCHANGED <<sLock, sApi, sAnswer>>
        /\ ~Over(r) /\ ~Reading(r) /\ "reconnecting" \in SocketPlaces \ {"done"}
        /\ "reconnecting" \in Socket!Holding /\ sAt[r] \in Socket!Holding
    BY <1>9 DEF Socket!Closed, Over, Reading, SocketPlaces, Socket!Holding
  <2>2. LockInv'
    BY <1>0, <2>1, LockKept
  <2>3. ApiInv'
    BY <1>0, <2>1, ApiOfOthers
  <2>4. AnswerInv'
    BY <1>0, <1>2, <2>1, AnswersStand
  <2> QED BY <1>1, <2>2, <2>3, <2>4 DEF SocketInv
<1>10. CASE Socket!TimesOut(r)
  <2>1. /\ Socket!Release(r, "gone") /\ Socket!Stands(r, "gone")
        /\ UNCHANGED <<sApi, sAnswer>> /\ ~Over(r)
        /\ "gone" \in SocketPlaces \ Socket!Holding
    BY <1>10 DEF Socket!TimesOut, Socket!Release, Over, SocketPlaces, Socket!Holding
  <2>2. LockInv'
    BY <1>0, <2>1, LockReleased
  <2>3. ApiInv'
    BY <1>0, <2>1, ApiOfOthers
  <2>4. AnswerInv'
    BY <1>0, <1>2, <2>1, AnswersStand
  <2> QED BY <1>1, <2>2, <2>3, <2>4 DEF SocketInv
<1> QED BY <1>3, <1>4, <1>5, <1>6, <1>7, <1>8, <1>9, <1>10 DEF Socket!Break

\* FreeSWITCH executes a command: what was its own last stays the last.
LEMMA ExecutesKeeps ==
  ASSUME SocketInv, Socket!Executes
  PROVE  SocketInv'
<1>1. /\ sApi \in [link : {"none", "open", "dead"}, commands : Seq(Requests),
                   replies : Seq(Requests)]
      /\ LockInv /\ AnswerInv /\ ListenInv /\ CommandsInv /\ RepliesInv /\ ShiftedInv
  BY DEF SocketInv, ApiInv
<1>2. PICK c, commands, replies :
        c = Head(sApi.commands) /\ commands = Tail(sApi.commands)
        /\ replies = Append(sApi.replies, c)
  OBVIOUS
<1>3. /\ sApi.link = "open" /\ sApi.commands # <<>>
      /\ sApi' = [sApi EXCEPT !.commands = commands, !.replies = replies]
      /\ UNCHANGED <<sAt, sLock, sAnswer, sEvents, sLoop>>
  BY <1>2 DEF Socket!Executes, Socket!loopVars
<1>4. /\ sApi.commands \in Seq(Requests) /\ sApi.replies \in Seq(Requests)
      /\ Len(sApi.commands) \in Nat \ {0} /\ Len(sApi.replies) \in Nat
  BY <1>1, <1>3
<1>5. /\ c \in Requests /\ c = sApi.commands[1]
      /\ commands \in Seq(Requests) /\ Len(commands) = Len(sApi.commands) - 1
      /\ \A i \in 1..Len(commands) : commands[i] = sApi.commands[i + 1]
  BY <1>2, <1>3, <1>4
<1>6. /\ replies \in Seq(Requests) /\ Len(replies) = Len(sApi.replies) + 1
      /\ replies[Len(replies)] = c
      /\ \A i \in 1..Len(sApi.replies) : replies[i] = sApi.replies[i]
  BY <1>2, <1>4, <1>5
<1>7. /\ sApi' \in [link : {"none", "open", "dead"}, commands : Seq(Requests),
                   replies : Seq(Requests)]
      /\ sApi'.link = "open" /\ sApi'.commands = commands /\ sApi'.replies = replies
  BY <1>1, <1>3, <1>5, <1>6
<1>8. CommandsInv'
  <2>1. ASSUME NEW i \in 1..Len(commands) PROVE
        Over(commands[i]) \/ (i = Len(commands) /\ Reading(commands[i]))
    <3>1. i + 1 \in 1..Len(sApi.commands) /\ (i + 1 = Len(sApi.commands) <=> i = Len(commands))
      BY <1>4, <1>5
    <3> QED BY <1>1, <1>5, <3>1 DEF CommandsInv
  <2> QED BY <1>3, <1>7, <2>1 DEF CommandsInv, Over, Reading
<1>9. RepliesInv'
  <2>1. ASSUME NEW i \in 1..Len(replies) PROVE
        Over(replies[i]) \/ (i = Len(replies) /\ commands = <<>> /\ Reading(replies[i]))
    <3>1. CASE i = Len(replies)
      <4>1. 1 \in 1..Len(sApi.commands)
        BY <1>4
      <4>2. Over(c) \/ (Len(sApi.commands) = 1 /\ Reading(c))
        BY <1>1, <1>5, <4>1 DEF CommandsInv
      <4>3. Len(sApi.commands) = 1 => commands = <<>>
        BY <1>5
      <4> QED BY <1>6, <3>1, <4>2, <4>3
    <3>2. CASE i # Len(replies)
      <4>1. i \in 1..Len(sApi.replies)
        BY <1>4, <1>6, <3>2
      <4> QED BY <1>1, <1>3, <1>6, <4>1 DEF RepliesInv
    <3> QED BY <3>1, <3>2
  <2> QED BY <1>3, <1>7, <2>1 DEF RepliesInv, Over, Reading
<1>10. ShiftedInv'
  <2>1. ASSUME NEW i \in 1..Len(commands), sAt[commands[i]] = "done" PROVE SomebodyGone
    <3>1. i + 1 \in 1..Len(sApi.commands)
      BY <1>4, <1>5
    <3> QED BY <1>1, <1>5, <2>1, <3>1 DEF ShiftedInv
  <2>2. ASSUME NEW i \in 1..Len(replies), sAt[replies[i]] = "done" PROVE SomebodyGone
    <3>1. CASE i = Len(replies)
      <4>1. 1 \in 1..Len(sApi.commands)
        BY <1>4
      <4> QED BY <1>1, <1>5, <1>6, <2>2, <3>1, <4>1 DEF ShiftedInv
    <3>2. CASE i # Len(replies)
      <4>1. i \in 1..Len(sApi.replies)
        BY <1>4, <1>6, <3>2
      <4> QED BY <1>1, <1>6, <2>2, <4>1 DEF ShiftedInv
    <3> QED BY <3>1, <3>2
  <2> QED BY <1>3, <1>7, <2>1, <2>2 DEF ShiftedInv, SomebodyGone
<1>11. LockInv' /\ AnswerInv' /\ ListenInv'
  BY <1>1, <1>3 DEF LockInv, AnswerInv, ListenInv, Socket!OwnAnswer, Socket!ListensSubscribed
<1> QED BY <1>7, <1>8, <1>9, <1>10, <1>11 DEF SocketInv, ApiInv

LEMMA LoopKeeps ==
  ASSUME SocketInv, Socket!ApiDies \/ Socket!EventLoop \/ UNCHANGED Socket!vars
  PROVE  SocketInv'
<1>0. LockInv /\ ApiInv /\ AnswerInv /\ ListenInv
  BY DEF SocketInv
<1>1. LockInv' /\ AnswerInv'
  <2>1. UNCHANGED <<sAt, sLock, sAnswer>>
    BY DEF Socket!ApiDies, Socket!EventLoop, Socket!Start, Socket!Stop, Socket!EventConnects,
       Socket!Subscribes, Socket!LoopFails, Socket!EventsDie, Socket!vars
  <2> QED BY <1>0, <2>1 DEF LockInv, AnswerInv, Socket!OwnAnswer
<1>2. ListenInv'
  <2>0. /\ sEvents \in [alive : BOOLEAN, subscribed : BOOLEAN]
        /\ sLoop = "reading" => sEvents.subscribed
    BY <1>0 DEF ListenInv, Socket!ListensSubscribed
  <2>1. CASE Socket!Start \/ Socket!EventConnects
    <3>1. PICK flag \in BOOLEAN : sEvents' = [alive |-> TRUE, subscribed |-> flag]
                                /\ (sLoop' = "reading" => flag)
      BY <2>1 DEF Socket!Start, Socket!EventConnects
    <3> QED BY <3>1 DEF ListenInv, Socket!ListensSubscribed
  <2>2. CASE Socket!Stop \/ Socket!LoopFails
    <3>1. sEvents' = [alive |-> FALSE, subscribed |-> FALSE] /\ sLoop' # "reading"
      BY <2>2 DEF Socket!Stop, Socket!LoopFails, Socket!NoEvents
    <3> QED BY <3>1 DEF ListenInv, Socket!ListensSubscribed
  <2>3. CASE Socket!Subscribes
    <3>1. sEvents' = [sEvents EXCEPT !.subscribed = TRUE]
      BY <2>3 DEF Socket!Subscribes
    <3> QED BY <2>0, <3>1 DEF ListenInv, Socket!ListensSubscribed
  <2>4. CASE Socket!EventsDie
    <3>1. sEvents' = [sEvents EXCEPT !.alive = FALSE] /\ sLoop' = sLoop
      BY <2>4 DEF Socket!EventsDie
    <3> QED BY <2>0, <3>1 DEF ListenInv, Socket!ListensSubscribed
  <2>5. CASE UNCHANGED <<sEvents, sLoop>>
    BY <2>0, <2>5 DEF ListenInv, Socket!ListensSubscribed
  <2> QED BY <2>1, <2>2, <2>3, <2>4, <2>5 DEF Socket!ApiDies, Socket!EventLoop, Socket!vars,
       Socket!loopVars
<1>3. ApiInv'
  <2>1. CASE Socket!ApiDies
    <3>1. /\ sApi' = [sApi EXCEPT !.link = "dead", !.commands = <<>>] /\ UNCHANGED sAt
      BY <2>1 DEF Socket!ApiDies
    <3>2. <<>> \in Seq(Requests) /\ sApi \in [link : {"none", "open", "dead"},
                commands : Seq(Requests), replies : Seq(Requests)]
      BY <1>0 DEF ApiInv
    <3>3. /\ sApi' \in [link : {"none", "open", "dead"}, commands : Seq(Requests),
                       replies : Seq(Requests)]
          /\ sApi'.commands = <<>> /\ sApi'.replies = sApi.replies
          /\ Len(sApi'.commands) = 0
      BY <3>1, <3>2
    <3>4. CommandsInv' /\ RepliesInv' /\ ShiftedInv'
      BY <1>0, <3>1, <3>3 DEF ApiInv, CommandsInv, RepliesInv, ShiftedInv, SomebodyGone, Over, Reading
    <3> QED BY <3>3, <3>4 DEF ApiInv
  <2>2. CASE Socket!Start \/ Socket!Stop
    BY <2>2, ApiCleared DEF Socket!Start, Socket!Stop
  <2>3. CASE UNCHANGED <<sAt, sApi>>
    BY <1>0, <2>3 DEF ApiInv, CommandsInv, RepliesInv, ShiftedInv, SomebodyGone, Over, Reading
  <2> QED BY <2>1, <2>2, <2>3 DEF Socket!EventLoop, Socket!EventConnects,
       Socket!Subscribes, Socket!LoopFails, Socket!EventsDie, Socket!vars
<1> QED BY <1>1, <1>2, <1>3 DEF SocketInv

\* What a break is told is the answer to its own command as long as nobody
\* gives up, and never one that somebody still waits for; the event loop only
\* listens on a connection that was told to send events.
THEOREM SocketSafe == Spec => []EventSocketSafe
<1>1. Init => SocketInv
  <2> SUFFICES ASSUME Init PROVE SocketInv
    OBVIOUS
  <2>1. Socket!Init
    BY PartsInit
  <2>2. LockInv
    BY <2>1, SocketAssumption DEF Socket!Init, LockInv, SocketPlaces, Socket!Holding
  <2>3. ApiInv
    <3>1. sApi = [link |-> "none", commands |-> <<>>, replies |-> <<>>]
      BY <2>1 DEF Socket!Init, Socket!NoApi
    <3>2. /\ sApi \in [link : {"none", "open", "dead"}, commands : Seq(Requests),
                       replies : Seq(Requests)]
          /\ Len(sApi.commands) = 0 /\ Len(sApi.replies) = 0 /\ sApi.commands = <<>>
      BY <3>1
    <3> QED BY <3>2 DEF ApiInv, CommandsInv, RepliesInv, ShiftedInv
  <2>4. AnswerInv /\ ListenInv
    BY <2>1 DEF Socket!Init, AnswerInv, ListenInv, Socket!OwnAnswer, Socket!ListensSubscribed,
       Socket!NoEvents
  <2> QED BY <2>2, <2>3, <2>4 DEF SocketInv
<1>2. SocketInv /\ [Next]_vars => SocketInv'
  <2> SUFFICES ASSUME SocketInv, [Next]_vars PROVE SocketInv'
    OBVIOUS
  <2>1. [Socket!Next]_(Socket!vars)
    BY PartsStep
  <2> QED BY <2>1, RequestKeeps, ExecutesKeeps, LoopKeeps DEF Socket!Next
<1>3. SocketInv => EventSocketSafe
  BY DEF SocketInv, AnswerInv, ListenInv, EventSocketSafe, Socket!EventSocketSafe
<1> QED BY <1>1, <1>2, <1>3, PTL DEF Spec

-----------------------------------------------------------------------------
(* VoiceActivity: what is cut off an utterance.                            *)

\* The frames end with so many that are silent, and no more.
EndsQuiet(frames, n) ==
  /\ n \in 0..Len(frames)
  /\ \A i \in 1..n : ~frames[Len(frames) - i + 1]
  /\ n < Len(frames) => frames[Len(frames) - n]

VoiceInv ==
  /\ vStart \in Nat /\ vSilence \in Nat /\ vSpeech \in Nat
  /\ vBuffer \in Seq(BOOLEAN) /\ vBefore \in Seq(BOOLEAN)
  /\ \A i \in 1..Len(vBefore) : i > Len(vBefore) - vStart => vBefore[i]
  /\ vSpeech <= Voice!Voiced(vBuffer)
  /\ EndsQuiet(vBuffer, vSilence)
  /\ ~vActive => vBuffer = <<>>

\* The voiced frames as the provers read them.
VoicedAt(frames) == {i \in 1..Len(frames) : frames[i] = TRUE}

LEMMA VoicedFrames ==
  ASSUME NEW frames \in Seq(BOOLEAN)
  PROVE  /\ DOMAIN frames = 1..Len(frames) /\ Len(frames) \in Nat
         /\ IsFiniteSet(VoicedAt(frames)) /\ Cardinality(VoicedAt(frames)) \in Nat
         /\ Voice!Voiced(frames) = Cardinality(VoicedAt(frames))
<1>1. DOMAIN frames = 1..Len(frames) /\ Len(frames) \in Nat
  BY LenProperties
<1>2. IsFiniteSet(1..Len(frames)) /\ VoicedAt(frames) \subseteq 1..Len(frames)
  BY <1>1, FS_Interval DEF VoicedAt
<1>3. IsFiniteSet(VoicedAt(frames))
  BY <1>2, FS_Subset
<1>4. Cardinality(VoicedAt(frames)) \in Nat
  BY <1>3, FS_CardinalityType
<1>5. {i \in DOMAIN frames : frames[i]} = VoicedAt(frames)
  <2>1. \A i \in DOMAIN frames : frames[i] <=> frames[i] = TRUE
    BY <1>1, ElementOfSeq
  <2> QED BY <1>1, <2>1 DEF VoicedAt
<1>6. \A S : Voice!Cardinality(S) = Cardinality(S)
  BY DEF Voice!Cardinality, Cardinality, Voice!IsFiniteSet, IsFiniteSet
<1> QED BY <1>1, <1>3, <1>4, <1>5, <1>6, Zenon DEF Voice!Voiced

\* The end of a sequence.
LEMMA EndingIs ==
  ASSUME NEW s \in Seq(BOOLEAN), NEW n \in Nat
  PROVE  LET e == Voice!Ending(n, s)
         IN /\ e \in Seq(BOOLEAN)
            /\ Len(e) = Voice!Least(n, Len(s))
            /\ \A i \in 1..Len(e) : e[i] = s[Len(s) - Len(e) + i]
<1>1. PICK l \in Nat, m \in Nat : l = Len(s) /\ m = Voice!Least(n, l) /\ m <= l
  BY LenProperties DEF Voice!Least
<1>2. PICK from \in Int : from = l - m + 1
  BY <1>1
<1>3. \A i \in from..l : s[i] \in BOOLEAN
  BY <1>1, <1>2, ElementOfSeq
<1>4. /\ SubSeq(s, from, l) \in Seq(BOOLEAN)
      /\ Len(SubSeq(s, from, l)) = IF from <= l THEN l - from + 1 ELSE 0
      /\ \A i \in 1..l - from + 1 : SubSeq(s, from, l)[i] = s[from + i - 1]
  BY <1>1, <1>3, SubSeqProperties
<1>5. PICK e : e = SubSeq(s, from, l)
  OBVIOUS
<1>6. e = Voice!Ending(n, s)
  BY <1>1, <1>2, <1>5 DEF Voice!Ending
<1>7. Len(e) = m /\ e \in Seq(BOOLEAN)
  <2>1. (IF from <= l THEN l - from + 1 ELSE 0) = m
    BY <1>1, <1>2
  <2> QED BY <1>4, <1>5, <2>1
<1>8. ASSUME NEW i \in 1..m PROVE e[i] = s[l - m + i]
  <2>1. i \in 1..l - from + 1 /\ from + i - 1 = l - m + i
    BY <1>1, <1>2
  <2> QED BY <1>4, <1>5, <2>1
<1> QED BY <1>1, <1>6, <1>7, <1>8

\* Only one number says how much silence there is at the end.
LEMMA QuietEndIs ==
  ASSUME NEW frames \in Seq(BOOLEAN), NEW n, EndsQuiet(frames, n)
  PROVE  Voice!QuietEnd(frames) = n
<1>1. Len(frames) \in Nat
  BY LenProperties
<1>2. ASSUME NEW a \in 0..Len(frames), NEW b \in 0..Len(frames), a < b,
             EndsQuiet(frames, a), EndsQuiet(frames, b)
      PROVE  FALSE
  <2>1. frames[Len(frames) - a]
    BY <1>1, <1>2 DEF EndsQuiet
  <2>2. a + 1 \in 1..b /\ Len(frames) - (a + 1) + 1 = Len(frames) - a
    BY <1>1, <1>2
  <2>3. ~frames[Len(frames) - (a + 1) + 1]
    BY <1>2, <2>2 DEF EndsQuiet
  <2> QED BY <2>1, <2>2, <2>3
<1>3. \A m \in 0..Len(frames) : EndsQuiet(frames, m) => m = n
  <2>1. n \in 0..Len(frames)
    BY DEF EndsQuiet
  <2> QED BY <1>1, <1>2, <2>1
<1>4. Voice!QuietEnd(frames) = CHOOSE m \in 0..Len(frames) : EndsQuiet(frames, m)
  BY DEF Voice!QuietEnd, EndsQuiet
<1>5. n \in 0..Len(frames)
  BY DEF EndsQuiet
<1> QED BY <1>3, <1>4, <1>5

\* What Turn makes of an utterance keeps the promise of CutOf.
LEMMA CutKeeps ==
  ASSUME NEW frames \in Seq(BOOLEAN), NEW quiet \in Nat, EndsQuiet(frames, quiet),
         NEW spoken \in Nat, spoken <= Voice!Voiced(frames),
         vTurn' = Voice!Turn(frames, quiet, spoken)
  PROVE  Voice!CutOf(frames)
<1>1. PICK l \in Nat : l = Len(frames) /\ DOMAIN frames = 1..l
  BY VoicedFrames
<1>2. PICK cut \in Nat : cut = IF quiet > KeepSilenceFrames THEN quiet - KeepSilenceFrames ELSE 0
  <2>1. (IF quiet > KeepSilenceFrames THEN quiet - KeepSilenceFrames ELSE 0) \in Nat
    BY VoiceAssumption
  <2> QED BY <2>1
<1>3. cut <= quiet /\ quiet <= l /\ quiet - cut <= KeepSilenceFrames
  BY <1>1, <1>2, VoiceAssumption DEF EndsQuiet
<1>4. PICK kept : kept = SubSeq(frames, 1, l - cut)
  OBVIOUS
<1>5. kept \in Seq(BOOLEAN) /\ Len(kept) = l - cut /\ \A i \in 1..l - cut : kept[i] = frames[i]
  <2>1. 1 \in Int /\ l - cut \in Nat /\ \A i \in 1..l - cut : frames[i] \in BOOLEAN
    BY <1>1, <1>3, ElementOfSeq
  <2>2. /\ kept \in Seq(BOOLEAN)
        /\ Len(kept) = IF 1 <= l - cut THEN l - cut - 1 + 1 ELSE 0
        /\ \A i \in 1..l - cut - 1 + 1 : kept[i] = frames[1 + i - 1]
    BY <1>4, <2>1, SubSeqProperties
  <2>3. (IF 1 <= l - cut THEN l - cut - 1 + 1 ELSE 0) = l - cut
    BY <2>1
  <2>4. \A i \in 1..l - cut : i \in 1..l - cut - 1 + 1 /\ 1 + i - 1 = i
    BY <2>1
  <2> QED BY <2>2, <2>3, <2>4
<1>6. Voice!Voiced(kept) = Voice!Voiced(frames)
  <2>2. ASSUME NEW i \in 1..l, i > l - cut PROVE ~frames[i]
    <3>1. l - i + 1 \in 1..quiet /\ l - (l - i + 1) + 1 = i
      BY <1>1, <1>3, <2>2
    <3> QED BY <1>1, <3>1 DEF EndsQuiet
  <2>3. \A i : i \in 1..l /\ frames[i] = TRUE <=> i \in 1..l - cut /\ kept[i] = TRUE
    <3>1. \A i \in 1..l : i \in 1..l - cut \/ i > l - cut
      BY <1>1, <1>3
    <3>2. \A i \in 1..l - cut : i \in 1..l /\ kept[i] = frames[i]
      BY <1>1, <1>3, <1>5
    <3>3. \A i \in 1..l : frames[i] = TRUE => i \in 1..l - cut
      BY <2>2, <3>1
    <3> QED BY <3>2, <3>3
  <2>4. VoicedAt(frames) = VoicedAt(kept)
    BY <1>1, <1>5, <2>3 DEF VoicedAt
  <2> QED BY <1>5, <2>4, VoicedFrames
<1>7. Voice!QuietEnd(kept) <= KeepSilenceFrames
  <2>1. PICK left \in Nat : left = quiet - cut
    BY <1>2, <1>3
  <2>2. ASSUME NEW i \in 1..left PROVE ~kept[(l - cut) - i + 1]
    <3>1. i + cut \in 1..quiet
      BY <1>1, <1>2, <1>3, <2>1
    <3>2. l - (i + cut) + 1 = (l - cut) - i + 1 /\ (l - cut) - i + 1 \in 1..l - cut
      BY <1>1, <1>2, <1>3, <2>1
    <3> QED BY <1>1, <1>5, <3>1, <3>2 DEF EndsQuiet
  <2>3. left < l - cut => kept[(l - cut) - left]
    <3>1. (l - cut) - left = l - quiet /\ (left < l - cut => quiet < l /\ l - quiet \in 1..l - cut)
      BY <1>1, <1>2, <1>3, <2>1
    <3> QED BY <1>1, <1>5, <3>1 DEF EndsQuiet
  <2>4. EndsQuiet(kept, left)
    <3>1. left \in 0..l - cut
      BY <1>1, <1>2, <1>3, <2>1
    <3> QED BY <1>5, <2>2, <2>3, <3>1 DEF EndsQuiet
  <2> QED BY <1>3, <1>5, <2>1, <2>4, QuietEndIs
<1>8. vTurn' = [frames |-> kept, speech |-> spoken]
  BY <1>1, <1>2, <1>4 DEF Voice!Turn
<1> QED BY <1>6, <1>7, <1>8 DEF Voice!CutOf

\* An utterance goes on by a frame.
LEMMA FrameAppended ==
  ASSUME VoiceInv, NEW voiced \in BOOLEAN
  PROVE  LET frames == Append(vBuffer, voiced)
             spoken == IF voiced THEN vSpeech + 1 ELSE vSpeech
             quiet  == Voice!Silence(voiced)
         IN /\ frames \in Seq(BOOLEAN) /\ spoken \in Nat /\ quiet \in Nat
            /\ spoken <= Voice!Voiced(frames)
            /\ EndsQuiet(frames, quiet)
<1>0. PICK l \in Nat : l = Len(vBuffer)
  BY LenProperties DEF VoiceInv
<1>1. PICK frames, spoken, quiet :
        /\ l = Len(vBuffer) /\ frames = Append(vBuffer, voiced)
        /\ spoken = (IF voiced THEN vSpeech + 1 ELSE vSpeech)
        /\ quiet = Voice!Silence(voiced)
  BY <1>0
<1>2. /\ frames \in Seq(BOOLEAN) /\ Len(frames) = l + 1 /\ frames[l + 1] = voiced
      /\ \A i \in 1..l : frames[i] = vBuffer[i]
  BY <1>1, AppendProperties DEF VoiceInv
<1>3. quiet = (IF voiced THEN 0 ELSE vSilence + 1) /\ vSilence \in Nat /\ vSpeech \in Nat
  BY <1>1 DEF VoiceInv, Voice!Silence
<1>4. spoken \in Nat /\ quiet \in Nat
  BY <1>1, <1>3
<1>5. EndsQuiet(frames, quiet)
  <2>1. CASE voiced
    <3>1. quiet = 0
      BY <1>3, <2>1
    <3>2. (l + 1) - 0 = l + 1 /\ 0 \in 0..l + 1
      OBVIOUS
    <3>3. frames[l + 1]
      BY <1>2, <2>1
    <3> QED BY <1>2, <3>1, <3>2, <3>3 DEF EndsQuiet
  <2>2. CASE ~voiced
    <3>1. quiet = vSilence + 1 /\ vSilence <= l
      BY <1>1, <1>3, <2>2 DEF VoiceInv, EndsQuiet
    <3>2. ASSUME NEW i \in 1..quiet PROVE ~frames[(l + 1) - i + 1]
      <4>1. CASE i = 1
        BY <1>2, <2>2, <4>1
      <4>2. CASE i # 1
        <5>1. i - 1 \in 1..vSilence /\ (l + 1) - i + 1 = l - (i - 1) + 1 /\ l - (i - 1) + 1 \in 1..l
          BY <1>3, <3>1, <4>2
        <5> QED BY <1>1, <1>2, <5>1 DEF VoiceInv, EndsQuiet
      <4> QED BY <4>1, <4>2
    <3>3. quiet < l + 1 => frames[(l + 1) - quiet]
      <4>1. (l + 1) - quiet = l - vSilence /\ (quiet < l + 1 => vSilence < l /\ l - vSilence \in 1..l)
        BY <1>3, <3>1
      <4> QED BY <1>1, <1>2, <4>1 DEF VoiceInv, EndsQuiet
    <3>4. quiet \in 0..l + 1
      BY <1>3, <3>1
    <3> QED BY <1>2, <3>2, <3>3, <3>4 DEF EndsQuiet
  <2> QED BY <2>1, <2>2
<1>6. spoken <= Voice!Voiced(frames)
  <2>1. PICK old : old = VoicedAt(vBuffer)
    OBVIOUS
  <2>2. IsFiniteSet(old) /\ Cardinality(old) \in Nat /\ vSpeech <= Cardinality(old)
    BY <2>1, VoicedFrames DEF VoiceInv
  <2>3. Voice!Voiced(frames) = Cardinality(VoicedAt(frames))
    BY <1>2, VoicedFrames
  <2>4. CASE voiced
    <3>1. VoicedAt(frames) = old \cup {l + 1} /\ l + 1 \notin old
      BY <1>1, <1>2, <2>1, <2>4 DEF VoicedAt
    <3>2. Cardinality(old \cup {l + 1}) = Cardinality(old) + 1
      BY <2>2, <3>1, FS_AddElement
    <3>3. spoken = vSpeech + 1
      BY <1>1, <2>4
    <3> QED BY <1>3, <2>2, <2>3, <3>1, <3>2, <3>3
  <2>5. CASE ~voiced
    <3>1. VoicedAt(frames) = old
      BY <1>1, <1>2, <2>1, <2>5 DEF VoicedAt
    <3> QED BY <1>1, <1>3, <2>2, <2>3, <2>5, <3>1
  <2> QED BY <2>4, <2>5
<1> QED BY <1>1, <1>2, <1>4, <1>5, <1>6

\* Speech begins: what was heard before it ends with the frames that count.
LEMMA SpeechBegins ==
  ASSUME VoiceInv, NEW voiced \in BOOLEAN
  PROVE  LET waiting == Voice!Ending(PreSpeechFrames, Append(vBefore, voiced))
             counter == IF voiced THEN vStart + 1 ELSE 0
             heard   == IF waiting = <<>> THEN <<voiced>> ELSE waiting
         IN /\ counter \in Nat /\ waiting \in Seq(BOOLEAN)
            /\ \A i \in 1..Len(waiting) : i > Len(waiting) - counter => waiting[i]
            /\ counter >= StartFrames =>
                 /\ heard \in Seq(BOOLEAN) /\ EndsQuiet(heard, 0)
                 /\ Voice!Least(counter, Len(heard)) \in Nat
                 /\ Voice!Least(counter, Len(heard)) <= Voice!Voiced(heard)
<1>0. PICK l \in Nat : l = Len(vBefore)
  BY LenProperties DEF VoiceInv
<1>1. PICK all, waiting, counter, heard :
        /\ l = Len(vBefore) /\ all = Append(vBefore, voiced)
        /\ waiting = Voice!Ending(PreSpeechFrames, all)
        /\ counter = (IF voiced THEN vStart + 1 ELSE 0)
        /\ heard = (IF waiting = <<>> THEN <<voiced>> ELSE waiting)
  BY <1>0
<1>2. /\ all \in Seq(BOOLEAN) /\ Len(all) = l + 1 /\ all[l + 1] = voiced
      /\ \A i \in 1..l : all[i] = vBefore[i]
  BY <1>1, AppendProperties DEF VoiceInv
<1>3. counter \in Nat
  BY <1>1 DEF VoiceInv
<1>4. ASSUME NEW i \in 1..l + 1, i > l + 1 - counter PROVE all[i]
  <2>1. voiced /\ counter = vStart + 1 /\ vStart \in Nat
    BY <1>1, <1>4 DEF VoiceInv
  <2>2. CASE i = l + 1
    BY <1>2, <2>1, <2>2
  <2>3. CASE i # l + 1
    <3>1. i \in 1..l /\ i > l - vStart
      BY <1>4, <2>1, <2>3
    <3> QED BY <1>1, <1>2, <3>1 DEF VoiceInv
  <2> QED BY <2>2, <2>3
<1>5. PICK n \in Nat : n = Len(waiting) /\ n <= l + 1 /\ waiting \in Seq(BOOLEAN)
                       /\ \A i \in 1..n : waiting[i] = all[l + 1 - n + i]
  <2>1. /\ waiting \in Seq(BOOLEAN) /\ Len(waiting) = Voice!Least(PreSpeechFrames, l + 1)
        /\ \A i \in 1..Len(waiting) : waiting[i] = all[l + 1 - Len(waiting) + i]
    <3>1. PICK e : e = Voice!Ending(PreSpeechFrames, all)
      OBVIOUS
    <3>2. /\ e \in Seq(BOOLEAN) /\ Len(e) = Voice!Least(PreSpeechFrames, Len(all))
          /\ \A i \in 1..Len(e) : e[i] = all[Len(all) - Len(e) + i]
      BY <1>2, <3>1, VoiceAssumption, EndingIs
    <3>3. waiting = e /\ Len(all) = l + 1
      BY <1>1, <1>2, <3>1
    <3> QED BY <3>2, <3>3
  <2>2. Voice!Least(PreSpeechFrames, l + 1) <= l + 1 /\ Len(waiting) \in Nat
    BY <2>1, VoiceAssumption, LenProperties DEF Voice!Least
  <2> QED BY <2>1, <2>2
<1>6. ASSUME NEW i \in 1..n, i > n - counter PROVE waiting[i]
  <2>1. l + 1 - n + i \in 1..l + 1 /\ l + 1 - n + i > l + 1 - counter
    BY <1>3, <1>5, <1>6
  <2> QED BY <1>4, <1>5, <2>1
<1>7. ASSUME counter >= StartFrames
      PROVE  /\ heard \in Seq(BOOLEAN) /\ EndsQuiet(heard, 0)
             /\ Voice!Least(counter, Len(heard)) \in Nat
             /\ Voice!Least(counter, Len(heard)) <= Voice!Voiced(heard)
  <2>1. counter >= 1 /\ voiced
    BY <1>1, <1>3, <1>7, VoiceAssumption
  <2>2. PICK h \in Nat : h = Len(heard) /\ h >= 1 /\ heard \in Seq(BOOLEAN)
                        /\ \A i \in 1..h : i > h - counter => heard[i]
    <3>1. CASE waiting = <<>>
      <4>0. voiced = TRUE
        BY <2>1
      <4>1. heard = <<TRUE>>
        BY <1>1, <3>1, <4>0
      <4>2. heard \in Seq(BOOLEAN) /\ Len(heard) = 1 /\ heard[1] = TRUE
        BY <4>1
      <4> QED BY <4>2
    <3>2. CASE waiting # <<>>
      <4>1. heard = waiting /\ n >= 1
        BY <1>1, <1>5, <3>2, EmptySeq
      <4> QED BY <1>5, <1>6, <4>1
    <3> QED BY <3>1, <3>2
  <2>3. heard[h]
    BY <1>3, <2>1, <2>2
  <2>4. EndsQuiet(heard, 0)
    <3>1. 0 \in 0..h /\ h - 0 = h
      BY <2>2
    <3> QED BY <2>2, <2>3, <3>1 DEF EndsQuiet
  <2>5. PICK m \in Nat : m = Voice!Least(counter, h) /\ m <= h /\ m <= counter
    BY <1>3, <2>2 DEF Voice!Least
  <2>6. h - m + 1..h \subseteq VoicedAt(heard)
    BY <1>3, <2>2, <2>5 DEF VoicedAt
  <2>7. Cardinality(h - m + 1..h) = m
    <3>1. h - m + 1 \in Int /\ h \in Int /\ (IF h - m + 1 > h THEN 0 ELSE h - (h - m + 1) + 1) = m
      BY <2>2, <2>5
    <3> QED BY <3>1, FS_Interval
  <2>8. /\ IsFiniteSet(VoicedAt(heard))
        /\ Voice!Voiced(heard) = Cardinality(VoicedAt(heard))
    BY <2>2, VoicedFrames
  <2>9. m <= Cardinality(VoicedAt(heard))
    BY <2>6, <2>7, <2>8, FS_Subset
  <2> QED BY <2>2, <2>4, <2>5, <2>8, <2>9
<1> QED BY <1>1, <1>3, <1>5, <1>6, <1>7

\* Forgetting the utterance.
LEMMA ResetKeeps ==
  ASSUME Voice!Reset
  PROVE  VoiceInv'
<1>1. vStart' = 0 /\ vSilence' = 0 /\ vSpeech' = 0 /\ vBuffer' = <<>> /\ vBefore' = <<>>
  BY DEF Voice!Reset
<1>2. <<>> \in Seq(BOOLEAN) /\ Len(<<>>) = 0 /\ Voice!Voiced(<<>>) \in Nat
  BY EmptySeq, VoicedFrames
<1>3. EndsQuiet(<<>>, 0)
  BY <1>2 DEF EndsQuiet
<1>4. Voice!Voiced(vBuffer') = Voice!Voiced(<<>>) /\ EndsQuiet(vBuffer', vSilence')
  BY <1>1, <1>3
<1> QED BY <1>1, <1>2, <1>4 DEF VoiceInv

\* Every step keeps the invariant and cuts no speech off.
LEMMA VoiceStep ==
  ASSUME VoiceInv, [Voice!Next]_(Voice!vars)
  PROVE  /\ VoiceInv'
         /\ \A voiced \in BOOLEAN :
              Voice!ActiveFrame(voiced) => Voice!CutOf(Append(vBuffer, voiced))
         /\ Voice!FinishIfActive => Voice!CutOf(vBuffer)
<1>1. ASSUME NEW voiced \in BOOLEAN, Voice!IdleFrame(voiced) PROVE VoiceInv'
  <2>1. PICK waiting, counter, heard :
          /\ waiting = Voice!Ending(PreSpeechFrames, Append(vBefore, voiced))
          /\ counter = (IF voiced THEN vStart + 1 ELSE 0)
          /\ heard = (IF waiting = <<>> THEN <<voiced>> ELSE waiting)
    OBVIOUS
  <2>2. /\ counter \in Nat /\ waiting \in Seq(BOOLEAN)
        /\ \A i \in 1..Len(waiting) : i > Len(waiting) - counter => waiting[i]
        /\ counter >= StartFrames =>
             /\ heard \in Seq(BOOLEAN) /\ EndsQuiet(heard, 0)
             /\ Voice!Least(counter, Len(heard)) \in Nat
             /\ Voice!Least(counter, Len(heard)) <= Voice!Voiced(heard)
    BY <2>1, SpeechBegins
  <2>3. CASE counter < StartFrames
    <3>1. /\ vSilence' = 0 /\ vStart' = counter /\ vBefore' = waiting
          /\ UNCHANGED <<vActive, vSpeech, vBuffer>> /\ ~vActive
      BY <1>1, <2>1, <2>3 DEF Voice!IdleFrame
    <3>2. vBuffer = <<>> /\ vBuffer' = <<>> /\ Len(<<>>) = 0
      BY <3>1, EmptySeq DEF VoiceInv
    <3>3. EndsQuiet(<<>>, 0)
      BY <3>2 DEF EndsQuiet
    <3>4. EndsQuiet(vBuffer', vSilence')
      BY <3>1, <3>2, <3>3
    <3>5. /\ vSpeech' \in Nat /\ vBuffer' \in Seq(BOOLEAN)
          /\ vSpeech' <= Voice!Voiced(vBuffer')
      BY <3>1 DEF VoiceInv
    <3>6. \A i \in 1..Len(vBefore') : i > Len(vBefore') - vStart' => vBefore'[i]
      BY <2>2, <3>1
    <3> QED BY <2>2, <3>1, <3>2, <3>4, <3>5, <3>6 DEF VoiceInv
  <2>4. CASE ~(counter < StartFrames)
    <3>1. /\ vSilence' = 0 /\ vStart' = counter /\ vBefore' = <<>> /\ vActive' = TRUE
          /\ vBuffer' = heard /\ vSpeech' = Voice!Least(counter, Len(heard))
      BY <1>1, <2>1, <2>4 DEF Voice!IdleFrame
    <3>2. counter >= StartFrames
      BY <2>2, <2>4, VoiceAssumption
    <3>3. <<>> \in Seq(BOOLEAN) /\ Len(<<>>) = 0
      BY EmptySeq
    <3>4. \A i \in 1..Len(vBefore') : i > Len(vBefore') - vStart' => vBefore'[i]
      BY <3>1, <3>3
    <3>5. EndsQuiet(vBuffer', vSilence') /\ vSpeech' <= Voice!Voiced(vBuffer')
      BY <2>2, <3>1, <3>2
    <3> QED BY <2>2, <3>1, <3>2, <3>3, <3>4, <3>5 DEF VoiceInv
  <2> QED BY <2>3, <2>4
<1>2. ASSUME NEW voiced \in BOOLEAN, Voice!ActiveFrame(voiced)
      PROVE  VoiceInv' /\ Voice!CutOf(Append(vBuffer, voiced))
  <2>1. PICK frames, spoken, quiet :
          /\ frames = Append(vBuffer, voiced)
          /\ spoken = (IF voiced THEN vSpeech + 1 ELSE vSpeech)
          /\ quiet = Voice!Silence(voiced)
    OBVIOUS
  <2>2. /\ frames \in Seq(BOOLEAN) /\ spoken \in Nat /\ quiet \in Nat
        /\ spoken <= Voice!Voiced(frames)
        /\ EndsQuiet(frames, quiet)
    BY <2>1, FrameAppended
  <2>3. \/ vTurn' = Voice!Turn(frames, quiet, spoken) /\ Voice!Reset
        \/ /\ vTurn' = None
           /\ vBuffer' = frames /\ vSpeech' = spoken /\ vSilence' = quiet
           /\ UNCHANGED <<vActive, vStart, vBefore>> /\ vActive
    BY <1>2, <2>1 DEF Voice!ActiveFrame
  <2>4. CASE vTurn' = Voice!Turn(frames, quiet, spoken) /\ Voice!Reset
    BY <2>1, <2>2, <2>4, ResetKeeps, CutKeeps
  <2>5. CASE /\ vTurn' = None
             /\ vBuffer' = frames /\ vSpeech' = spoken /\ vSilence' = quiet
             /\ UNCHANGED <<vActive, vStart, vBefore>> /\ vActive
    <3>1. EndsQuiet(vBuffer', vSilence') /\ vSpeech' <= Voice!Voiced(vBuffer')
      BY <2>2, <2>5
    <3>2. /\ vStart' \in Nat /\ vBefore' \in Seq(BOOLEAN)
          /\ \A i \in 1..Len(vBefore') : i > Len(vBefore') - vStart' => vBefore'[i]
      BY <2>5 DEF VoiceInv
    <3>3. VoiceInv'
      BY <2>2, <2>5, <3>1, <3>2 DEF VoiceInv
    <3> QED BY <2>5, <3>3 DEF Voice!CutOf
  <2> QED BY <2>3, <2>4, <2>5
<1>3. ASSUME Voice!FinishIfActive
      PROVE  VoiceInv' /\ Voice!CutOf(vBuffer)
  <2>1. VoiceInv'
    BY <1>3, ResetKeeps DEF Voice!FinishIfActive
  <2>2. CASE vTurn' = None
    BY <2>1, <2>2 DEF Voice!CutOf
  <2>3. CASE vTurn' = Voice!Turn(vBuffer, vSilence, vSpeech)
    BY <2>1, <2>3, CutKeeps DEF VoiceInv
  <2> QED BY <1>3, <2>1, <2>2, <2>3 DEF Voice!FinishIfActive
<1>4. ASSUME UNCHANGED Voice!vars PROVE VoiceInv'
  <2>1. UNCHANGED <<vActive, vStart, vSilence, vSpeech, vBuffer, vBefore>>
    BY <1>4 DEF Voice!vars
  <2>2. EndsQuiet(vBuffer', vSilence') /\ vSpeech' <= Voice!Voiced(vBuffer')
    BY <2>1 DEF VoiceInv
  <2>3. /\ vStart' \in Nat /\ vSilence' \in Nat /\ vSpeech' \in Nat
        /\ vBuffer' \in Seq(BOOLEAN) /\ vBefore' \in Seq(BOOLEAN)
        /\ \A i \in 1..Len(vBefore') : i > Len(vBefore') - vStart' => vBefore'[i]
    BY <2>1 DEF VoiceInv
  <2>4. ~vActive' => vBuffer' = <<>>
    BY <2>1 DEF VoiceInv
  <2> QED BY <2>2, <2>3, <2>4 DEF VoiceInv
<1>5. VoiceInv'
  BY <1>1, <1>2, <1>3, <1>4 DEF Voice!Next
<1> QED BY <1>2, <1>3, <1>5

\* However an utterance ends, cutting its silence off loses no speech.
THEOREM NoSpeechLost == Spec => SpeechIsKept
<1>1. Voice!Init => VoiceInv
  <2> SUFFICES ASSUME Voice!Init PROVE VoiceInv
    OBVIOUS
  <2>1. /\ vStart = 0 /\ vSilence = 0 /\ vSpeech = 0 /\ vBuffer = <<>> /\ vBefore = <<>>
    BY DEF Voice!Init
  <2>2. <<>> \in Seq(BOOLEAN) /\ Len(<<>>) = 0 /\ Voice!Voiced(<<>>) \in Nat
    BY EmptySeq, VoicedFrames
  <2>3. EndsQuiet(<<>>, 0)
    BY <2>2 DEF EndsQuiet
  <2> QED BY <2>1, <2>2, <2>3 DEF VoiceInv
<1>2. VoiceInv /\ [Next]_vars => VoiceInv'
  BY PartsStep, VoiceStep
<1>3. VoiceInv /\ [Next]_vars =>
        [/\ \A voiced \in BOOLEAN :
              Voice!ActiveFrame(voiced) => Voice!CutOf(Append(vBuffer, voiced))
         /\ Voice!FinishIfActive => Voice!CutOf(vBuffer)]_(Voice!vars)
  BY PartsStep, VoiceStep
<1> QED BY PartsInit, <1>1, <1>2, <1>3, PTL DEF Spec, SpeechIsKept, Voice!SpeechIsKept

-----------------------------------------------------------------------------
(* DebugEvents: which events a browser is given.                           *)

\* A set of numbers that is not empty and has a bound has a greatest one.
LEMMA GreatestExists ==
  ASSUME NEW n \in Nat, NEW S \in SUBSET (1..n), S # {}
  PROVE  \E m \in S : \A i \in S : m >= i
<1> DEFINE T == {n - i : i \in S}
<1>1. T \subseteq Nat /\ T # {}
  <2>1. \A i \in S : n - i \in Nat
    OBVIOUS
  <2>2. PICK i : i \in S
    OBVIOUS
  <2>3. n - i \in T
    BY <2>2
  <2> QED BY <2>1, <2>3
<1>2. PICK R : R = OpToRel(<, Nat)
  OBVIOUS
<1>3. \A x, y \in Nat : x < y => <<x, y>> \in R
  BY <1>2 DEF OpToRel
<1>4. PICK x \in T : \A y \in T : ~(<<y, x>> \in R)
  BY <1>1, <1>2, NatLessThanWellFounded, WFMin
<1>5. PICK m \in S : x = n - m
  BY <1>4
<1>6. \A i \in S : n - i \in T
  OBVIOUS
<1> HIDE DEF T
<1>7. ASSUME NEW i \in S PROVE n - i >= x
  <2>1. PICK y \in T : y = n - i
    BY <1>6
  <2>2. y \in Nat /\ x \in Nat
    BY <1>1, <1>4, <2>1
  <2>3. ~(<<y, x>> \in R)
    BY <1>4, <2>1
  <2>4. ~(y < x)
    BY <1>3, <2>2, <2>3
  <2> QED BY <2>1, <2>2, <2>4
<1>8. ASSUME NEW i \in S PROVE m >= i
  <2>1. n - i >= n - m /\ i \in 1..n /\ m \in 1..n
    BY <1>5, <1>7
  <2> QED BY <2>1
<1> QED BY <1>5, <1>8

LEMMA GreatestIs ==
  ASSUME NEW n \in Nat, NEW S \in SUBSET (1..n), S # {}
  PROVE  DebugLog!Max(S) \in S /\ \A i \in S : DebugLog!Max(S) >= i
<1>1. \E m \in S : \A i \in S : m >= i
  BY GreatestExists
<1> QED BY <1>1 DEF DebugLog!Max

\* How many posts are no longer kept.
Dropped == Len(ePosted) - Len(eEvents)

\* The store holds the newest posts in their order, numbered as they came; a
\* browser has asked for all that it has seen, and will not be given again
\* what it has asked for.
EventsInv ==
  /\ ePosted \in Seq(Rooms) /\ eSequence = Len(ePosted)
  /\ eEvents \in Seq([sequence : Nat, room : Rooms, post : Nat])
  /\ Len(eEvents) = IF Len(ePosted) > MaxEvents THEN MaxEvents ELSE Len(ePosted)
  /\ \A i \in 1..Len(eEvents) :
       eEvents[i] = [sequence |-> Dropped + i, room |-> ePosted[Dropped + i],
                     post |-> Dropped + i]
  /\ eAfter \in [Pollers -> Nat] /\ ePolledAt \in [Pollers -> Nat]
  /\ eSeen \in [Pollers -> SUBSET Nat]
  /\ \A p \in Pollers :
       /\ eAfter[p] <= ePolledAt[p] /\ ePolledAt[p] <= Len(ePosted)
       /\ eSeen[p] \subseteq 1..ePolledAt[p]
       /\ \A i \in 1..Len(eEvents) :
            Dropped + i > eAfter[p] /\ ePosted[Dropped + i] = RoomOf[p] =>
              Dropped + i > ePolledAt[p]

\* The kept events that a browser would be given without a limit.
Matching(p) ==
  {i \in 1..Len(eEvents) : Dropped + i > eAfter[p] /\ ePosted[Dropped + i] = RoomOf[p]}

LEMMA EventsCounted ==
  ASSUME EventsInv
  PROVE  /\ Len(ePosted) \in Nat /\ Len(eEvents) \in Nat /\ Dropped \in Nat
         /\ DOMAIN eEvents = 1..Len(eEvents) /\ DOMAIN ePosted = 1..Len(ePosted)
         /\ Dropped + Len(eEvents) = Len(ePosted)
<1>1. PICK a, b : a = Len(ePosted) /\ b = Len(eEvents)
  OBVIOUS
<1>2. /\ a \in Nat /\ b \in Nat /\ DOMAIN eEvents = 1..b /\ DOMAIN ePosted = 1..a
      /\ b = IF a > MaxEvents THEN MaxEvents ELSE a
  BY <1>1, LenProperties DEF EventsInv
<1>3. a - b \in Nat /\ (a - b) + b = a
  BY <1>2, EventsAssumption
<1> QED BY <1>1, <1>2, <1>3 DEF Dropped

\* What is listed: the greatest that matches, and all if they are not too many.
LEMMA ListedAre ==
  ASSUME EventsInv, NEW p \in Pollers
  PROVE  LET listed == DebugLog!ListEvents(RoomOf[p], eAfter[p])
         IN /\ listed \subseteq Matching(p)
            /\ \A i \in Matching(p) : (\A j \in Matching(p) : i >= j) => i \in listed
            /\ Cardinality(Matching(p)) <= PollLimit => listed = Matching(p)
            /\ IsFiniteSet(Matching(p))
<1>1. {i \in DOMAIN eEvents : eEvents[i].sequence > eAfter[p] /\ eEvents[i].room = RoomOf[p]}
        = Matching(p)
  <2>1. \A i \in 1..Len(eEvents) :
          eEvents[i].sequence = Dropped + i /\ eEvents[i].room = ePosted[Dropped + i]
    <3>1. PICK d : d = Dropped
      OBVIOUS
    <3>2. \A i \in 1..Len(eEvents) :
            eEvents[i] = [sequence |-> d + i, room |-> ePosted[d + i], post |-> d + i]
      BY <3>1, Zenon DEF EventsInv
    <3>3. ASSUME NEW i \in 1..Len(eEvents)
          PROVE  eEvents[i].sequence = d + i /\ eEvents[i].room = ePosted[d + i]
      <4>1. eEvents[i] = [sequence |-> d + i, room |-> ePosted[d + i], post |-> d + i]
        BY <3>2
      <4> QED BY <4>1
    <3> QED BY <3>1, <3>3
  <2> QED BY <2>1, EventsCounted DEF Matching
<1>2. \A S : DebugLog!Cardinality(S) = Cardinality(S)
  BY DEF DebugLog!Cardinality, Cardinality, DebugLog!IsFiniteSet, IsFiniteSet
<1>3. PICK M : M = Matching(p)
  OBVIOUS
<1>4. PICK listed : listed = DebugLog!ListEvents(RoomOf[p], eAfter[p])
  OBVIOUS
<1>5. listed = {i \in M : Cardinality({j \in M : j > i}) < PollLimit}
  BY <1>1, <1>2, <1>3, <1>4, Zenon DEF DebugLog!ListEvents
<1>6. M \subseteq 1..Len(eEvents) /\ M \subseteq Int
  BY <1>3, EventsCounted DEF Matching
<1>7. IsFiniteSet(M)
  <2>1. IsFiniteSet(1..Len(eEvents))
    BY EventsCounted, FS_Interval
  <2> QED BY <1>6, <2>1, FS_Subset
<1>8. ASSUME NEW i \in M, \A j \in M : i >= j PROVE i \in listed
  <2>1. {j \in M : j > i} = {}
    <3>1. \A j \in M : ~(j > i)
      BY <1>6, <1>8
    <3> QED BY <3>1
  <2>2. Cardinality({j \in M : j > i}) = 0
    BY <2>1, FS_EmptySet
  <2> QED BY <1>5, <2>2, EventsAssumption
<1>9. ASSUME Cardinality(M) <= PollLimit, NEW i \in M PROVE i \in listed
  <2>1. PICK greater : greater = {j \in M : j > i}
    OBVIOUS
  <2>2. greater \subseteq M /\ greater # M
    BY <1>6, <1>9, <2>1
  <2>3. /\ IsFiniteSet(greater) /\ Cardinality(greater) \in Nat /\ Cardinality(M) \in Nat
        /\ Cardinality(greater) <= Cardinality(M) /\ Cardinality(greater) # Cardinality(M)
    BY <1>7, <2>2, FS_Subset, FS_CardinalityType
  <2>4. Cardinality(greater) < PollLimit
    BY <1>9, <2>3, EventsAssumption
  <2> QED BY <1>5, <2>1, <2>4
<1>10. Cardinality(M) <= PollLimit => listed = M
  BY <1>5, <1>9
<1> QED BY <1>3, <1>4, <1>5, <1>7, <1>8, <1>10

\* The newest n of a sequence.
LEMMA NewestIs ==
  ASSUME NEW S, NEW s \in Seq(S), NEW n \in Nat \ {0}
  PROVE  LET r == DebugLog!Newest(n, s)
         IN /\ r \in Seq(S)
            /\ Len(r) = IF Len(s) > n THEN n ELSE Len(s)
            /\ \A i \in 1..Len(r) : r[i] = s[Len(s) - Len(r) + i]
<1>0. PICK l \in Nat : l = Len(s)
  BY LenProperties
<1>1. PICK r : l = Len(s) /\ r = DebugLog!Newest(n, s)
  BY <1>0
<1>2. CASE l > n
  <2>1. PICK from \in Int : from = l - n + 1
    OBVIOUS
  <2>2. \A i \in from..l : s[i] \in S
    BY <1>1, <2>1, <1>2, ElementOfSeq
  <2>3. r = SubSeq(s, from, l)
    BY <1>1, <1>2, <2>1 DEF DebugLog!Newest
  <2>4. /\ r \in Seq(S)
        /\ Len(r) = IF from <= l THEN l - from + 1 ELSE 0
        /\ \A i \in 1..l - from + 1 : r[i] = s[from + i - 1]
    BY <2>2, <2>3, SubSeqProperties
  <2>5. (IF from <= l THEN l - from + 1 ELSE 0) = n /\ l - from + 1 = n
    BY <1>2, <2>1
  <2>6. ASSUME NEW i \in 1..n PROVE r[i] = s[l - n + i]
    <3>1. from + i - 1 = l - n + i
      BY <2>1
    <3> QED BY <2>4, <2>5, <3>1
  <2>7. Len(r) = n
    BY <2>4, <2>5
  <2> QED BY <1>1, <1>2, <2>4, <2>6, <2>7
<1>3. CASE ~(l > n)
  <2>1. r = s
    BY <1>1, <1>3 DEF DebugLog!Newest
  <2>2. \A i \in 1..l : l - l + i = i
    BY <1>1
  <2> QED BY <1>1, <1>3, <2>1, <2>2
<1> QED BY <1>2, <1>3

\* An event is posted.
LEMMA AppendKeeps ==
  ASSUME EventsInv, NEW room \in Rooms, DebugLog!AppendEvent(room), ~eRenumbered'
  PROVE  EventsInv'
<1>1. PICK n \in Nat, l \in Nat, d \in Nat : n = Len(ePosted) /\ l = Len(eEvents) /\ d = Dropped
                                            /\ d + l = n
  BY EventsCounted
<1>2. PICK item, all, posted, events :
        /\ item = [sequence |-> n + 1, room |-> room, post |-> n + 1]
        /\ all = Append(eEvents, item)
        /\ posted = Append(ePosted, room)
        /\ events = DebugLog!Newest(MaxEvents, all)
  OBVIOUS
<1>3. /\ ePosted' = posted /\ eSequence' = n + 1 /\ eEvents' = events
      /\ UNCHANGED <<eAfter, eSeen, ePolledAt>>
  BY <1>1, <1>2 DEF DebugLog!AppendEvent, DebugLog!Numbered, DebugLog!Event, EventsInv
<1>4. /\ posted \in Seq(Rooms) /\ Len(posted) = n + 1 /\ posted[n + 1] = room
      /\ \A i \in 1..n : posted[i] = ePosted[i]
  BY <1>1, <1>2, AppendProperties DEF EventsInv
<1>5. /\ all \in Seq([sequence : Nat, room : Rooms, post : Nat]) /\ Len(all) = l + 1
      /\ all[l + 1] = item /\ \A i \in 1..l : all[i] = eEvents[i]
  <2>1. item \in [sequence : Nat, room : Rooms, post : Nat]
    BY <1>2
  <2> QED BY <1>1, <1>2, <2>1, AppendProperties DEF EventsInv
<1>6. PICK m : m = Len(events)
  OBVIOUS
<1>7. /\ events \in Seq([sequence : Nat, room : Rooms, post : Nat])
      /\ m = IF l + 1 > MaxEvents THEN MaxEvents ELSE l + 1
      /\ \A i \in 1..m : events[i] = all[l + 1 - m + i]
  <2>1. PICK r : r = DebugLog!Newest(MaxEvents, all)
    OBVIOUS
  <2>2. /\ r \in Seq([sequence : Nat, room : Rooms, post : Nat])
        /\ Len(r) = IF Len(all) > MaxEvents THEN MaxEvents ELSE Len(all)
        /\ \A i \in 1..Len(r) : r[i] = all[Len(all) - Len(r) + i]
    BY <1>5, <2>1, EventsAssumption, NewestIs
  <2>3. r = events /\ Len(r) = m
    BY <1>2, <1>6, <2>1
  <2>4. Len(all) = l + 1
    BY <1>5
  <2>5. m = IF l + 1 > MaxEvents THEN MaxEvents ELSE l + 1
    BY <2>2, <2>3, <2>4
  <2>6. \A i \in 1..m : r[i] = all[l + 1 - m + i]
    <3>1. PICK top \in Nat, size \in Nat : top = Len(all) /\ size = Len(r)
      BY <1>5, <2>2, LenProperties
    <3>2. \A i \in 1..size : r[i] = all[top - size + i]
      BY <2>2, <3>1
    <3>3. top = l + 1 /\ size = m
      BY <2>3, <2>4, <3>1
    <3>4. ASSUME NEW i \in 1..m PROVE r[i] = all[l + 1 - m + i]
      <4>1. r[i] = all[top - size + i]
        BY <3>2, <3>3
      <4>2. top - size + i = l + 1 - m + i
        BY <3>3
      <4> QED BY <4>1, <4>2
    <3> QED BY <3>4
  <2> QED BY <2>2, <2>3, <2>5, <2>6, Zenon
<1>8. m \in Nat /\ m <= l + 1 /\ m = IF n + 1 > MaxEvents THEN MaxEvents ELSE n + 1
  <2>1. l = IF n > MaxEvents THEN MaxEvents ELSE n
    BY <1>1 DEF EventsInv
  <2> QED BY <1>1, <1>7, <2>1, EventsAssumption
<1>9. PICK e \in Nat : e = n + 1 - m
  <2>1. n + 1 - m \in Nat
    BY <1>1, <1>8
  <2> QED BY <2>1
<1>10. ASSUME NEW i \in 1..m
       PROVE  /\ e + i = d + (l + 1 - m + i) /\ l + 1 - m + i \in 1..l + 1
              /\ (l + 1 - m + i # l + 1 => l + 1 - m + i \in 1..l)
  <2>1. n = d + l
    BY <1>1
  <2> QED BY <1>8, <1>9, <2>1
<1>11. ASSUME NEW i \in 1..m
       PROVE  /\ e + i \in 1..n + 1
              /\ events[i] = [sequence |-> e + i, room |-> posted[e + i], post |-> e + i]
  <2>1. PICK k \in 1..l + 1 : k = l + 1 - m + i /\ e + i = d + k /\ (k # l + 1 => k \in 1..l)
    BY <1>10
  <2>2. events[i] = all[k]
    BY <1>7, <2>1
  <2>3. CASE k = l + 1
    <3>1. e + i = n + 1
      BY <1>1, <2>1, <2>3
    <3> QED BY <1>2, <1>4, <1>5, <2>2, <2>3, <3>1
  <2>4. CASE k # l + 1
    <3>1. k \in 1..l /\ d + k \in 1..n
      BY <1>1, <2>1, <2>4
    <3>2. eEvents[k] = [sequence |-> d + k, room |-> ePosted[d + k], post |-> d + k]
      BY <1>1, <3>1 DEF EventsInv
    <3>3. events[i] = eEvents[k] /\ posted[e + i] = ePosted[d + k] /\ e + i = d + k
      BY <1>4, <1>5, <2>1, <2>2, <3>1
    <3>4. e + i \in 1..n + 1
      BY <1>1, <3>1, <3>3
    <3> QED BY <3>2, <3>3, <3>4
  <2> QED BY <2>3, <2>4
<1>12. ASSUME NEW p \in Pollers, NEW i \in 1..m, e + i > eAfter[p], posted[e + i] = RoomOf[p]
       PROVE  e + i > ePolledAt[p]
  <2>1. PICK k \in 1..l + 1 : e + i = d + k /\ (k # l + 1 => k \in 1..l)
    BY <1>10
  <2>2. ePolledAt[p] \in Nat /\ ePolledAt[p] <= n
    BY <1>1 DEF EventsInv
  <2>3. CASE k = l + 1
    BY <1>1, <2>1, <2>2, <2>3
  <2>4. CASE k # l + 1
    <3>1. k \in 1..l /\ d + k \in 1..n
      BY <1>1, <2>1, <2>4
    <3>2. d + k > eAfter[p] /\ ePosted[d + k] = RoomOf[p]
      BY <1>4, <1>12, <2>1, <3>1
    <3>3. d + k > ePolledAt[p]
      BY <1>1, <3>1, <3>2 DEF EventsInv
    <3> QED BY <2>1, <3>3
  <2> QED BY <2>3, <2>4
<1>13. \A p \in Pollers :
         /\ eAfter[p] <= ePolledAt[p] /\ ePolledAt[p] <= n + 1
         /\ eSeen[p] \subseteq 1..ePolledAt[p]
  <2>1. ASSUME NEW p \in Pollers PROVE ePolledAt[p] <= n + 1
    <3>1. ePolledAt[p] \in Nat /\ ePolledAt[p] <= n
      BY <1>1 DEF EventsInv
    <3> QED BY <3>1
  <2> QED BY <2>1 DEF EventsInv
<1>14. /\ Len(ePosted') = n + 1 /\ Len(eEvents') = m
       /\ ePosted' \in Seq(Rooms) /\ eEvents' \in Seq([sequence : Nat, room : Rooms, post : Nat])
  BY <1>3, <1>4, <1>6, <1>7
<1>15. \A i \in 1..m : eEvents'[i] = [sequence |-> e + i, room |-> ePosted'[e + i], post |-> e + i]
  BY <1>3, <1>11
<1>16. /\ eAfter' \in [Pollers -> Nat] /\ ePolledAt' \in [Pollers -> Nat]
       /\ eSeen' \in [Pollers -> SUBSET Nat]
  BY <1>3 DEF EventsInv
<1>17. \A p \in Pollers :
         /\ eAfter'[p] <= ePolledAt'[p] /\ ePolledAt'[p] <= Len(ePosted')
         /\ eSeen'[p] \subseteq 1..ePolledAt'[p]
         /\ \A i \in 1..m : e + i > eAfter'[p] /\ ePosted'[e + i] = RoomOf[p]
                              => e + i > ePolledAt'[p]
  BY <1>3, <1>12, <1>13, <1>14
<1>18. Dropped' = e
  BY <1>9, <1>14 DEF Dropped
<1> QED BY <1>3, <1>8, <1>18, <1>14, <1>15, <1>16, <1>17 DEF EventsInv

\* A browser asks: it is given all that matches if that is not too much, and
\* nothing that it may be given later is older than what it saw.
LEMMA PollKeeps ==
  ASSUME EventsInv, NEW p \in Pollers, DebugLog!Poll(p)
  PROVE  EventsInv'
<1>1. PICK n \in Nat, l \in Nat, d \in Nat : n = Len(ePosted) /\ l = Len(eEvents) /\ d = Dropped
                                            /\ d + l = n
  BY EventsCounted
<1>2. PICK listed : listed = DebugLog!ListEvents(RoomOf[p], eAfter[p])
  OBVIOUS
<1>3. /\ UNCHANGED <<ePosted, eSequence, eEvents>>
      /\ eAfter' = IF listed = {} THEN eAfter
                   ELSE [eAfter EXCEPT ![p] = eEvents[DebugLog!Max(listed)].sequence]
      /\ eSeen' = [eSeen EXCEPT ![p] = @ \cup {eEvents[i].post : i \in listed}]
      /\ ePolledAt' = [ePolledAt EXCEPT ![p] = n]
  BY <1>1, <1>2 DEF DebugLog!Poll
<1>4. PICK M : M = Matching(p)
  OBVIOUS
<1>5. /\ M \subseteq 1..l /\ listed \subseteq M
      /\ \A i \in M : (\A j \in M : i >= j) => i \in listed
      /\ \A i \in 1..l : i \in M <=> d + i > eAfter[p] /\ ePosted[d + i] = RoomOf[p]
  <2>1. /\ listed \subseteq M
        /\ \A i \in M : (\A j \in M : i >= j) => i \in listed
    BY <1>2, <1>4, ListedAre
  <2>2. M = {i \in 1..l : d + i > eAfter[p] /\ ePosted[d + i] = RoomOf[p]}
    BY <1>1, <1>4 DEF Matching
  <2> QED BY <2>1, <2>2
<1>6. \A i \in 1..l : eEvents[i].sequence = d + i /\ eEvents[i].post = d + i
  <2>1. \A i \in 1..l : eEvents[i] = [sequence |-> d + i, room |-> ePosted[d + i], post |-> d + i]
    BY <1>1 DEF EventsInv
  <2>2. ASSUME NEW i \in 1..l PROVE eEvents[i].sequence = d + i /\ eEvents[i].post = d + i
    <3>1. eEvents[i] = [sequence |-> d + i, room |-> ePosted[d + i], post |-> d + i]
      BY <2>1
    <3> QED BY <3>1
  <2> QED BY <2>2
<1>7. /\ eAfter[p] \in Nat /\ ePolledAt[p] \in Nat /\ eAfter[p] <= ePolledAt[p] /\ ePolledAt[p] <= n
      /\ eSeen[p] \subseteq 1..ePolledAt[p]
  BY <1>1 DEF EventsInv
<1>8. PICK after \in Nat :
        /\ eAfter' = [eAfter EXCEPT ![p] = after] /\ after <= n
        /\ \A i \in 1..l : d + i > after /\ ePosted[d + i] = RoomOf[p] => d + i > n
  <2>1. CASE listed = {}
    <3>1. M = {}
      <4>1. M # {} => \E m \in M : \A i \in M : m >= i
        BY <1>1, <1>5, GreatestExists
      <4> QED BY <1>5, <2>1, <4>1
    <3>2. \A i \in 1..l : ~(d + i > eAfter[p] /\ ePosted[d + i] = RoomOf[p])
      BY <1>5, <3>1
    <3>3. eAfter' = [eAfter EXCEPT ![p] = eAfter[p]]
      BY <1>3, <2>1 DEF EventsInv
    <3>4. eAfter[p] <= n
      BY <1>7
    <3> QED BY <1>7, <3>2, <3>3, <3>4
  <2>2. CASE listed # {}
    <3>1. PICK m : m = DebugLog!Max(listed)
      OBVIOUS
    <3>2. m \in listed /\ \A i \in listed : m >= i
      <4>1. listed \in SUBSET (1..l)
        BY <1>5
      <4> QED BY <2>2, <3>1, <4>1, GreatestIs
    <3>3. m \in 1..l /\ m \in M
      BY <1>5, <3>2
    <3>4. \A i \in M : m >= i
      <4>1. PICK top \in M : \A i \in M : top >= i
        BY <1>1, <1>5, <3>3, GreatestExists
      <4>2. m >= top /\ top >= m
        BY <1>5, <3>2, <3>3, <4>1
      <4>3. m = top
        BY <1>5, <3>3, <4>2
      <4> QED BY <4>1, <4>3
    <3>5. d + m \in Nat /\ d + m <= n /\ eAfter' = [eAfter EXCEPT ![p] = d + m]
      <4>1. d + m \in Nat /\ d + m <= n
        BY <1>1, <3>3
      <4>2. eEvents[m].sequence = d + m
        BY <1>6, <3>3
      <4>3. eAfter' = [eAfter EXCEPT ![p] = eEvents[m].sequence]
        BY <1>3, <2>2, <3>1
      <4> QED BY <4>1, <4>2, <4>3
    <3>6. ASSUME NEW i \in 1..l, d + i > d + m, ePosted[d + i] = RoomOf[p] PROVE FALSE
      <4>1. d + m > eAfter[p]
        BY <1>5, <3>3
      <4>2. d + i > eAfter[p]
        BY <1>7, <3>3, <3>6, <4>1
      <4>3. i \in M
        BY <1>5, <3>6, <4>2
      <4>4. m >= i
        BY <3>4, <4>3
      <4> QED BY <3>3, <3>6, <4>4
    <3> QED BY <3>5, <3>6
  <2> QED BY <2>1, <2>2
<1>9. PICK posts : posts = {eEvents[i].post : i \in listed} /\ posts \subseteq 1..n
  <2>1. \A i \in listed : eEvents[i].post \in 1..n
    BY <1>1, <1>5, <1>6
  <2> QED BY <2>1
<1>10. /\ eAfter' \in [Pollers -> Nat] /\ ePolledAt' \in [Pollers -> Nat]
       /\ eSeen' \in [Pollers -> SUBSET Nat]
       /\ eAfter'[p] = after /\ ePolledAt'[p] = n /\ eSeen'[p] = eSeen[p] \cup posts
       /\ \A q \in Pollers \ {p} :
            eAfter'[q] = eAfter[q] /\ ePolledAt'[q] = ePolledAt[q] /\ eSeen'[q] = eSeen[q]
  <2>1. eAfter' \in [Pollers -> Nat] /\ eAfter'[p] = after
        /\ \A q \in Pollers \ {p} : eAfter'[q] = eAfter[q]
    BY <1>8 DEF EventsInv
  <2>2. ePolledAt' \in [Pollers -> Nat] /\ ePolledAt'[p] = n
        /\ \A q \in Pollers \ {p} : ePolledAt'[q] = ePolledAt[q]
    BY <1>3 DEF EventsInv
  <2>3. eSeen' = [eSeen EXCEPT ![p] = @ \cup posts] /\ posts \in SUBSET Nat
    BY <1>3, <1>9
  <2>4. eSeen' \in [Pollers -> SUBSET Nat] /\ eSeen'[p] = eSeen[p] \cup posts
        /\ \A q \in Pollers \ {p} : eSeen'[q] = eSeen[q]
    BY <2>3 DEF EventsInv
  <2> QED BY <2>1, <2>2, <2>4
<1>11. \A q \in Pollers :
         /\ eAfter'[q] <= ePolledAt'[q] /\ ePolledAt'[q] <= n
         /\ eSeen'[q] \subseteq 1..ePolledAt'[q]
         /\ \A i \in 1..l : d + i > eAfter'[q] /\ ePosted[d + i] = RoomOf[q]
                              => d + i > ePolledAt'[q]
  <2>1. ASSUME NEW q \in Pollers \ {p} PROVE
         /\ eAfter[q] <= ePolledAt[q] /\ ePolledAt[q] <= n
         /\ eSeen[q] \subseteq 1..ePolledAt[q]
         /\ \A i \in 1..l : d + i > eAfter[q] /\ ePosted[d + i] = RoomOf[q] => d + i > ePolledAt[q]
    BY <1>1 DEF EventsInv
  <2>2. n <= n /\ eSeen[p] \cup posts \subseteq 1..n
    BY <1>7, <1>9
  <2> QED BY <1>8, <1>10, <2>1, <2>2
<1>12. Dropped' = d /\ Len(ePosted') = n /\ Len(eEvents') = l
  BY <1>1, <1>3 DEF Dropped
<1>13. \A i \in 1..l : eEvents'[i] = [sequence |-> d + i, room |-> ePosted'[d + i], post |-> d + i]
  BY <1>1, <1>3 DEF EventsInv
<1>14. /\ ePosted' \in Seq(Rooms) /\ eSequence' = n
       /\ eEvents' \in Seq([sequence : Nat, room : Rooms, post : Nat])
       /\ l = IF n > MaxEvents THEN MaxEvents ELSE n
  BY <1>1, <1>3 DEF EventsInv
<1>15. \A q \in Pollers :
         /\ eAfter'[q] <= ePolledAt'[q] /\ ePolledAt'[q] <= n
         /\ eSeen'[q] \subseteq 1..ePolledAt'[q]
         /\ \A i \in 1..l : d + i > eAfter'[q] /\ ePosted'[d + i] = RoomOf[q]
                              => d + i > ePolledAt'[q]
  BY <1>3, <1>11
<1> QED BY <1>10, <1>12, <1>13, <1>14, <1>15 DEF EventsInv

\* A browser that asks often enough is given every new event of its room.
LEMMA PollTells ==
  ASSUME EventsInv, NEW p \in Pollers, DebugLog!Poll(p),
         DebugLog!Cardinality(DebugLog!Fresh(p)) <= PollLimit,
         DebugLog!Cardinality(DebugLog!Since(p)) <= MaxEvents
  PROVE  eSeen'[p] \ eSeen[p] = DebugLog!Fresh(p)
<1>1. PICK n \in Nat, l \in Nat, d \in Nat : n = Len(ePosted) /\ l = Len(eEvents) /\ d = Dropped
                                            /\ d + l = n
  BY EventsCounted
<1>2. PICK listed, M, fresh : /\ listed = DebugLog!ListEvents(RoomOf[p], eAfter[p])
                              /\ M = Matching(p) /\ fresh = DebugLog!Fresh(p)
  OBVIOUS
<1>3. /\ eAfter[p] \in Nat /\ ePolledAt[p] \in Nat /\ eAfter[p] <= ePolledAt[p] /\ ePolledAt[p] <= n
      /\ eSeen[p] \subseteq 1..ePolledAt[p]
      /\ \A i \in 1..l : d + i > eAfter[p] /\ ePosted[d + i] = RoomOf[p] => d + i > ePolledAt[p]
      /\ l = IF n > MaxEvents THEN MaxEvents ELSE n
  BY <1>1 DEF EventsInv
<1>4. \A S : DebugLog!Cardinality(S) = Cardinality(S)
  BY DEF DebugLog!Cardinality, Cardinality, DebugLog!IsFiniteSet, IsFiniteSet
<1>5. d <= ePolledAt[p]
  <2>1. DebugLog!Since(p) = ePolledAt[p] + 1..n
    BY <1>1 DEF DebugLog!Since
  <2>2. PICK a \in Nat : a = ePolledAt[p] /\ a <= n
    BY <1>3
  <2>3. Cardinality(a + 1..n) <= MaxEvents
    BY <1>4, <2>1, <2>2
  <2>4. Cardinality(a + 1..n) = n - a
    <3>1. a + 1 \in Int /\ n \in Int /\ (IF a + 1 > n THEN 0 ELSE n - (a + 1) + 1) = n - a
      BY <2>2
    <3> QED BY <3>1, FS_Interval
  <2> QED BY <1>1, <1>3, <2>2, <2>3, <2>4, EventsAssumption
<1>6. /\ M = {i \in 1..l : d + i > ePolledAt[p] /\ ePosted[d + i] = RoomOf[p]}
      /\ fresh = {m \in ePolledAt[p] + 1..n : ePosted[m] = RoomOf[p]}
  <2>1. M = {i \in 1..l : d + i > eAfter[p] /\ ePosted[d + i] = RoomOf[p]}
    BY <1>1, <1>2 DEF Matching
  <2>2. \A i \in 1..l : d + i > ePolledAt[p] => d + i > eAfter[p]
    BY <1>3
  <2>3. fresh = {m \in ePolledAt[p] + 1..n : ePosted[m] = RoomOf[p]}
    BY <1>1, <1>2 DEF DebugLog!Fresh, DebugLog!Since
  <2> QED BY <1>3, <2>1, <2>2, <2>3
<1>7. /\ \A i \in M : i \in 1..l /\ d + i \in fresh
      /\ \A m \in fresh : m \in Int /\ m - d \in M /\ d + (m - d) = m
  <2>1. ASSUME NEW i \in M PROVE i \in 1..l /\ d + i \in fresh
    <3>1. i \in 1..l /\ d + i \in ePolledAt[p] + 1..n /\ ePosted[d + i] = RoomOf[p]
      BY <1>1, <1>3, <1>6
    <3> QED BY <1>6, <3>1
  <2>2. ASSUME NEW m \in fresh PROVE m \in Int /\ m - d \in M /\ d + (m - d) = m
    <3>1. m \in ePolledAt[p] + 1..n /\ ePosted[m] = RoomOf[p]
      BY <1>6
    <3>2. m \in Int /\ m - d \in 1..l /\ d + (m - d) = m /\ m > ePolledAt[p]
      BY <1>1, <1>3, <1>5, <3>1
    <3> QED BY <1>6, <3>1, <3>2
  <2> QED BY <2>1, <2>2
<1>8. Cardinality(M) <= PollLimit
  <2>1. IsFiniteSet(fresh) /\ Cardinality(fresh) \in Nat /\ Cardinality(fresh) <= PollLimit
    <3>1. IsFiniteSet(ePolledAt[p] + 1..n) /\ fresh \subseteq ePolledAt[p] + 1..n
      <4>1. ePolledAt[p] + 1 \in Int /\ n \in Int
        BY <1>3
      <4> QED BY <1>6, <4>1, FS_Interval
    <3>2. IsFiniteSet(fresh)
      BY <3>1, FS_Subset
    <3> QED BY <1>2, <1>4, <3>2, FS_CardinalityType
  <2>2. PICK f : f = [i \in M |-> d + i]
    OBVIOUS
  <2>3. f \in Injection(M, fresh)
    <3>1. f \in [M -> fresh]
      BY <1>7, <2>2
    <3>2. \A i, j \in M : f[i] = f[j] => i = j
      BY <1>1, <1>7, <2>2
    <3> QED BY <3>1, <3>2 DEF Injection, IsInjective
  <2>4. Cardinality(M) <= Cardinality(fresh) /\ IsFiniteSet(M)
    BY <2>1, <2>3, FS_Injection
  <2>5. Cardinality(M) \in Nat
    BY <2>4, FS_CardinalityType
  <2> QED BY <2>1, <2>4, <2>5, EventsAssumption
<1>9. listed = M
  BY <1>2, <1>8, ListedAre
<1>10. {eEvents[i].post : i \in listed} = fresh
  <2>1. ASSUME NEW i \in 1..l PROVE eEvents[i].post = d + i
    <3>1. eEvents[i] = [sequence |-> d + i, room |-> ePosted[d + i], post |-> d + i]
      BY <1>1 DEF EventsInv
    <3> QED BY <3>1
  <2>2. \A i \in listed : eEvents[i].post \in fresh
    BY <1>7, <1>9, <2>1
  <2>3. ASSUME NEW m \in fresh PROVE \E i \in listed : m = eEvents[i].post
    <3>1. m - d \in listed /\ m - d \in 1..l /\ d + (m - d) = m
      BY <1>7, <1>9
    <3>2. eEvents[m - d].post = m
      BY <2>1, <3>1
    <3> QED BY <3>1, <3>2
  <2> QED BY <2>2, <2>3
<1>11. eSeen'[p] = eSeen[p] \cup fresh
  BY <1>2, <1>10 DEF DebugLog!Poll, EventsInv
<1>12. \A m \in fresh : m \notin eSeen[p]
  <2>1. \A m \in fresh : m \in ePolledAt[p] + 1..n
    BY <1>6
  <2> QED BY <1>3, <2>1
<1> QED BY <1>2, <1>11, <1>12

\* While no event brings its own number, a browser that polls often enough
\* misses none, and sees none twice.
THEOREM AllSeen == Spec => NothingMissed
<1>1. DebugLog!Init => EventsInv
  <2> SUFFICES ASSUME DebugLog!Init PROVE EventsInv
    OBVIOUS
  <2>1. /\ ePosted = <<>> /\ eSequence = 0 /\ eEvents = <<>>
        /\ eAfter = [p \in Pollers |-> 0] /\ eSeen = [p \in Pollers |-> {}]
        /\ ePolledAt = [p \in Pollers |-> 0]
    BY DEF DebugLog!Init
  <2>2. /\ <<>> \in Seq(Rooms) /\ <<>> \in Seq([sequence : Nat, room : Rooms, post : Nat])
        /\ Len(<<>>) = 0
    BY EmptySeq
  <2>3. (IF 0 > MaxEvents THEN MaxEvents ELSE 0) = 0
    BY EventsAssumption
  <2>4. /\ eAfter \in [Pollers -> Nat] /\ ePolledAt \in [Pollers -> Nat]
        /\ eSeen \in [Pollers -> SUBSET Nat]
        /\ \A p \in Pollers : eAfter[p] = 0 /\ ePolledAt[p] = 0 /\ eSeen[p] = {}
    BY <2>1
  <2> QED BY <2>1, <2>2, <2>3, <2>4 DEF EventsInv
<1>2. (eRenumbered \/ EventsInv) /\ [Next]_vars => (eRenumbered \/ EventsInv)'
  <2> SUFFICES ASSUME eRenumbered \/ EventsInv, [Next]_vars, ~eRenumbered'
      PROVE EventsInv'
    OBVIOUS
  <2>1. [DebugLog!Next]_(DebugLog!vars)
    BY PartsStep
  <2>2. ~eRenumbered
    BY <2>1 DEF DebugLog!Next, DebugLog!vars, DebugLog!AppendEvent, DebugLog!Numbered,
       DebugLog!Poll
  <2>3. CASE UNCHANGED DebugLog!vars
    BY <2>2, <2>3 DEF DebugLog!vars, EventsInv, Dropped
  <2> QED BY <2>1, <2>2, <2>3, AppendKeeps, PollKeeps DEF DebugLog!Next
<1>3. (eRenumbered \/ EventsInv) /\ [Next]_vars =>
        [\A p \in Pollers :
           /\ ~eRenumbered /\ DebugLog!Poll(p)
           /\ DebugLog!Cardinality(DebugLog!Fresh(p)) <= PollLimit /\
                DebugLog!Cardinality(DebugLog!Since(p)) <= MaxEvents
           => eSeen'[p] \ eSeen[p] = DebugLog!Fresh(p)]_(DebugLog!vars)
  BY PollTells
<1> QED BY PartsInit, <1>1, <1>2, <1>3, PTL DEF Spec, NothingMissed, DebugLog!NothingMissed

-----------------------------------------------------------------------------
(* PlayoutEngine: what is heard of a response.                             *)

QueuedFrames == [key : Responses, sequence : Nat]

FramesAt(q, k) == {i \in 1..Len(q) : q[i].key = k}

\* The frames of a queue are numbered in their order below top, those of a
\* response stand together, and those of a at the end.
Ordered(q, top, a) ==
  /\ \A i \in 1..Len(q) : q[i].sequence < top
  /\ \A i, j \in 1..Len(q) : i < j =>
       /\ q[i].sequence < q[j].sequence
       /\ q[i].key = a => q[j].key = a
       /\ q[i].key = q[j].key => \A m \in i..j : q[m].key = q[i].key

\* r is what stands at these places of q, in its order.
Thinned(r, q, places) ==
  \E at \in [1..Len(r) -> places] :
    /\ \A i \in 1..Len(r) : r[i] = q[at[i]]
    /\ \A i, j \in 1..Len(r) : i < j => at[i] < at[j]
    /\ \A i \in places : \E n \in 1..Len(r) : at[n] = i

LEMMA FramesCounted ==
  ASSUME NEW q \in Seq(QueuedFrames), NEW k
  PROVE  /\ Len(q) \in Nat /\ DOMAIN q = 1..Len(q)
         /\ FramesAt(q, k) \subseteq 1..Len(q)
         /\ IsFiniteSet(FramesAt(q, k)) /\ Cardinality(FramesAt(q, k)) \in Nat
<1>1. Len(q) \in Nat /\ DOMAIN q = 1..Len(q)
  BY LenProperties
<1>2. IsFiniteSet(1..Len(q)) /\ FramesAt(q, k) \subseteq 1..Len(q)
  BY <1>1, FS_Interval DEF FramesAt
<1>3. IsFiniteSet(FramesAt(q, k))
  BY <1>2, FS_Subset
<1> QED BY <1>1, <1>2, <1>3, FS_CardinalityType

LEMMA ThinnedOrdered ==
  ASSUME NEW q \in Seq(QueuedFrames), NEW r \in Seq(QueuedFrames),
         NEW places \in SUBSET (1..Len(q)), Thinned(r, q, places),
         NEW top, NEW a, Ordered(q, top, a)
  PROVE  Ordered(r, top, a)
<1>1. PICK at \in [1..Len(r) -> places] :
        /\ \A i \in 1..Len(r) : r[i] = q[at[i]]
        /\ \A i, j \in 1..Len(r) : i < j => at[i] < at[j]
  BY DEF Thinned
<1>2. Len(q) \in Nat /\ Len(r) \in Nat /\ \A i \in 1..Len(r) : at[i] \in 1..Len(q)
  BY <1>1, LenProperties
<1>3. \A i \in 1..Len(r) : r[i].sequence < top
  BY <1>1, <1>2 DEF Ordered
<1>4. ASSUME NEW i \in 1..Len(r), NEW j \in 1..Len(r), i < j
      PROVE  /\ r[i].sequence < r[j].sequence
             /\ r[i].key = a => r[j].key = a
             /\ r[i].key = r[j].key => \A m \in i..j : r[m].key = r[i].key
  <2>1. at[i] \in 1..Len(q) /\ at[j] \in 1..Len(q) /\ at[i] < at[j]
    BY <1>1, <1>2, <1>4
  <2>2. /\ q[at[i]].sequence < q[at[j]].sequence
        /\ q[at[i]].key = a => q[at[j]].key = a
        /\ q[at[i]].key = q[at[j]].key => \A m \in at[i]..at[j] : q[m].key = q[at[i]].key
    BY <2>1 DEF Ordered
  <2>3. ASSUME NEW m \in i..j PROVE m \in 1..Len(r) /\ at[m] \in at[i]..at[j]
    <3>1. m \in 1..Len(r) /\ m \in Int /\ (m = i \/ i < m) /\ (m = j \/ m < j)
      BY <1>2
    <3>2. at[m] \in 1..Len(q) /\ (m = i \/ at[i] < at[m]) /\ (m = j \/ at[m] < at[j])
      BY <1>1, <1>2, <3>1
    <3>3. at[i] <= at[m] /\ at[m] <= at[j]
      BY <1>2, <2>1, <3>1, <3>2
    <3> QED BY <1>2, <2>1, <3>1, <3>2, <3>3
  <2> QED BY <1>1, <2>2, <2>3
<1> QED BY <1>3, <1>4 DEF Ordered

LEMMA ThinnedCounts ==
  ASSUME NEW q \in Seq(QueuedFrames), NEW r \in Seq(QueuedFrames),
         NEW places \in SUBSET (1..Len(q)), Thinned(r, q, places), NEW k
  PROVE  Cardinality(FramesAt(r, k)) = Cardinality(FramesAt(q, k) \cap places)
<1>1. PICK at \in [1..Len(r) -> places] :
        /\ \A i \in 1..Len(r) : r[i] = q[at[i]]
        /\ \A i, j \in 1..Len(r) : i < j => at[i] < at[j]
        /\ \A i \in places : \E n \in 1..Len(r) : at[n] = i
  BY DEF Thinned
<1>2. PICK A, B : A = FramesAt(r, k) /\ B = FramesAt(q, k) \cap places
  OBVIOUS
<1>3. PICK f : f = [i \in A |-> at[i]]
  OBVIOUS
<1>4. A \subseteq 1..Len(r) /\ Len(r) \in Nat /\ places \subseteq Int
  BY <1>2, LenProperties DEF FramesAt
<1>5. f \in [A -> B]
  <2>1. ASSUME NEW i \in A PROVE at[i] \in B
    BY <1>1, <1>2 DEF FramesAt
  <2> QED BY <1>3, <2>1
<1>6. ASSUME NEW i \in A, NEW j \in A, f[i] = f[j] PROVE i = j
  <2>1. at[i] = at[j] /\ at[i] \in Int /\ i \in Int /\ j \in Int
    <3>1. f[i] = at[i] /\ f[j] = at[j] /\ i \in 1..Len(r) /\ j \in 1..Len(r)
      BY <1>3, <1>4
    <3>2. at[i] \in Int
      BY <1>1, <1>4, <3>1
    <3>3. i \in Int /\ j \in Int
      BY <1>4, <3>1
    <3> QED BY <1>6, <3>1, <3>2, <3>3
  <2>2. ~(i < j) /\ ~(j < i)
    BY <1>1, <1>4, <2>1
  <2> QED BY <2>1, <2>2
<1>7. ASSUME NEW i \in B PROVE \E n \in A : f[n] = i
  <2>1. PICK n \in 1..Len(r) : at[n] = i
    BY <1>1, <1>2, <1>7
  <2>2. n \in A
    BY <1>1, <1>2, <2>1 DEF FramesAt
  <2> QED BY <1>3, <2>1, <2>2
<1>8. f \in Bijection(A, B)
  BY <1>5, <1>6, <1>7 DEF Bijection, Injection, Surjection, IsInjective
<1>9. IsFiniteSet(A)
  BY <1>2, FramesCounted
<1>10. ExistsBijection(A, B)
  BY <1>8 DEF ExistsBijection
<1> QED BY <1>2, <1>9, <1>10, FS_Bijection

\* The places before one.
Below(places, i) == {j \in places : j < i}

\* Taking places out by their rank keeps them all, in their order.
LEMMA OnlyThins ==
  ASSUME qQueue \in Seq(QueuedFrames), NEW places \in SUBSET (1..Len(qQueue))
  PROVE  Playout!Only(places) \in Seq(QueuedFrames) /\ Thinned(Playout!Only(places), qQueue, places)
<1>1. \A S : Playout!Cardinality(S) = Cardinality(S)
  BY DEF Playout!Cardinality, Cardinality, Playout!IsFiniteSet, IsFiniteSet
<1>2. Len(qQueue) \in Nat /\ places \subseteq Int /\ IsFiniteSet(places)
  <2>1. Len(qQueue) \in Nat
    BY LenProperties
  <2>2. IsFiniteSet(1..Len(qQueue))
    BY <2>1, FS_Interval
  <2>3. places \subseteq Int
    BY <2>1
  <2> QED BY <2>1, <2>2, <2>3, FS_Subset
<1>3. PICK n \in Nat : n = Cardinality(places)
  BY <1>2, FS_CardinalityType
<1>4. ASSUME NEW i \in places
      PROVE  IsFiniteSet(Below(places, i)) /\ Cardinality(Below(places, i)) \in Nat /\ Cardinality(Below(places, i)) < n
  <2>1. Below(places, i) \subseteq places /\ i \notin Below(places, i)
    BY <1>2 DEF Below
  <2>2. /\ IsFiniteSet(Below(places, i)) /\ Cardinality(Below(places, i)) \in Nat
        /\ Cardinality(Below(places, i)) <= n /\ Cardinality(Below(places, i)) # n
    BY <1>2, <1>3, <2>1, FS_Subset, FS_CardinalityType
  <2> QED BY <2>2
<1>5. ASSUME NEW i \in places, NEW j \in places, i < j
      PROVE  Cardinality(Below(places, i)) < Cardinality(Below(places, j))
  <2>1. Below(places, i) \subseteq Below(places, j) /\ i \in Below(places, j) /\ i \notin Below(places, i)
    <3>1. \A l \in places : l \in Int
      BY <1>2
    <3>2. \A l \in places : l < i => l < j
      BY <1>5, <3>1
    <3>3. ~(i < i)
      BY <3>1
    <3> QED BY <1>5, <3>2, <3>3 DEF Below
  <2>2. /\ Cardinality(Below(places, i)) <= Cardinality(Below(places, j))
        /\ Cardinality(Below(places, i)) # Cardinality(Below(places, j))
    BY <1>4, <2>1, FS_Subset
  <2> QED BY <1>4, <2>2
<1>6. PICK rank : rank = [i \in places |-> Cardinality(Below(places, i)) + 1]
  OBVIOUS
<1>7. rank \in [places -> 1..n]
  BY <1>3, <1>4, <1>6
<1>8. ASSUME NEW i \in places, NEW j \in places, rank[i] = rank[j] PROVE i = j
  <2>1. Cardinality(Below(places, i)) = Cardinality(Below(places, j))
    BY <1>4, <1>6, <1>8
  <2>2. ~(i < j) /\ ~(j < i)
    BY <1>4, <1>5, <2>1
  <2> QED BY <1>2, <2>2
<1>9. \A m \in 1..n : \E i \in places : rank[i] = m
  <2>1. rank \in Injection(places, 1..n)
    BY <1>7, <1>8 DEF Injection, IsInjective
  <2>2. IsFiniteSet(1..n) /\ Cardinality(1..n) = n
    <3>1. 1 \in Int /\ n \in Int /\ (IF 1 > n THEN 0 ELSE n - 1 + 1) = n
      OBVIOUS
    <3> QED BY <3>1, FS_Interval
  <2>3. rank \in Surjection(places, 1..n)
    BY <1>3, <2>1, <2>2, FS_Injection
  <2> QED BY <2>3 DEF Surjection
<1>10. PICK at : at = [m \in 1..n |-> CHOOSE i \in places : Playout!Cardinality(Below(places, i)) = m - 1]
  OBVIOUS
<1>11. ASSUME NEW m \in 1..n PROVE at[m] \in places /\ rank[at[m]] = m
  <2>1. \E i \in places : Cardinality(Below(places, i)) = m - 1
    <3>1. PICK i \in places : rank[i] = m
      BY <1>9
    <3>2. rank[i] = Cardinality(Below(places, i)) + 1 /\ Cardinality(Below(places, i)) \in Nat
      BY <1>4, <1>6
    <3> QED BY <3>1, <3>2
  <2>2. at[m] \in places /\ Cardinality(Below(places, at[m])) = m - 1
    <3>1. \E i \in places : Playout!Cardinality(Below(places, i)) = m - 1
      BY <1>1, <2>1
    <3>2. at[m] = CHOOSE i \in places : Playout!Cardinality(Below(places, i)) = m - 1
      BY <1>10
    <3> QED BY <1>1, <3>1, <3>2
  <2> QED BY <1>6, <2>2
<1>12. PICK r : r = [m \in 1..n |-> qQueue[at[m]]]
  OBVIOUS
<1>13. r = Playout!Only(places)
  <2>1. Playout!Only(places) =
          [m \in 1..n |->
             qQueue[CHOOSE i \in places : Playout!Cardinality(Below(places, i)) = m - 1]]
    <3>1. Playout!Cardinality(places) = n
      BY <1>1, <1>3
    <3> QED BY <3>1, Zenon DEF Playout!Only, Below
  <2> QED BY <1>10, <1>12, <2>1
<1>14. r \in Seq(QueuedFrames) /\ Len(r) = n
  <2>1. \A m \in 1..n : qQueue[at[m]] \in QueuedFrames
    BY <1>11, ElementOfSeq
  <2> QED BY <1>12, <2>1
<1>15. Thinned(r, qQueue, places)
  <2>1. at \in [1..Len(r) -> places]
    BY <1>10, <1>11, <1>14
  <2>2. \A m \in 1..Len(r) : r[m] = qQueue[at[m]]
    BY <1>12, <1>14
  <2>3. ASSUME NEW l \in 1..n, NEW m \in 1..n, l < m PROVE at[l] < at[m]
    <3>1. /\ at[l] \in places /\ at[m] \in places /\ at[l] \in Int /\ at[m] \in Int
          /\ rank[at[l]] < rank[at[m]]
      BY <1>2, <1>11, <2>3
    <3>2. Cardinality(Below(places, at[l])) < Cardinality(Below(places, at[m]))
      BY <1>4, <1>6, <3>1
    <3>3. ~(at[m] < at[l]) /\ at[m] # at[l]
      BY <1>4, <1>5, <3>1, <3>2
    <3> QED BY <3>1, <3>3
  <2>4. ASSUME NEW i \in places PROVE \E m \in 1..n : at[m] = i
    <3>1. rank[i] \in 1..n
      BY <1>7
    <3>2. at[rank[i]] \in places /\ rank[at[rank[i]]] = rank[i]
      BY <1>11, <3>1
    <3> QED BY <1>8, <3>1, <3>2
  <2> QED BY <1>14, <2>1, <2>2, <2>3, <2>4 DEF Thinned
<1> QED BY <1>13, <1>14, <1>15

LEMMA DrainThins ==
  ASSUME NEW q \in Seq(QueuedFrames), NEW n \in 1..Len(q)
  PROVE  /\ SubSeq(q, n + 1, Len(q)) \in Seq(QueuedFrames)
         /\ Thinned(SubSeq(q, n + 1, Len(q)), q, n + 1..Len(q))
<1>0. PICK l \in Nat : l = Len(q)
  BY LenProperties
<1>1. PICK r : l = Len(q) /\ r = SubSeq(q, n + 1, l)
  BY <1>0
<1>2. \A i \in n + 1..l : q[i] \in QueuedFrames
  <2>1. \A i \in n + 1..l : i \in 1..l
    BY <1>1
  <2> QED BY <1>1, <2>1, ElementOfSeq
<1>3. r \in Seq(QueuedFrames) /\ Len(r) = l - n /\ \A i \in 1..l - n : r[i] = q[n + i]
  <2>1. n + 1 \in Int /\ l \in Int
    BY <1>1
  <2>2. /\ r \in Seq(QueuedFrames)
        /\ Len(r) = IF n + 1 <= l THEN l - (n + 1) + 1 ELSE 0
        /\ \A i \in 1..l - (n + 1) + 1 : r[i] = q[n + 1 + i - 1]
    BY <1>1, <1>2, <2>1, SubSeqProperties
  <2>3. (IF n + 1 <= l THEN l - (n + 1) + 1 ELSE 0) = l - n /\ l - (n + 1) + 1 = l - n
    BY <1>1
  <2>4. ASSUME NEW i \in 1..l - n PROVE r[i] = q[n + i]
    <3>1. n + 1 + i - 1 = n + i
      BY <1>1
    <3> QED BY <2>2, <2>3, <3>1
  <2> QED BY <2>2, <2>3, <2>4
<1>4. PICK at : at = [i \in 1..l - n |-> n + i]
  OBVIOUS
<1>5. at \in [1..l - n -> n + 1..l]
  <2>1. \A i \in 1..l - n : n + i \in n + 1..l
    BY <1>1
  <2> QED BY <1>4, <2>1
<1>6. \A i, j \in 1..l - n : i < j => at[i] < at[j]
  BY <1>1, <1>4
<1>7. ASSUME NEW i \in n + 1..l PROVE \E m \in 1..l - n : at[m] = i
  <2>1. i - n \in 1..l - n /\ n + (i - n) = i
    BY <1>1
  <2>2. at[i - n] = i
    BY <1>4, <2>1
  <2> QED BY <2>1, <2>2
<1>8. \A i \in 1..Len(r) : r[i] = q[at[i]]
  BY <1>3, <1>4
<1>9. Thinned(r, q, n + 1..l)
  <2>1. at \in [1..Len(r) -> n + 1..l]
    BY <1>3, <1>5
  <2>2. /\ \A i, j \in 1..Len(r) : i < j => at[i] < at[j]
        /\ \A i \in n + 1..l : \E m \in 1..Len(r) : at[m] = i
    BY <1>3, <1>6, <1>7
  <2> QED BY <1>8, <2>1, <2>2 DEF Thinned
<1> QED BY <1>1, <1>3, <1>9

\* Frames of a response that may follow are put at the end.
LEMMA FramesJoin ==
  ASSUME qQueue \in Seq(QueuedFrames), qSequence \in Nat,
         NEW k \in Responses, NEW n \in Nat, Ordered(qQueue, qSequence, k)
  PROVE  LET q == qQueue \o Playout!Frames(k, n)
         IN /\ q \in Seq(QueuedFrames)
            /\ Ordered(q, qSequence + n, k)
            /\ \A j \in Responses \ {k} : FramesAt(q, j) = FramesAt(qQueue, j)
            /\ Cardinality(FramesAt(q, k)) = Cardinality(FramesAt(qQueue, k)) + n
<1>0. PICK l \in Nat : l = Len(qQueue)
  BY LenProperties
<1>1. PICK frames, q :
        l = Len(qQueue) /\ frames = Playout!Frames(k, n) /\ q = qQueue \o frames
  BY <1>0
<1>2. /\ frames \in Seq(QueuedFrames) /\ Len(frames) = n
      /\ \A i \in 1..n : frames[i] = [key |-> k, sequence |-> qSequence + i - 1]
  <2>1. frames = [i \in 1..n |-> [key |-> k, sequence |-> qSequence + i - 1]]
    BY <1>1 DEF Playout!Frames
  <2>2. \A i \in 1..n : [key |-> k, sequence |-> qSequence + i - 1] \in QueuedFrames
    <3>1. \A i \in 1..n : qSequence + i - 1 \in Nat
      OBVIOUS
    <3> QED BY <3>1 DEF QueuedFrames
  <2>3. frames \in [1..n -> QueuedFrames]
    BY <2>1, <2>2
  <2>4. frames \in Seq(QueuedFrames) /\ Len(frames) = n
    BY <2>3
  <2> QED BY <2>1, <2>4
<1>3. /\ q \in Seq(QueuedFrames) /\ Len(q) = l + n
      /\ \A i \in 1..l + n : q[i] = IF i <= l THEN qQueue[i] ELSE frames[i - l]
  <2>1. /\ q \in Seq(QueuedFrames) /\ Len(q) = Len(qQueue) + Len(frames)
        /\ \A i \in 1..Len(qQueue) + Len(frames) :
             q[i] = IF i <= Len(qQueue) THEN qQueue[i] ELSE frames[i - Len(qQueue)]
    BY <1>1, <1>2, ConcatProperties
  <2>2. Len(qQueue) = l /\ Len(frames) = n
    BY <1>1, <1>2
  <2> QED BY <2>1, <2>2
<1>4. ASSUME NEW i \in 1..l PROVE q[i] = qQueue[i] /\ i \in 1..l + n
  BY <1>1, <1>3
<1>5. ASSUME NEW i \in l + 1..l + n
      PROVE  /\ q[i].key = k /\ q[i].sequence = qSequence + (i - l) - 1
             /\ q[i].sequence >= qSequence /\ q[i].sequence < qSequence + n
             /\ i \in 1..l + n /\ i \in Int
  <2>1. i - l \in 1..n /\ ~(i <= l) /\ i \in 1..l + n
    BY <1>1
  <2>2. q[i] = frames[i - l]
    BY <1>3, <2>1
  <2>3. q[i] = [key |-> k, sequence |-> qSequence + (i - l) - 1]
    BY <1>2, <2>1, <2>2
  <2>4. q[i].key = k /\ q[i].sequence = qSequence + (i - l) - 1
    BY <2>3
  <2> QED BY <1>1, <2>1, <2>4
<1>6. \A i \in 1..l : qQueue[i] \in QueuedFrames /\ qQueue[i].sequence \in Nat
                     /\ qQueue[i].sequence < qSequence
  <2>1. \A i \in 1..l : qQueue[i] \in QueuedFrames /\ qQueue[i].sequence < qSequence
    BY <1>1, ElementOfSeq DEF Ordered
  <2> QED BY <2>1 DEF QueuedFrames
<1>7. \A i \in 1..l + n : i \in Int /\ (i \in 1..l \/ i \in l + 1..l + n)
  BY <1>1
<1>8. \A i \in 1..Len(q) : q[i].sequence < qSequence + n
  <2>1. \A i \in 1..l : q[i].sequence < qSequence + n
    BY <1>4, <1>6
  <2> QED BY <1>3, <1>5, <1>7, <2>1
<1>9. ASSUME NEW i \in 1..Len(q), NEW j \in 1..Len(q), i < j
      PROVE  /\ q[i].sequence < q[j].sequence
             /\ q[i].key = k => q[j].key = k
             /\ q[i].key = q[j].key => \A m \in i..j : q[m].key = q[i].key
  <2>1. CASE j \in 1..l
    <3>1. i \in 1..l /\ \A m \in i..j : m \in 1..l
      BY <1>1, <1>3, <1>9, <2>1
    <3>2. /\ qQueue[i].sequence < qQueue[j].sequence
          /\ qQueue[i].key = k => qQueue[j].key = k
          /\ qQueue[i].key = qQueue[j].key => \A m \in i..j : qQueue[m].key = qQueue[i].key
      BY <1>1, <1>9, <2>1, <3>1 DEF Ordered
    <3>3. \A m \in i..j : q[m] = qQueue[m]
      BY <1>4, <3>1
    <3>4. q[i] = qQueue[i] /\ q[j] = qQueue[j]
      BY <1>4, <2>1, <3>1
    <3> QED BY <3>2, <3>3, <3>4, Zenon
  <2>2. CASE i \in 1..l /\ j \in l + 1..l + n
    <3>1. q[i] = qQueue[i] /\ q[j].key = k /\ q[i].sequence < q[j].sequence
      <4>1. q[i] = qQueue[i]
        BY <1>4, <2>2
      <4>2. qQueue[i].sequence \in Nat /\ qQueue[i].sequence < qSequence
        BY <1>6, <2>2
      <4>3. q[j].key = k /\ q[j].sequence = qSequence + (j - l) - 1 /\ j - l >= 1 /\ j - l \in Int
        BY <1>1, <1>5, <2>2
      <4>4. qSequence + (j - l) - 1 >= qSequence /\ qSequence + (j - l) - 1 \in Int
        BY <4>3
      <4> QED BY <4>1, <4>2, <4>3, <4>4
    <3>2. ASSUME q[i].key = k, NEW m \in i..j PROVE q[m].key = k
      <4>1. m \in 1..l + n /\ (m = i \/ i < m)
        BY <1>3, <1>9
      <4>2. CASE m \in 1..l
        <5>1. q[m] = qQueue[m] /\ qQueue[i].key = k
          BY <1>4, <3>1, <3>2, <4>2
        <5>2. i < m => qQueue[m].key = k
          BY <1>1, <2>2, <4>2, <5>1 DEF Ordered
        <5> QED BY <4>1, <5>1, <5>2
      <4>3. CASE m \in l + 1..l + n
        BY <1>5, <4>3
      <4> QED BY <1>7, <4>1, <4>2, <4>3
    <3> QED BY <3>1, <3>2
  <2>3. CASE i \in l + 1..l + n
    <3>1. j \in l + 1..l + n /\ \A m \in i..j : m \in l + 1..l + n
      BY <1>1, <1>3, <1>9, <2>3
    <3>2. q[i].sequence = qSequence + (i - l) - 1 /\ q[j].sequence = qSequence + (j - l) - 1
          /\ q[i].key = k /\ q[j].key = k
      BY <1>5, <2>3, <3>1
    <3>3. q[i].sequence < q[j].sequence
      BY <1>1, <1>3, <1>9, <3>2
    <3> QED BY <1>5, <3>1, <3>2, <3>3
  <2> QED BY <1>3, <1>7, <2>1, <2>2, <2>3
<1>10. Ordered(q, qSequence + n, k)
  BY <1>8, <1>9 DEF Ordered
<1>11. ASSUME NEW j \in Responses \ {k} PROVE FramesAt(q, j) = FramesAt(qQueue, j)
  <2>1. \A i \in 1..l + n : q[i].key = j => i \in 1..l
    BY <1>5, <1>7
  <2> QED BY <1>1, <1>3, <1>4, <2>1 DEF FramesAt
<1>12. FramesAt(q, k) = FramesAt(qQueue, k) \cup l + 1..l + n
  <2>1. \A i \in 1..l + n : q[i].key = k <=> (i \in 1..l /\ qQueue[i].key = k) \/ i \in l + 1..l + n
    BY <1>4, <1>5, <1>7
  <2>2. \A i : i \in l + 1..l + n \/ i \in 1..l => i \in 1..l + n
    BY <1>1
  <2> QED BY <1>1, <1>3, <2>1, <2>2 DEF FramesAt
<1>13. Cardinality(FramesAt(q, k)) = Cardinality(FramesAt(qQueue, k)) + n
  <2>1. PICK A, B : A = FramesAt(qQueue, k) /\ B = l + 1..l + n
    OBVIOUS
  <2>2. IsFiniteSet(A) /\ Cardinality(A) \in Nat /\ A \subseteq 1..l
    BY <1>1, <2>1, FramesCounted
  <2>3. IsFiniteSet(B) /\ Cardinality(B) = n
    <3>1. /\ l + 1 \in Int /\ l + n \in Int
          /\ (IF l + 1 > l + n THEN 0 ELSE (l + n) - (l + 1) + 1) = n
      BY <1>1
    <3> QED BY <2>1, <3>1, FS_Interval
  <2>4. A \cap B = {}
    <3>1. \A i \in B : i \notin 1..l
      BY <1>1, <2>1
    <3> QED BY <2>2, <3>1
  <2>5. Cardinality(A \cup B) = Cardinality(A) + Cardinality(B) - Cardinality(A \cap B)
    BY <2>2, <2>3, FS_Union
  <2>6. Cardinality(A \cap B) = 0
    BY <2>4, FS_EmptySet
  <2> QED BY <1>12, <2>1, <2>2, <2>3, <2>5, <2>6
<1> QED BY <1>1, <1>3, <1>10, <1>11, <1>13

-----------------------------------------------------------------------------
(* PlayoutEngine: the state of a response, and what each operation does.   *)

Queued(k) == Cardinality(FramesAt(qQueue, k))
Heard(k) == Queued(k) + qDrained[k]

\* So many samples for the telephone are what n samples of the model's in c
\* chunks may have become.
Near(units, n, c) ==
  /\ 2 * (SourceRate * units) <= 2 * (TargetRate * n) + SourceRate * c
  /\ 2 * (TargetRate * n) <= 2 * (SourceRate * units) + SourceRate * c

Buffers == [odd : 0..1, units : 0..FrameUnits - 1]
Fed == [bytes : Nat, chunks : Nat]
NothingFed == [bytes |-> 0, chunks |-> 0]

\* What was said is in whole frames so far and in the buffer.
Converted(h, buffer, said) ==
  \E n \in Nat : /\ said.bytes = 2 * n + buffer.odd
                 /\ Near(FrameUnits * h + buffer.units, n, said.chunks)

\* A response that is closed is finished or canceled; one that has not been
\* started has nothing; of the active one the frames and the buffer hold what
\* was said; a canceled one has nothing left in the queue; a finished one is in
\* its frames, with its silence.
ResponseInv(k) ==
  /\ qEnded[k] = "no" <=> k \notin qClosed
  /\ k \notin qClosed /\ qActive # k =>
       qPending[k] = None /\ qFed[k] = NothingFed /\ qDrained[k] = 0 /\ Queued(k) = 0
  /\ qActive = k => qPending[k] \in Buffers /\ Converted(Heard(k), qPending[k], qFed[k])
  /\ qEnded[k] = "canceled" => Queued(k) = 0
  /\ qEnded[k] = "finished" => Playout!HoldsAllOf(Heard(k) - TailFrames, qFed[k])

PlayoutType ==
  /\ qQueue \in Seq(QueuedFrames)
  /\ qPending \in [Responses -> Buffers \cup {None}]
  /\ qActive \in Responses \cup {None}
  /\ qClosed \in SUBSET Responses
  /\ qSequence \in Nat
  /\ qFed \in [Responses -> Fed]
  /\ qEnded \in [Responses -> {"no", "finished", "canceled"}]
  /\ qDrained \in [Responses -> Nat]

PlayoutInv ==
  /\ PlayoutType
  /\ Ordered(qQueue, qSequence, qActive)
  /\ qActive \notin qClosed
  /\ \A k \in Responses : ResponseInv(k)

LEMMA QueuedCounts ==
  ASSUME PlayoutType, NEW k \in Responses
  PROVE  /\ Queued(k) \in Nat /\ Heard(k) \in Nat
         /\ Queued(k) = 0 <=> FramesAt(qQueue, k) = {}
<1>1. IsFiniteSet(FramesAt(qQueue, k)) /\ Queued(k) \in Nat
  BY FramesCounted DEF PlayoutType, Queued
<1>2. qDrained[k] \in Nat
  BY DEF PlayoutType
<1> QED BY <1>1, <1>2, FS_EmptySet DEF Queued, Heard

\* A response whose state and number of frames stay is as it was.
LEMMA OtherResponses ==
  ASSUME NEW k \in Responses, ResponseInv(k), Queued(k)' = Queued(k),
         qEnded'[k] = qEnded[k], qPending'[k] = qPending[k], qFed'[k] = qFed[k],
         qDrained'[k] = qDrained[k], k \in qClosed' <=> k \in qClosed,
         qActive' = k <=> qActive = k
  PROVE  ResponseInv(k)'
<1>1. Heard(k)' = Heard(k)
  BY DEF Heard
<1> QED BY <1>1 DEF ResponseInv, Converted, Near, Playout!HoldsAllOf

\* Frames may follow those of the active response, or of one that has none.
LEMMA MayFollow ==
  ASSUME PlayoutInv, NEW k \in Responses, k \notin qClosed, qActive \in {None, k}
  PROVE  Ordered(qQueue, qSequence, k)
<1>1. CASE qActive = k
  BY <1>1 DEF PlayoutInv
<1>2. CASE qActive = None
  <2>1. Queued(k) = 0
    BY <1>2, PlayoutAssumption DEF PlayoutInv, ResponseInv
  <2>2. \A i \in 1..Len(qQueue) : qQueue[i].key # k
    BY <2>1, QueuedCounts DEF PlayoutInv, FramesAt
  <2> QED BY <2>2 DEF PlayoutInv, Ordered
<1> QED BY <1>1, <1>2

\* Taking the frames of k out leaves those of the others, in their order.
LEMMA CancelTakes ==
  ASSUME PlayoutType, NEW k \in Responses, qQueue' = Playout!Cancel(k)
  PROVE  /\ qQueue' \in Seq(QueuedFrames)
         /\ \A a, top : Ordered(qQueue, top, a) => Ordered(qQueue', top, a)
         /\ Cardinality(FramesAt(qQueue', k)) = 0
         /\ \A j \in Responses \ {k} :
              Cardinality(FramesAt(qQueue', j)) = Cardinality(FramesAt(qQueue, j))
<1>1. qQueue \in Seq(QueuedFrames) /\ DOMAIN qQueue = 1..Len(qQueue)
  BY LenProperties DEF PlayoutType
<1>2. PICK places : places = (1..Len(qQueue)) \ FramesAt(qQueue, k)
  OBVIOUS
<1>3. qQueue' = Playout!Only(places)
  <2>1. Playout!FramesOf(k) = FramesAt(qQueue, k)
    BY <1>1 DEF Playout!FramesOf, FramesAt
  <2> QED BY <1>1, <1>2, <2>1 DEF Playout!Cancel, Playout!WithoutFramesOf
<1>4. places \in SUBSET (1..Len(qQueue))
  BY <1>2
<1>5. PICK r : r = qQueue'
  OBVIOUS
<1>6. r \in Seq(QueuedFrames) /\ Thinned(r, qQueue, places)
  BY <1>1, <1>3, <1>4, <1>5, OnlyThins
<1>7. \A j : Cardinality(FramesAt(r, j)) = Cardinality(FramesAt(qQueue, j) \cap places)
  BY <1>1, <1>4, <1>6, ThinnedCounts
<1>8. \A a, top : Ordered(qQueue, top, a) => Ordered(r, top, a)
  BY <1>1, <1>4, <1>6, ThinnedOrdered
<1>9. FramesAt(qQueue, k) \cap places = {} /\ Cardinality({}) = 0
  BY <1>2, FS_EmptySet
<1>10. \A j \in Responses \ {k} : FramesAt(qQueue, j) \cap places = FramesAt(qQueue, j)
  BY <1>2 DEF FramesAt
<1> QED BY <1>5, <1>6, <1>7, <1>8, <1>9, <1>10

\* No response has a buffer that is none.
LEMMA BuffersAre ==
  /\ None \notin Buffers
  /\ Playout!EmptyBuffer \in Buffers /\ Playout!EmptyBuffer = [odd |-> 0, units |-> 0]
<1>1. \A buffer \in Buffers : buffer \in [odd : 0..1, units : Nat]
  BY PlayoutAssumption DEF Buffers
<1>2. FrameUnits \in Nat \ {0}
  BY PlayoutAssumption
<1> QED BY <1>1, <1>2, PlayoutAssumption DEF Buffers, Playout!EmptyBuffer

\* Whole parts of a natural number and the rest.
LEMMA DivisionIs ==
  ASSUME NEW a \in Nat, NEW b \in Nat \ {0}
  PROVE  a \div b \in Nat /\ a % b \in 0..b - 1 /\ a = b * (a \div b) + (a % b)
OBVIOUS

\* Resampling is off by no more than half a sample.
LEMMA ResampledIs ==
  ASSUME NEW n \in Nat
  PROVE  Playout!Resampled(n) \in Nat /\ Near(Playout!Resampled(n), n, 1)
<1>1. PICK s \in Nat \ {0}, t \in Nat \ {0} : s = SourceRate /\ t = TargetRate
  BY PlayoutAssumption
<1>2. PICK a \in Nat : a = t * n
  <2>1. t * n \in Nat
    BY <1>1
  <2> QED BY <2>1
<1>3. PICK w \in Nat, r \in 0..s - 1 : w = a \div s /\ r = a % s /\ a = s * w + r
  BY <1>1, <1>2, DivisionIs
<1>4. n * t = a
  BY <1>1, <1>2
<1>5. PICK x \in {w, w + 1} :
        /\ x = Playout!Resampled(n)
        /\ x = w => 2 * r <= s
        /\ x = w + 1 => 2 * r >= s
  <2>1. Playout!Resampled(n) =
          IF 2 * r > s \/ (2 * r = s /\ w % 2 = 1) THEN w + 1 ELSE w
    BY <1>1, <1>3, <1>4 DEF Playout!Resampled
  <2>2. CASE 2 * r > s \/ (2 * r = s /\ w % 2 = 1)
    BY <1>1, <1>3, <2>1, <2>2
  <2>3. CASE ~(2 * r > s \/ (2 * r = s /\ w % 2 = 1))
    <3>1. 2 * r <= s
      BY <1>1, <1>3, <2>3
    <3> QED BY <1>3, <2>1, <2>3, <3>1
  <2> QED BY <2>2, <2>3
<1>6. s * (w + 1) = s * w + s /\ s * w \in Nat
  BY <1>1, <1>3
<1>7. 2 * (s * x) <= 2 * a + s /\ 2 * a <= 2 * (s * x) + s
  <2>1. CASE x = w
    BY <1>1, <1>3, <1>5, <1>6, <2>1
  <2>2. CASE x = w + 1
    BY <1>1, <1>3, <1>5, <1>6, <2>2
  <2> QED BY <2>1, <2>2
<1>8. s * 1 = s
  BY <1>1
<1> QED BY <1>1, <1>2, <1>3, <1>5, <1>7, <1>8 DEF Near

\* Another chunk adds its own rounding.
LEMMA NearAdds ==
  ASSUME NEW u \in Nat, NEW n \in Nat, NEW c \in Nat, Near(u, n, c),
         NEW v \in Nat, NEW m \in Nat, Near(v, m, 1)
  PROVE  Near(u + v, n + m, c + 1)
<1>1. PICK s \in Nat \ {0}, t \in Nat \ {0} : s = SourceRate /\ t = TargetRate
  BY PlayoutAssumption
<1>2. /\ s * (u + v) = s * u + s * v /\ t * (n + m) = t * n + t * m
      /\ s * (c + 1) = s * c + s * 1
  BY <1>1
<1>3. /\ s * u \in Nat /\ s * v \in Nat /\ t * n \in Nat /\ t * m \in Nat
      /\ s * c \in Nat /\ s * 1 \in Nat
  BY <1>1
<1>4. /\ 2 * (s * u) <= 2 * (t * n) + s * c /\ 2 * (t * n) <= 2 * (s * u) + s * c
      /\ 2 * (s * v) <= 2 * (t * m) + s * 1 /\ 2 * (t * m) <= 2 * (s * v) + s * 1
  BY <1>1 DEF Near
<1>5. /\ 2 * (s * (u + v)) <= 2 * (t * (n + m)) + s * (c + 1)
      /\ 2 * (t * (n + m)) <= 2 * (s * (u + v)) + s * (c + 1)
  BY <1>2, <1>3, <1>4
<1> QED BY <1>1, <1>5 DEF Near

\* A chunk is in the frames it makes and in the buffer it leaves.
LEMMA PushedIs ==
  ASSUME NEW h \in Nat, NEW buffer \in Buffers, NEW said \in Fed, NEW bytes \in ChunkSizes,
         Converted(h, buffer, said)
  PROVE  LET units == Playout!Pushed(buffer, bytes)
             left  == [odd |-> (buffer.odd + bytes) % 2, units |-> units % FrameUnits]
             more  == [bytes |-> said.bytes + bytes, chunks |-> said.chunks + 1]
         IN /\ units \div FrameUnits \in Nat /\ left \in Buffers /\ more \in Fed
            /\ Converted(h + (units \div FrameUnits), left, more)
<1>1. PICK f \in Nat \ {0} : f = FrameUnits
  BY PlayoutAssumption
<1>2. PICK o \in 0..1, p \in Nat, b \in Nat, c \in Nat, d \in Nat :
        /\ o = buffer.odd /\ p = buffer.units /\ b = said.bytes /\ c = said.chunks /\ d = bytes
  BY <1>1, PlayoutAssumption DEF Buffers, Fed
<1>3. PICK n \in Nat : b = 2 * n + o /\ Near(f * h + p, n, c)
  BY <1>1, <1>2 DEF Converted
<1>4. PICK m \in Nat, e \in 0..1 :
        /\ m = (o + d) \div 2 /\ e = (o + d) % 2 /\ o + d = 2 * m + e
  <2>1. o + d \in Nat
    BY <1>2
  <2>2. /\ (o + d) \div 2 \in Nat /\ (o + d) % 2 \in 0..1
        /\ o + d = 2 * ((o + d) \div 2) + ((o + d) % 2)
    BY <2>1, DivisionIs
  <2> QED BY <2>2
<1>5. PICK v \in Nat : v = Playout!Resampled(m) /\ Near(v, m, 1)
  BY ResampledIs
<1>6. PICK units \in Nat : units = Playout!Pushed(buffer, bytes) /\ units = p + v
  <2>1. p + v \in Nat
    BY <1>2, <1>5
  <2>2. Playout!Pushed(buffer, bytes) = p + v
    BY <1>2, <1>4, <1>5 DEF Playout!Pushed
  <2> QED BY <2>1, <2>2
<1>7. PICK g \in Nat, r \in 0..f - 1 :
        g = units \div f /\ r = units % f /\ units = f * g + r
  <2>1. units \div f \in Nat /\ units % f \in 0..f - 1
        /\ units = f * (units \div f) + (units % f)
    BY <1>1, DivisionIs
  <2> QED BY <2>1
<1>8. f * h + p \in Nat /\ f * (h + g) + r = (f * h + p) + v
  <2>1. f * (h + g) = f * h + f * g /\ f * h \in Nat /\ f * g \in Nat
    BY <1>1, <1>7
  <2>2. f * g + r = p + v
    BY <1>6, <1>7
  <2> QED BY <1>1, <1>2, <1>5, <1>7, <2>1, <2>2
<1>9. Near(f * (h + g) + r, n + m, c + 1)
  BY <1>2, <1>3, <1>4, <1>5, <1>8, NearAdds
<1>10. b + d = 2 * (n + m) + e /\ n + m \in Nat
  <2>1. b = 2 * n + o /\ o + d = 2 * m + e /\ o \in Int
    BY <1>2, <1>3, <1>4
  <2> QED BY <2>1
<1>11. [odd |-> e, units |-> r] \in Buffers /\ [bytes |-> b + d, chunks |-> c + 1] \in Fed
  <2>1. b + d \in Nat /\ c + 1 \in Nat /\ r \in 0..FrameUnits - 1
    BY <1>1
  <2> QED BY <2>1 DEF Buffers, Fed
<1>12. Converted(h + g, [odd |-> e, units |-> r], [bytes |-> b + d, chunks |-> c + 1])
  BY <1>1, <1>9, <1>10 DEF Converted
<1>13. /\ Playout!Pushed(buffer, bytes) = units /\ (buffer.odd + bytes) % 2 = e
       /\ said.bytes + bytes = b + d /\ said.chunks + 1 = c + 1
  BY <1>2, <1>4, <1>6
<1>14. units \div FrameUnits = g /\ units % FrameUnits = r
  BY <1>1, <1>7
<1> QED BY <1>7, <1>11, <1>12, <1>13, <1>14

\* With an odd byte's sample and the padding of the last frame, the frames hold
\* what was said.
LEMMA FlushedIs ==
  ASSUME NEW h \in Nat, NEW buffer \in Buffers, NEW said \in Fed, Converted(h, buffer, said)
  PROVE  /\ Playout!Flushed(buffer) \in Nat
         /\ Playout!HoldsAllOf(h + Playout!Flushed(buffer), said)
<1>1. PICK f \in Nat \ {0}, s \in Nat \ {0}, t \in Nat \ {0} :
        f = FrameUnits /\ s = SourceRate /\ t = TargetRate
  BY PlayoutAssumption
<1>2. PICK o \in 0..1, p \in Nat, b \in Nat, c \in Nat :
        o = buffer.odd /\ p = buffer.units /\ b = said.bytes /\ c = said.chunks
  BY <1>1 DEF Buffers, Fed
<1>3. PICK n \in Nat : b = 2 * n + o /\ Near(f * h + p, n, c)
  BY <1>1, <1>2 DEF Converted
<1>4. PICK v \in Nat : v = Playout!Resampled(o) /\ Near(v, o, 1)
  BY ResampledIs
<1>5. PICK g \in Nat, r \in 0..f - 1 :
        g = (p + v + f - 1) \div f /\ p + v + f - 1 = f * g + r
  <2>1. p + v + f - 1 \in Nat
    BY <1>1, <1>2, <1>4
  <2> DEFINE a == p + v + f - 1
  <2>2. a \div f \in Nat /\ a % f \in 0..f - 1 /\ a = f * (a \div f) + (a % f)
    BY <1>1, <2>1, DivisionIs
  <2> QED BY <2>2
<1>6. Playout!Flushed(buffer) = g
  BY <1>1, <1>2, <1>4, <1>5 DEF Playout!Flushed
<1>7. PICK u \in Nat, F \in Nat :
        /\ u = f * h + p + v /\ F = f * (h + g)
        /\ Near(u, n + o, c + 1)
        /\ u <= F /\ F < u + f
  <2>1. f * (h + g) = f * h + f * g /\ f * h \in Nat /\ f * g \in Nat
    BY <1>1, <1>5
  <2>2. f * h + p \in Nat /\ f * h + p + v \in Nat /\ f * (h + g) \in Nat
    BY <1>2, <1>4, <2>1, <1>5
  <2>3. Near((f * h + p) + v, n + o, c + 1)
    BY <1>2, <1>3, <1>4, <2>2, NearAdds
  <2>4. f * h + p + v <= f * (h + g) /\ f * (h + g) < f * h + p + v + f
    BY <1>1, <1>2, <1>4, <1>5, <2>1
  <2> QED BY <2>2, <2>3, <2>4
<1>8. (b + 1) \div 2 = n + o
  <2>1. CASE o = 0
    BY <1>3, <2>1
  <2>2. CASE o = 1
    BY <1>3, <2>2
  <2> QED BY <1>2, <2>1, <2>2
<1>9. /\ 2 * (s * u) <= 2 * (t * (n + o)) + s * (c + 1)
      /\ 2 * (t * (n + o)) <= 2 * (s * u) + s * (c + 1)
  BY <1>1, <1>7 DEF Near
<1>10. s * u <= s * F /\ s * (F - f) < s * u
  BY <1>1, <1>7
<1>11. /\ 2 * s * f * (h + g) = 2 * (s * F)
       /\ 2 * s * f * (h + g - 1) = 2 * (s * (F - f))
       /\ 2 * t * (n + o) = 2 * (t * (n + o))
  <2>1. f * (h + g - 1) = F - f
    BY <1>1, <1>5, <1>7
  <2>2. 2 * s * f * (h + g - 1) = 2 * (s * (f * (h + g - 1)))
    BY <1>1, <1>5
  <2>3. 2 * s * f * (h + g) = 2 * (s * (f * (h + g)))
    BY <1>1, <1>5
  <2> QED BY <1>1, <1>2, <1>3, <1>7, <2>1, <2>2, <2>3
<1>12. /\ s * u \in Int /\ s * F \in Int /\ s * (F - f) \in Int
       /\ t * (n + o) \in Int /\ s * (c + 1) \in Int
  BY <1>1, <1>2, <1>3, <1>7
<1>13. /\ 2 * s * f * (h + g - 1) < 2 * t * (n + o) + s * (c + 1)
       /\ 2 * t * (n + o) <= 2 * s * f * (h + g) + s * (c + 1)
  BY <1>9, <1>10, <1>11, <1>12
<1> QED BY <1>1, <1>2, <1>5, <1>6, <1>8, <1>13 DEF Playout!HoldsAllOf

\* Nothing has been said and nothing is heard.
LEMMA NothingConverted ==
  Converted(0, Playout!EmptyBuffer, NothingFed)
<1>1. PICK f \in Nat, s \in Nat, t \in Nat : f = FrameUnits /\ s = SourceRate /\ t = TargetRate
  BY PlayoutAssumption
<1>2. f * 0 + 0 = 0 /\ s * 0 = 0 /\ t * 0 = 0
  BY <1>1
<1>3. Near(FrameUnits * 0 + 0, 0, 0)
  BY <1>1, <1>2 DEF Near
<1>4. 0 = 2 * 0 + 0 /\ 0 \in Nat
  OBVIOUS
<1> QED BY <1>3, <1>4 DEF Converted, NothingFed, Playout!EmptyBuffer

LEMMA StartKept ==
  ASSUME PlayoutInv, NEW k \in Responses, Playout!StartResponse(k)
  PROVE  PlayoutInv'
<1>1. /\ k \notin qClosed /\ qActive # k /\ qActive' = k
      /\ qSequence' = qSequence /\ qFed' = qFed /\ qDrained' = qDrained
  BY DEF Playout!StartResponse
<1>2. /\ qPending[k] = None /\ qFed[k] = NothingFed /\ qDrained[k] = 0 /\ Queued(k) = 0
      /\ qEnded[k] = "no"
  BY <1>1 DEF PlayoutInv, ResponseInv
<1>3. \A i \in 1..Len(qQueue) : qQueue[i].key # k
  BY <1>2, QueuedCounts DEF PlayoutInv, FramesAt
<1>4. Ordered(qQueue, qSequence, k)
  BY <1>3 DEF PlayoutInv, Ordered
<1>5. CASE qActive = None
  <2>1. /\ qPending' = [qPending EXCEPT ![k] = Playout!EmptyBuffer]
        /\ qQueue' = qQueue /\ qClosed' = qClosed /\ qEnded' = qEnded
    BY <1>2, <1>5 DEF Playout!StartResponse
  <2>2. PlayoutType'
    BY <1>1, <2>1, BuffersAre DEF PlayoutInv, PlayoutType
  <2>3. ASSUME NEW j \in Responses PROVE ResponseInv(j)'
    <3>1. Queued(j)' = Queued(j)
      BY <2>1 DEF Queued
    <3>2. CASE j # k
      <4>1. /\ qPending'[j] = qPending[j] /\ qEnded'[j] = qEnded[j] /\ qFed'[j] = qFed[j]
            /\ qDrained'[j] = qDrained[j] /\ qActive' # j /\ qActive # j
        BY <1>1, <1>5, <2>1, <3>2, PlayoutAssumption
      <4> QED BY <2>1, <3>1, <4>1, OtherResponses DEF PlayoutInv
    <3>3. CASE j = k
      <4>1. qPending'[k] = Playout!EmptyBuffer /\ Heard(k)' = 0
        BY <1>1, <1>2, <2>1, <3>1, <3>3 DEF PlayoutInv, PlayoutType, Heard
      <4> QED BY <1>1, <1>2, <2>1, <3>3, <4>1, NothingConverted, BuffersAre DEF ResponseInv
    <3> QED BY <3>2, <3>3
  <2>4. Ordered(qQueue', qSequence', qActive') /\ qActive' \notin qClosed'
    BY <1>1, <1>4, <2>1
  <2> QED BY <2>2, <2>3, <2>4 DEF PlayoutInv
<1>6. CASE qActive # None
  <2>1. /\ qPending' = [qPending EXCEPT ![qActive] = None, ![k] = Playout!EmptyBuffer]
        /\ qQueue' = Playout!Cancel(qActive) /\ qClosed' = qClosed \cup {qActive}
        /\ Playout!End(qActive, "canceled")
    BY <1>1, <1>2, <1>6 DEF Playout!StartResponse
  <2>2. PICK a \in Responses : a = qActive
    BY <1>6 DEF PlayoutInv, PlayoutType
  <2>3. qEnded[a] = "no"
    BY <2>2 DEF PlayoutInv, ResponseInv
  <2>4. qEnded' = [qEnded EXCEPT ![a] = "canceled"]
    BY <2>1, <2>2, <2>3 DEF Playout!End
  <2>5. /\ qQueue' \in Seq(QueuedFrames)
        /\ Ordered(qQueue', qSequence, k)
        /\ Cardinality(FramesAt(qQueue', a)) = 0
        /\ \A j \in Responses \ {a} :
             Cardinality(FramesAt(qQueue', j)) = Cardinality(FramesAt(qQueue, j))
    BY <1>4, <2>1, <2>2, CancelTakes DEF PlayoutInv
  <2>6. PlayoutType'
    BY <1>1, <2>1, <2>2, <2>4, <2>5, BuffersAre DEF PlayoutInv, PlayoutType
  <2>7. ASSUME NEW j \in Responses PROVE ResponseInv(j)'
    <3>1. CASE j = k
      <4>1. Queued(k)' = 0
        BY <1>1, <1>2, <2>2, <2>5 DEF Queued
      <4>2. /\ qPending'[k] = Playout!EmptyBuffer /\ Heard(k)' = 0
            /\ qEnded'[k] = "no" /\ k \notin qClosed'
        BY <1>1, <1>2, <2>1, <2>2, <2>4, <4>1 DEF PlayoutInv, PlayoutType, Heard
      <4> QED BY <1>1, <1>2, <3>1, <4>1, <4>2, NothingConverted, BuffersAre DEF ResponseInv
    <3>2. CASE j = a
      <4>1. /\ qEnded'[a] = "canceled" /\ a \in qClosed' /\ qActive' # a /\ Queued(a)' = 0
        BY <1>1, <2>1, <2>2, <2>4, <2>5 DEF PlayoutInv, PlayoutType, Queued
      <4> QED BY <3>2, <4>1 DEF ResponseInv
    <3>3. CASE j # k /\ j # a
      <4>1. /\ qPending'[j] = qPending[j] /\ qEnded'[j] = qEnded[j] /\ qFed'[j] = qFed[j]
            /\ qDrained'[j] = qDrained[j] /\ qActive' # j /\ qActive # j
            /\ (j \in qClosed' <=> j \in qClosed) /\ Queued(j)' = Queued(j)
        BY <1>1, <2>1, <2>2, <2>4, <2>5, <3>3 DEF PlayoutInv, PlayoutType, Queued
      <4> QED BY <4>1, OtherResponses DEF PlayoutInv
    <3> QED BY <3>1, <3>2, <3>3
  <2>8. qActive' \notin qClosed' /\ Ordered(qQueue', qSequence', qActive')
    BY <1>1, <2>1, <2>2, <2>5
  <2> QED BY <2>6, <2>7, <2>8 DEF PlayoutInv
<1> QED BY <1>5, <1>6

LEMMA AppendKept ==
  ASSUME PlayoutInv, NEW k \in Responses, NEW bytes \in ChunkSizes,
         Playout!AppendAudio(k, bytes)
  PROVE  PlayoutInv'
<1>1. k \notin qClosed /\ qActive \in {None, k} /\ qActive' = k
  BY DEF Playout!AppendAudio
<1>2. PICK p : p = IF qPending[k] = None THEN Playout!EmptyBuffer ELSE qPending[k]
  OBVIOUS
<1>3. PICK h \in Nat : h = Heard(k)
  BY QueuedCounts DEF PlayoutInv
<1>4. p \in Buffers /\ qFed[k] \in Fed /\ Converted(h, p, qFed[k])
  <2>1. qFed[k] \in Fed
    BY DEF PlayoutInv, PlayoutType
  <2>2. CASE qActive = k
    <3>1. qPending[k] \in Buffers /\ Converted(h, qPending[k], qFed[k])
      BY <1>3, <2>2 DEF PlayoutInv, ResponseInv
    <3>2. p = qPending[k]
      BY <1>2, <3>1, BuffersAre
    <3> QED BY <2>1, <3>1, <3>2
  <2>3. CASE qActive = None
    <3>1. qActive # k
      BY <2>3, PlayoutAssumption
    <3>2. p = Playout!EmptyBuffer /\ h = 0 /\ qFed[k] = NothingFed
      BY <1>1, <1>2, <1>3, <3>1 DEF PlayoutInv, ResponseInv, Heard
    <3> QED BY <2>1, <3>2, NothingConverted, BuffersAre
  <2> QED BY <1>1, <2>2, <2>3
<1>5. PICK units, n, left, more :
        /\ units = Playout!Pushed(p, bytes) /\ n = units \div FrameUnits
        /\ left = [odd |-> (p.odd + bytes) % 2, units |-> units % FrameUnits]
        /\ more = [bytes |-> qFed[k].bytes + bytes, chunks |-> qFed[k].chunks + 1]
  OBVIOUS
<1>6. n \in Nat /\ left \in Buffers /\ more \in Fed /\ Converted(h + n, left, more)
  BY <1>4, <1>5, PushedIs
<1>7. /\ qQueue' = qQueue \o Playout!Frames(k, n) /\ qSequence' = qSequence + n
      /\ qPending' = [qPending EXCEPT ![k] = left] /\ qFed' = [qFed EXCEPT ![k] = more]
      /\ qClosed' = qClosed /\ qEnded' = qEnded /\ qDrained' = qDrained
  BY <1>2, <1>5 DEF Playout!AppendAudio
<1>8. /\ qQueue' \in Seq(QueuedFrames) /\ Ordered(qQueue', qSequence', k)
      /\ \A j \in Responses \ {k} : FramesAt(qQueue', j) = FramesAt(qQueue, j)
      /\ Cardinality(FramesAt(qQueue', k)) = Cardinality(FramesAt(qQueue, k)) + n
  BY <1>1, <1>6, <1>7, MayFollow, FramesJoin DEF PlayoutInv, PlayoutType
<1>9. PlayoutType'
  <2>1. qSequence' \in Nat
    BY <1>6, <1>7 DEF PlayoutInv, PlayoutType
  <2>2. qPending' \in [Responses -> Buffers \cup {None}] /\ qFed' \in [Responses -> Fed]
    BY <1>6, <1>7 DEF PlayoutInv, PlayoutType
  <2> QED BY <1>1, <1>7, <1>8, <2>1, <2>2 DEF PlayoutInv, PlayoutType
<1>10. ASSUME NEW j \in Responses PROVE ResponseInv(j)'
  <2>1. CASE j # k
    <3>1. /\ qPending'[j] = qPending[j] /\ qEnded'[j] = qEnded[j] /\ qFed'[j] = qFed[j]
          /\ qDrained'[j] = qDrained[j] /\ qActive' # j /\ qActive # j
          /\ (j \in qClosed' <=> j \in qClosed) /\ Queued(j)' = Queued(j)
      BY <1>1, <1>7, <1>8, <2>1, PlayoutAssumption DEF PlayoutInv, PlayoutType, Queued
    <3> QED BY <3>1, OtherResponses DEF PlayoutInv
  <2>2. CASE j = k
    <3>1. Heard(k)' = h + n
      <4>1. Queued(k)' = Queued(k) + n /\ qDrained'[k] = qDrained[k]
        BY <1>7, <1>8 DEF Queued
      <4>2. Queued(k) \in Nat /\ qDrained[k] \in Nat
        BY QueuedCounts DEF PlayoutInv, PlayoutType
      <4> QED BY <1>3, <1>6, <4>1, <4>2 DEF Heard
    <3>2. qPending'[k] = left /\ qFed'[k] = more
      BY <1>7 DEF PlayoutInv, PlayoutType
    <3>3. qEnded'[k] = "no" /\ k \notin qClosed'
      BY <1>1, <1>7 DEF PlayoutInv, ResponseInv
    <3>4. Converted(Heard(k), qPending[k], qFed[k])'
      BY <1>6, <3>1, <3>2 DEF Converted, Near
    <3> QED BY <1>1, <1>6, <2>2, <3>2, <3>3, <3>4 DEF ResponseInv
  <2> QED BY <2>1, <2>2
<1>11. qActive' \notin qClosed' /\ Ordered(qQueue', qSequence', qActive')
  BY <1>1, <1>7, <1>8
<1> QED BY <1>9, <1>10, <1>11 DEF PlayoutInv

LEMMA FinishKept ==
  ASSUME PlayoutInv, NEW k \in Responses, Playout!FinishResponse(k)
  PROVE  PlayoutInv'
<1>1. PICK p, n : p = qPending[k] /\ n = Playout!Flushed(p) + TailFrames
  OBVIOUS
<1>2. /\ k \notin qClosed /\ qActive = k /\ qActive' = None
      /\ qQueue' = qQueue \o Playout!Frames(k, n) /\ qSequence' = qSequence + n
      /\ qPending' = [qPending EXCEPT ![k] = None] /\ qClosed' = qClosed \cup {k}
      /\ qFed' = qFed /\ qDrained' = qDrained /\ Playout!End(k, "finished")
  BY <1>1 DEF Playout!FinishResponse
<1>3. PICK h \in Nat : h = Heard(k)
  BY QueuedCounts DEF PlayoutInv
<1>4. /\ p \in Buffers /\ qFed[k] \in Fed /\ Converted(h, p, qFed[k])
      /\ qEnded[k] = "no"
  BY <1>1, <1>2, <1>3 DEF PlayoutInv, PlayoutType, ResponseInv
<1>5. /\ Playout!Flushed(p) \in Nat
      /\ Playout!HoldsAllOf(h + Playout!Flushed(p), qFed[k])
  BY <1>4, FlushedIs
<1>6. n \in Nat
  BY <1>1, <1>5, PlayoutAssumption
<1>7. /\ qQueue' \in Seq(QueuedFrames) /\ Ordered(qQueue', qSequence', k)
      /\ \A j \in Responses \ {k} : FramesAt(qQueue', j) = FramesAt(qQueue, j)
      /\ Cardinality(FramesAt(qQueue', k)) = Cardinality(FramesAt(qQueue, k)) + n
  BY <1>2, <1>6, MayFollow, FramesJoin DEF PlayoutInv, PlayoutType
<1>8. qEnded' = [qEnded EXCEPT ![k] = "finished"]
  BY <1>2, <1>4 DEF Playout!End
<1>9. PlayoutType'
  <2>1. qSequence' \in Nat
    BY <1>2, <1>6 DEF PlayoutInv, PlayoutType
  <2> QED BY <1>2, <1>7, <1>8, <2>1 DEF PlayoutInv, PlayoutType
<1>10. ASSUME NEW j \in Responses PROVE ResponseInv(j)'
  <2>1. CASE j # k
    <3>1. /\ qPending'[j] = qPending[j] /\ qEnded'[j] = qEnded[j] /\ qFed'[j] = qFed[j]
          /\ qDrained'[j] = qDrained[j] /\ qActive' # j /\ qActive # j
          /\ (j \in qClosed' <=> j \in qClosed) /\ Queued(j)' = Queued(j)
      BY <1>2, <1>7, <1>8, <2>1, PlayoutAssumption DEF PlayoutInv, PlayoutType, Queued
    <3> QED BY <3>1, OtherResponses DEF PlayoutInv
  <2>2. CASE j = k
    <3>1. Heard(k)' = h + n
      <4>1. Queued(k)' = Queued(k) + n /\ qDrained'[k] = qDrained[k]
        BY <1>2, <1>7 DEF Queued
      <4>2. Queued(k) \in Nat /\ qDrained[k] \in Nat
        BY QueuedCounts DEF PlayoutInv, PlayoutType
      <4> QED BY <1>3, <1>6, <4>1, <4>2 DEF Heard
    <3>2. Playout!HoldsAllOf(Heard(k) - TailFrames, qFed[k])'
      <4>1. Heard(k)' - TailFrames = h + Playout!Flushed(p)
        BY <1>1, <1>5, <3>1, PlayoutAssumption
      <4> QED BY <1>2, <1>5, <4>1 DEF Playout!HoldsAllOf
    <3>3. qEnded'[k] = "finished" /\ k \in qClosed' /\ qActive' # k
      BY <1>2, <1>8, PlayoutAssumption DEF PlayoutInv, PlayoutType
    <3> QED BY <2>2, <3>2, <3>3 DEF ResponseInv
  <2> QED BY <2>1, <2>2
<1>11. qActive' \notin qClosed' /\ Ordered(qQueue', qSequence', qActive')
  <2>1. qActive' \notin qClosed'
    BY <1>2, PlayoutAssumption DEF PlayoutInv, PlayoutType
  <2>2. \A i \in 1..Len(qQueue') : qQueue'[i].key # None
    <3>1. \A i \in 1..Len(qQueue') : qQueue'[i] \in QueuedFrames
      BY <1>7, ElementOfSeq
    <3> QED BY <3>1, PlayoutAssumption DEF QueuedFrames
  <2>3. Ordered(qQueue', qSequence', None)
    BY <1>7, <2>2 DEF Ordered
  <2> QED BY <1>2, <2>1, <2>3
<1> QED BY <1>9, <1>10, <1>11 DEF PlayoutInv

LEMMA CancelKept ==
  ASSUME PlayoutInv, NEW k \in Responses, Playout!CancelResponse(k)
  PROVE  PlayoutInv'
<1>1. /\ qQueue' = Playout!Cancel(k) /\ qPending' = [qPending EXCEPT ![k] = None]
      /\ qClosed' = qClosed \cup {k} /\ qActive' = (IF qActive = k THEN None ELSE qActive)
      /\ qEnded' = [qEnded EXCEPT ![k] = "canceled"]
      /\ qSequence' = qSequence /\ qFed' = qFed /\ qDrained' = qDrained
  BY DEF Playout!CancelResponse
<1>2. /\ qQueue' \in Seq(QueuedFrames)
      /\ Ordered(qQueue', qSequence, qActive)
      /\ Cardinality(FramesAt(qQueue', k)) = 0
      /\ \A j \in Responses \ {k} :
           Cardinality(FramesAt(qQueue', j)) = Cardinality(FramesAt(qQueue, j))
  BY <1>1, CancelTakes DEF PlayoutInv
<1>3. PlayoutType'
  BY <1>1, <1>2 DEF PlayoutInv, PlayoutType
<1>4. ASSUME NEW j \in Responses PROVE ResponseInv(j)'
  <2>1. CASE j # k
    <3>1. /\ qPending'[j] = qPending[j] /\ qEnded'[j] = qEnded[j] /\ qFed'[j] = qFed[j]
          /\ qDrained'[j] = qDrained[j] /\ (j \in qClosed' <=> j \in qClosed)
          /\ Queued(j)' = Queued(j)
      BY <1>1, <1>2, <2>1 DEF PlayoutInv, PlayoutType, Queued
    <3>2. qActive' = j <=> qActive = j
      BY <1>1, <2>1, PlayoutAssumption
    <3> QED BY <3>1, <3>2, OtherResponses DEF PlayoutInv
  <2>2. CASE j = k
    <3>1. qEnded'[k] = "canceled" /\ k \in qClosed' /\ Queued(k)' = 0
      BY <1>1, <1>2 DEF PlayoutInv, PlayoutType, Queued
    <3>2. qActive' # k
      BY <1>1, PlayoutAssumption
    <3> QED BY <2>2, <3>1, <3>2 DEF ResponseInv
  <2> QED BY <2>1, <2>2
<1>5. qActive' \notin qClosed' /\ Ordered(qQueue', qSequence', qActive')
  <2>1. CASE qActive = k
    <3>1. qActive' = None /\ None \notin qClosed'
      BY <1>1, <2>1, PlayoutAssumption DEF PlayoutInv, PlayoutType
    <3>2. \A i \in 1..Len(qQueue') : qQueue'[i].key # None
      <4>1. \A i \in 1..Len(qQueue') : qQueue'[i] \in QueuedFrames
        BY <1>2, ElementOfSeq
      <4> QED BY <4>1, PlayoutAssumption DEF QueuedFrames
    <3>3. Ordered(qQueue', qSequence, None)
      BY <1>2, <3>2 DEF Ordered
    <3> QED BY <1>1, <3>1, <3>3
  <2>2. CASE qActive # k
    BY <1>1, <1>2, <2>2 DEF PlayoutInv
  <2> QED BY <2>1, <2>2
<1> QED BY <1>3, <1>4, <1>5 DEF PlayoutInv

\* What is drained of a response is taken out of its frames.
LEMMA DrainKept ==
  ASSUME PlayoutInv, NEW n, Playout!DrainFrames(n)
  PROVE  PlayoutInv'
<1>1. /\ n \in 1..Len(qQueue) /\ qQueue' = SubSeq(qQueue, n + 1, Len(qQueue))
      /\ qPending' = qPending /\ qActive' = qActive /\ qClosed' = qClosed
      /\ qSequence' = qSequence /\ qFed' = qFed /\ qEnded' = qEnded
  BY DEF Playout!DrainFrames
<1>2. qQueue \in Seq(QueuedFrames) /\ Len(qQueue) \in Nat /\ DOMAIN qQueue = 1..Len(qQueue)
  BY LenProperties DEF PlayoutInv, PlayoutType
<1>3. \A S : Playout!Cardinality(S) = Cardinality(S)
  BY DEF Playout!Cardinality, Cardinality, Playout!IsFiniteSet, IsFiniteSet
<1>4. qDrained' = [j \in Responses |-> qDrained[j] + Cardinality(FramesAt(qQueue, j) \cap 1..n)]
  BY <1>2, <1>3 DEF Playout!DrainFrames, Playout!FramesOf, FramesAt
<1>5. PICK r, places : r = qQueue' /\ places = n + 1..Len(qQueue)
  OBVIOUS
<1>6. r \in Seq(QueuedFrames) /\ Thinned(r, qQueue, places) /\ places \in SUBSET (1..Len(qQueue))
  <2>1. places \in SUBSET (1..Len(qQueue))
    BY <1>1, <1>2, <1>5
  <2> QED BY <1>1, <1>2, <1>5, <2>1, DrainThins
<1>7. ASSUME NEW j \in Responses
      PROVE  /\ Queued(j)' \in Nat /\ qDrained'[j] \in Nat
             /\ Queued(j)' + qDrained'[j] = Queued(j) + qDrained[j]
             /\ Queued(j) = 0 => Queued(j)' = 0 /\ qDrained'[j] = qDrained[j]
  <2>1. PICK A, B : A = FramesAt(qQueue, j) \cap 1..n /\ B = FramesAt(qQueue, j) \cap places
    OBVIOUS
  <2>2. FramesAt(qQueue, j) = A \cup B /\ A \cap B = {}
    <3>1. \A i \in 1..Len(qQueue) : i \in 1..n \/ i \in places
      BY <1>1, <1>2, <1>5
    <3>2. \A i \in 1..n : i \notin places
      BY <1>1, <1>2, <1>5
    <3> QED BY <2>1, <3>1, <3>2 DEF FramesAt
  <2>3. /\ IsFiniteSet(A) /\ IsFiniteSet(B) /\ Cardinality(A) \in Nat /\ Cardinality(B) \in Nat
    <3>1. IsFiniteSet(FramesAt(qQueue, j))
      BY <1>2, FramesCounted
    <3>2. IsFiniteSet(A) /\ IsFiniteSet(B)
      BY <2>1, <3>1, FS_Subset
    <3> QED BY <3>2, FS_CardinalityType
  <2>4. Cardinality(FramesAt(qQueue, j)) = Cardinality(A) + Cardinality(B)
    <3>1. Cardinality(A \cup B) = Cardinality(A) + Cardinality(B) - Cardinality(A \cap B)
      BY <2>3, FS_Union
    <3>2. Cardinality(A \cap B) = 0
      BY <2>2, FS_EmptySet
    <3> QED BY <2>2, <2>3, <3>1, <3>2
  <2>5. Queued(j)' = Cardinality(B) /\ Queued(j) = Cardinality(A) + Cardinality(B)
    <3>1. Cardinality(FramesAt(r, j)) = Cardinality(B)
      BY <1>2, <1>6, <2>1, ThinnedCounts
    <3>2. Queued(j)' = Cardinality(FramesAt(r, j))
      BY <1>5 DEF Queued
    <3> QED BY <2>4, <3>1, <3>2 DEF Queued
  <2>6. qDrained'[j] = qDrained[j] + Cardinality(A) /\ qDrained[j] \in Nat
    BY <1>4, <2>1 DEF PlayoutInv, PlayoutType
  <2> QED BY <2>3, <2>5, <2>6
<1>8. PlayoutType'
  <2>1. qDrained' \in [Responses -> Nat]
    BY <1>4, <1>7
  <2> QED BY <1>1, <1>5, <1>6, <2>1 DEF PlayoutInv, PlayoutType
<1>9. ASSUME NEW j \in Responses PROVE ResponseInv(j)'
  <2>1. Heard(j)' = Heard(j)
    BY <1>7 DEF Heard
  <2>2. Queued(j) = 0 => Queued(j)' = 0 /\ qDrained'[j] = qDrained[j]
    BY <1>7
  <2>3. ResponseInv(j)
    BY DEF PlayoutInv
  <2> QED BY <1>1, <2>1, <2>2, <2>3 DEF ResponseInv, Converted, Near, Playout!HoldsAllOf
<1>10. Ordered(qQueue', qSequence', qActive') /\ qActive' \notin qClosed'
  <2>1. Ordered(r, qSequence, qActive)
    BY <1>2, <1>6, ThinnedOrdered DEF PlayoutInv
  <2> QED BY <1>1, <1>5, <2>1 DEF PlayoutInv
<1> QED BY <1>8, <1>9, <1>10 DEF PlayoutInv

\* Nothing more is heard of a canceled response; a finished one is heard whole,
\* to the rounding of its chunks, and with its silence; responses are heard one
\* after another.
THEOREM HeardWhole == Spec => []PlayedWhole
<1>1. Playout!Init => PlayoutInv
  <2> SUFFICES ASSUME Playout!Init PROVE PlayoutInv
    OBVIOUS
  <2>1. /\ qQueue = <<>> /\ qPending = [k \in Responses |-> None] /\ qActive = None
        /\ qClosed = {} /\ qSequence = 0 /\ qFed = [k \in Responses |-> NothingFed]
        /\ qEnded = [k \in Responses |-> "no"] /\ qDrained = [k \in Responses |-> 0]
    BY DEF Playout!Init, NothingFed
  <2>2. qQueue \in Seq(QueuedFrames) /\ 1..Len(qQueue) = {}
    <3>1. <<>> \in Seq(QueuedFrames) /\ Len(<<>>) = 0 /\ 1..0 = {}
      BY EmptySeq
    <3> QED BY <2>1, <3>1
  <2>3. PlayoutType
    <3>1. NothingFed \in Fed
      BY DEF NothingFed, Fed
    <3> QED BY <2>1, <2>2, <3>1 DEF PlayoutType
  <2>4. \A k \in Responses : Queued(k) = 0
    BY <2>2, <2>3, QueuedCounts DEF FramesAt
  <2>5. Ordered(qQueue, qSequence, qActive)
    BY <2>2 DEF Ordered
  <2>6. \A k \in Responses : ResponseInv(k)
    BY <2>1, <2>4, PlayoutAssumption DEF ResponseInv
  <2> QED BY <2>1, <2>3, <2>5, <2>6 DEF PlayoutInv
<1>2. PlayoutInv /\ [Next]_vars => PlayoutInv'
  <2> SUFFICES ASSUME PlayoutInv, [Next]_vars PROVE PlayoutInv'
    OBVIOUS
  <2>1. [Playout!Next]_(Playout!vars)
    BY PartsStep
  <2>2. CASE UNCHANGED Playout!vars
    <3>1. PlayoutType' /\ Ordered(qQueue', qSequence', qActive') /\ qActive' \notin qClosed'
      BY <2>2 DEF Playout!vars, PlayoutInv, PlayoutType, Ordered
    <3>2. \A k \in Responses : Queued(k)' = Queued(k)
      BY <2>2 DEF Playout!vars, Queued
    <3>3. ASSUME NEW k \in Responses PROVE ResponseInv(k)'
      BY <2>2, <3>2, OtherResponses DEF Playout!vars, PlayoutInv
    <3> QED BY <3>1, <3>3 DEF PlayoutInv
  <2> QED BY <2>1, <2>2, StartKept, AppendKept, FinishKept, CancelKept, DrainKept
       DEF Playout!Next
<1>3. PlayoutInv => PlayedWhole
  <2> SUFFICES ASSUME PlayoutInv PROVE PlayedWhole
    OBVIOUS
  <2>1. DOMAIN qQueue = 1..Len(qQueue)
    BY LenProperties DEF PlayoutInv, PlayoutType
  <2>2. \A S : Playout!Cardinality(S) = Cardinality(S)
    BY DEF Playout!Cardinality, Cardinality, Playout!IsFiniteSet, IsFiniteSet
  <2>3. \A k \in Responses : Playout!FramesOf(k) = FramesAt(qQueue, k)
    BY <2>1 DEF Playout!FramesOf, FramesAt
  <2>4. ASSUME NEW k \in Responses
        PROVE  /\ qEnded[k] = "canceled" => FramesAt(qQueue, k) = {}
               /\ qEnded[k] = "finished" =>
                    Playout!HoldsAllOf(
                      Cardinality(FramesAt(qQueue, k)) + qDrained[k] - TailFrames, qFed[k])
    <3>1. ResponseInv(k) /\ (Queued(k) = 0 <=> FramesAt(qQueue, k) = {})
      BY QueuedCounts DEF PlayoutInv
    <3>2. Heard(k) = Cardinality(FramesAt(qQueue, k)) + qDrained[k]
      BY DEF Heard, Queued
    <3>3. PICK frames : frames = Heard(k) - TailFrames
      OBVIOUS
    <3>4. qEnded[k] = "finished" => Playout!HoldsAllOf(frames, qFed[k])
      BY <3>1, <3>3 DEF ResponseInv
    <3>5. Cardinality(FramesAt(qQueue, k)) + qDrained[k] - TailFrames = frames
      <4>1. Queued(k) \in Nat /\ qDrained[k] \in Nat /\ TailFrames \in Nat
        BY QueuedCounts, PlayoutAssumption DEF PlayoutInv, PlayoutType
      <4> QED BY <3>3, <4>1 DEF Heard, Queued
    <3>6. qEnded[k] = "canceled" => FramesAt(qQueue, k) = {}
      BY <3>1 DEF ResponseInv
    <3> QED BY <3>4, <3>5, <3>6
  <2>5. \A i, j \in DOMAIN qQueue : i < j =>
          /\ qQueue[i].sequence < qQueue[j].sequence
          /\ qQueue[i].key = qQueue[j].key =>
               \A m \in i..j : qQueue[m].key = qQueue[i].key
    BY <2>1 DEF PlayoutInv, Ordered
  <2> QED BY <2>2, <2>3, <2>4, <2>5 DEF PlayedWhole, Playout!PlayedWhole
<1> QED BY PartsInit, <1>1, <1>2, <1>3, PTL DEF Spec
=============================================================================
