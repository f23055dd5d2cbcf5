------------------------------ MODULE Snowflake ------------------------------
(***************************************************************************)
(* generate_snowflake_id of app/recording_upload.py: ids of the recordings *)
(* of one process, made of a timestamp, the process's worker number and a  *)
(* sequence number within the millisecond.  The clock may stand still or   *)
(* step back between two readings.                                         *)
(***************************************************************************)
EXTENDS Integers

CONSTANTS
  Sequences, \* _MAX_SEQUENCE + 1
  Workers,   \* _MAX_WORKER_ID + 1
  Worker,    \* _WORKER_ID
  MaxClock   \* bound on the clock, in milliseconds since _CUSTOM_EPOCH_MS

VARIABLES
  last,      \* _LAST_TIMESTAMP
  sequence,  \* _SEQUENCE
  waiting,   \* a caller holds _ID_LOCK and waits for the next millisecond
  id         \* the id returned last

vars == <<last, sequence, waiting, id>>

Clock == 0..MaxClock
IdOf(t, s) == (t * Workers + Worker) * Sequences + s

Init ==
  /\ last = -1
  /\ sequence = 0
  /\ waiting = FALSE
  /\ id = -1

Return(t, s) ==
  /\ last' = t
  /\ sequence' = s
  /\ id' = IdOf(t, s)
  /\ waiting' = FALSE

\* Variant: the clock is believed.
GenerateInNewMillisecondOrOld ==
  /\ ~waiting
  /\ \E now \in Clock : now # last /\ Return(now, 0)

\* A new millisecond begins.
GenerateInNewMillisecond ==
  /\ ~waiting
  /\ \E now \in Clock : now > last /\ Return(now, 0)

\* The same millisecond, or an earlier one, which is taken for the last.
GenerateInSameMillisecond ==
  LET next == (sequence + 1) % Sequences
  IN /\ ~waiting
     /\ \E now \in Clock : now <= last
     /\ IF next # 0 THEN Return(last, next)
        ELSE sequence' = 0 /\ waiting' = TRUE /\ UNCHANGED <<last, id>>

\* The sequence is used up: the clock is read until it has passed the last id.
WaitIsOver ==
  /\ waiting
  /\ \E now \in Clock : now > last /\ Return(now, 0)

Next == GenerateInNewMillisecond \/ GenerateInSameMillisecond \/ WaitIsOver

Spec == Init /\ [][Next]_vars

\* Ids only grow, hence none is given out twice by one process, however the
\* clock goes and however many are asked for within a millisecond.
IdsIncrease == [][id' # id => id' > id]_vars
=============================================================================
