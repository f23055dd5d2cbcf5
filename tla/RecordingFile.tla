--------------------------- MODULE RecordingFile ---------------------------
(***************************************************************************)
(* GET and HEAD calls/<id>/recording in the health server: a thread looks  *)
(* at the size of the file, promises a length in its headers and only then *)
(* opens and copies it; the upload reads it once two polls have found the  *)
(* same size (read_recording_file_when_ready in app/recording_upload.py).  *)
(* FreeSWITCH may still append to the file and somebody may remove it.     *)
(***************************************************************************)
EXTENDS Integers

CONSTANTS
  Downloads, \* the threads
  Chunk,     \* bytes read at a time
  MaxSize,   \* bound on the size of the file
  None

VARIABLES
  size,     \* of the file (external)
  removed,  \* the file is gone (external)
  download, \* where each thread stands and what it has promised and sent
  upload    \* where the upload stands, the size it saw last and what it read

vars == <<size, removed, download, upload>>

Idle == [at |-> "idle", start |-> 0, length |-> 0, sent |-> 0]
Answered(status) == [Idle EXCEPT !.at = status]

\* The Range header: absent, or two numbers of which one may be missing.
Bounds == 0..MaxSize + 1
Ranges == {None} \cup ((Bounds \cup {None}) \X (Bounds \cup {None}))

Smaller(a, b) == IF a < b THEN a ELSE b

\* Variant: the end that is asked for is promised.
ParseUncut(range, fileSize) ==
  IF range = None THEN None
  ELSE IF fileSize <= 0 THEN "invalid"
  ELSE IF range[1] = None
    THEN IF range[2] \in {None, 0} THEN "invalid"
         ELSE <<IF fileSize > range[2] THEN fileSize - range[2] ELSE 0, fileSize - 1>>
  ELSE LET end == IF range[2] = None THEN fileSize - 1 ELSE range[2]
       IN IF range[1] >= fileSize \/ end < range[1] THEN "invalid"
          ELSE <<range[1], end>>

\* _parse_byte_range
ParseByteRange(range, fileSize) ==
  IF range = None THEN None
  ELSE IF fileSize <= 0 THEN "invalid"
  ELSE IF range[1] = None
    THEN IF range[2] \in {None, 0} THEN "invalid"
         ELSE <<IF fileSize > range[2] THEN fileSize - range[2] ELSE 0, fileSize - 1>>
  ELSE LET end == IF range[2] = None THEN fileSize - 1 ELSE range[2]
       IN IF range[1] >= fileSize \/ end < range[1] THEN "invalid"
          ELSE <<range[1], Smaller(end, fileSize - 1)>>

Init ==
  /\ size \in 0..1
  /\ removed = FALSE
  /\ download = [d \in Downloads |-> Idle]
  /\ upload = [at |-> "polling", last |-> None, read |-> 0]

Becomes(d, state) ==
  /\ download' = [download EXCEPT ![d] = state]
  /\ UNCHANGED <<size, removed, upload>>

\* _send_audio_file: the size is taken and the headers are sent.
Promise(d, range, includeBody) ==
  LET parsed == ParseByteRange(range, size)
      span == IF parsed = None THEN <<0, size - 1>> ELSE parsed
  IN /\ download[d].at = "idle"
     /\ ~removed
     /\ Becomes(d, IF parsed = "invalid" THEN Answered("refused")
                   ELSE IF ~includeBody THEN Answered("head")
                   ELSE [at |-> "promised", start |-> span[1],
                         length |-> span[2] - span[1] + 1, sent |-> 0])

\* _call_recording_file_path finds no file.
NotFound(d) ==
  /\ download[d].at = "idle"
  /\ removed
  /\ Becomes(d, Answered("refused"))

\* _copy_file_range opens the file.
Open(d) ==
  /\ download[d].at = "promised"
  /\ ~removed
  /\ Becomes(d, [download[d] EXCEPT !.at = "copying"])

\* It is gone: a second response is written behind the headers of the first.
OpenFails(d) ==
  /\ download[d].at = "promised"
  /\ removed
  /\ Becomes(d, [download[d] EXCEPT !.at = "garbled"])

\* A chunk is read and written; a file that was removed stays open.
Copy(d) ==
  LET now == download[d]
      chunk == Smaller(Smaller(now.length - now.sent, Chunk), size - (now.start + now.sent))
  IN /\ now.at = "copying"
     /\ Becomes(d, IF now.sent = now.length \/ chunk <= 0 THEN [now EXCEPT !.at = "ended"]
                   ELSE [now EXCEPT !.sent = @ + chunk])

\* A poll of the upload: no file, or a file without bytes, has no size.
Poll ==
  LET now == IF removed \/ size = 0 THEN None ELSE size
  IN /\ upload.at = "polling"
     /\ upload' = IF now # None /\ now = upload.last THEN [upload EXCEPT !.at = "reading"]
                  ELSE [upload EXCEPT !.last = now]
     /\ UNCHANGED <<size, removed, download>>

\* read_bytes takes what the file holds by now, or finds it gone.
Read ==
  /\ upload.at = "reading"
  /\ upload' = IF removed THEN [upload EXCEPT !.at = "failed"]
               ELSE [upload EXCEPT !.at = "read", !.read = size]
  /\ UNCHANGED <<size, removed, download>>

\* Five seconds are over after a poll that did not settle it.
NotReady ==
  /\ upload.at = "polling"
  /\ upload' = [upload EXCEPT !.at = "failed"]
  /\ UNCHANGED <<size, removed, download>>

\* FreeSWITCH appends.
Grow ==
  /\ size < MaxSize /\ ~removed
  /\ size' = size + 1
  /\ UNCHANGED <<removed, download, upload>>

Remove ==
  /\ ~removed
  /\ removed' = TRUE
  /\ UNCHANGED <<size, download, upload>>

Next ==
  \/ Grow \/ Remove \/ Poll \/ Read \/ NotReady
  \/ \E d \in Downloads :
       \/ \E range \in Ranges, includeBody \in BOOLEAN : Promise(d, range, includeBody)
       \/ NotFound(d) \/ Open(d) \/ OpenFails(d) \/ Copy(d)

Spec == Init /\ [][Next]_vars

\* Whatever range is asked for and however the file grows meanwhile, a body
\* that is sent has the length its headers promised; only a file that was
\* removed in between breaks the promise.  What the upload reads is not empty
\* and no shorter than the size it has seen twice.
BodiesAreWhole ==
  \A d \in Downloads :
    /\ download[d].at = "ended" => download[d].sent = download[d].length
    /\ download[d].sent <= download[d].length
    /\ download[d].at = "garbled" => removed
    /\ upload.at = "read" => upload.read > 0 /\ upload.read >= upload.last
=============================================================================
