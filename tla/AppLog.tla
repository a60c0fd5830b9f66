------------------------------- MODULE AppLog -------------------------------
(***************************************************************************)
(* The log ring in PSRAM and GET /log (main/applog.c). Every task writes    *)
(* lines into the ring; the web server copies them out piece by piece and   *)
(* lets go of the lock while a piece is on its way. A line is one cell, and  *)
(* lines are numbered in the order they were logged; 0 is a cell never       *)
(* written.                                                                 *)
(***************************************************************************)
EXTENDS Integers, Sequences

CONSTANTS
  LogCap,                 \* LOG_CAP, in lines
  ChunkLen,               \* lines a piece holds
  MaxLines, MaxReads      \* bounds: lines logged, answers started

VARIABLES
  ring, logHead, logLen,  \* s_buf, s_head, s_len
  lines,                  \* lines logged so far
  phaseL, start, left,    \* the handler: where it is, oldest kept cell, what is left
  wipe,                   \* "clear=1"
  answer, before, reads   \* what the client has, the last line before its snapshot, answers
logVars == << ring, logHead, logLen, lines, phaseL, start, left, wipe, answer, before, reads >>

LogInit ==
  /\ ring = [i \in 0 .. LogCap - 1 |-> 0] /\ logHead = 0 /\ logLen = 0 /\ lines = 0
  /\ phaseL = "idle" /\ start = 0 /\ left = 0 /\ wipe = FALSE
  /\ answer = << >> /\ before = 0 /\ reads = 0

Fewer(a, b) == IF a < b THEN a ELSE b

(* log_vprintf(), ring_push(): a line of any task, the oldest gives way.     *)
RingPush ==
  /\ lines < MaxLines /\ lines' = lines + 1
  /\ ring' = [ring EXCEPT ![logHead] = lines + 1]
  /\ logHead' = (logHead + 1) % LogCap /\ logLen' = Fewer(logLen + 1, LogCap)
  /\ UNCHANGED << phaseL, start, left, wipe, answer, before, reads >>

(* log_handler(): the geometry at once, "tail" cuts it; head and length are  *)
(* not looked at again.                                                     *)
Snapshot(want, clear) ==
  /\ phaseL = "idle" /\ reads < MaxReads /\ reads' = reads + 1
  /\ left' = Fewer(want, logLen) /\ start' = (logHead + LogCap - left') % LogCap
  /\ wipe' = clear /\ phaseL' = "send" /\ answer' = << >> /\ before' = lines
  /\ UNCHANGED << ring, logHead, logLen, lines >>

(* One piece is copied under the lock and sent without it.                  *)
SendChunk ==
  /\ phaseL = "send" /\ left > 0
  /\ LET n == Fewer(left, ChunkLen)
     IN  /\ answer' = answer \o [i \in 1 .. n |-> ring[(start + i - 1) % LogCap]]
         /\ left' = left - n /\ start' = (start + n) % LogCap
  /\ UNCHANGED << ring, logHead, logLen, lines, phaseL, wipe, before, reads >>
SendFails ==
  /\ phaseL = "send" /\ phaseL' = "idle" /\ left' = 0
  /\ UNCHANGED << ring, logHead, logLen, lines, start, wipe, answer, before, reads >>

(* The end of the answer, then the ring is emptied if that was asked.        *)
Finish ==
  /\ phaseL = "send" /\ left = 0 /\ phaseL' = "idle"
  /\ IF wipe THEN logLen' = 0 /\ logHead' = 0 ELSE UNCHANGED << logLen, logHead >>
  /\ UNCHANGED << ring, lines, start, left, wipe, answer, before, reads >>

LogNext ==
  \/ RingPush \/ SendChunk \/ SendFails \/ Finish
  \/ \E want \in 1 .. LogCap, clear \in BOOLEAN : Snapshot(want, clear)
LogSpec == LogInit /\ [][LogNext]_logVars /\ WF_logVars(SendChunk) /\ WF_logVars(Finish)

----------------------------------------------------------------------------
(* applog.c on the answer of GET /log: "A line that arrives mid-send is     *)
(* simply not in this answer."                                              *)
NotInThisAnswer == \A i \in 1 .. Len(answer) : answer[i] <= before
=============================================================================
