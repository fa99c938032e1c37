---------------------------- MODULE AsyncLogging -----------------------------
(***************************************************************************)
(* AsyncLogging (base/AsyncLogging.cc): threads append lines to buffers,   *)
(* and the logging thread takes the buffers, writes them to a LogFile and  *)
(* gives two of them back.  A buffer is the sequence of the lines in it,   *)
(* and the lines are numbered in the order of append().                    *)
(***************************************************************************)
EXTENDS LogFile, Condition

CONSTANTS
  kLargeBuffer,          \* size of a buffer, in lines
  kDropAbove, kKeep,     \* 25 and 2 in the code
  MaxLines, MaxTime,     \* bounds: the lines appended, and the clock
  NULL                   \* a pointer to no buffer

VARIABLES
  currentBuffer_, nextBuffer_, buffers_,
  newBuffer1, newBuffer2, buffersToWrite,
  running_,
  thread,                \* place of the logging thread
  cond_,                 \* the logging thread waits, as a set
  output,                \* the LogFile
  lines,                 \* how many lines were appended
  dropped,               \* the lines that were dropped with a notice
  failed,                \* assertions that failed
  now                    \* time(NULL)

vars == <<currentBuffer_, nextBuffer_, buffers_, newBuffer1, newBuffer2, buffersToWrite,
          running_, thread, cond_, output, lines, dropped, failed, now>>

(* After start(): the latch lets it return once the thread runs. *)
Init ==
  /\ currentBuffer_ = <<>>
  /\ nextBuffer_ = <<>>
  /\ buffers_ = <<>>
  /\ newBuffer1 = <<>>
  /\ newBuffer2 = <<>>
  /\ buffersToWrite = <<>>
  /\ running_ = TRUE
  /\ thread = "test"
  /\ cond_ = {}
  /\ output = NewLogFile(1)
  /\ lines = 0
  /\ dropped = {}
  /\ failed = {}
  /\ now = 1

(* The lines of all the buffers. *)
Concat(bufs) ==
  LET text[k \in 0 .. Len(bufs)] == IF k = 0 THEN <<>> ELSE text[k - 1] \o bufs[k]
  IN  text[Len(bufs)]

-----------------------------------------------------------------------------
(* FixedBuffer::append wants more room than the line needs. *)
Avail(buffer) == kLargeBuffer - Len(buffer)

AppendLine ==
  /\ lines < MaxLines
  /\ lines' = lines + 1
  /\ \/ /\ Avail(currentBuffer_) > 1
        /\ currentBuffer_' = Append(currentBuffer_, lines + 1)
        /\ UNCHANGED <<nextBuffer_, buffers_, cond_>>
     \/ /\ Avail(currentBuffer_) <= 1
        /\ buffers_' = Append(buffers_, currentBuffer_)
        /\ nextBuffer_' = NULL
        /\ currentBuffer_' = Append(IF nextBuffer_ = NULL THEN <<>> ELSE nextBuffer_, lines + 1)
        /\ cond_' = NotifyAll(cond_)
  /\ UNCHANGED <<newBuffer1, newBuffer2, buffersToWrite, running_, thread, output,
                 dropped, failed, now>>

(* stop(); the join is over when thread is "ended". *)
Stop ==
  /\ running_
  /\ running_' = FALSE
  /\ cond_' = NotifyAll(cond_)
  /\ UNCHANGED <<currentBuffer_, nextBuffer_, buffers_, newBuffer1, newBuffer2,
                 buffersToWrite, thread, output, lines, dropped, failed, now>>

Tick ==
  /\ now < MaxTime
  /\ now' = now + 1
  /\ UNCHANGED <<currentBuffer_, nextBuffer_, buffers_, newBuffer1, newBuffer2,
                 buffersToWrite, running_, thread, cond_, output, lines, dropped, failed>>

-----------------------------------------------------------------------------
(* The logging thread. *)

LoopTop ==
  /\ thread = "test"
  /\ thread' = IF running_ THEN "lock" ELSE "ended"
  /\ output' = IF running_ THEN output ELSE Flush(output)
  /\ failed' = IF running_ /\ ~(newBuffer1 = <<>> /\ newBuffer2 = <<>> /\ buffersToWrite = <<>>)
               THEN failed \cup {"threadFunc: empty buffers"} ELSE failed
  /\ UNCHANGED <<currentBuffer_, nextBuffer_, buffers_, newBuffer1, newBuffer2,
                 buffersToWrite, running_, cond_, lines, dropped, now>>

(* Under the lock, after the wait if there was one. *)
SwapBuffers ==
  /\ buffersToWrite' = Append(buffers_, currentBuffer_)
  /\ buffers_' = <<>>
  /\ currentBuffer_' = newBuffer1
  /\ newBuffer1' = NULL
  /\ IF nextBuffer_ = NULL
     THEN nextBuffer_' = newBuffer2 /\ newBuffer2' = NULL
     ELSE UNCHANGED <<nextBuffer_, newBuffer2>>
  /\ thread' = "write"
  /\ UNCHANGED <<running_, output, lines, dropped, failed, now>>

TakeBuffers ==
  /\ thread = "lock"
  /\ \/ /\ buffers_ = <<>>
        /\ cond_' = Wait(cond_, "logging")
        /\ thread' = "waiting"
        /\ UNCHANGED <<currentBuffer_, nextBuffer_, buffers_, newBuffer1, newBuffer2,
                       buffersToWrite, running_, output, lines, dropped, failed, now>>
     \/ buffers_ # <<>> /\ SwapBuffers /\ UNCHANGED cond_

(* Faulty: the wait has no time limit. *)
WaitEnds_NoTimeout == thread = "waiting" /\ cond_ = {} /\ SwapBuffers /\ UNCHANGED cond_

(* waitForSeconds returns when notified or after flushInterval_ seconds. *)
WaitEnds == thread = "waiting" /\ cond_' = {} /\ SwapBuffers

(* Faulty: one buffer is kept, and the notice speaks of the others. *)
Kept_One == IF Len(buffersToWrite) > kDropAbove THEN SubSeq(buffersToWrite, 1, 1) ELSE buffersToWrite

(* The buffers that are written, and the lines of the others. *)
Kept == IF Len(buffersToWrite) > kDropAbove THEN SubSeq(buffersToWrite, 1, kKeep) ELSE buffersToWrite

Erased ==
  LET gone == Concat(SubSeq(buffersToWrite, kKeep + 1, Len(buffersToWrite)))
  IN  IF Len(buffersToWrite) > kDropAbove THEN {gone[k] : k \in DOMAIN gone} ELSE {}

(* The notice is a line of its own, number 0. *)
Notice == IF Len(buffersToWrite) > kDropAbove THEN <<<<0>>>> ELSE <<>>

Written(f) ==
  LET bufs == Notice \o Kept
      file[k \in 0 .. Len(bufs)] == IF k = 0 THEN f ELSE AppendUnlocked(file[k - 1], bufs[k], now)
  IN  file[Len(bufs)]

(* The buffers that are left to take newBuffer1 and newBuffer2 from. *)
Returned == SubSeq(Kept, 1, IF Len(Kept) > 2 THEN 2 ELSE Len(Kept))

Reset(buffer) == <<>>

WriteBuffers ==
  /\ thread = "write"
  /\ output' = Flush(Written(output))
  /\ dropped' = dropped \cup Erased
  /\ newBuffer1' = Reset(Returned[Len(Returned)])
  /\ IF newBuffer2 = NULL
     THEN LET rest == SubSeq(Returned, 1, Len(Returned) - 1)
          IN  /\ newBuffer2' = IF rest = <<>> THEN NULL ELSE Reset(rest[Len(rest)])
              /\ failed' = IF rest = <<>> THEN failed \cup {"threadFunc: a buffer to reuse"}
                                          ELSE failed
     ELSE UNCHANGED <<newBuffer2, failed>>
  /\ buffersToWrite' = <<>>
  /\ thread' = "test"
  /\ UNCHANGED <<currentBuffer_, nextBuffer_, buffers_, running_, cond_, lines, now>>

ThreadStep == LoopTop \/ TakeBuffers \/ WaitEnds \/ WriteBuffers

Next == AppendLine \/ Stop \/ Tick \/ ThreadStep

-----------------------------------------------------------------------------
OnFile == [k \in DOMAIN output.disk |-> output.disk[k][2]] \o output.stdio

Held == Concat(buffersToWrite) \o Concat(buffers_) \o currentBuffer_

(* The lines reach the file in the order in which they were appended, each   *)
(* of them once, and none is missing except those of a buffer that was       *)
(* dropped with a notice in the file (AsyncLogging.cc:92-101).               *)
LinesInOrder ==
  LET all      == OnFile \o Held
      numbered == {k \in DOMAIN all : all[k] # 0}
  IN  /\ {all[k] : k \in numbered} = (1 .. lines) \ dropped
      /\ \A i, j \in numbered : i < j => all[i] < all[j]

(* The assertions of threadFunc: there always are two empty buffers to swap  *)
(* in, so append() allocates only when it fills two of them in one turn.     *)
BuffersComeBack == failed = {}

(* While the logging thread runs, a line is in the file, flushed, after a    *)
(* while, unless it was dropped: the wait ends after flushInterval_ seconds  *)
(* although the buffer is not full.                                          *)
LineIsFlushed ==
  \A n \in 1 .. MaxLines :
    n <= lines ~> ((\E k \in DOMAIN output.disk : output.disk[k][2] = n) \/ n \in dropped
                   \/ ~running_)

==============================================================================
