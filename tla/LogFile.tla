------------------------------- MODULE LogFile -------------------------------
(***************************************************************************)
(* LogFile (base/LogFile.cc) over AppendFile (base/FileUtil.cc), as        *)
(* operators on a record: the members of LogFile; name, the second in the  *)
(* name of the open file; writtenBytes_ of that file; stdio, what is in    *)
(* the FILE's buffer; and disk, what has left it, as <<name, line>>.  A    *)
(* logline is a sequence of lines of one byte each.                        *)
(***************************************************************************)
EXTENDS Naturals, Sequences

CONSTANTS
  rollSize_, flushInterval_, checkEveryN_,
  kRollPerSeconds_       \* seconds in a period, a day in the code

Period(now) == (now \div kRollPerSeconds_) * kRollPerSeconds_

(* fflush, and fclose when the AppendFile is destroyed. *)
Flush(f) ==
  [f EXCEPT !.disk = @ \o [k \in DOMAIN f.stdio |-> <<f.name, f.stdio[k]>>],
            !.stdio = <<>>]

(* Two rolls in one second would have one file name: the second does nothing. *)
RollFile(f, now) ==
  IF now > f.lastRoll_
  THEN [Flush(f) EXCEPT !.lastRoll_ = now, !.lastFlush_ = now, !.startOfPeriod_ = Period(now),
                        !.name = now, !.writtenBytes_ = 0]
  ELSE f

NewLogFile(now) ==
  RollFile([count_ |-> 0, startOfPeriod_ |-> 0, lastRoll_ |-> 0, lastFlush_ |-> 0,
            name |-> 0, writtenBytes_ |-> 0, stdio |-> <<>>, disk |-> <<>>], now)

(* AppendFile::append, which repeats fwrite until everything is written. *)
AppendFile(f, logline) ==
  [f EXCEPT !.stdio = @ \o logline, !.writtenBytes_ = @ + Len(logline)]

Counted(f, now) ==
  CASE f.count_ + 1 < checkEveryN_ -> [f EXCEPT !.count_ = @ + 1]
    [] f.count_ + 1 >= checkEveryN_ /\ Period(now) # f.startOfPeriod_ ->
         RollFile([f EXCEPT !.count_ = 0], now)
    [] f.count_ + 1 >= checkEveryN_ /\ Period(now) = f.startOfPeriod_ ->
         IF now - f.lastFlush_ > flushInterval_
         THEN Flush([f EXCEPT !.count_ = 0, !.lastFlush_ = now])
         ELSE [f EXCEPT !.count_ = 0]

AppendUnlocked(f, logline, now) ==
  LET g == AppendFile(f, logline)
  IN  IF g.writtenBytes_ > rollSize_ THEN RollFile(g, now) ELSE Counted(g, now)

==============================================================================
