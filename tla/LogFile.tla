------------------------------ MODULE LogFile ------------------------------
(***************************************************************************)
(* LogFile: the rolling log file of the logger, with the part of           *)
(* FileUtil::AppendableFile and of the directory it uses.  A record is     *)
(* [from, n, len]; a file on disk is the sequence of records the kernel    *)
(* has got.  The whole state is one record, output:                        *)
(*   files    every log file made, in the order of their names             *)
(*   link     the file the symbolic link base.log names (0: no link)       *)
(*   pending  what is in the stdio buffer of the current file              *)
(*   written, count, period, roll, flush   written_bytes_, count_,         *)
(*            last_period_, last_roll_ and last_flush_                     *)
(* fopen of a new log file is taken to succeed: the code does not look.    *)
(***************************************************************************)
EXTENDS Naturals, Sequences

CONSTANTS MaxLogSize,      \* FLAGS_max_log_size, in units of length
          CheckTimeRoll,   \* kCheckTimeRoll
          LogBufSecs,      \* FLAGS_logbufsecs
          SecondsPerDay,   \* kSecondsPerDay
          MaxNow           \* bound on the clock

ASSUME DayAssumption == SecondsPerDay \in Nat \ {0}

VARIABLES now, output

Size(data) ==
    LET sum[i \in 0 .. Len(data)] ==
            IF i = 0 THEN 0 ELSE sum[i - 1] + data[i].len
    IN  sum[Len(data)]

Flatten(seqs) ==
    LET cat[i \in 0 .. Len(seqs)] ==
            IF i = 0 THEN <<>> ELSE cat[i - 1] \o seqs[i]
    IN  cat[Len(seqs)]

\* A sequence of records less those of a set.
Without(data, set) ==
    Flatten([k \in 1 .. Len(data) |-> IF data[k] \in set THEN <<>> ELSE <<data[k]>>])

Current(o) == Len(o.files)

\* The members of a LogFile before its constructor has rolled for the first
\* time; what is on disk stays.
NewLogFile(o) ==
    [o EXCEPT !.pending = <<>>, !.written = 0, !.count = 0,
              !.period = 0, !.roll = 0, !.flush = 0]

\* fflush: the stdio buffer goes to the kernel.
FileFlush(o) ==
    IF o.files = <<>> THEN o
    ELSE LET newest == [o.files[Current(o)] EXCEPT !.data = @ \o o.pending]
         IN  [o EXCEPT !.files = [@ EXCEPT ![Current(o)] = newest], !.pending = <<>>]

\* WritableFile::Append.  The first n records are accepted (fewer than all of
\* them: fwrite failed); stdio may hand everything on at once (spill).
FileAppend(o, data, n, spill) ==
    LET accepted == SubSeq(data, 1, n)
        a == [o EXCEPT !.pending = @ \o accepted, !.written = @ + Size(accepted)]
    IN  IF spill THEN FileFlush(a) ELSE a

\* file_.reset(new AppendableFile(name)): the old stream is closed, which
\* flushes it.
Reopen(o) ==
    [FileFlush(o) EXCEPT !.files = Append(@, [data |-> <<>>, gone |-> FALSE]),
                         !.written = 0]

\* The link names a file that has been deleted.
Dangles(o) == o.link # 0 /\ o.files[o.link].gone

\* A relinking that keeps a link that already exists.
Relink_Keep(o, upto) ==
    IF o.link # 0 THEN o ELSE [o EXCEPT !.link = Current(o)]

\* The link is moved to the newest file.  FileExists follows the link, so a
\* link whose file is gone is not seen, and SymLink then fails, in this roll and
\* in every later one: a link that dangles is never repaired.  The steps are:
\* delete an empty old file (2), delete the link (3), make the new one (4);
\* upto is the last one done.
Relink(o, upto) ==
    LET old == o.link
        exists == old # 0 /\ ~o.files[old].gone
        empty == exists /\ o.files[old].data = <<>>
        cut == [o EXCEPT !.files = [i \in DOMAIN @ |->
                    IF empty /\ i = old /\ upto >= 2 THEN [@[i] EXCEPT !.gone = TRUE]
                    ELSE @[i]]]
    IN  [cut EXCEPT !.link = IF old # 0 /\ ~exists THEN old
                             ELSE CASE upto = 4 -> Current(o)
                                    [] upto = 3 -> 0
                                    [] OTHER    -> old]

\* RollFile, at most once in a second.  A process killed inside it has done the
\* steps up to upto; 4 is the whole function.
RollFile(o, t, upto) ==
    IF t > o.roll
    THEN Relink(Reopen([o EXCEPT !.roll = t, !.flush = t,
                                 !.period = t \div SecondsPerDay]), upto)
    ELSE o

\* AppendUnLocked: write, then roll by size, or look at the clock once in
\* CheckTimeRoll calls and roll by day or flush by age.
AppendUnLocked(o, data, n, spill, t, upto) ==
    LET a == FileAppend(o, data, n, spill)
        c == [a EXCEPT !.count = 0]
    IN  CASE a.written > MaxLogSize                 -> RollFile(a, t, upto)
          [] a.written <= MaxLogSize /\ a.count <= CheckTimeRoll
                                                    -> [a EXCEPT !.count = @ + 1]
          [] OTHER ->
             IF t \div SecondsPerDay # c.period THEN RollFile(c, t, upto)
             ELSE IF t > c.flush + LogBufSecs THEN FileFlush([c EXCEPT !.flush = t])
             ELSE c

InitFile ==
    /\ now = 1
    /\ output = [files |-> <<>>, link |-> 0, pending |-> <<>>, written |-> 0,
                 count |-> 0, period |-> 0, roll |-> 0, flush |-> 0]

Tick == now < MaxNow /\ now' = now + 1

\* What the log files from the k-th on hold, in order; a deleted one holds nothing.
OnDisk(o, k) ==
    Flatten([i \in 1 .. Len(o.files) - k + 1 |->
                LET f == o.files[k + i - 1] IN IF f.gone THEN <<>> ELSE f.data])
=============================================================================
