------------------------------- MODULE Logger -------------------------------
(***************************************************************************)
(* Logger: producers append records to a buffer under a mutex, one thread  *)
(* swaps the filled buffers out and writes them to a LogFile.  Every       *)
(* critical section is one step; waiting gives the mutex up.  The process  *)
(* may die (a FATAL message, or a kill inside RollFile) and start again.   *)
(***************************************************************************)
EXTENDS LogFile, FiniteSets

CONSTANTS Producers,       \* threads that log
          MaxRecs,         \* bound on the records of a producer
          Lens,            \* lengths of records
          BufferSize,      \* kLargeBuffer, in units of length
          MaxBacklog,      \* 25: more filled buffers than this are dropped
          Backend,         \* the logger's own thread, as the source of records
          Notice,          \* the source of the "Dropped log messages" line
          MaxFail,         \* bound on failing writes
          MaxDeaths        \* bound on deaths of the process

ASSUME LoggerAssumption ==
    /\ MaxBacklog \in Nat /\ MaxBacklog >= 2
    /\ BufferSize \in Nat \ {0} /\ Lens \subseteq Nat
    /\ Backend \notin Producers /\ Notice \notin Producers \cup {Backend}

VARIABLES
    running,    \* running_
    latch,      \* latch_ has been counted down
    owner,      \* where the thread that calls Start and Stop is
    pc,         \* where ThreadMain is
    current,    \* current_buffer_
    next,       \* next_buffer_ is there
    buffers,    \* buffers_
    buffer1, buffer2,  \* ThreadMain's spare buffers are there
    toWrite,    \* buffers_to_write
    i,          \* the buffer the loop over toWrite is at
    sent,       \* how many records each producer has logged
    log,        \* history: what was appended by this process, in order
    lost,       \* history: what the code says it drops or fails to write
    first,      \* history: the first log file of this process
    deaths

memory == <<current, next, buffers, buffer1, buffer2, toWrite, i>>
vars == <<running, latch, owner, pc, memory, sent, log, lost, first, deaths, now, output>>

Init ==
    /\ InitFile
    /\ running = FALSE /\ latch = FALSE
    /\ owner = "new" /\ pc = "off"
    /\ current = <<>> /\ next = TRUE /\ buffers = <<>>
    /\ buffer1 = TRUE /\ buffer2 = TRUE /\ toWrite = <<>> /\ i = 1
    /\ log = <<>> /\ lost = {}
    /\ sent = [p \in Producers |-> 0]
    /\ first = 1 /\ deaths = 0

Alive == owner # "dead"

Avail(b) == BufferSize - Size(b)

\* LogBuffer::Append: what does not fit is cut off.
Put(b, r) ==
    IF Avail(b) > r.len THEN Append(b, r)
    ELSE IF Avail(b) > 0 THEN Append(b, [r EXCEPT !.len = Avail(b)])
    ELSE b

\* The spare buffer is handed out and the filled one forgotten.
LoggerAppend_Forget(r) ==
    LET full == ~(Avail(current) > r.len)
        new == Put(IF full THEN <<>> ELSE current, r)
    IN  /\ current' = new
        /\ log' = Append(log, new[Len(new)])
        /\ next' = (next /\ ~full)
        /\ UNCHANGED buffers

\* Logger::Append, in one critical section.
LoggerAppend(r) ==
    LET full == ~(Avail(current) > r.len)
        into == IF full THEN <<>> ELSE current
        new == Put(into, r)
    IN  /\ current' = new
        /\ log' = Append(log, new[Len(new)])
        /\ IF full
           THEN /\ buffers' = Append(buffers, current)
                /\ next' = FALSE
           ELSE UNCHANGED <<buffers, next>>

\* ~LogMessage: the record goes to the logger; a FATAL one then aborts.
LogMessageDtor(p, len, fatal) ==
    /\ Alive /\ sent[p] < MaxRecs
    /\ sent' = [sent EXCEPT ![p] = @ + 1]
    /\ LoggerAppend([from |-> p, n |-> sent[p] + 1, len |-> len])
    /\ IF fatal THEN deaths < MaxDeaths /\ owner' = "dead" /\ deaths' = deaths + 1
       ELSE UNCHANGED <<owner, deaths>>
    /\ UNCHANGED <<running, latch, pc, buffer1, buffer2, toWrite, i, lost, first, now, output>>

\* Start, up to latch_.Wait().
Start ==
    /\ owner = "new" /\ ~running
    /\ running' = TRUE /\ owner' = "starting" /\ pc' = "spawned"
    /\ UNCHANGED <<latch, memory, sent, log, lost, first, deaths, now, output>>

StartReturns ==
    /\ owner = "starting" /\ latch
    /\ owner' = "started"
    /\ UNCHANGED <<running, latch, pc, memory, sent, log, lost, first, deaths, now, output>>

\* Stop: running_ is cleared ...
Stop ==
    /\ owner = "started" /\ running
    /\ running' = FALSE /\ owner' = "notifying"
    /\ UNCHANGED <<latch, pc, memory, sent, log, lost, first, deaths, now, output>>

\* ... and the thread notified, without the mutex, which a thread about to wait
\* misses, and joined.
StopNotify ==
    /\ owner = "notifying"
    /\ owner' = "joining"
    /\ UNCHANGED <<running, latch, pc, memory, sent, log, lost, first, deaths, now, output>>

StopJoin ==
    /\ owner = "joining" /\ pc = "done"
    /\ owner' = "joined"
    /\ UNCHANGED <<running, latch, pc, memory, sent, log, lost, first, deaths, now, output>>

\* The start of ThreadMain: assert(running_ = true) assigns, the latch opens and
\* the LogFile is made.
ThreadBegin(upto) ==
    /\ Alive /\ pc = "spawned"
    /\ running' = TRUE /\ latch' = TRUE
    /\ output' = RollFile(NewLogFile(output), now, upto)
    /\ first' = Len(output.files) + 1
    /\ IF upto = 4 THEN pc' = "loop" /\ UNCHANGED <<owner, deaths>>
       ELSE pc' = pc /\ owner' = "dead" /\ deaths < MaxDeaths /\ deaths' = deaths + 1
    /\ UNCHANGED <<memory, sent, log, lost, now>>

\* The assignment moved behind the opening of the latch, to where ThreadMain
\* enters its loop.
LoopTest_Assign ==
    /\ Alive /\ pc = "loop"
    /\ running' = TRUE
    /\ pc' = IF buffers = <<>> THEN "waiting" ELSE "swap"
    /\ UNCHANGED <<latch, owner, memory, sent, log, lost, first, deaths, now, output>>

\* while (running_), the lock, and the test of buffers_ before the wait.
LoopTest ==
    /\ Alive /\ pc = "loop"
    /\ pc' = IF ~running THEN "final" ELSE IF buffers = <<>> THEN "waiting" ELSE "swap"
    /\ UNCHANGED <<running, latch, owner, memory, sent, log, lost, first, deaths, now, output>>

\* The wait in a loop that goes on until there is a filled buffer.
WaitEnds_UntilFull ==
    /\ Alive /\ pc = "waiting" /\ buffers # <<>>
    /\ pc' = "swap"
    /\ UNCHANGED <<running, latch, owner, memory, sent, log, lost, first, deaths, now, output>>

\* WaitForSeconds ends by its timeout, or earlier by a notification or
\* spuriously: the code after it does not tell them apart.
WaitEnds ==
    /\ Alive /\ pc = "waiting"
    /\ pc' = "swap"
    /\ UNCHANGED <<running, latch, owner, memory, sent, log, lost, first, deaths, now, output>>

\* buffer2 is handed over whether or not next_buffer_ was used.
Swap_Always ==
    /\ Alive /\ pc = "swap"
    /\ toWrite' = Append(buffers, current) /\ buffers' = <<>> /\ current' = <<>>
    /\ buffer1' = FALSE /\ buffer2' = FALSE
    /\ next' = TRUE
    /\ i' = 1 /\ pc' = "check"
    /\ UNCHANGED <<running, latch, owner, sent, log, lost, first, deaths, now, output>>

\* The filled buffers are swapped out and replaced by the spare ones.
Swap ==
    /\ Alive /\ pc = "swap"
    /\ toWrite' = Append(buffers, current) /\ buffers' = <<>> /\ current' = <<>>
    /\ buffer1' = FALSE
    /\ next' = TRUE
    /\ buffer2' = (buffer2 /\ next)
    /\ i' = 1 /\ pc' = "check"
    /\ UNCHANGED <<running, latch, owner, sent, log, lost, first, deaths, now, output>>

\* A write of the LogFile by ThreadMain.  One that fails logs an error, which
\* comes back to this logger as a record of its own.
Output(data, upto) ==
    \/ /\ \E spill \in BOOLEAN :
             output' = AppendUnLocked(output, data, Len(data), spill, now, upto)
       /\ UNCHANGED <<current, next, buffers, log, lost>>
    \/ /\ Cardinality({k \in DOMAIN log : log[k].from = Backend}) < MaxFail
       /\ \E n \in 0 .. Len(data) - 1 :
             /\ output' = AppendUnLocked(output, data, n, FALSE, now, upto)
             /\ lost' = lost \cup {data[k] : k \in n + 1 .. Len(data)}
       /\ LoggerAppend([from |-> Backend, n |-> Len(log) + 1, len |-> 1])

Settle(upto, there) ==
    IF upto = 4 THEN pc' = there /\ UNCHANGED <<owner, deaths>>
    ELSE /\ Len(output'.files) > Len(output.files)    \* killed inside RollFile
         /\ pc' = pc /\ owner' = "dead" /\ deaths < MaxDeaths /\ deaths' = deaths + 1

\* The line that says messages were dropped.
NoticeLine == [from |-> Notice, n |-> 0, len |-> 1]

\* With too many filled buffers all but two are dropped, and a line says so.
DropBacklog(upto) ==
    /\ Alive /\ pc = "check" /\ Len(toWrite) > MaxBacklog
    /\ \E spill \in BOOLEAN :
          output' = AppendUnLocked(output, <<NoticeLine>>, 1, spill, now, upto)
    /\ lost' = lost \cup UNION {{toWrite[k][j] : j \in DOMAIN toWrite[k]} : k \in 3 .. Len(toWrite)}
    /\ toWrite' = SubSeq(toWrite, 1, 2)
    /\ Settle(upto, "write")
    /\ UNCHANGED <<running, latch, current, next, buffers, buffer1, buffer2, i,
                   sent, log, first, now>>

KeepBacklog ==
    /\ Alive /\ pc = "check" /\ Len(toWrite) <= MaxBacklog
    /\ pc' = "write"
    /\ UNCHANGED <<running, latch, owner, memory, sent, log, lost, first, deaths, now, output>>

\* The loop that writes the buffers.
WriteBuffer(upto) ==
    /\ Alive /\ pc = "write" /\ i <= Len(toWrite)
    /\ Output(toWrite[i], upto)
    /\ i' = i + 1
    /\ Settle(upto, "write")
    /\ UNCHANGED <<running, latch, buffer1, buffer2, toWrite, sent, first, now>>

\* What is left of the written buffers once at most two are kept.
Kept == IF Len(toWrite) > 2 THEN 2 ELSE Len(toWrite)

\* The spare buffers are refilled from the written ones and the file flushed.
Refill ==
    /\ Alive /\ pc = "write" /\ i > Len(toWrite)
    /\ buffer1' = TRUE /\ buffer2' = TRUE
    /\ toWrite' = <<>>
    /\ output' = FileFlush(output)
    /\ pc' = "loop"
    /\ UNCHANGED <<running, latch, owner, current, next, buffers, i, sent, log, lost,
                   first, deaths, now>>

\* After the loop only the file is flushed.
FinalFlush ==
    /\ Alive /\ pc = "final"
    /\ output' = FileFlush(output)
    /\ pc' = "done"
    /\ UNCHANGED <<running, latch, owner, memory, sent, log, lost, first, deaths, now>>

\* A dead process has lost its memory and its stdio buffer; a new one starts.
Restart ==
    /\ owner = "dead"
    /\ running' = FALSE /\ latch' = FALSE
    /\ owner' = "new" /\ pc' = "off"
    /\ current' = <<>> /\ next' = TRUE /\ buffers' = <<>>
    /\ buffer1' = TRUE /\ buffer2' = TRUE /\ toWrite' = <<>> /\ i' = 1
    /\ log' = <<>> /\ lost' = {}
    /\ output' = NewLogFile(output)
    /\ first' = Len(output.files) + 1
    /\ UNCHANGED <<sent, deaths, now>>

Clock == Alive /\ Tick /\ UNCHANGED <<running, latch, owner, pc, memory, sent, log, lost,
                                      first, deaths, output>>

Main == \/ LoopTest \/ WaitEnds \/ Swap \/ KeepBacklog \/ Refill \/ FinalFlush
        \/ ThreadBegin(4) \/ DropBacklog(4) \/ WriteBuffer(4)

Next ==
    \/ \E p \in Producers, len \in Lens, fatal \in BOOLEAN : LogMessageDtor(p, len, fatal)
    \/ Start \/ StartReturns \/ Stop \/ StopNotify \/ StopJoin
    \/ Main
    \/ \E upto \in 1 .. 3 : ThreadBegin(upto) \/ DropBacklog(upto) \/ WriteBuffer(upto)
    \/ Restart \/ Clock

Spec == Init /\ [][Next]_vars /\ WF_vars(Main) /\ WF_vars(StartReturns)
             /\ WF_vars(StopNotify) /\ WF_vars(StopJoin)

----------------------------------------------------------------------------
(***************************************************************************)
(* ThreadMain's assertions before each pop_back: when the spare buffers    *)
(* are refilled there are written buffers enough to refill them from, and  *)
(* both are there whenever the thread is not writing.                      *)
(***************************************************************************)
SpareBuffersSuffice ==
    /\ pc \in {"check", "write"} =>
          Kept >= (IF buffer1 THEN 0 ELSE 1) + (IF buffer2 THEN 0 ELSE 1)
    /\ pc \notin {"check", "write"} => buffer1 /\ buffer2 /\ toWrite = <<>>

(***************************************************************************)
(* No record is lost, doubled or reordered on its way: the log files of    *)
(* this process that RollFile has not deleted, the stdio buffer, the       *)
(* buffers being written, the filled ones and the current one hold, in     *)
(* this order, exactly what was appended, less what the code itself says   *)
(* it drops or fails to write.                                             *)
(***************************************************************************)
NothingLostInOrder ==
    Alive =>
    LET path == OnDisk(output, first) \o output.pending
                \o Flatten(SubSeq(toWrite, i, Len(toWrite)))
                \o Flatten(buffers) \o current
    IN  Without(path, {NoticeLine}) = Without(log, lost)

(***************************************************************************)
(* Outside RollFile the link base.log of a running logger names the newest *)
(* file, never an older one that exists; or it dangles, which it does only *)
(* once some process has died, between RollFile's deletions of an empty    *)
(* file and of the link to it.  No later roll repairs it.                  *)
(***************************************************************************)
LinkNeverStale ==
    /\ (Alive /\ latch) => output.link = Current(output) \/ Dangles(output)
    /\ Dangles(output) => deaths > 0

(***************************************************************************)
(* As long as the logger is not stopped and the process lives, a record    *)
(* that was logged reaches the disk, without further records to push it,   *)
(* unless the code says that it is dropped.                                *)
(***************************************************************************)
LoggedReachesDisk ==
    \A p \in Producers, n \in 1 .. MaxRecs :
       LET is(r) == r.from = p /\ r.n = n
       IN  (running /\ latch /\ \E k \in DOMAIN log : is(log[k]))
              ~> (\/ ~running \/ ~Alive
                  \/ \E r \in lost : is(r)
                  \/ \E k \in DOMAIN OnDisk(output, 1) : is(OnDisk(output, 1)[k]))

(***************************************************************************)
(* Stop returns, although its notification can be lost and ThreadMain      *)
(* itself assigns running_.                                                *)
(***************************************************************************)
LoggerStops == (owner = "notifying") ~> (owner \in {"joined", "dead"})
=============================================================================
