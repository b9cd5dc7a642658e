# claire-common: a verification project

TLA+ specifications of claire-common, the C++ library of an event loop, threads, logging,
metrics, tracing, files and symbolization under `src/claire/common`. Each module is
translated from the source; `PROJECT.json` maps every definition that models code to
its lines. TLC checks small instances, TLAPS proves the central properties for
every value of the constants.

## The system

| Component | State | Operations | Interacts with |
|---|---|---|---|
| `EventLoop` | `quit_`, `pending_tasks_` under a mutex, the wakeup eventfd, `active_channels_`, `current_active_channel_` | `loop`, `quit`, `Run`, `Post`, `Wakeup`, `RunPendingTasks`, `RunAt/After/Every`, `Cancel`, `UpdateChannel`, `RemoveChannel` | any thread posts and quits; the poller reports channels; timers are tasks of the loop; the trace context travels with a task |
| `TimeoutQueue` | the events ordered by expiration, the next id, a one-shot timerfd | `Add`, `AddRepeating`, `Cancel`, `OnTimer`, `Run` | hands `AddInLoop` and `CancelInLoop` to `EventLoop::Run` |
| `Channel`, `EPollPoller` | `events_`, `revents_`, `context_`, `tie_`; table by fd, event array, epoll's interest list | `Enable*`, `Disable*`, `Remove`, `tie`, `OnEvent`; `poll`, `UpdateChannel`, `RemoveChannel` | user callbacks change channels in the middle of a round |
| `ThreadPool` | `queue_`, `running_`, `threads_`, two condition variables | `Start`, `Stop`, `Run`, `Take`, `RunInThread` | producers, workers and an owner over one mutex |
| `Thread`, `Mutex`, `Condition`, `CountDownLatch`, `ThisThread` | started and joined flags, holder, waiters, count | `Start`, `Join`, `Lock`, `Wait`, `Notify`, `CountDown` | used by all of the above |
| `EventLoopThread(Pool)` | `loop_` published under a mutex, threads, the next index | `StartLoop`, `ThreadMain`, destructor, `NextLoop` | a loop on another thread's stack |
| `SignalSet` | set of signals, signalfd | `Add`, `Remove`, `Clear`, `Wait`, `OnSignal` | a channel of the loop |
| `Logger`, `LogFile` | current and next buffer, full buffers, file and roll times | `Start`, `Append`, `ThreadMain`, `Stop`; `RollFile`, `Flush` | all threads log, one thread writes |
| `Counter*` | table of cells per counter and thread, snapshots | `Add`, `Set`, `GetCounterId`, `GetLocation`, `DoSample`, `DoSnapshotDiff` | thread exit, a sampling timer |
| `Histogram`, `SampleVector`, `HistogramRecorder` | ranges, counts, registry | `Add`, bucket search, `RegisterOrDeleteDuplicate`, `GetSnapshot` | racing registration |
| `Trace`, `TraceRecorder` | spans, registry, thread's trace context | `Record`, `MakeChild`, `RegisterOrDeleteDuplicate`, `Find`, `Erase` | contexts handed on by loops and pools |
| `FileUtil` | files with their stdio buffers and descriptors, file locks | open, `Append`, `Flush`, `Close`, `LockFile`, `UnlockFile`, whole-file reads and writes, directory operations | the descriptor table is shared by all threads |
| `Symbolizer`, `Elf`, `Dwarf` | open ELF files by name, the registers of the line machine | `Symbolize`, `GetFile`; `FindAddress` | mappings change between calls |
| `ProtobufIO`, `UriEscape` | none | `SerializeToJson`, `ParseFromJson`, `UriEscape`, `UriUnescape` | protobuf reflection and rapidjson |
| strings, time, system | none to speak of | format, compare, read clocks and `/proc` | |

What is hard here: a post racing the loop thread on its way into `epoll_wait`; a quit
racing it too; cancels overtaking adds; a one-shot timerfd that only some paths re-arm;
callbacks that remove and destroy channels of the round being dispatched, and fds that are
reused; condition variables notified once per item; `running_` cleared outside the lock;
products and table sizes at their limits. `PROJECT.json` lists each at its line under
"hazards" with the properties that cover it.

What makes each component correct: the loop is a serial FIFO executor that never sleeps
on work; a timer fires once, not early, not after an effective cancel, and is not slept
through; the kernel's interest list and the poller's table agree with the channels and no
dead channel is called; the pool's queue keeps its bound, no notification is lost and
`Stop` returns; a loop is published before `StartLoop` returns and lives until it is told to
quit; a log record is written once and in order or is one the code says it dropped; a counter cell
belongs to one thread and counter; a value falls into the bucket that contains it; an id has one
registered object; an address gets the symbol and the line its file's tables give; a descriptor has one
owner; a message comes back from its JSON.

## Modules

| Module | Models | Proofs |
|---|---|---|
| `SerialExecutor` | what a loop promises: posted tasks run one by one, in order, each under its poster's trace context | |
| `EventLoop` | the reactor and the threads that post to it | `EventLoopProofs` |
| `TimeoutQueue` | timers and the timerfd | `TimeoutQueueProofs` |
| `Poller` | channels, their registration and the dispatch of a round | `PollerProofs` |
| `ThreadPool` | pool, condition variables, start and stop | `ThreadPoolProofs` |
| `Sync` | CountDownLatch and BlockingQueue over condition variables | |
| `EventLoopThread` | the pool of loop threads and its owner; uses `Sync` | `EventLoopThreadProofs` |
| `LogFile` | the rolling log file, its link and stdio buffer, as operators on one record | `LoggerProofs` |
| `Logger` | producers, the backend thread and its buffers, over `LogFile` | `LoggerProofs` |
| `Counters` | CounterProvider, Counter, CounterSampler | `LibraryProofs` |
| `Histogram` | Histogram, BucketRanges, SampleVector | `LibraryProofs` |
| `Registry` | HistogramRecorder and TraceRecorder with their factories | `LibraryProofs` |
| `Dwarf` | LEB128, paths, compilation units and the line number machine | `LibraryProofs` |
| `Symbolizer` | mappings, ELF sections and symbols | `LibraryProofs` |
| `FileUtil` | descriptors, locks and the directory | at the end of `LoggerProofs` |
| `Uri` | UriEscape and UriUnescape in their three modes | `LibraryProofs` |
| `Json` | ProtobufIO, over `Uri` | `LibraryProofs` |
| `Recursion` | no code: induction and recursion, as lemmas of the proofs | itself |

The `MC*` modules give the constants values for TLC. Operators marked "Mutant of X" are
plausible bugs; each property is known to fail when one replaces X.

**EventLoop.** `pc` is the loop thread's place in `loop()`; `op[p] = "wake"` is a thread that
has published a task or `quit_` and has not yet written the eventfd, the window that Post
and quit leave open. `Poll` may report any ready channels but no more than `events`, the
event array, which doubles when full; `PollNothing` is a timeout or EINTR. The channels of a round
are dispatched by priority. `SwapTasks` takes the queue, `BeginTask` and `EndTask` run one task of
the batch. Callbacks and tasks may post, run and quit in between. `submitted` and `ran` are
history. The eventfd's counter is reduced to zero or positive, which is all epoll tells apart.

**TimeoutQueue.** `timeouts` is `timeouts_`, `deadline` the time the timerfd goes off, `pending` the
posted operations, executed in FIFO order between callbacks (what `LoopImplementsExecutor`
justifies). `Tick` moves the clock between any two steps. `OnTimer` is the handler up to the first
callback, re-insertion included; `BeginCallback` and `EndCallback` are Run's loop, so callbacks can add and
cancel in mid-round; `EndTimer` is the re-arming at the end. `AsInt` keeps the int's width.
`due`, `adder`, `cancelled`, `erased` and `fired` are history.

**Poller.** `table` and `size` are `channels_`, `interest` is the kernel's list, on which a
failing `epoll_ctl` (logged and otherwise ignored by the code) has no effect: an ADD may fail for reasons of the kernel (`ok`), after which the
channel counts as added all the same (`refused`). `calls` is what `OnEventWithGuard`
has still to call, `guard` the owner that `OnEvent` holds meanwhile. While callbacks run, between rounds, and in the destructor of an owner whose last reference was
that guard (`LastReference`), user code may do anything
to any channel that the code's own assertions allow (`MayRemove`, and the CHECK of `~Channel`), and keeps to two rules that the code does not check: a channel is
removed before it is destroyed and its fd closed, and `tie` names the one owner. A
destroyed channel's fd may go to another channel. `revents_` is forgotten once read and
`active_channels_` at the end of its round: neither is read again before it is written.

**ThreadPool.** Threads take steps between lock operations; a step that runs wholly under the
mutex is one action. `DecideToWait` keeps the mutex until `WaitNotEmpty` releases it, because
`Stop` writes `running_` without it. Notifications wake one waiter of any choice; spurious wakeups
occur.

**EventLoopThread.** `state[t]` is the life of thread t and of the loop on its stack, `loopPtr[t]` is `loop_`
of its EventLoopThread, `quit[t]` and `wakeup[t]` the two members of the loop that its owner reaches. The owner
starts the pool, is handed loops, and destroys the pool thread by thread: `QuitFlag`, `QuitWakeup`, `Join`. A thread of
the client waits meanwhile on a latch and on a queue for the callbacks of all loops (where `Sync` is at work).
`SelfQuit` lets a loop end early. The loop's inside is EventLoop's subject; here a loop tests `quit_`, polls and wakes.
`EventLoop.h:46` admits that quit's wakeup may come after the loop is gone: `QuitWakeup` then reaches the eventfd
of any other loop, or nothing.

**LogFile, Logger.** A buffer is a sequence of records, its room the sum of their lengths; `next`, `buffer1` and
`buffer2` say whether the spare buffers are there. Every critical section is one action; `Swap` is what
ThreadMain does under the mutex after its wait, `DropBacklog`, `WriteBuffer` and `Refill` what it does without it.
A producer's record is appended by `LogMessageDtor`, which for a FATAL one ends the process. A write may fail (bounded by `MaxFail`),
and the process may be killed between any two of RollFile's changes of the directory (`upto`); `Restart` finds on disk what
was left. `log`, `lost` and `first` are history. `lost` holds what the code drops with a notice, fails to
write, or cuts off.

**Counters.** `data` is the table with the cell before it as number 0, since `GetLocation` with slot 0 of
the first counter lands there. An update reads the cell and writes it in two steps (`doing`), as no lock
protects it. The table starts with any content, as the code does not initialise it. A snapshot copies the ids under the lock (`BeginSample`), reads the
table cell by cell without it (`ReadCell`), and only then becomes a sample (`EndSample`); threads count in between, so the sum of a row need not
be a value the counter ever had. `late` is what was written to cells that the pass had read already: such an update is missed by this pass and found by the next, and
`SamplesAccountForAdds` counts it there. A thread may exit and a later one get its id (`ThreadExits`); its insert into `slots_` fails, and it has slot 0. `strayed` notes that a
thread without a slot has counted, `fell` that a counter was seen to go down: the two cases the properties
except, because the code then really counts wrongly. Ints wrap at `IntMax`.

**Histogram.** An Add is a load and a store of its count and of the sum. `snap` is the scan of SampleVectorIterator
over the live counts, `report` what the reports print of it. `raced` notes that two Adds overlapped. The bounds of the buckets are any increasing ones, that is, those of
valid arguments; construction from others is under Observations.

**Registry.** Objects are numbers, `live` those not deleted. The histogram recorder and the trace recorder have the same code
over ids that differ; histograms are never erased, traces are. `stale` are the threads whose
trace was erased under them.

**Dwarf.** A line program is executed as the compiler emits it: each of `Special`, `Advance`, ... builds an
instruction with its encoded operands (any of `Operands`, padded ones too), `Execute` interprets it as `Step` does, and `meant` is what the
instruction means to the compiler (`UnsignedValue` and `SignedValue` of its operands), from which `owner`, the row that has the address,
is computed. `Radix` is 128 in the code; a byte below it ends an operand.
Before it come the ranges, the unit's abbreviation and its attributes in any order.

**Symbolizer.** `Symbolize` walks the lines of `/proc/self/maps`, `GetFile` refuses the names it refuses (`RefusedNames`), takes the file from `elf_files_` by its name,
opens it, or aborts in the CHECKs of `ElfFile` when it is no ELF file; `Lookup` undoes the relocation and searches in what was found, which may be the contents that an earlier call opened under
that name. `Elves` are contents, `Loads` says which contents are mapped under which name and where; any segment may be mapped from the start of its file. `Remap` is what
dlopen, dlclose and the replacement of files do between calls.

**FileUtil.** `fds` and `flocks` are the kernel's, `obj[t]` the object or call of thread t. The calls are split where a failure leaves
something open. `doubled` notes that a FILE was closed twice.

**Uri.** The escapes as functions from strings to strings; `Unescape` is one turn of UriUnescape's loop, `skip` the characters of an escape it has
read ahead. The characters that the code tells apart are there, the others pass through. Any two hexadecimal digits in either case are an escape; what they stand for, if it is none of
the characters told apart, is `"other"`.

**Json.** Both directions as functions over message types and their messages, with the ranges of the integers (`Max32`, `Max64`). The code's recursion is
unrolled to two levels: a message, and the messages of type `Nested` in it (`SerializeNested` and `ParseNested` are what `SerializeToJsonValue` and
`ParseFromJsonValue` do at the inner one). `Instances` are the messages that may be written, `Documents` JSON of another origin: objects, other values, and text that does not parse. `intact` says whether the
bytes that `SerializeToJsonValue` refers to without copying were still there when the document was written.

## Runs

| Run | Instance | Shows |
|---|---|---|
| `event_loop` | 2 posting threads, 3 tasks, 2 channels around the wakeup channel's priority, event array of 1 | `NoLostWakeup`, `ExactlyOnePlace`, `ImplementsExecutor` (refinement), `QuitIsFinal`, and the liveness properties `PostedTasksRun`, `LastRoundRunsTasks`, `QuitStopsLoop` |
| `timeout_queue` | 1 outside thread and the loop, 2 timers, 5 ticks | `TimerfdCoversEvents`, `OneShotOnce`, `EraseIsFinal`, `CancelInOrderHonoured`, `NeverEarly` |
| `timeout_queue_cancel` | 1 timer | violation of `CancelHonoured` |
| `timeout_queue_overflow` | an int of -4..3, a delay of 5 | violation of `NeverEarly` |
| `poller` | 3 channels, 2 sharing an fd, table of 1 | `InterestAgrees`, `PollFindsChannel`, `OnlyRegisteredDispatched`, `CallbacksHaveOwner`, and `TableInBounds` while one doubling suffices |
| `poller_far_fd` | an fd of twice the table's size | violation of `TableInBounds` |
| `thread_pool` | 2 producers, 2 workers, 3 tasks, queue of 1 | `QueueBounded`, `NoWorkerSleepsOnWork`, `NoProducerSleepsOnRoom`, `NoSleeperAtJoin`, and liveness: `TasksRun`, `ProducersGetOn`, `StopReturns` |
| `thread_pool_restart` | 1 worker, two starts | violation of `JoinAssertion` |
| `event_loop_thread` | pools of 0 to 3 threads, each loop handed out twice | `LoopsHandedOutLive`, and liveness: `PoolStartsAndEnds` |
| `logger` | 1 producer with 3 records of length 1 or 2, buffers of 3, backlog of 2, days of 2 seconds, 1 failing write, 1 death | `SpareBuffersSuffice`, `NothingLostInOrder`, `LinkNeverStale`, and liveness: `LoggedReachesDisk`, `LoggerStops` |
| `metrics` | 3 threads and names for a table of 2 by 2, ints of -2..1; 2 threads that add 2 values to 3 buckets with every choice of bounds; 2 threads with one histogram and one trace of 2 spans | `CountsExact`, `SamplesAccountForAdds`, `HistogramAccounts`, `OneObjectPerId` |
| `tools` | line programs of addresses to 3; 5 sets of loads of a program, a library in two versions and a file of less than a page, 2 calls; 2 threads, 2 paths, 2 descriptors; schemas with a field of every type and label, ints of 3 and 6 bits | `LocationRight`, `SymbolRight`, `DescriptorsOwned`, `JsonRoundTrip` |

Why the bounds are enough. Two posters and three tasks allow a task to be posted before,
during and after each of the swap, the read of the eventfd and the poll, while
another poster is in its window; an event array of one lets a user's channel crowd out the wakeup
channel and then grow. Two timers suffice for "earlier", "later", "same time" and "same
round", five ticks for a repeating timer to come round twice; a second outside thread adds nothing that
the FIFO of posted operations does not show, and the theorems cover it. Two channels on one
fd show reuse, the third is the other channel of a round; a table of one entry is doubled.
Two workers, two producers and one place are the least with which a
notification can go to the wrong thread.
Three loop threads are enough for a late wakeup to hit a loop that is still running and for the round robin to wrap.
One producer is enough for the logger because Append is one critical section: a second one adds no step that is not
there, only other names; the backend's own records already mix with the producer's. A record fits where more room than its length is left, so that in buffers of three two records of one
share a buffer and a record of two takes one for itself; three of those exceed a backlog of two, the least the code's `resize(2)` allows.
In `metrics`, the third thread finds the slots used up and the third name the counters; an int of two bits wraps
within three updates; two Adds race. In `tools`, two rows of a sequence, two sequences and a
restart of addresses fit into addresses to 3, and operands of up to two bytes of one payload bit are continued, padded and negative; two calls are enough for the
cache of one to meet the mappings of the next, of another version of the library too; two descriptors are one for each thread, so that `open` fails for what is not there and
never for want of a descriptor.
`metrics` and `tools` each explore parts that share no state, one part per initial state.

Fairness. *EventLoop*: the loop thread goes on when it is not in `epoll_wait`; a poll returns when
the eventfd is readable (not by its timeout: liveness must not lean on that); a
thread inside Post or quit writes the eventfd. *ThreadPool*: each thread in a call gets on, strongly fair
because a thread that tries for the mutex again and again gets it; a task returns.
*EventLoopThread*: the owner, the client's thread and each loop thread go on; a poll returns when the eventfd is readable, and neither its
timeout nor a spurious wakeup is relied on. *Logger*: ThreadMain goes on, its timed wait included
(`WaitForSeconds` does return, and a notification sent without the mutex may be lost); a Start or Stop under way goes on; the
clock need not move.
Nobody is obliged to call Start, Stop, Run, Post or quit, and no spurious wakeup is ever needed.
`thread_pool` turns off deadlock checking since a stopped pool, with producers that wait for room, rightly or
not, really does nothing more; `logger`, `metrics` and `tools` end when their bounds are used up; the violation runs turn it off where their few timers or starts
run out.

## Proofs

All theorems hold for any sets of threads, tasks, channels, timers, records, names, buckets and descriptors, finite where
the code has finitely many; the assumptions are the named `ASSUME`s of the modules (distinguished values differ; sizes
are positive; times lie below the numeric limit; a backlog is at least the two buffers the code keeps of it; what the kernel, ELF and DWARF guarantee of their tables), and TLC
evaluates them in the runs. Every action has its step, or its lemma, in the proof that it preserves the invariant.

*Recursion.* The library's induction theorems take an operator, which the provers cannot instantiate. `SetInduction`,
`LeastExists` and `SeqInduction` say the same of sets, and follow from the fact that `<` on the naturals is
well-founded; `RecursionExists` gives a function that satisfies a recursive equation. With them, the functions that
`Flatten`, `Size`, `RowSum`, `TotalCount`, `WriteAsciiImpl` and `GetBucketIndex`, and the reading of LEB128, paths and escapes, define by recursion are shown to be what their
equations say, and then what they compute.

*EventLoop.* `NoLostWakeup` is not inductive: it says nothing before the loop reaches
`epoll_wait`. `WakeupInv` adds that a channel is current only during dispatch, so that every post outside it decides to
wake; that the loop thread is inside a call only in user code; and that from the swap of the queue
to the next return of poll, a pending task has a wakeup coming. Only during dispatch may the eventfd be
read while tasks are pending, and there the swap comes before the next poll.
`LoopImplementsExecutor` is the refinement: `waiting` is the batch followed by the
pending tasks, so the swap is a stutter, given that the batch is empty outside
RunPendingTasks (`BatchInv`).

`TasksHaveOnePlace` counts: `PlacesInv` says that what was handed over is in the three queues and that they have
as many entries as there are tasks handed over. `QuitStaysFinal` is an action property that follows from the guard of the poll.

*TimeoutQueue.* `TimerfdCoversEvents` is inductive: a new event either is the earliest and re-arms, or is
covered with the event before it. `OneShotOnce` and `EraseIsFinal` need
`PendingInv` and `PlaceInv`: ids in use were handed out, and each place holds an id at most once.
`CancelInOrderHonoured` needs `CancelInv`: a cancel in order has worked, or its CancelInLoop is posted
with no AddInLoop of the id behind it. `NeverEarlyHolds` needs `DueInv` and assumes
`NoOverflow`, the condition whose absence `timeout_queue_overflow` shows to matter.

*Poller.* `PollerInv` joins parts that need each other: types (poll finds channels, not
NULL), registration (fds of live channels differ, a known channel has its entry, the kernel's list agrees but for refused additions)
and the round (what is left of it is registered, the current channel is no longer part of it, exists while it is called back, and is tied as long as `OnEvent` holds its owner). All of it assumes
`FdsFit`, the highest fd being below twice the table's initial size; `poller_far_fd` shows why.

*ThreadPool.* `TypeInv` bounds `threads_` by the calls of Start. `StopInv` has what `NoSleeperAtJoin` needs: a worker about
to wait still holds the mutex and saw the queue empty under it, so `NotifyAll`, which needs the mutex, finds it asleep or before its
next look at `running_`. The two sleeper invariants count threads: Push adds one task and wakes one worker, Take removes
one of each and wakes a producer for the place it frees. They hold of any choice of the thread that is notified.

*EventLoopThread.* `PoolInv`: a published pointer means a loop that is there or was told to quit; how far Start has come says
which pointers it has read; `next_` divides the loops into those that have had their turn in this round and those that have not.

*Logger, LogFile.* `NothingLostInOrder` is about all of the path of a record: files, stdio buffer, the buffers being written, those waiting.
`LogInv` says of it (`PathAccounts`) that the path, without the notices, is the log without what was lost, and has
no record twice; and, because every write depends on it, that the log file is sound (`FileInv`: deleted files are empty
and not the newest, the link names a file), that numbers of records are used once (`RecordsKnown`), where ThreadMain is in its loop, and that
`next_buffer_` is given away for a filled buffer only (`SpareGiven`). The operations of LogFile have lemmas of their own: each
adds exactly the records that fwrite accepted, and RollFile, wherever it is cut short, loses none.
`LinkStaysFresh` says of the link that it names the newest file or dangles, and that it dangles only after a death in the middle of a roll; `DanglingLinkStays` is the other half of
that case: once it dangles, every later step leaves it so.

*FileUtil.* `FilesInv`: a descriptor in use is open and nobody else's, an open one is in use, and a file's lock is that of the one who holds it. It is
kept up to the second `fclose` of a FILE, which the property excepts.

*Counters.* Sums of ints that wrap are compared with `Same`, equality modulo the width. `TableInv`: ids and slots
belong to one name and one thread, and an update under way has its own cell, in which it still finds what it has read
(`UpdatesPlaced`). From it comes `CountsExact`: a store changes one row, by what was added. `PassInv` says what a pass under way has got of a row: the cells it has
read, as they are now, less what was written to them since (`late`). So a finished pass has exactly the updates that were not late for it, and `SamplerInv` relates each last value
to them, and the sum of the samples to the difference; `ClientInv` orders the samples by number and time.

*Histogram.* A count that races may lose values, so it has no exact value to state. `CountsBounded` says that neither a count nor what an Add has read of
it, together with the Adds about to store it, exceeds the values put; `AloneExact` that without a race the three agree;
`CountedFirst` that a sum other than 0 has a count before it; `ScanInv` that the scan finds the bucket it has stopped at, and
has found a sample by its end if the sum was not 0. `BucketFits` shows that the binary search finds the one bucket
whose bounds contain the value, `AsciiAddsUp` that skipping runs of empty buckets prints all samples.

*Registry.* `RegistryInv`: what is registered is undeleted and has that id; an object on its way into the registry belongs to
one thread; every undeleted object is one or the other.

*Symbolizer.* `SymbolInv` carries along what the search has established: the lines of the maps that it has passed over do not have the address, the
one it has stopped at has it and is still mapped, and its file is open when the tables are searched. `MapsAssumption` says that the
kernel maps no address twice, without which "the file at the address" would mean nothing, and that a name is the name of one file at a time. The two cases in
which the code takes the wrong base (`WrongBase`) or the wrong file (`WrongFile`) are excepted where the address is in them, and only there. What the scans of sections and symbols return is the least index of those that match, and
`LeastExists` gives it.

*Dwarf.* The theorem has three layers. *Operands*: `ReadULEB` adds the bytes from the lowest, `Number` from the highest; an induction over the
bytes that are left (`ReadRest`) shows that they agree, and that `ReadSLEB` extends the sign, for any even `Radix`. *Line program*: `DwarfInv` says that the registers are
what is meant, that the row before in the sequence, if it is not beyond the target, is `prev_file` and `prev_line`, and that no row has spanned the target yet; addresses do
not go back within a sequence (a guard of the instructions, as DWARF requires), so the row before the first one beyond the target is its owner. *Paths*: `StripSlashes`, `Path` and
`ToBuffer` are compared with writing the three parts one after another, runs of slashes being one (`Collapse`), by induction over the
characters; `AppendedHolds` is the invariant of a buffer being filled.

*Uri.* `EscapesComeBack` needs an invariant of the escaped string: after as many characters as the escape of the first k take, `Unescape` has
given back the first k and skips nothing. It holds of any string over any characters, and in each mode.

*Json.* What a level of nesting does is the same at both, so it is proved once: `LevelBack` says that the fields of a message come back when the items of each
do, and that the first field refused decides; `LevelAccepts` that what is accepted has its required fields. `NestedBack` applies them to scalars
(`ScalarBack`, by type; for bytes it is `EscapesComeBack`) and `MessageBack` to these and to nested messages. `JsonInv` adds to the property that a document not yet read is
the message's own when it was written intact, and that its arrays are sequences, which `WrittenIsDocument` shows of what
`SerializeToJsonValue` writes. `JsonAssumption` says that message types have distinct names and numbers, messages the values of their types, and documents sequences for arrays, and
that the numbers of the two enum values fit an int32. Three levels would be one more application of the same lemmas.

Only model-checked: the liveness properties `PostedTasksRun`, `LastRoundRunsTasks`, `QuitStopsLoop`, `TasksRun`, `ProducersGetOn`, `StopReturns`,
`PoolStartsAndEnds`, `LoggedReachesDisk` and `LoggerStops` (fairness and ENABLED are beyond the prover). Every safety invariant and action property that a passing
run checks is a theorem.

## Findings

1. *A cancel overtakes an add* (`TimeoutQueue.cc:162`). Another thread adds a timer, whose AddInLoop is
   posted, and tells the loop thread its id. Cancel on the loop thread runs at once, finds nothing, and the timer is
   inserted afterwards. `EventLoop.h` calls both operations safe from other threads.
2. *`RunAfter` overflows* (`EventLoop.cc:195`): `delay_in_milliseconds*1000` is an int; from 2147484 ms
   on, the callback runs at once.
3. *A thread pool cannot be restarted* (`ThreadPool.cc:46`): Start starts `threads_[i]` from 0, which
   are the joined threads; no worker runs, and the next Stop joins them twice.
4. *The channel table is doubled only once* (`EPollPoller.cc:95`): a first channel with an fd of 128 or more
   is stored past the end of `channels_`.

## Observations

Met while modelling, and part of the models as the code has them. Where a property excepts a case, it is one of these.

- *Logger.* Records appended after the last swap are not written by Stop (`Logger.cc:148`), and a FATAL record of an
  asynchronous logger is lost with the process. A process that dies between RollFile's two deletions leaves the link dangling
  for ever: `FileExists` follows it and finds nothing, and `symlink` fails on the name that is there; a second process with the same name may delete the first one's still empty file.
- *Poller.* A channel whose EPOLL_CTL_ADD fails counts as added and is deaf: later updates are MODs of an absent fd, which fail too.
  A channel that is destroyed without Remove stays in the poller's table.
- *Counters.* Threads beyond the number of slots, and threads that get the id of one that has exited, count in the cell before the row (`CounterProvider.cc:92`), another
  counter's or one outside the table. The table is not initialised. A counter that went down is taken for one that
  wrapped, with a formula that is off (`CounterSampler.cc:132`).
- *Histogram.* Racing Adds lose values (the code says "FIXME: atomic"). `WriteJSON` leaves out the last bucket, and calls `AddMember` on a
  value that is null and not an object (`Histogram.cc:200`), which rapidjson asserts against. Nobody calls `InspectConstructionArguments` (`Histogram.cc:104`): a minimum of 0, which
  `Histogram.h:17` says is clamped, ends in the CHECK of `BucketRanges.cc:20`.
- *Trace.* `Erase` deletes a trace that another thread may hold; children of one span share a span id.
- *FileUtil.* In `WriteStringToFile` a failed append is followed by a Close whose status replaces it, and then the
  destructor closes the FILE again (`FileUtil.cc:366`). `ReadFileToString` returns kOk after a read error.
- *Dwarf.* `NextDefineFile` never finds a definition, so a file of that kind ends in a CHECK; `ReadBytes` has its CHECK the
  wrong way round and aborts on any block attribute that is not the last thing in its unit; a relative name without
  directories is shown as absolute.
- *Symbolizer.* Only mappings from the start of a file are considered, and if a later segment is mapped from there too, as in a file of less than a page, the base taken off is that of
  the first. An ELF file is opened once per name: after it was replaced, its old symbols are searched. An anonymous mapping, or one of a file that is no ELF file, aborts when it has the address, unless
  its name begins with `[` or ends with `)`.
- *ProtobufIO.* A singular enum is written as a number and read as a name, so it never comes back; singular strings are
  not copied into the document; strings end at a NUL when read. A document that is no object
  trips an assertion of rapidjson, and so does a single value of the wrong type; an array's item of the wrong type is refused.

## Not modelled

Formatting (`LogMessage`, `LogStream`, `StringPrintf`, the JSON text) has no state or concurrency of its own. The bytes of ELF and
DWARF structures and the header of a line program are given as records. Floating point conversions (a double is taken to be written so that it is read as one), and JSON of messages nested more than once. `SignalSet` is not in the build.
`StringPiece`, `StringUtil`, `Timestamp`, `ThisProcess` and `StackTrace` wrap library and system calls. In the modelled parts: exceptions of
tasks and fatal errors end the process and are left out; the wall clock and the timerfd's
monotonic clock are one clock; the debug assertions are conditions on the caller (`Poller`) or
properties (`JoinAssertion`), as a release build does not check them; a destroyed event loop
belongs to `EventLoopThread`. LogFile takes the fopen of a new file to succeed, which the code does not look at.

## Plan

Two clocks for TimeoutQueue (wall clock deadlines, a monotonic timerfd), which would cover the one hazard that no
property covers yet.
