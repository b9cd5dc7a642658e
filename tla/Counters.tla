------------------------------ MODULE Counters ------------------------------
(***************************************************************************)
(* Counter, CounterProvider and CounterSampler.  The provider's table has  *)
(* a row per counter and a cell per thread; row r, slot s is cell          *)
(* (r-1)*MaxThreads + s, counted from 1.  Cell 0 stands for the memory     *)
(* before the table.  Ints wrap at IntMax.  The sampler reads the table    *)
(* cell by cell, without a lock, while threads count: the sum it gets for  *)
(* a counter need not be a value the counter ever had.  A client polls the *)
(* sampler with the time of the last row it got.                           *)
(***************************************************************************)
EXTENDS Integers, Sequences

CONSTANTS CThreads,                  \* thread ids
          Names,
          MaxThreads, MaxCounters,   \* FLAGS_provider_max_threads, _counters
          IntMax,                    \* INT_MAX
          SampleCap,                 \* capacity of samples_
          Deltas,                    \* values added or set
          MaxOps, MaxSamples, MaxSecond   \* bounds: updates, samples, the clock

ASSUME CounterAssumption ==
    /\ MaxThreads \in Nat /\ MaxCounters \in Nat /\ IntMax \in Nat
    /\ Deltas \subseteq -IntMax - 1 .. IntMax
    /\ SampleCap \in Nat \ {0}

Cells == 0 .. MaxThreads * MaxCounters

VARIABLES
    data,        \* data_
    counters,    \* counters_: the names, in the order of their ids
    slots,       \* slots_: the threads, in the order of their slots
    counterId,   \* counter_id_ of the Counter of each name
    retired,     \* slots_ has the id, but the thread that got the slot has exited
    doing,       \* the updates threads are in: [thread, name, cell, old, value]
    added,       \* history: what the updates of each name come to
    second,      \* the clock, in seconds
    scanning,    \* GetSnapshot is under way
    cellsRead,   \* how many cells of each row it has read,
    sums,        \* and what they come to
    late,        \* history: the updates of each name that were written to cells
                 \* the pass under way had read already come to so much
    last,        \* last_snapshot_, by the names it has
    samples,     \* samples_
    total,       \* history: sum of the samples of each name
    mark,        \* history: what the first pass that has a name saw of its updates
    cut,         \* history: what the last pass saw of them
    fell,        \* history: names whose value was seen to go down
    since,       \* the time of the last row the client got
    heard,       \* history: the number of that row
    strayed,     \* history: a thread has counted without a slot
    ops, taken   \* updates begun, samples taken

table == <<data, counters, slots, counterId, retired, doing, added, strayed, ops>>
passVars == <<scanning, cellsRead, sums>>
sampler == <<second, last, samples, total, mark, cut, fell, since, heard, taken>>
counterVars == <<table, passVars, late, sampler>>

Wrap(v) == ((v + IntMax + 1) % (2 * IntMax + 2)) - IntMax - 1

IndexOf(seq, x) ==
    IF \E k \in DOMAIN seq : seq[k] = x THEN CHOOSE k \in DOMAIN seq : seq[k] = x ELSE 0

\* new int[] leaves the table uninitialised: all zero, or not.
InitCounters ==
    /\ \E c \in {0, 1} : data = [x \in Cells |-> IF x = 1 THEN c ELSE 0]
    /\ counters = <<>> /\ slots = <<>>
    /\ counterId = [n \in Names |-> -1]
    /\ retired = {} /\ doing = {}
    /\ added = [n \in Names |-> 0]
    /\ scanning = FALSE /\ cellsRead = <<>> /\ sums = <<>> /\ late = [n \in Names |-> 0]
    /\ second = 1 /\ last = <<>> /\ samples = <<>>
    /\ total = [n \in Names |-> 0] /\ mark = [n \in Names |-> 0] /\ cut = [n \in Names |-> 0]
    /\ fell = {} /\ since = 0 /\ heard = 0 /\ strayed = FALSE /\ ops = 0 /\ taken = 0

\* GetCounterId: the rows, and the id, once name is looked up; 0 when full.
Registered(name) ==
    IF IndexOf(counters, name) # 0 \/ Len(counters) >= MaxCounters THEN counters
    ELSE Append(counters, name)

\* GetSlotId: the slots once thread t has asked for one; none when full.
Enlisted(t) ==
    IF IndexOf(slots, t) # 0 \/ Len(slots) >= MaxThreads THEN slots ELSE Append(slots, t)

\* The slot it gets: t_thread_slot, or a new one.  A later thread with the id of
\* one that has exited finds the id in slots_: its insert fails, and it has none.
SlotOf(t) == IF t \in retired THEN 0 ELSE IndexOf(Enlisted(t), t)

\* A thread that has a slot exits; its id may be used again.
ThreadExits(t) ==
    /\ IndexOf(slots, t) # 0 /\ t \notin retired /\ \A u \in doing : u.thread # t
    /\ retired' = retired \cup {t}
    /\ UNCHANGED <<data, counters, slots, counterId, doing, added, strayed, ops, passVars, late, sampler>>

\* One is taken off the slot twice.
GetLocation_Before(id, slot) == (id - 1) * MaxThreads + slot - 1

\* GetLocation: a thread without a slot has slot 0.
GetLocation(id, slot) == (id - 1) * MaxThreads + slot

RowSum(id) ==
    LET sum[k \in 0 .. MaxThreads] ==
            IF k = 0 THEN 0 ELSE Wrap(sum[k - 1] + data[(id - 1) * MaxThreads + k])
    IN  sum[MaxThreads]

\* Counter::GetPtr and the read of *loc, for Add and for Set; a Counter whose
\* name got no row has no location and remembers that.
BeginUpdate(t, n, v, isSet) ==
    LET rows == Registered(n)
        id == IF counterId[n] # -1 THEN counterId[n] ELSE IndexOf(rows, n)
        slot == SlotOf(t)
        cell == GetLocation(id, slot)
    IN  /\ (\A u \in doing : u.thread # t) /\ ops < MaxOps
        /\ ops' = ops + 1
        /\ counters' = IF counterId[n] = -1 THEN rows ELSE counters
        /\ counterId' = [counterId EXCEPT ![n] = id]
        /\ IF id = 0 THEN UNCHANGED <<slots, doing, strayed>>
           ELSE /\ slots' = Enlisted(t)
                /\ strayed' = (strayed \/ slot = 0)
                /\ doing' = doing \cup
                      {[thread |-> t, name |-> n, cell |-> cell, old |-> data[cell],
                        value |-> IF isSet THEN v ELSE Wrap(data[cell] + v)]}
        /\ UNCHANGED <<data, retired, added, passVars, late, sampler>>

\* The pass under way has read the cell of the row of name n.
AlreadyRead(n, cell) ==
    LET k == IndexOf(counters, n)
    IN  k \in DOMAIN cellsRead /\ cell <= GetLocation(k, cellsRead[k])

\* ... and the write of *loc.
EndUpdate(u) ==
    /\ data' = [data EXCEPT ![u.cell] = u.value]
    /\ added' = [added EXCEPT ![u.name] = Wrap(@ + u.value - u.old)]
    /\ late' = IF AlreadyRead(u.name, u.cell)
               THEN [late EXCEPT ![u.name] = Wrap(@ + u.value - u.old)] ELSE late
    /\ doing' = doing \ {u}
    /\ UNCHANGED <<counters, slots, counterId, retired, strayed, ops, passVars, sampler>>

\* DoSample, in the event loop: GetSnapshot copies counters_ under the lock ...
BeginSample ==
    /\ ~scanning /\ taken < MaxSamples
    /\ scanning' = TRUE
    /\ cellsRead' = [k \in DOMAIN counters |-> 0]
    /\ sums' = [k \in DOMAIN counters |-> 0]
    /\ UNCHANGED <<table, late, sampler>>

\* ... and reads row after row, in any order, one cell at a time
\* (GetCounterValue).
ReadCell(k) ==
    /\ cellsRead[k] < MaxThreads
    /\ \A j \in DOMAIN cellsRead \ {k} : cellsRead[j] \in {0, MaxThreads}
    /\ cellsRead' = [cellsRead EXCEPT ![k] = @ + 1]
    /\ sums' = [sums EXCEPT ![k] = Wrap(@ + data[GetLocation(k, cellsRead[k] + 1)])]
    /\ UNCHANGED <<scanning, table, late, sampler>>

\* What a pass that ends now has seen of the updates of each name.
Seen == [n \in Names |-> added[n] - late[n]]

\* The comparison takes an unchanged value for one that wrapped around.
SnapshotDiff_Equal(new, old) ==
    [k \in DOMAIN old |-> IF new[k] <= old[k] THEN Wrap(IntMax - old[k] - new[k])
                          ELSE Wrap(new[k] - old[k])]

\* DoSnapshotDiff, for the names both snapshots have.
SnapshotDiff(new, old) ==
    [k \in DOMAIN old |-> IF new[k] < old[k] THEN Wrap(IntMax - old[k] - new[k])
                          ELSE Wrap(new[k] - old[k])]

\* samples_.push_back on a full circular buffer overwrites the oldest.
Pushed(ring, x) ==
    IF Len(ring) < SampleCap THEN Append(ring, x) ELSE Append(Tail(ring), x)

\* The rest of DoSample, when all rows are read.
EndSample ==
    LET entry == SnapshotDiff(sums, last)
    IN  /\ scanning /\ \A k \in DOMAIN cellsRead : cellsRead[k] = MaxThreads
        /\ scanning' = FALSE /\ cellsRead' = <<>> /\ sums' = <<>> /\ late' = [n \in Names |-> 0]
        /\ taken' = taken + 1
        /\ last' = sums
        /\ samples' = IF entry = <<>> THEN samples
                      ELSE Pushed(samples, [time |-> second, entry |-> entry, no |-> taken + 1])
        /\ total' = [n \in Names |-> LET k == IndexOf(counters, n) IN
                        IF k \in DOMAIN entry THEN Wrap(total[n] + entry[k]) ELSE total[n]]
        /\ mark' = [n \in Names |-> LET k == IndexOf(counters, n) IN
                        IF k \in DOMAIN sums \ DOMAIN last THEN Seen[n] ELSE mark[n]]
        /\ cut' = Seen
        /\ fell' = fell \cup {n \in Names : LET k == IndexOf(counters, n) IN
                                  k \in DOMAIN last /\ sums[k] < last[k]}
        /\ UNCHANGED <<table, second, since, heard>>

\* WriteJson: the places of the samples it makes a row of, those after from.
WriteJson(from) == {k \in DOMAIN samples : ~(samples[k].time <= from)}

\* The client polls with the time of the last row it got.
Poll ==
    \E k \in WriteJson(since) :
        /\ \A j \in WriteJson(since) : j <= k
        /\ since' = samples[k].time
        /\ heard' = samples[k].no
        /\ UNCHANGED <<table, passVars, late, second, last, samples, total, mark, cut, fell, taken>>

CounterClock ==
    /\ second < MaxSecond /\ second' = second + 1
    /\ UNCHANGED <<table, passVars, late, last, samples, total, mark, cut, fell, since, heard, taken>>

NextCounters ==
    \/ \E t \in CThreads, n \in Names, v \in Deltas, isSet \in BOOLEAN : BeginUpdate(t, n, v, isSet)
    \/ \E u \in doing : EndUpdate(u)
    \/ \E t \in CThreads : ThreadExits(t)
    \/ BeginSample \/ (\E k \in DOMAIN cellsRead : ReadCell(k)) \/ EndSample
    \/ Poll \/ CounterClock

CounterSpec == InitCounters /\ [][NextCounters]_counterVars

----------------------------------------------------------------------------
(***************************************************************************)
(* Counters are exact without a lock or an atomic: as long as no thread    *)
(* counts without a slot, what the row of a counter comes to changes by    *)
(* exactly what the threads added to that counter, whoever else counts at  *)
(* the same time, and no cell outside the row of the counter is written.   *)
(***************************************************************************)
CountsExact ==
    [][\A k \in DOMAIN counters :
          (~strayed /\ data' # data) =>
             /\ Wrap(RowSum(k)' - RowSum(k)) = Wrap(added'[counters[k]] - added[counters[k]])
             /\ data'[0] = data[0]]_counterVars

(***************************************************************************)
(* The samples account for the counting, although the passes that read the *)
(* table overlap the updates: for a counter that was never seen to go down *)
(* the samples taken add up to what was added between the ends of the      *)
(* first and of the last pass that has it, less the updates that came too  *)
(* late for the last and plus those too late for the first, so that none   *)
(* is missed or counted twice.  And the polling client gets no sample      *)
(* twice.                                                                  *)
(***************************************************************************)
SamplesAccountForAdds ==
    /\ \A n \in Names :
       (n \notin fell /\ ~strayed /\ IndexOf(counters, n) \in DOMAIN last)
          => total[n] = Wrap(cut[n] - mark[n])
    /\ \A k \in WriteJson(since) : samples[k].no > heard
=============================================================================
