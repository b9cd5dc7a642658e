----------------------------- MODULE Histogram -----------------------------
(***************************************************************************)
(* Histogram with its BucketRanges and SampleVector.  Threads Add values   *)
(* without a lock ("FIXME: atomic"): a count and the sum are each read and *)
(* then written.  Another thread takes a snapshot, bucket by bucket, and   *)
(* reports it.  Buckets are numbered from 0 as in the code.                *)
(***************************************************************************)
EXTENDS Integers, Sequences, FiniteSets

CONSTANTS HThreads, Values,
          BucketCount,     \* bucket_count()
          SampleMax,       \* kSampleTypeMax
          MaxAdds, MaxReports   \* bounds: values added, snapshots reported

ASSUME HistogramAssumption ==
    BucketCount \in Nat \ {0} /\ SampleMax \in Nat /\ Values \subseteq Int

Buckets == 0 .. BucketCount - 1
Zeros == [i \in Buckets |-> 0]

VARIABLES
    ranges,     \* bucket_ranges_
    counts,     \* counts_ of samples_
    sum,        \* sum_ of samples_
    adding,     \* the Add each thread is in
    snap,       \* the SampleVector being filled, and where the scan is
    report,     \* what the last report said
    put,        \* history: the values of the Adds begun
    raced,      \* history: two Adds were under way at once
    reports     \* reports begun

histogramVars == <<ranges, counts, sum, adding, snap, report, put, raced, reports>>

\* InitializeBucketRanges: the logarithmic spacing is left open, each bound is
\* above the one before it; the first is 0 and the last kSampleTypeMax.
InitializeBucketRanges ==
    {r \in [0 .. BucketCount -> 0 .. SampleMax] :
        /\ r[0] = 0 /\ r[BucketCount] = SampleMax
        /\ \A i \in 1 .. BucketCount : r[i] > r[i - 1]}

InitHistogram ==
    /\ ranges \in InitializeBucketRanges
    /\ counts = Zeros /\ sum = 0
    /\ adding = [t \in HThreads |-> [pc |-> "idle"]]
    /\ snap = [pc |-> "none"]
    /\ report = [total |-> 0, sum |-> 0, past |-> 0, high |-> Zeros]
    /\ put = <<>> /\ raced = FALSE /\ reports = 0

\* What under and over can be in the search of GetBucketIndex.
Intervals == {p \in (0 .. BucketCount) \X (0 .. BucketCount) : p[1] < p[2]}

\* A value on the bound of a bucket is put into the bucket below it.
GetBucketIndex_Stuck(value) ==
    LET search[p \in Intervals] ==
            LET under == p[1]
                over == p[2]
                mid == under + (over - under) \div 2
            IN  IF mid = under THEN mid
                ELSE IF ranges[mid] < value THEN search[<<mid, over>>]
                ELSE search[<<under, mid>>]
    IN  search[<<0, BucketCount>>]

\* GetBucketIndex
GetBucketIndex(value) ==
    LET search[p \in Intervals] ==
            LET under == p[1]
                over == p[2]
                mid == under + (over - under) \div 2
            IN  IF mid = under THEN mid
                ELSE IF ranges[mid] <= value THEN search[<<mid, over>>]
                ELSE search[<<under, mid>>]
    IN  search[<<0, BucketCount>>]

\* The clamping of Add.
Clamp(value) ==
    IF value >= SampleMax THEN SampleMax - 1 ELSE IF value < 0 THEN 0 ELSE value

\* Add, up to the load of counts_[bucket_index] in Accumulate.
Add(t, value) ==
    LET v == Clamp(value)
        i == GetBucketIndex(v)
    IN  /\ adding[t].pc = "idle" /\ Len(put) < MaxAdds
        /\ adding' = [adding EXCEPT ![t] = [pc |-> "count", value |-> v, bucket |-> i,
                                            seen |-> counts[i]]]
        /\ put' = Append(put, value)
        /\ raced' = (raced \/ \E u \in HThreads \ {t} : adding[u].pc # "idle")
        /\ UNCHANGED <<ranges, counts, sum, snap, report, reports>>

\* The rest of counts_[bucket_index]++.
StoreCount(t) ==
    /\ adding[t].pc = "count"
    /\ counts' = [counts EXCEPT ![adding[t].bucket] = adding[t].seen + 1]
    /\ adding' = [adding EXCEPT ![t].pc = "load"]
    /\ UNCHANGED <<ranges, sum, snap, report, put, raced, reports>>

\* IncreaseSum: the load, and the store.
LoadSum(t) ==
    /\ adding[t].pc = "load"
    /\ adding' = [adding EXCEPT ![t].pc = "sum", ![t].seen = sum]
    /\ UNCHANGED <<ranges, counts, sum, snap, report, put, raced, reports>>

StoreSum(t) ==
    /\ adding[t].pc = "sum"
    /\ sum' = adding[t].seen + adding[t].value
    /\ adding' = [adding EXCEPT ![t] = [pc |-> "idle"]]
    /\ UNCHANGED <<ranges, counts, snap, report, put, raced, reports>>

\* SkipEmptyBuckets, from bucket k of the vector that is copied.
SkipEmptyBuckets(k) ==
    CHOOSE j \in k .. BucketCount :
        /\ j = BucketCount \/ counts[j] # 0
        /\ \A l \in k .. j - 1 : counts[l] = 0

\* SnapshotSampleVector: an empty vector, whose Add takes the sum first.
SnapshotSampleVector ==
    /\ snap.pc = "none" /\ reports < MaxReports
    /\ snap' = [pc |-> "scan", sum |-> sum, counts |-> Zeros,
                index |-> 0, at |-> SkipEmptyBuckets(0)]
    /\ reports' = reports + 1
    /\ UNCHANGED <<ranges, counts, sum, adding, report, put, raced>>

\* One turn of the loop of AddSubtractImpl.
AddSubtractImpl ==
    /\ snap.pc = "scan"
    /\ snap' =
         IF snap.index = BucketCount \/ snap.at = BucketCount
         THEN [snap EXCEPT !.pc = IF snap.at = BucketCount THEN "done" ELSE "failed"]
         ELSE IF /\ ranges[snap.at] = ranges[snap.index]
                 /\ ranges[snap.at + 1] = ranges[snap.index + 1]
         THEN [snap EXCEPT !.counts[snap.index] = @ + counts[snap.at],
                           !.at = SkipEmptyBuckets(snap.at + 1)]
         ELSE IF ranges[snap.at] > ranges[snap.index] THEN [snap EXCEPT !.index = @ + 1]
         ELSE [snap EXCEPT !.pc = "failed"]
    /\ UNCHANGED <<ranges, counts, sum, adding, report, put, raced, reports>>

\* TotalCount
TotalCount(c) ==
    LET total[i \in 0 .. BucketCount] == IF i = 0 THEN 0 ELSE total[i - 1] + c[i - 1]
    IN  total[BucketCount]

\* WriteAsciiImpl: what the lines printed from bucket i on add up to; a run of
\* empty buckets is printed as one line.
WriteAsciiImpl(c) ==
    LET past[i \in 0 .. BucketCount] ==
            IF i = BucketCount THEN 0
            ELSE IF c[i] = 0 /\ i < BucketCount - 1 /\ c[i + 1] = 0
            THEN past[CHOOSE j \in i + 2 .. BucketCount :
                         /\ j = BucketCount \/ c[j] # 0
                         /\ \A l \in i .. j - 1 : c[l] = 0]
            ELSE c[i] + past[i + 1]
    IN  past[0]

\* WriteJSON: the counts it gives; the last bucket has no high end and no count.
WriteJSON(c) == [i \in Buckets |-> IF i = BucketCount - 1 THEN 0 ELSE c[i]]

\* WriteAscii and WriteJSON, of the local snapshot.
Report ==
    /\ snap.pc = "done"
    /\ report' = [total |-> TotalCount(snap.counts), sum |-> snap.sum,
                  past |-> WriteAsciiImpl(snap.counts), high |-> WriteJSON(snap.counts)]
    /\ snap' = [pc |-> "none"]
    /\ UNCHANGED <<ranges, counts, sum, adding, put, raced, reports>>

NextHistogram ==
    \/ \E t \in HThreads, value \in Values : Add(t, value)
    \/ \E t \in HThreads : StoreCount(t) \/ LoadSum(t) \/ StoreSum(t)
    \/ SnapshotSampleVector \/ AddSubtractImpl \/ Report

HistogramSpec == InitHistogram /\ [][NextHistogram]_histogramVars

----------------------------------------------------------------------------
\* The values put so far that belong between the bounds of bucket i.
PutIn(i) == {k \in DOMAIN put : LET v == Clamp(put[k])
                                IN  ranges[i] <= v /\ v < ranges[i + 1]}

(***************************************************************************)
(* However Adds and a snapshot interleave, and whatever Adds overwrite of  *)
(* each other: no bucket counts more values than were put between its      *)
(* bounds, the first and the last value included, and it counts all of     *)
(* them when no two Adds met; the scan of a snapshot never fails; and a    *)
(* report prints as many samples as it announces, and none only if their   *)
(* sum is 0 as well (the two assertions of WriteAsciiImpl and its header). *)
(***************************************************************************)
HistogramAccounts ==
    /\ \A i \in Buckets :
          /\ counts[i] <= Cardinality(PutIn(i))
          /\ (~raced /\ \A t \in HThreads : adding[t].pc = "idle")
                => counts[i] = Cardinality(PutIn(i))
    /\ snap.pc # "failed"
    /\ report.past = report.total
    /\ report.total = 0 => report.sum = 0
=============================================================================
