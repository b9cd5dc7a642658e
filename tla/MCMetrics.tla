----------------------------- MODULE MCMetrics -----------------------------
(***************************************************************************)
(* The counters, the histograms and the registries share no state.  One    *)
(* run explores them, each from the initial states that pick it, so that   *)
(* their state spaces add up and do not multiply.                          *)
(***************************************************************************)
EXTENDS Counters, Histogram, Registry, TLC

VARIABLE part

\* Below, inside and above the range of the samples.
HistogramValues == -1 .. SampleMax

vars == <<part, counterVars, histogramVars, registryVars>>

Init == /\ part \in {"counters", "histogram", "registry"}
        /\ InitCounters /\ InitHistogram /\ InitRegistry
        /\ part # "counters" => data[1] = 0
        /\ part # "histogram" => \A i \in 0 .. BucketCount - 1 : ranges[i] = i

Next == \/ part = "counters" /\ NextCounters /\ UNCHANGED <<part, histogramVars, registryVars>>
        \/ part = "histogram" /\ NextHistogram /\ UNCHANGED <<part, counterVars, registryVars>>
        \/ part = "registry" /\ NextRegistry /\ UNCHANGED <<part, counterVars, histogramVars>>

\* Threads and names are only compared: permuting them changes nothing.
Symmetry == Permutations(CThreads) \cup Permutations(Names)

Spec == Init /\ [][Next]_vars
=============================================================================
