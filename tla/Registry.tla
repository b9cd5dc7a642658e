------------------------------ MODULE Registry ------------------------------
(***************************************************************************)
(* HistogramRecorder and TraceRecorder: a registry of objects by id, used  *)
(* by threads that make an object and register it, find one, use the       *)
(* pointer they got, and (traces only) erase one.  Histograms have no      *)
(* Erase.  A trace id is <<trace, span>>; a child has the next span.       *)
(***************************************************************************)
EXTENDS Integers, Sequences

CONSTANTS RThreads, Histograms, TraceIds, MaxSpan, MaxObjects

ASSUME SpanAssumption == MaxSpan \in Nat

None2 == 0
Spans == {<<tr, sp>> : tr \in TraceIds, sp \in 1 .. MaxSpan}
Ids == Histograms \cup Spans

VARIABLES
    registry,   \* histograms_ and traces_
    live,       \* objects not deleted, and the id of every object made
    idOf,
    held,       \* the pointer each thread holds
    parent,     \* parent_span_id_ of every object
    wanted,     \* the histogram a thread looks up
    pc,         \* where each thread is: idle, missing, made, holding
    stale       \* history: threads whose object was erased since they got it

registryVars == <<registry, live, idOf, held, parent, wanted, pc, stale>>

InitRegistry ==
    /\ registry = [d \in Ids |-> None2]
    /\ live = {} /\ idOf = <<>> /\ parent = <<>>
    /\ held = [t \in RThreads |-> None2]
    /\ pc = [t \in RThreads |-> "idle"]
    /\ wanted \in [RThreads -> Histograms]
    /\ stale = {}

\* A new object of id d, not registered yet.
New(t, d, par) ==
    /\ Len(idOf) < MaxObjects
    /\ idOf' = Append(idOf, d) /\ parent' = Append(parent, par)
    /\ live' = live \cup {Len(idOf) + 1}
    /\ held' = [held EXCEPT ![t] = Len(idOf) + 1]
    /\ pc' = [pc EXCEPT ![t] = "made"]
    /\ stale' = stale \ {t}
    /\ UNCHANGED <<registry, wanted>>

\* The thread leaves the registry with the registered object of id d.
Found(t, d) ==
    /\ registry[d] # None2
    /\ held' = [held EXCEPT ![t] = registry[d]]
    /\ pc' = [pc EXCEPT ![t] = "holding"]
    /\ stale' = stale \ {t}
    /\ UNCHANGED <<registry, live, idOf, parent>>

\* FindHistogram, called by FactoryGet.
FindHistogram(t, d) ==
    /\ pc[t] = "idle" /\ wanted' = [wanted EXCEPT ![t] = d]
    /\ \/ Found(t, d)
       \/ /\ registry[d] = None2 /\ pc' = [pc EXCEPT ![t] = "missing"]
          /\ UNCHANGED <<registry, live, idOf, held, parent, stale>>

\* Histogram::FactoryGet makes one of its own when there was none.
HistogramFactoryGet(t) == pc[t] = "missing" /\ New(t, wanted[t], 0)

\* Trace::FactoryGet does not look first.
TraceFactoryGet(t, d) == pc[t] = "idle" /\ New(t, d, 0)

\* Trace::MakeChild
MakeChild(t) ==
    /\ pc[t] = "holding" /\ t \notin stale
    /\ idOf[held[t]] \in Spans /\ idOf[held[t]][2] < MaxSpan
    /\ New(t, <<idOf[held[t]][1], idOf[held[t]][2] + 1>>, idOf[held[t]][2])

\* The duplicate takes the place of the registered object, which is deleted.
Register_Replace(t) ==
    LET mine == held[t]
        old == registry[idOf[mine]]
    IN  /\ pc[t] = "made"
        /\ registry' = [registry EXCEPT ![idOf[mine]] = mine]
        /\ live' = live \ {old}
        /\ held' = held
        /\ pc' = [pc EXCEPT ![t] = "holding"]
        /\ UNCHANGED <<idOf, parent, wanted, stale>>

\* RegisterOrDeleteDuplicate, the same code in both recorders.
Register(t) ==
    LET mine == held[t]
        old == registry[idOf[mine]]
    IN  /\ pc[t] = "made"
        /\ registry' = IF old = None2 THEN [registry EXCEPT ![idOf[mine]] = mine] ELSE registry
        /\ held' = IF old = None2 THEN held ELSE [held EXCEPT ![t] = old]
        /\ live' = IF old \in {None2, mine} THEN live ELSE live \ {mine}
        /\ pc' = [pc EXCEPT ![t] = "holding"]
        /\ UNCHANGED <<idOf, parent, wanted, stale>>

RegisterHistogram(t) == idOf[held[t]] \in Histograms /\ Register(t)
RegisterTrace(t) == idOf[held[t]] \in Spans /\ Register(t)

\* TraceRecorder::Find, of the trace in the thread's context.
FindTrace(t, d) == pc[t] = "idle" /\ Found(t, d) /\ UNCHANGED wanted

\* Record or set_host through the pointer, and then it is put away.
Use(t) ==
    /\ pc[t] = "holding"
    /\ pc' = [pc EXCEPT ![t] = "idle"] /\ held' = [held EXCEPT ![t] = None2]
    /\ stale' = stale \ {t}
    /\ UNCHANGED <<registry, live, idOf, parent, wanted>>

\* TraceRecorder::Erase deletes the trace, whoever holds a pointer to it.
Erase(d) ==
    /\ d \in Spans /\ registry[d] # None2
    /\ live' = live \ {registry[d]}
    /\ registry' = [registry EXCEPT ![d] = None2]
    /\ stale' = stale \cup {t \in RThreads : pc[t] = "holding" /\ held[t] = registry[d]}
    /\ UNCHANGED <<idOf, held, parent, wanted, pc>>

NextRegistry ==
    \/ \E t \in RThreads, d \in Histograms : FindHistogram(t, d)
    \/ \E t \in RThreads, d \in Spans : TraceFactoryGet(t, d) \/ FindTrace(t, d)
    \/ \E t \in RThreads : \/ HistogramFactoryGet(t) \/ MakeChild(t)
                           \/ (pc[t] = "made" /\ (RegisterHistogram(t) \/ RegisterTrace(t)))
                           \/ Use(t)
    \/ \E d \in Ids : Erase(d)

RegistrySpec == InitRegistry /\ [][NextRegistry]_registryVars

----------------------------------------------------------------------------
(***************************************************************************)
(* Whatever threads race to make and find objects of one id, they end up   *)
(* with one object: a pointer a thread got from the registry is that of    *)
(* the registered, undeleted object of its id, unless its trace was erased *)
(* under it; and every object is the registered one of its id, on its way  *)
(* into the registry, or deleted: none is leaked.                          *)
(***************************************************************************)
OneObjectPerId ==
    /\ \A t \in RThreads : (pc[t] = "holding" /\ t \notin stale) =>
          held[t] \in live /\ registry[idOf[held[t]]] = held[t]
    /\ \A o \in live : \/ registry[idOf[o]] = o
                       \/ \E t \in RThreads : pc[t] = "made" /\ held[t] = o
    /\ \A t \in stale : idOf[held[t]] \in Spans
=============================================================================
