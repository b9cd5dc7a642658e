---------------------------- MODULE PollerProofs ----------------------------
(***************************************************************************)
(* Proofs about Poller, for any set of channels and fds.  They hold for a   *)
(* process whose fds stay below twice the initial size of the table: beyond *)
(* that UpdateChannel writes past its end, and nothing is promised.         *)
(***************************************************************************)
EXTENDS Poller, SequenceTheorems, TLAPS

\* One doubling of channels_ is enough for every fd.
FdsFit == MaxFd < 2 * TableSize

\* Why registration works: the fds of live channels differ, a channel the
\* poller knows is alive and has its own entry in the table, and the kernel's
\* list agrees with the contexts of the channels.
RegistrationInv ==
    /\ size >= TableSize
    /\ \A c, d \in alive : FdOf[c] = FdOf[d] => c = d
    /\ \A c \in Channels : context[c] # "kNew" => c \in alive
    /\ \A c \in alive : context[c] # "kNew" => FdOf[c] < size /\ table[FdOf[c]] = c
    /\ InterestAgrees

\* Why a round works: what is left of it is registered, the channel being
\* dispatched is no longer part of it, callbacks run only in a dispatch, with the
\* owner's guard if the channel was tied, and a guard is held only in a dispatch.
RoundInv ==
    /\ OnlyRegisteredDispatched
    /\ current \notin undone
    /\ calls # <<>> => current # NoChannel /\ guard \in {"untied", "tied"}
    /\ guard # "untied" => current # NoChannel
    /\ CallbacksHaveOwner

\* The conjunction of the three is inductive: looking up a ready fd gives a
\* channel (TypeOK) only because registration agrees with the kernel's list.
PollerInv == TypeOK /\ RegistrationInv /\ RoundInv

LEMMA CallbacksType ==
  ASSUME NEW ev
  PROVE  CallbacksOf(ev) \in Seq({"close", "error", "read", "write"})
<1> DEFINE C == {"close", "error", "read", "write"}
<1> DEFINE a == IF "hup" \in ev /\ "in" \notin ev THEN <<"close">> ELSE <<>>
<1> DEFINE b == IF "err" \in ev THEN <<"error">> ELSE <<>>
<1> DEFINE c == IF "in" \in ev THEN <<"read">> ELSE <<>>
<1> DEFINE d == IF "out" \in ev THEN <<"write">> ELSE <<>>
<1>1. <<>> \in Seq(C) /\ <<"close">> \in Seq(C) /\ <<"error">> \in Seq(C)
      /\ <<"read">> \in Seq(C) /\ <<"write">> \in Seq(C)
  OBVIOUS
<1>2. a \in Seq(C) /\ b \in Seq(C) /\ c \in Seq(C) /\ d \in Seq(C)
  BY <1>1
<1>3. CallbacksOf(ev) = a \o b \o c \o d
  BY DEF CallbacksOf
<1> HIDE DEF a, b, c, d
<1>4. a \o b \in Seq(C)
  BY <1>2, ConcatProperties
<1>5. a \o b \o c \in Seq(C)
  BY <1>2, <1>4, ConcatProperties
<1>6. a \o b \o c \o d \in Seq(C)
  BY <1>2, <1>5, ConcatProperties
<1> QED BY <1>3, <1>6

LEMMA PollerInit == Init => PollerInv
<1> SUFFICES ASSUME Init PROVE PollerInv
  OBVIOUS
<1>1. TypeOK
  <2>1. calls \in Seq({"close", "error", "read", "write"})
    BY DEF Init
  <2> QED BY <2>1, TableAssumption DEF Init, TypeOK
<1>2. RegistrationInv
  BY TableAssumption DEF Init, RegistrationInv, InterestAgrees
<1>3. RoundInv
  BY DEF Init, RoundInv, OnlyRegisteredDispatched, CallbacksHaveOwner
<1> QED BY <1>1, <1>2, <1>3 DEF PollerInv

\* UpdateChannel of a live channel, the part that Enable, Disable and DisableAll
\* have in common.
LEMMA UpdateStep ==
  ASSUME FdsFit, PollerInv, UserCode,
         NEW c \in alive, NEW ev \in SUBSET Wanted, NEW ok \in BOOLEAN,
         UpdateChannel(c, ev, ok),
         UNCHANGED <<alive, revents, tie, dispatchVars>>
  PROVE  PollerInv'
<1> USE DEF PollerInv
<1>1. c \in Channels /\ FdOf[c] \in Fds
  BY FdAssumption DEF TypeOK
<1>2. FdOf[c] \in Nat /\ FdOf[c] <= MaxFd
  BY <1>1, TableAssumption DEF Fds
<1>3. FdOf[c] >= size => context[c] = "kNew"
  BY <1>2, TableAssumption DEF RegistrationInv, TypeOK
<1>4. ~(FdOf[c] >= size /\ context[c] # "kNew")
  BY <1>3
<1>5. context' = [context EXCEPT ![c] = IF @ = "kAdded" /\ ev = {} THEN "kDeleted" ELSE "kAdded"]
  BY <1>4 DEF UpdateChannel, Register
<1>6. /\ interest' = IF context[c] # "kAdded" THEN Add(FdOf[c], ev, ok)
                     ELSE IF ev = {} THEN Del(FdOf[c]) ELSE Mod(FdOf[c], ev)
      /\ refused' = IF context[c] = "kAdded" /\ ev # {} THEN refused
                    ELSE IF context[c] = "kAdded" \/ ok THEN refused \ {c}
                    ELSE refused \cup {c}
  BY <1>4 DEF UpdateChannel, Register
<1>7. /\ events' = [events EXCEPT ![c] = ev]
      /\ size' = IF FdOf[c] >= size THEN size * 2 ELSE size
      /\ table' = IF context[c] = "kNew" THEN [table EXCEPT ![FdOf[c]] = c] ELSE table
  BY <1>3 DEF UpdateChannel
<1>8. size' \in Nat /\ size' >= size /\ size' >= TableSize /\ FdOf[c] < size'
  BY <1>2, <1>7, TableAssumption DEF RegistrationInv, TypeOK, FdsFit
<1>9. interest' \in [Fds -> (SUBSET Wanted) \cup {Absent}]
  BY <1>1, <1>6 DEF TypeOK, Add, Del, Mod
<1>10. TypeOK'
  <2>1. context' \in [Channels -> {"kNew", "kAdded", "kDeleted"}]
    BY <1>5 DEF TypeOK
  <2>2. table' \in [Fds -> Channels \cup {NoChannel}]
    BY <1>1, <1>7 DEF TypeOK
  <2>3. events' \in [Channels -> SUBSET Wanted]
    BY <1>7 DEF TypeOK
  <2>4. refused' \subseteq Channels
    BY <1>1, <1>6 DEF TypeOK
  <2> QED BY <1>8, <1>9, <2>1, <2>2, <2>3, <2>4 DEF TypeOK, dispatchVars
<1>11. \A d \in alive \ {c} : /\ FdOf[d] # FdOf[c]
                             /\ context'[d] = context[d] /\ events'[d] = events[d]
                             /\ (d \in refused' <=> d \in refused)
  BY <1>5, <1>6, <1>7 DEF RegistrationInv, TypeOK
<1>12. context'[c] # "kNew" /\ table'[FdOf[c]] = c /\ events'[c] = ev
  <2>1. table'[FdOf[c]] = c
    BY <1>1, <1>7 DEF RegistrationInv, TypeOK
  <2> QED BY <1>1, <1>5, <1>7, <2>1 DEF TypeOK
<1>13. interest'[FdOf[c]] = IF context'[c] = "kAdded" /\ c \notin refused' THEN ev ELSE Absent
  <2>1. CASE context[c] # "kAdded"
    <3>1. interest[FdOf[c]] = Absent
      BY <2>1 DEF RegistrationInv, InterestAgrees
    <3> QED BY <1>1, <1>5, <1>6, <2>1, <3>1 DEF TypeOK, Add
  <2>2. CASE context[c] = "kAdded"
    <3>1. interest[FdOf[c]] = IF c \in refused THEN Absent ELSE events[c]
      BY <1>1, <2>2 DEF RegistrationInv, InterestAgrees
    <3>2. events[c] # Absent
      BY <1>1 DEF Wanted, Absent, TypeOK
    <3>3. CASE ev = {}
      BY <1>1, <1>5, <1>6, <2>2, <3>3 DEF TypeOK, Del
    <3>4. CASE ev # {}
      BY <1>1, <1>5, <1>6, <2>2, <3>1, <3>2, <3>4 DEF TypeOK, Mod
    <3> QED BY <3>3, <3>4
  <2> QED BY <2>1, <2>2
<1>14. \A f \in Fds \ {FdOf[c]} : interest'[f] = interest[f] /\ table'[f] = table[f]
  BY <1>1, <1>6, <1>7 DEF TypeOK, Add, Del, Mod
<1>15. RegistrationInv'
  <2>1. InterestAgrees'
    <3>1. ASSUME NEW d \in alive
          PROVE  interest'[FdOf[d]] = IF context'[d] = "kAdded" /\ d \notin refused'
                                    THEN events'[d] ELSE Absent
      <4>1. CASE d = c
        BY <1>12, <1>13, <4>1
      <4>2. CASE d # c
        <5>1. FdOf[d] \in Fds \ {FdOf[c]}
          BY <1>11, <4>2, FdAssumption DEF TypeOK
        <5> QED BY <1>11, <1>14, <4>2, <5>1 DEF RegistrationInv, InterestAgrees
      <4> QED BY <4>1, <4>2
    <3>2. ASSUME NEW f \in Fds, interest'[f] # Absent
          PROVE  \E d \in alive : FdOf[d] = f
      BY <1>14, <3>2 DEF RegistrationInv, InterestAgrees
    <3> QED BY <3>1, <3>2 DEF InterestAgrees
  <2>2. ASSUME NEW d \in alive, context'[d] # "kNew"
        PROVE  FdOf[d] < size' /\ table'[FdOf[d]] = d
    <3>1. CASE d = c
      BY <1>8, <1>12, <3>1
    <3>2. CASE d # c
      <4>1. FdOf[d] \in Fds \ {FdOf[c]}
        BY <1>11, <3>2, FdAssumption DEF TypeOK
      <4>2. FdOf[d] < size /\ table[FdOf[d]] = d
        BY <1>11, <2>2, <3>2 DEF RegistrationInv
      <4>3. FdOf[d] \in Nat /\ size \in Nat
        BY <4>1, TableAssumption DEF Fds, TypeOK
      <4> QED BY <1>8, <1>14, <4>1, <4>2, <4>3
    <3> QED BY <3>1, <3>2
  <2>3. \A d \in Channels : context'[d] # "kNew" => d \in alive
    BY <1>5 DEF RegistrationInv, TypeOK
  <2> QED BY <1>8, <2>1, <2>2, <2>3 DEF RegistrationInv
<1>16. RoundInv'
  <2>1. \A d \in undone : context'[d] # "kNew"
    BY <1>11, <1>12 DEF RoundInv, OnlyRegisteredDispatched
  <2> QED BY <2>1 DEF RoundInv, OnlyRegisteredDispatched, CallbacksHaveOwner, dispatchVars
<1> QED BY <1>10, <1>15, <1>16

LEMMA PollerStep ==
  ASSUME FdsFit, PollerInv, [Next]_vars
  PROVE  PollerInv'
<1> USE DEF PollerInv
<1>1. ASSUME NEW c \in Channels, Construct(c) PROVE PollerInv'
  <2>1. FdOf[c] \in Fds /\ interest[FdOf[c]] = Absent
    BY <1>1, FdAssumption DEF Construct, RegistrationInv, InterestAgrees
  <2>2. TypeOK'
    BY <1>1 DEF Construct, TypeOK, dispatchVars, pollerVars
  <2>3. InterestAgrees'
    BY <1>1, <2>1 DEF Construct, RegistrationInv, InterestAgrees, TypeOK, pollerVars
  <2>4. RegistrationInv'
    BY <1>1, <2>3 DEF Construct, RegistrationInv, TypeOK, pollerVars
  <2>5. RoundInv'
    BY <1>1 DEF Construct, RoundInv, OnlyRegisteredDispatched, CallbacksHaveOwner,
              TypeOK, dispatchVars
  <2> QED BY <2>2, <2>4, <2>5
<1>2. ASSUME NEW c \in Channels, Destroy(c) PROVE PollerInv'
  <2>1. FdOf[c] \in Fds
    BY FdAssumption
  <2>2. TypeOK'
    BY <1>2, <2>1 DEF Destroy, TypeOK, dispatchVars
  <2>3. InterestAgrees'
    <3>1. ASSUME NEW d \in alive'
          PROVE  interest'[FdOf[d]] = IF context'[d] = "kAdded" /\ d \notin refused'
                                    THEN events'[d] ELSE Absent
      <4>1. d \in alive /\ FdOf[d] # FdOf[c] /\ FdOf[d] \in Fds
        BY <1>2, <3>1, FdAssumption DEF Destroy, RegistrationInv, TypeOK
      <4> QED BY <1>2, <4>1 DEF Destroy, RegistrationInv, InterestAgrees, TypeOK
    <3>2. ASSUME NEW f \in Fds, interest'[f] # Absent
          PROVE  \E d \in alive' : FdOf[d] = f
      BY <1>2, <2>1, <3>2 DEF Destroy, RegistrationInv, InterestAgrees, TypeOK
    <3> QED BY <3>1, <3>2 DEF InterestAgrees
  <2>4. RegistrationInv'
    BY <1>2, <2>3 DEF Destroy, RegistrationInv, TypeOK
  <2>5. RoundInv'
    BY <1>2 DEF Destroy, RoundInv, OnlyRegisteredDispatched, CallbacksHaveOwner,
              TypeOK, dispatchVars
  <2> QED BY <2>2, <2>4, <2>5
<1>3. ASSUME NEW c \in Channels, Tie(c) \/ LoseOwner(c) PROVE PollerInv'
  <2>1. TypeOK'
    BY <1>3 DEF Tie, LoseOwner, TypeOK, dispatchVars, pollerVars
  <2> QED BY <1>3, <2>1 DEF Tie, LoseOwner, RegistrationInv, InterestAgrees, RoundInv,
              OnlyRegisteredDispatched, CallbacksHaveOwner, TypeOK, dispatchVars, pollerVars
<1>4. ASSUME NEW c \in Channels, NEW w \in Wanted, NEW ok \in BOOLEAN, Enable(c, w, ok)
      PROVE  PollerInv'
  <2>1. c \in alive /\ events[c] \cup {w} \in SUBSET Wanted
    BY <1>4 DEF Enable, TypeOK
  <2> QED BY <1>4, <2>1, UpdateStep DEF Enable
<1>5. ASSUME NEW c \in Channels, NEW w \in Wanted, NEW ok \in BOOLEAN, Disable(c, w, ok)
      PROVE  PollerInv'
  <2>1. c \in alive /\ events[c] \ {w} \in SUBSET Wanted
    BY <1>5 DEF Disable, TypeOK
  <2> QED BY <1>5, <2>1, UpdateStep DEF Disable
<1>6. ASSUME NEW c \in Channels, NEW ok \in BOOLEAN, DisableAll(c, ok) PROVE PollerInv'
  <2>1. c \in alive /\ {} \in SUBSET Wanted
    BY <1>6 DEF DisableAll
  <2> QED BY <1>6, <2>1, UpdateStep DEF DisableAll
<1>7. ASSUME NEW c \in Channels, Remove(c) PROVE PollerInv'
  <2>1. c \in alive /\ FdOf[c] \in Fds
    BY <1>7, FdAssumption DEF Remove
  <2>2. TypeOK'
    BY <1>7, <2>1 DEF Remove, Del, TypeOK, dispatchVars
  <2>3. interest' = [interest EXCEPT ![FdOf[c]] = Absent]
    <3>1. context[c] # "kAdded" => interest[FdOf[c]] = Absent
      BY <2>1 DEF RegistrationInv, InterestAgrees
    <3> QED BY <1>7, <2>1, <3>1 DEF Remove, Del, TypeOK
  <2>4. \A d \in alive \ {c} : FdOf[d] # FdOf[c] /\ FdOf[d] \in Fds
    BY <2>1, FdAssumption DEF RegistrationInv, TypeOK
  <2>5. InterestAgrees'
    BY <1>7, <2>1, <2>3, <2>4 DEF Remove, RegistrationInv, InterestAgrees, TypeOK
  <2>6. RegistrationInv'
    BY <1>7, <2>1, <2>4, <2>5 DEF Remove, RegistrationInv, TypeOK
  \* What is left of the round is not removed: of the active channels only the
  \* current one may be.
  <2>7. c \notin undone
    BY <1>7 DEF Remove, MayRemove, UserCode, RoundInv, TypeOK
  <2>8. RoundInv'
    BY <1>7, <2>7 DEF Remove, RoundInv, OnlyRegisteredDispatched, CallbacksHaveOwner,
              TypeOK, dispatchVars
  <2> QED BY <2>2, <2>6, <2>8
<1>8. ASSUME NEW F \in SUBSET Fds \ {{}}, NEW ready \in [F -> SUBSET Reported], Poll(ready)
      PROVE  PollerInv'
  <2> DEFINE found == {f \in DOMAIN ready : f < size}
  <2>1. \A f \in found : f \in Fds /\ interest[f] # Absent
    BY <1>8 DEF Poll, MayReport
  <2>2. ASSUME NEW f \in found
        PROVE  table[f] \in alive /\ context[table[f]] # "kNew" /\ FdOf[table[f]] = f
    <3>1. PICK c \in alive : FdOf[c] = f
      BY <2>1 DEF RegistrationInv, InterestAgrees
    <3>2. context[c] = "kAdded"
      BY <2>1, <3>1 DEF RegistrationInv, InterestAgrees
    <3> QED BY <3>1, <3>2 DEF RegistrationInv
  <2>3. active' = {table[f] : f \in found} /\ undone' = active'
    BY <1>8 DEF Poll
  <2>4. active' \subseteq {c \in alive : context[c] # "kNew"}
    BY <2>2, <2>3
  <2>5. revents' \in [Channels -> SUBSET Reported]
    <3>1. revents' = [c \in Channels |->
                        IF \E f \in found : table[f] = c THEN ready[FdOf[c]] ELSE revents[c]]
      BY <1>8 DEF Poll
    <3>2. ASSUME NEW c \in Channels, \E f \in found : table[f] = c
          PROVE  ready[FdOf[c]] \in SUBSET Reported
      BY <2>2, <3>2
    <3> QED BY <3>1, <3>2 DEF TypeOK
  <2> HIDE DEF found
  <2>6. TypeOK'
    BY <1>8, <2>3, <2>4, <2>5 DEF Poll, TypeOK, pollerVars
  <2>7. RegistrationInv'
    BY <1>8 DEF Poll, RegistrationInv, InterestAgrees, pollerVars
  <2>8. current' \notin undone'
    BY <1>8, <2>3, <2>4, NoChannelAssumption DEF Poll, TypeOK
  <2>9. RoundInv'
    BY <1>8, <2>3, <2>4, <2>8 DEF Poll, RoundInv, OnlyRegisteredDispatched, CallbacksHaveOwner
  <2> QED BY <2>6, <2>7, <2>9
<1>9. ASSUME NEW c \in Channels, OnEvent(c) PROVE PollerInv'
  <2>1. calls' \in Seq({"close", "error", "read", "write"})
    BY <1>9, CallbacksType DEF OnEvent
  <2>2. TypeOK'
    BY <1>9, <2>1 DEF OnEvent, TypeOK, pollerVars
  <2>3. RegistrationInv'
    BY <1>9 DEF OnEvent, RegistrationInv, InterestAgrees, pollerVars
  <2>4. RoundInv'
    BY <1>9, NoChannelAssumption DEF OnEvent, RoundInv, OnlyRegisteredDispatched,
              CallbacksHaveOwner, TypeOK
  <2> QED BY <2>2, <2>3, <2>4
<1>10. CASE Callback
  <2>1. calls' \in Seq({"close", "error", "read", "write"})
    BY <1>10 DEF Callback, TypeOK
  <2>2. TypeOK'
    BY <1>10, <2>1 DEF Callback, TypeOK, pollerVars
  <2>3. RegistrationInv' /\ RoundInv'
    BY <1>10 DEF Callback, RegistrationInv, InterestAgrees, RoundInv, OnlyRegisteredDispatched,
              CallbacksHaveOwner, pollerVars
  <2> QED BY <2>2, <2>3
<1>11. CASE LastReference \/ ReleaseGuard
  <2>1. TypeOK'
    BY <1>11 DEF LastReference, ReleaseGuard, TypeOK, pollerVars
  <2>2. RegistrationInv' /\ RoundInv'
    BY <1>11 DEF LastReference, ReleaseGuard, RegistrationInv, InterestAgrees, RoundInv,
              OnlyRegisteredDispatched, CallbacksHaveOwner, pollerVars
  <2> QED BY <2>1, <2>2
<1>12. CASE EndRound
  <2>1. TypeOK'
    BY <1>12 DEF EndRound, TypeOK, pollerVars
  <2>2. RegistrationInv' /\ RoundInv'
    BY <1>12 DEF EndRound, Returned, RegistrationInv, InterestAgrees, RoundInv,
              OnlyRegisteredDispatched, CallbacksHaveOwner, pollerVars
  <2> QED BY <2>1, <2>2
<1>13. CASE UNCHANGED vars
  <2>1. TypeOK'
    BY <1>13 DEF vars, TypeOK
  <2> QED BY <1>13, <2>1 DEF vars, RegistrationInv, InterestAgrees, RoundInv,
              OnlyRegisteredDispatched, CallbacksHaveOwner
<1> QED BY <1>1, <1>2, <1>3, <1>4, <1>5, <1>6, <1>7, <1>8, <1>9, <1>10, <1>11, <1>12, <1>13 DEF Next

LEMMA PollerInvariant == FdsFit => (Spec => []PollerInv)
<1> SUFFICES ASSUME FdsFit PROVE Spec => []PollerInv
  OBVIOUS
<1>1. PollerInv /\ [Next]_vars => PollerInv'
  BY PollerStep
<1> QED BY <1>1, PollerInit, PTL DEF Spec

\* The variables keep their types; above all, poll puts nothing but channels on
\* the active list, never the NULL of a removed one.
THEOREM TypeCorrect == FdsFit => (Spec => []TypeOK)
<1>1. PollerInv => TypeOK
  BY DEF PollerInv
<1> QED BY <1>1, PollerInvariant, PTL

\* The kernel's interest list agrees with the channels, through every sequence
\* of Enable, Disable, Remove, closing of fds and reuse of their numbers.
THEOREM InterestAlwaysAgrees == FdsFit => (Spec => []InterestAgrees)
<1>1. PollerInv => InterestAgrees
  BY DEF PollerInv, RegistrationInv
<1> QED BY <1>1, PollerInvariant, PTL

\* poll finds the live channel of each fd the kernel may report.
THEOREM PollAlwaysFindsChannel == FdsFit => (Spec => []PollFindsChannel)
<1>1. PollerInv => PollFindsChannel
  <2> SUFFICES ASSUME PollerInv, NEW f \in Fds, interest[f] # Absent, f < size
               PROVE  table[f] \in alive /\ FdOf[table[f]] = f
    BY DEF PollFindsChannel
  <2>1. PICK c \in alive : FdOf[c] = f
    BY DEF PollerInv, RegistrationInv, InterestAgrees
  <2>2. context[c] = "kAdded"
    BY <2>1 DEF PollerInv, RegistrationInv, InterestAgrees
  <2> QED BY <2>1, <2>2 DEF PollerInv, RegistrationInv
<1> QED BY <1>1, PollerInvariant, PTL

\* Whatever the callbacks of a round do under the conditions RemoveChannel
\* checks, the loop turns to no channel that was removed or destroyed.
THEOREM DispatchIsSafe == FdsFit => (Spec => []OnlyRegisteredDispatched)
<1>1. PollerInv => OnlyRegisteredDispatched
  BY DEF PollerInv, RoundInv
<1> QED BY <1>1, PollerInvariant, PTL

\* No callback runs on a channel that is gone, or without the owner that a tied
\* channel's OnEvent found: its guard keeps it to the last callback.
THEOREM CallbacksAlwaysHaveOwner == FdsFit => (Spec => []CallbacksHaveOwner)
<1>1. PollerInv => CallbacksHaveOwner
  BY DEF PollerInv, RoundInv
<1> QED BY <1>1, PollerInvariant, PTL

\* The table has room for every channel the poller knows, as RemoveChannel
\* asserts, when one doubling is enough for every fd.
THEOREM TableStaysInBounds == FdsFit => (Spec => []TableInBounds)
<1>1. PollerInv => TableInBounds
  BY DEF PollerInv, RegistrationInv, TableInBounds
<1> QED BY <1>1, PollerInvariant, PTL

=============================================================================
