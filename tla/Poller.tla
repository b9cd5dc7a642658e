------------------------------- MODULE Poller -------------------------------
(***************************************************************************)
(* Channels and the EPollPoller they are registered with: the state each    *)
(* channel keeps for the poller, the poller's table of channels by fd, the  *)
(* kernel's interest list, and the dispatch of a round of ready channels.   *)
(* Everything happens on the loop thread; what is hard is that the user's   *)
(* callbacks register, change, remove and destroy channels in the middle of *)
(* a round, and that the kernel hands out the fd of a closed channel again. *)
(*                                                                          *)
(* The user keeps to the rules.  Two the code checks: a channel is removed  *)
(* only under the conditions EventLoop::RemoveChannel and its poller DCHECK, *)
(* and is not destroyed by its own callback.  Two it does not: a channel is *)
(* destroyed and its fd closed only after Remove (~Channel leaves a         *)
(* registered channel in the poller's table), and tie() always names the    *)
(* one owner of the channel.                                                *)
(***************************************************************************)
EXTENDS Naturals, FiniteSets, Sequences

CONSTANTS Channels,   \* channel objects
          FdOf,       \* fd of each; two channels may have it one after another
          TableSize,  \* initial size of channels_ (64)
          MaxFd,      \* bound: the highest fd
          NoChannel   \* NULL

Fds == 0 .. MaxFd
Wanted == {"in", "out"}             \* kReadEvent, kWriteEvent
Reported == Wanted \cup {"hup", "err"}

ASSUME TableAssumption == TableSize \in Nat \ {0} /\ MaxFd \in Nat
ASSUME FdAssumption == FdOf \in [Channels -> Fds]
ASSUME NoChannelAssumption == NoChannel \notin Channels

VARIABLES
    alive,      \* constructed channels, their fd open
    events,     \* events_ of each channel
    revents,    \* revents_ of each channel, until OnEvent has read it
    context,    \* context_: what the poller knows of the channel
    tie,        \* tied_ and tie_ of each channel: untied, tied to an owner, or
                \* to one that is gone
    guard,      \* the tie that OnEvent of the current channel found: if it was
                \* tied, OnEvent holds the owner; "destructor" while that was
                \* the last reference and the owner's destructor runs
    table,      \* channels_ of the poller, memory beyond its end included
    size,       \* channels_.size()
    interest,   \* the kernel's interest list: the events of each fd, or none
    refused,    \* history: the channels in state kAdded whose EPOLL_CTL_ADD failed
    active,     \* active_channels_, until the end of the round
    undone,     \* those of them that are not dispatched yet
    current,    \* current_active_channel_
    calls       \* the callback of the current channel that runs, and those to come

vars == <<alive, events, revents, context, tie, table, size, interest, refused,
          active, undone, current, calls, guard>>

dispatchVars == <<active, undone, current, calls, guard>>
pollerVars == <<table, size, interest, refused>>

\* The interest list does not hold the fd.
Absent == {"absent"}

TypeOK ==
    /\ alive \subseteq Channels
    /\ events \in [Channels -> SUBSET Wanted]
    /\ revents \in [Channels -> SUBSET Reported]
    /\ context \in [Channels -> {"kNew", "kAdded", "kDeleted"}]
    /\ tie \in [Channels -> {"untied", "tied", "expired"}]
    /\ table \in [Fds -> Channels \cup {NoChannel}]
    /\ size \in Nat
    /\ interest \in [Fds -> (SUBSET Wanted) \cup {Absent}]
    /\ refused \subseteq Channels
    /\ active \subseteq Channels
    /\ undone \subseteq active
    /\ current \in Channels \cup {NoChannel}
    /\ calls \in Seq({"close", "error", "read", "write"})
    /\ guard \in {"untied", "tied", "expired", "destructor"}

Init ==
    /\ alive = {}
    /\ events = [c \in Channels |-> {}]
    /\ revents = [c \in Channels |-> {}]
    /\ context = [c \in Channels |-> "kNew"]
    /\ tie = [c \in Channels |-> "untied"]
    /\ table = [f \in Fds |-> NoChannel]
    /\ size = TableSize
    /\ interest = [f \in Fds |-> Absent]
    /\ refused = {}
    /\ active = {}
    /\ undone = {}
    /\ current = NoChannel
    /\ calls = <<>>
    /\ guard = "untied"

\* User code runs between rounds, inside a callback, and when OnEvent lets go of
\* an owner that nobody else holds.
UserCode ==
    \/ calls # <<>>
    \/ guard = "destructor"
    \/ current = NoChannel /\ undone = {}

-----------------------------------------------------------------------------
(* The life of a channel *)

\* A channel is constructed on an fd that was just opened, with the members the
\* constructor gives it, which are those of a channel that does not exist.
Construct(c) ==
    /\ UserCode
    /\ c \notin alive
    /\ \A d \in alive : FdOf[d] # FdOf[c]
    /\ alive' = alive \cup {c}
    /\ UNCHANGED <<events, revents, context, tie, pollerVars, dispatchVars>>

\* A channel that is not registered is destroyed, but not by its own callback
\* (CHECK(!event_handling_)), and its fd is closed.
Destroy(c) ==
    /\ UserCode
    /\ c \in alive
    /\ context[c] = "kNew"
    /\ ~(current = c /\ calls # <<>>)
    /\ alive' = alive \ {c}
    /\ events' = [events EXCEPT ![c] = {}]
    /\ revents' = [revents EXCEPT ![c] = {}]
    /\ tie' = [tie EXCEPT ![c] = "untied"]
    /\ interest' = [interest EXCEPT ![FdOf[c]] = Absent]
    /\ UNCHANGED <<context, table, size, refused, dispatchVars>>

\* Channel::tie
Tie(c) ==
    /\ UserCode
    /\ c \in alive
    /\ tie' = [tie EXCEPT ![c] = "tied"]
    /\ UNCHANGED <<alive, events, revents, context, pollerVars, dispatchVars>>

\* The last reference to the owner of a channel goes: not while OnEvent of the
\* channel holds one, which it does not if the channel was tied only by the
\* callback under way.
LoseOwner(c) ==
    /\ UserCode
    /\ tie[c] = "tied"
    /\ ~(current = c /\ guard = "tied")
    /\ tie' = [tie EXCEPT ![c] = "expired"]
    /\ UNCHANGED <<alive, events, revents, context, pollerVars, dispatchVars>>

\* epoll_ctl by EPollPoller::Update: an error is logged and changes nothing.
\* ADD of an fd that is present and MOD of one that is absent are errors, and
\* ADD may fail otherwise (no memory, too many watches, a file that cannot be
\* polled): ok says that it does not.
Add(fd, ev, ok) == [interest EXCEPT ![fd] = IF @ = Absent /\ ok THEN ev ELSE @]
Mod(fd, ev) == [interest EXCEPT ![fd] = IF @ = Absent THEN @ ELSE ev]
Del(fd) == [interest EXCEPT ![fd] = Absent]

\* What EPollPoller::UpdateChannel does to a channel that fits the table.
Register(c, ev, ok) ==
    /\ context' = [context EXCEPT ![c] =
                     IF @ = "kAdded" /\ ev = {} THEN "kDeleted" ELSE "kAdded"]
    /\ interest' = IF context[c] # "kAdded" THEN Add(FdOf[c], ev, ok)
                   ELSE IF ev = {} THEN Del(FdOf[c]) ELSE Mod(FdOf[c], ev)
    /\ refused' = IF context[c] = "kAdded" /\ ev # {} THEN refused
                  ELSE IF context[c] = "kAdded" \/ ok THEN refused \ {c}
                  ELSE refused \cup {c}

\* Mutant of UpdateChannel: a channel that wants nothing is marked, but its fd
\* is not taken off the interest list.
UpdateChannel_NoDel(c, ev, ok) ==
    /\ events' = [events EXCEPT ![c] = ev]
    /\ size' = IF FdOf[c] >= size THEN size * 2 ELSE size
    /\ table' = [table EXCEPT ![FdOf[c]] = c]
    /\ context' = [context EXCEPT ![c] = IF @ = "kAdded" /\ ev = {} THEN "kDeleted" ELSE "kAdded"]
    /\ interest' = IF context[c] # "kAdded" THEN Add(FdOf[c], ev, ok)
                   ELSE IF ev = {} THEN interest ELSE Mod(FdOf[c], ev)
    /\ refused' = IF ok THEN refused \ {c} ELSE refused \cup {c}

\* Mutant of UpdateChannel: the table is written only when it grows.
UpdateChannel_NoEntry(c, ev, ok) ==
    /\ events' = [events EXCEPT ![c] = ev]
    /\ size' = IF FdOf[c] >= size THEN size * 2 ELSE size
    /\ table' = IF FdOf[c] >= size THEN [table EXCEPT ![FdOf[c]] = c] ELSE table
    /\ Register(c, ev, ok)

\* Mutant of UpdateChannel: the table grows only for an fd well beyond its end.
UpdateChannel_NoGrow(c, ev, ok) ==
    /\ events' = [events EXCEPT ![c] = ev]
    /\ size' = IF FdOf[c] > size THEN size * 2 ELSE size
    /\ table' = [table EXCEPT ![FdOf[c]] = c]
    /\ Register(c, ev, ok)

\* Channel::Update, EventLoop::UpdateChannel and EPollPoller::UpdateChannel with
\* the new events_: the table is doubled once for a new channel, and an update
\* of a known channel beyond its end is ignored.
UpdateChannel(c, ev, ok) ==
    LET fd == FdOf[c]
    IN  /\ events' = [events EXCEPT ![c] = ev]
        /\ size' = IF fd >= size /\ context[c] = "kNew" THEN size * 2 ELSE size
        /\ table' = IF context[c] = "kNew" THEN [table EXCEPT ![fd] = c] ELSE table
        /\ IF fd >= size /\ context[c] # "kNew"
           THEN UNCHANGED <<context, interest, refused>>
           ELSE Register(c, ev, ok)

\* EnableReading, EnableWriting
Enable(c, w, ok) ==
    /\ UserCode
    /\ c \in alive
    /\ UpdateChannel(c, events[c] \cup {w}, ok)
    /\ UNCHANGED <<alive, revents, tie, dispatchVars>>

\* DisableReading, DisableWriting
Disable(c, w, ok) ==
    /\ UserCode
    /\ c \in alive
    /\ UpdateChannel(c, events[c] \ {w}, ok)
    /\ UNCHANGED <<alive, revents, tie, dispatchVars>>

\* DisableAll
DisableAll(c, ok) ==
    /\ UserCode
    /\ c \in alive
    /\ UpdateChannel(c, {}, ok)
    /\ UNCHANGED <<alive, revents, tie, dispatchVars>>

\* Mutant of MayRemove: any channel may be removed in a callback.
MayRemove_AnyTime(c) == context[c] # "kNew" /\ events[c] = {}

\* The conditions DCHECKed by EventLoop::RemoveChannel and the poller's.
MayRemove(c) ==
    /\ current = NoChannel \/ current = c \/ c \notin active
    /\ FdOf[c] < size
    /\ table[FdOf[c]] = c
    /\ events[c] = {}
    /\ context[c] # "kNew"

\* Channel::Remove
Remove(c) ==
    /\ UserCode
    /\ c \in alive
    /\ MayRemove(c)
    /\ interest' = IF context[c] = "kAdded" THEN Del(FdOf[c]) ELSE interest
    /\ context' = [context EXCEPT ![c] = "kNew"]
    /\ table' = [table EXCEPT ![FdOf[c]] = NoChannel]
    /\ refused' = refused \ {c}
    /\ UNCHANGED <<alive, events, revents, tie, size, dispatchVars>>

-----------------------------------------------------------------------------
(* A round of the loop *)

\* What the kernel may report of an fd: what is wanted of it, hang-up and error.
MayReport(fd, ev) ==
    interest[fd] # Absent /\ ev # {} /\ ev \subseteq interest[fd] \cup {"hup", "err"}

\* EPollPoller::poll: the ready fds are looked up in the table; one beyond its
\* end is skipped as spurious.
Poll(ready) ==
    /\ current = NoChannel
    /\ undone = {}
    /\ \A f \in DOMAIN ready : MayReport(f, ready[f])
    /\ LET found == {f \in DOMAIN ready : f < size}
       IN  /\ active' = {table[f] : f \in found}
           /\ undone' = {table[f] : f \in found}
           /\ revents' = [c \in Channels |->
                            IF \E f \in found : table[f] = c THEN ready[FdOf[c]] ELSE revents[c]]
    /\ UNCHANGED <<alive, events, context, tie, pollerVars, current, calls, guard>>

\* The callbacks of OnEventWithGuard, in its order.
CallbacksOf(ev) ==
    LET one(name, cond) == IF cond THEN <<name>> ELSE <<>>
    IN  one("close", "hup" \in ev /\ "in" \notin ev) \o one("error", "err" \in ev)
          \o one("read", "in" \in ev) \o one("write", "out" \in ev)

\* OnEvent has returned: its guard, if it took one, is gone.
Returned == calls = <<>> /\ guard \notin {"tied", "destructor"}

\* Mutant of OnEvent: the callbacks run whether or not the owner was there.
OnEvent_AnyOwner(c) ==
    /\ Returned
    /\ c \in undone
    /\ undone' = undone \ {c}
    /\ current' = c
    /\ guard' = tie[c]
    /\ calls' = CallbacksOf(revents[c])
    /\ revents' = [revents EXCEPT ![c] = {}]
    /\ UNCHANGED <<alive, events, context, tie, pollerVars, active>>

\* The loop goes on to another active channel: OnEvent, with its owner's guard.
OnEvent(c) ==
    /\ Returned
    /\ c \in undone
    /\ undone' = undone \ {c}
    /\ current' = c
    /\ guard' = tie[c]
    /\ calls' = IF tie[c] = "expired" THEN <<>> ELSE CallbacksOf(revents[c])
    /\ revents' = [revents EXCEPT ![c] = {}]
    /\ UNCHANGED <<alive, events, context, tie, pollerVars, active>>

\* A callback of the current channel returns.
Callback ==
    /\ calls # <<>>
    /\ calls' = Tail(calls)
    /\ UNCHANGED <<alive, events, revents, context, tie, pollerVars,
                   active, undone, current, guard>>

\* OnEvent returns and lets go of the owner.  Nobody else holds it: its
\* destructor runs, which may remove and destroy the channel.
LastReference ==
    /\ calls = <<>>
    /\ guard = "tied"
    /\ guard' = "destructor"
    /\ tie' = [tie EXCEPT ![current] = "expired"]
    /\ UNCHANGED <<alive, events, revents, context, pollerVars, active, undone,
                   current, calls>>

\* Somebody else does, or the destructor is done.
ReleaseGuard ==
    /\ calls = <<>>
    /\ guard \in {"tied", "destructor"}
    /\ guard' = "untied"
    /\ UNCHANGED <<alive, events, revents, context, tie, pollerVars, active, undone,
                   current, calls>>

\* The round is over.
EndRound ==
    /\ current # NoChannel
    /\ Returned
    /\ undone = {}
    /\ current' = NoChannel
    /\ active' = {}
    /\ guard' = "untied"
    /\ UNCHANGED <<alive, events, revents, context, tie, pollerVars, undone, calls>>

Next ==
    \/ \E c \in Channels : Construct(c)
    \/ \E c \in Channels : Destroy(c)
    \/ \E c \in Channels : Tie(c)
    \/ \E c \in Channels : LoseOwner(c)
    \/ \E c \in Channels, w \in Wanted, ok \in BOOLEAN : Enable(c, w, ok)
    \/ \E c \in Channels, w \in Wanted, ok \in BOOLEAN : Disable(c, w, ok)
    \/ \E c \in Channels, ok \in BOOLEAN : DisableAll(c, ok)
    \/ \E c \in Channels : Remove(c)
    \/ \E F \in SUBSET Fds \ {{}} : \E ready \in [F -> SUBSET Reported] : Poll(ready)
    \/ \E c \in Channels : OnEvent(c)
    \/ Callback
    \/ LastReference
    \/ ReleaseGuard
    \/ EndRound

Spec == Init /\ [][Next]_vars

-----------------------------------------------------------------------------
(* Properties *)

\* The kernel is asked for exactly what the channels want: the fd of a channel
\* the poller has added is on the interest list with the channel's events, and
\* no other fd is.  epoll_ctl errors are only logged, so a wrong operation
\* would go unnoticed; a channel whose ADD failed is deaf, whatever it enables
\* later, until it wants nothing or is removed and is then added again.
InterestAgrees ==
    /\ \A c \in alive : interest[FdOf[c]] =
          IF context[c] = "kAdded" /\ c \notin refused THEN events[c] ELSE Absent
    /\ \A f \in Fds : interest[f] # Absent => \E c \in alive : FdOf[c] = f

\* poll finds the live channel of every fd the kernel may report, and not its
\* predecessor on the same fd or NULL (DCHECK(channel->fd() == fd)).
PollFindsChannel ==
    \A f \in Fds : interest[f] # Absent /\ f < size => table[f] \in alive /\ FdOf[table[f]] = f

\* The channels still waiting for their turn in a round are alive and
\* registered, whatever the callbacks of the channels before them did.  (A
\* channel that removes itself gets the rest of its own callbacks all the same.)
OnlyRegisteredDispatched == undone \subseteq {c \in alive : context[c] # "kNew"}

\* Channel::OnEvent: while callbacks run, their channel exists, and the owner of
\* a channel that was tied when OnEvent began is there until they have returned,
\* although the callbacks of this and of earlier channels of the round drop
\* references to owners and destroy channels.
CallbacksHaveOwner ==
    calls # <<>> => /\ current \in alive
                    /\ guard # "untied" => tie[current] = "tied"

\* EPollPoller::RemoveChannel: "DCHECK(implicit_cast<size_t>(channel->fd()) <
\* channels_.size())", for every channel the poller knows.
TableInBounds == \A c \in alive : context[c] # "kNew" => FdOf[c] < size

=============================================================================
