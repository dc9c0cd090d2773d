-------------------------------- MODULE Poller -------------------------------
(***************************************************************************)
(* An EPollPoller (src/EPollPoller.cc), the Channels registered with it    *)
(* and the kernel's epoll instance.                                        *)
(*                                                                         *)
(* A Channel is known by its address, an element of Channels; its fd_ is   *)
(* the descriptor it was made for.  Three records of what is watched must  *)
(* agree: index_ in the channel, channels_ in the poller (by descriptor)   *)
(* and the kernel's interest list, which holds the channel's address and   *)
(* the events it was registered for.  Descriptors are reused, and the      *)
(* kernel forgets one that is closed.                                      *)
(*                                                                         *)
(* The module has the operations; module Reactor is a program using them.  *)
(***************************************************************************)
EXTENDS Integers, FiniteSets, FiniteSetsExt

CONSTANTS
  Channels,             \* the addresses of channels
  Nobody,               \* nullptr
  MaxFd,                \* descriptors are 1 .. MaxFd
  kInitEventListSize

ASSUME PollerAssumption ==
  /\ Nobody \notin Channels
  /\ IsFiniteSet(Channels)          \* memory is finite
  /\ MaxFd \in Nat
  /\ kInitEventListSize \in Nat \ {0}

Fds == 1 .. MaxFd
NoFd == 0
Events == {"read", "write"}

VARIABLES
  fd_,                  \* of each channel, NoFd if there is no such object
  events_,              \* events of interest of each channel
  revents_,             \* events poll() has stored in each channel
  index_,               \* kNew, kAdded or kDeleted
  channels_,            \* the channel of each descriptor
  epollPtr,             \* kernel: the channel a descriptor is registered with
  epollEvents,          \* kernel: the events it is registered for
  ready,                \* kernel: the events a descriptor is ready for
  ctlFailed,            \* history: has epoll_ctl returned an error?
  eventListSize,        \* events_.size(), of the poller's vector
  activeChannels_       \* channels poll() returned, not handled yet

epollVars == <<epollPtr, epollEvents, ctlFailed>>
pollerVars == <<events_, index_, channels_, epollVars>>
waitVars == <<revents_, eventListSize, activeChannels_>>

PollerInit ==
  /\ channels_ = [fd \in Fds |-> Nobody]
  /\ epollPtr = [fd \in Fds |-> Nobody]
  /\ epollEvents = [fd \in Fds |-> {}]
  /\ ctlFailed = FALSE
  /\ eventListSize = kInitEventListSize
  /\ activeChannels_ = {}

-----------------------------------------------------------------------------
(* Registration *)

(* EPollPoller::update: epoll_ctl, for a channel whose events are ev.  It  *)
(* fails if a descriptor is added twice, or changed or deleted when it is  *)
(* not there.                                                              *)
Update(operation, ch, ev) ==
  LET fd == fd_[ch]
      ok == (operation = "ADD") <=> (epollPtr[fd] = Nobody)
      gone == operation = "DEL"
  IN
  /\ ctlFailed' = (ctlFailed \/ ~ok)
  /\ epollPtr' =
       IF ok THEN [epollPtr EXCEPT ![fd] = IF gone THEN Nobody ELSE ch]
             ELSE epollPtr
  /\ epollEvents' =
       IF ok THEN [epollEvents EXCEPT ![fd] = IF gone THEN {} ELSE ev]
             ELSE epollEvents

(* Mutant: a channel that is taken out is still marked as added.           *)
DeletedMutant == "kAdded"

(* The mark of a channel without events of interest.                       *)
Deleted == "kDeleted"

(* updateChannel, after ch's events_ were set to ev.  A channel the kernel *)
(* does not watch is added, even if there is nothing to watch for.         *)
updateChannel(ch, ev) ==
  /\ events_' = [events_ EXCEPT ![ch] = ev]
  /\ \/ /\ index_[ch] # "kAdded"
        /\ channels_' = IF index_[ch] = "kNew"
                          THEN [channels_ EXCEPT ![fd_[ch]] = ch]
                          ELSE channels_
        /\ index_' = [index_ EXCEPT ![ch] = "kAdded"]
        /\ Update("ADD", ch, ev)
     \/ /\ index_[ch] = "kAdded" /\ ev = {}
        /\ Update("DEL", ch, ev)
        /\ index_' = [index_ EXCEPT ![ch] = Deleted]
        /\ UNCHANGED channels_
     \/ /\ index_[ch] = "kAdded" /\ ev # {}
        /\ Update("MOD", ch, ev)
        /\ UNCHANGED <<index_, channels_>>

(* Mutant: the poller keeps the address.                                   *)
EraseMutant(ch) == UNCHANGED channels_

(* channels_.erase(fd).                                                    *)
Erase(ch) == channels_' = [channels_ EXCEPT ![fd_[ch]] = Nobody]

(* removeChannel.                                                          *)
removeChannel(ch) ==
  /\ Erase(ch)
  /\ IF index_[ch] = "kAdded" THEN Update("DEL", ch, {})
                              ELSE UNCHANGED epollVars
  /\ index_' = [index_ EXCEPT ![ch] = "kNew"]
  /\ UNCHANGED events_

enableReading(ch) == updateChannel(ch, events_[ch] \cup {"read"})
enableWriting(ch) == updateChannel(ch, events_[ch] \cup {"write"})
disableWriting(ch) == updateChannel(ch, events_[ch] \ {"write"})
disableAll(ch) == updateChannel(ch, {})

isWriting(ch) == "write" \in events_[ch]

(* Mutant: the descriptor is leaked.                                       *)
ClosedMutant(ch) == fd_

(* The descriptor of ch is closed and free again.                          *)
Closed(ch) == [fd_ EXCEPT ![ch] = NoFd]

(* ~Channel and close: the kernel stops watching the descriptor.           *)
DestroyChannel(ch) ==
  /\ fd_' = Closed(ch)
  /\ events_' = [events_ EXCEPT ![ch] = {}]
  /\ index_' = [index_ EXCEPT ![ch] = "kNew"]
  /\ epollPtr' = [epollPtr EXCEPT ![fd_[ch]] = Nobody]
  /\ epollEvents' = [epollEvents EXCEPT ![fd_[ch]] = {}]
  /\ ready' = [ready EXCEPT ![fd_[ch]] = {}]
  /\ UNCHANGED <<channels_, ctlFailed>>

-----------------------------------------------------------------------------
(* Polling *)

(* What epoll_wait has to report of descriptor fd.                         *)
Reportable(fd) ==
  IF epollPtr[fd] = Nobody THEN {} ELSE epollEvents[fd] \cap ready[fd]

ReadyFds == {fd \in Fds : Reportable(fd) # {}}

(* Mutant: the vector keeps its size.                                      *)
GrownMutant(numEvents) == eventListSize

(* Mutant: the vector grows whenever something was reported.               *)
GrownMutant2(numEvents) == 2 * eventListSize

(* events_.resize, after numEvents events were reported.                   *)
Grown(numEvents) ==
  IF numEvents = eventListSize THEN 2 * eventListSize ELSE eventListSize

(* poll with fillActiveChannels.  epoll_wait reports as many of the ready  *)
(* descriptors as events_ can hold, whichever it likes.                    *)
poll ==
  \E reported \in SUBSET ReadyFds :
    LET n == Cardinality(reported) IN
    /\ n = Min({Cardinality(ReadyFds), eventListSize})
    /\ activeChannels_' = {epollPtr[fd] : fd \in reported}
    /\ revents_' = [ch \in Channels |->
                      UNION {Reportable(fd) : fd \in
                               {f \in reported : epollPtr[f] = ch}}]
    /\ eventListSize' = IF n > 0 THEN Grown(n) ELSE eventListSize

hasChannel(ch) == channels_[fd_[ch]] = ch

-----------------------------------------------------------------------------
(* Properties *)

(* Type correctness of the poller's part of the state.                     *)
PollerTypeOK ==
  /\ fd_ \in [Channels -> Fds \cup {NoFd}]
  /\ events_ \in [Channels -> SUBSET Events]
  /\ revents_ \in [Channels -> SUBSET Events]
  /\ index_ \in [Channels -> {"kNew", "kAdded", "kDeleted"}]
  /\ channels_ \in [Fds -> Channels \cup {Nobody}]
  /\ epollPtr \in [Fds -> Channels \cup {Nobody}]
  /\ epollEvents \in [Fds -> SUBSET Events]
  /\ ready \in [Fds -> SUBSET Events]
  /\ ctlFailed \in BOOLEAN
  /\ eventListSize \in Nat
  /\ activeChannels_ \subseteq Channels

(***************************************************************************)
(* The three records agree.  A channel is marked kAdded exactly if the     *)
(* kernel watches its descriptor for it and for its events_, marked at all *)
(* exactly if channels_ holds it, and neither the map nor the kernel holds *)
(* the address of anything else, whatever descriptors were reused.  So     *)
(* epoll_ctl never fails; a failure to add or modify ends the process.     *)
(* Only the addresses in left may be in the map after their channels were  *)
(* destroyed, under descriptors that nobody uses.                          *)
(***************************************************************************)
AgreesBut(left) ==
  /\ \A ch \in Channels :
       /\ index_[ch] = "kAdded" =>
            /\ epollPtr[fd_[ch]] = ch
            /\ epollEvents[fd_[ch]] = events_[ch]
       /\ index_[ch] # "kNew" => hasChannel(ch)
  /\ \A fd \in Fds :
       /\ epollPtr[fd] # Nobody =>
            fd_[epollPtr[fd]] = fd /\ index_[epollPtr[fd]] = "kAdded"
       /\ channels_[fd] # Nobody =>
            \/ fd_[channels_[fd]] = fd /\ index_[channels_[fd]] # "kNew"
            \/ channels_[fd] \in left /\ \A ch \in Channels : fd_[ch] # fd
  /\ ~ctlFailed

(* The vector of events grows with the number of channels, not with time:  *)
(* it doubles only when a poll has filled it.                              *)
EventListBounded ==
  eventListSize <= Max({kInitEventListSize, 2 * Cardinality(Channels)})
=============================================================================
