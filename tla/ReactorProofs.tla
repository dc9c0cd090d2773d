---------------------------- MODULE ReactorProofs ----------------------------
(***************************************************************************)
(* Proofs about Poller and Reactor, for any number of channels and         *)
(* descriptors: the channels, the poller and the kernel agree, and what is *)
(* handled, called and left behind is as it should be.                     *)
(***************************************************************************)
EXTENDS Reactor, QueueFacts

-----------------------------------------------------------------------------
(* The operations of the poller *)

(* Channels that exist have descriptors of their own; of one that does not *)
(* nothing is recorded.                                                    *)
FdInv ==
  /\ \A ch, other \in Channels :
       Exists(ch) /\ fd_[ch] = fd_[other] => ch = other
  /\ \A ch \in Channels :
       ~Exists(ch) => index_[ch] = "kNew" /\ events_[ch] = {}

(* What the poller and the kernel record.                                  *)
RecordsOK ==
  /\ channels_ \in [Fds -> Channels \cup {Nobody}]
  /\ epollPtr \in [Fds -> Channels \cup {Nobody}]
  /\ epollEvents \in [Fds -> SUBSET Events]
  /\ ctlFailed \in BOOLEAN

(* epoll_ctl succeeds if the record is as the caller thinks.               *)
LEMMA CtlSucceeds ==
  ASSUME PollerTypeOK, NEW left, AgreesBut(left), NEW ch \in Channels,
         Exists(ch),
         NEW ev \in SUBSET Events, NEW operation \in {"ADD", "MOD", "DEL"},
         operation = "ADD" <=> epollPtr[fd_[ch]] = Nobody,
         Update(operation, ch, ev)
  PROVE  /\ ctlFailed' = FALSE
         /\ epollPtr' = [epollPtr EXCEPT ![fd_[ch]] =
                           IF operation = "DEL" THEN Nobody ELSE ch]
         /\ epollEvents' = [epollEvents EXCEPT ![fd_[ch]] =
                              IF operation = "DEL" THEN {} ELSE ev]
<1>1. ctlFailed' = FALSE BY Zenon DEF Update, AgreesBut
<1> QED BY <1>1, Zenon DEF Update

(* A channel's descriptor.                                                 *)
LEMMA FdOf ==
  ASSUME PollerTypeOK, NEW left, AgreesBut(left), FdInv, NEW ch \in Channels,
         Exists(ch)
  PROVE  /\ fd_[ch] \in Fds
         /\ index_[ch] = "kAdded" <=> epollPtr[fd_[ch]] # Nobody
         /\ epollPtr[fd_[ch]] # Nobody => epollPtr[fd_[ch]] = ch
         /\ index_[ch] # "kNew" <=> channels_[fd_[ch]] # Nobody
         /\ channels_[fd_[ch]] # Nobody => channels_[fd_[ch]] = ch
         /\ index_[ch] \in {"kNew", "kAdded", "kDeleted"}
<1>1. fd_[ch] \in Fds BY DEF PollerTypeOK, Exists
<1>2. epollPtr[fd_[ch]] # Nobody =>
        epollPtr[fd_[ch]] = ch /\ index_[ch] = "kAdded"
  BY <1>1 DEF PollerTypeOK, AgreesBut, FdInv
<1>3. channels_[fd_[ch]] # Nobody =>
        channels_[fd_[ch]] = ch /\ index_[ch] # "kNew"
  BY <1>1 DEF PollerTypeOK, AgreesBut, FdInv
<1>4. /\ index_[ch] = "kAdded" => epollPtr[fd_[ch]] # Nobody
      /\ index_[ch] # "kNew" => channels_[fd_[ch]] # Nobody
  BY PollerAssumption DEF AgreesBut, hasChannel
<1> QED BY <1>1, <1>2, <1>3, <1>4 DEF PollerTypeOK

(* The mark of a channel whose events of interest are set to ev.           *)
Mark(ch, ev) ==
  IF index_[ch] = "kAdded" /\ ev = {} THEN "kDeleted" ELSE "kAdded"

(* updateChannel on a channel that exists: epoll_ctl succeeds.             *)
LEMMA UpdateAgrees ==
  ASSUME PollerTypeOK, NEW left, AgreesBut(left), FdInv, NEW ch \in Channels,
         Exists(ch),
         NEW ev \in SUBSET Events, updateChannel(ch, ev), fd_' = fd_
  PROVE  /\ events_' = [events_ EXCEPT ![ch] = ev]
         /\ index_' = [index_ EXCEPT ![ch] = Mark(ch, ev)]
         /\ RecordsOK' /\ AgreesBut(left)'
<1> DEFINE fd == fd_[ch]
<1>0. fd \in Fds /\ Nobody \notin Channels BY FdOf, PollerAssumption
<1>1. events_' = [events_ EXCEPT ![ch] = ev] BY Zenon DEF updateChannel
<1>2. CASE index_[ch] # "kAdded"
  <2>1. /\ channels_' = IF index_[ch] = "kNew" THEN [channels_ EXCEPT ![fd] = ch]
                        ELSE channels_
        /\ index_' = [index_ EXCEPT ![ch] = "kAdded"]
        /\ Update("ADD", ch, ev)
    BY <1>2, Zenon DEF updateChannel
  <2>2. epollPtr[fd] = Nobody BY <1>2, FdOf
  <2>3. /\ ctlFailed' = FALSE
        /\ epollPtr' = [epollPtr EXCEPT ![fd] = ch]
        /\ epollEvents' = [epollEvents EXCEPT ![fd] = ev]
    BY <2>1, <2>2, CtlSucceeds
  <2>4. channels_' = [channels_ EXCEPT ![fd] = ch]
    <3>1. index_[ch] # "kNew" => channels_[fd] = ch BY FdOf
    <3> QED BY <2>1, <3>1 DEF PollerTypeOK
  <2>5. RecordsOK' BY <1>0, <2>3, <2>4 DEF PollerTypeOK, RecordsOK
  <2>6. index_' = [index_ EXCEPT ![ch] = Mark(ch, ev)]
    BY <1>2, <2>1 DEF Mark
  <2>7. AgreesBut(left)'
    BY <1>0, <1>1, <2>1, <2>3, <2>4
       DEF AgreesBut, hasChannel, PollerTypeOK, FdInv, Exists
  <2> QED BY <1>1, <2>5, <2>6, <2>7
<1>3. CASE index_[ch] = "kAdded" /\ ev = {}
  <2>1. /\ channels_' = channels_
        /\ index_' = [index_ EXCEPT ![ch] = "kDeleted"]
        /\ Update("DEL", ch, ev)
    BY <1>3, Zenon DEF updateChannel, Deleted
  <2>2. epollPtr[fd] # Nobody BY <1>3, FdOf
  <2>3. /\ ctlFailed' = FALSE
        /\ epollPtr' = [epollPtr EXCEPT ![fd] = Nobody]
        /\ epollEvents' = [epollEvents EXCEPT ![fd] = {}]
    BY <2>1, <2>2, CtlSucceeds
  <2>5. RecordsOK' BY <1>0, <2>1, <2>3 DEF PollerTypeOK, RecordsOK
  <2>6. index_' = [index_ EXCEPT ![ch] = Mark(ch, ev)]
    BY <1>3, <2>1 DEF Mark
  <2>7. AgreesBut(left)'
    BY <1>0, <1>1, <1>3, <2>1, <2>3
       DEF AgreesBut, hasChannel, PollerTypeOK, FdInv, Exists
  <2> QED BY <1>1, <2>5, <2>6, <2>7
<1>4. CASE index_[ch] = "kAdded" /\ ev # {}
  <2>1. /\ channels_' = channels_ /\ index_' = index_
        /\ Update("MOD", ch, ev)
    BY <1>4, Zenon DEF updateChannel
  <2>2. epollPtr[fd] = ch BY <1>4, FdOf
  <2>3. /\ ctlFailed' = FALSE
        /\ epollPtr' = [epollPtr EXCEPT ![fd] = ch]
        /\ epollEvents' = [epollEvents EXCEPT ![fd] = ev]
    BY <1>0, <2>1, <2>2, CtlSucceeds
  <2>5. RecordsOK' BY <1>0, <2>1, <2>3 DEF PollerTypeOK, RecordsOK
  <2>6. index_' = [index_ EXCEPT ![ch] = Mark(ch, ev)]
    BY <1>4, <2>1 DEF Mark, PollerTypeOK
  <2>7. AgreesBut(left)'
    BY <1>0, <1>1, <1>4, <2>1, <2>2, <2>3
       DEF AgreesBut, hasChannel, PollerTypeOK, FdInv, Exists
  <2> QED BY <1>1, <2>5, <2>6, <2>7
<1> QED BY <1>2, <1>3, <1>4

(* removeChannel on a channel that exists.                                 *)
LEMMA RemoveAgrees ==
  ASSUME PollerTypeOK, NEW left, AgreesBut(left), FdInv, NEW ch \in Channels,
         Exists(ch),
         removeChannel(ch), fd_' = fd_
  PROVE  /\ events_' = events_
         /\ index_' = [index_ EXCEPT ![ch] = "kNew"]
         /\ RecordsOK' /\ AgreesBut(left)'
<1> DEFINE fd == fd_[ch]
<1>0. fd \in Fds /\ Nobody \notin Channels BY FdOf, PollerAssumption
<1>1. /\ events_' = events_ /\ index_' = [index_ EXCEPT ![ch] = "kNew"]
      /\ channels_' = [channels_ EXCEPT ![fd] = Nobody]
  BY Zenon DEF removeChannel, Erase
<1>2. /\ ctlFailed' = FALSE
      /\ epollPtr' = [epollPtr EXCEPT ![fd] = Nobody]
      /\ epollEvents' = [epollEvents EXCEPT ![fd] = IF index_[ch] = "kAdded"
                                                    THEN {} ELSE @]
  <2>1. CASE index_[ch] = "kAdded"
    <3>1. Update("DEL", ch, {}) BY <2>1, Zenon DEF removeChannel
    <3>2. epollPtr[fd] # Nobody BY <2>1, FdOf
    <3>3. {} \in SUBSET Events OBVIOUS
    <3> QED BY <2>1, <3>1, <3>2, <3>3, CtlSucceeds
  <2>2. CASE index_[ch] # "kAdded"
    <3>1. epollPtr[fd] = Nobody BY <2>2, FdOf
    <3>2. UNCHANGED <<epollPtr, epollEvents, ctlFailed>>
      BY <2>2, Zenon DEF removeChannel, epollVars
    <3>3. ctlFailed' = FALSE BY <3>2 DEF AgreesBut, PollerTypeOK
    <3> QED BY <1>0, <2>2, <3>1, <3>2, <3>3 DEF PollerTypeOK
  <2> QED BY <2>1, <2>2
<1>3. RecordsOK' BY <1>0, <1>1, <1>2 DEF PollerTypeOK, RecordsOK
<1>4. AgreesBut(left)'
  BY <1>0, <1>1, <1>2 DEF AgreesBut, hasChannel, PollerTypeOK, FdInv, Exists
<1> QED BY <1>1, <1>3, <1>4

(* ~Channel of one that was removed, or whose address may be left.         *)
LEMMA DestroyAgrees ==
  ASSUME PollerTypeOK, NEW left, AgreesBut(left), FdInv, NEW ch \in Channels,
         Exists(ch),
         index_[ch] = "kNew" \/ ch \in left, DestroyChannel(ch)
  PROVE  /\ fd_' = [fd_ EXCEPT ![ch] = NoFd]
         /\ events_' = [events_ EXCEPT ![ch] = {}]
         /\ index_' = [index_ EXCEPT ![ch] = "kNew"]
         /\ ready' \in [Fds -> SUBSET Events]
         /\ RecordsOK' /\ AgreesBut(left)' /\ FdInv'
<1> DEFINE fd == fd_[ch]
<1>0. /\ fd \in Fds /\ Nobody \notin Channels
      /\ epollPtr[fd] \in {ch, Nobody}
      /\ channels_[fd] # Nobody => channels_[fd] = ch /\ ch \in left
  BY FdOf, PollerAssumption
<1>1. /\ fd_' = [fd_ EXCEPT ![ch] = NoFd]
      /\ events_' = [events_ EXCEPT ![ch] = {}]
      /\ index_' = [index_ EXCEPT ![ch] = "kNew"]
      /\ epollPtr' = [epollPtr EXCEPT ![fd] = Nobody]
      /\ epollEvents' = [epollEvents EXCEPT ![fd] = {}]
      /\ ready' = [ready EXCEPT ![fd] = {}]
      /\ channels_' = channels_ /\ ctlFailed' = ctlFailed
  BY Zenon DEF DestroyChannel, Closed
<1>3. ready' \in [Fds -> SUBSET Events] BY <1>0, <1>1 DEF PollerTypeOK
<1>5. ctlFailed' = FALSE BY <1>1 DEF AgreesBut, PollerTypeOK
<1>4. RecordsOK' BY <1>0, <1>1, <1>5 DEF PollerTypeOK, RecordsOK
<1>6. NoFd \notin Fds BY PollerAssumption DEF Fds, NoFd
<1>7. AgreesBut(left)'
  <2>1. ASSUME NEW c \in Channels, index_'[c] # "kNew"
        PROVE  /\ c # ch /\ index_'[c] = index_[c] /\ fd_'[c] = fd_[c]
               /\ events_'[c] = events_[c] /\ fd_[c] # fd
               /\ channels_[fd_[c]] = c /\ fd_[c] \in Fds
    <3>1. c # ch /\ index_'[c] = index_[c] BY <1>1, <2>1 DEF PollerTypeOK
    <3>2. fd_'[c] = fd_[c] /\ events_'[c] = events_[c]
      BY <1>1, <3>1 DEF PollerTypeOK
    <3>3. channels_[fd_[c]] = c BY <2>1, <3>1 DEF AgreesBut, hasChannel
    <3>4. Exists(c) BY <2>1, <3>1 DEF FdInv
    <3> QED BY <3>1, <3>2, <3>3, <3>4 DEF FdInv, PollerTypeOK, Exists
  <2>2. ASSUME NEW c \in Channels, index_'[c] = "kAdded"
        PROVE  epollPtr'[fd_'[c]] = c /\ epollEvents'[fd_'[c]] = events_'[c]
    BY <1>1, <2>1, <2>2 DEF AgreesBut, PollerTypeOK
  <2>3. ASSUME NEW f \in Fds, epollPtr'[f] # Nobody
        PROVE  /\ fd_'[epollPtr'[f]] = f /\ index_'[epollPtr'[f]] = "kAdded"
    <3>1. f # fd /\ epollPtr'[f] = epollPtr[f]
      BY <1>0, <1>1, <2>3 DEF PollerTypeOK
    <3>2. /\ epollPtr[f] \in Channels
          /\ fd_[epollPtr[f]] = f /\ index_[epollPtr[f]] = "kAdded"
      BY <2>3, <3>1 DEF AgreesBut, PollerTypeOK
    <3>3. epollPtr[f] # ch BY <3>1, <3>2
    <3> QED BY <1>1, <3>1, <3>2, <3>3 DEF PollerTypeOK
  <2>4. ASSUME NEW f \in Fds, channels_'[f] # Nobody
        PROVE  \/ fd_'[channels_'[f]] = f /\ index_'[channels_'[f]] # "kNew"
               \/ channels_'[f] \in left /\ \A c \in Channels : fd_'[c] # f
    <3>1. CASE f = fd
      BY <1>0, <1>1, <1>6, <2>4, <3>1 DEF FdInv, PollerTypeOK, Exists
    <3>2. CASE f # fd
      <4>1. channels_[f] \in Channels /\ channels_'[f] = channels_[f]
        BY <1>1, <2>4 DEF PollerTypeOK
      <4>2. CASE fd_[channels_[f]] = f /\ index_[channels_[f]] # "kNew"
        BY <1>1, <3>2, <4>1, <4>2 DEF PollerTypeOK
      <4>3. CASE channels_[f] \in left /\ \A c \in Channels : fd_[c] # f
        BY <1>1, <1>6, <4>1, <4>3 DEF PollerTypeOK
      <4> QED BY <2>4, <4>1, <4>2, <4>3 DEF AgreesBut
    <3> QED BY <3>1, <3>2
  <2> QED BY <1>1, <1>5, <2>1, <2>2, <2>3, <2>4 DEF AgreesBut, hasChannel
<1>8. FdInv' BY <1>1 DEF FdInv, PollerTypeOK, Exists
<1> QED BY <1>1, <1>3, <1>4, <1>7, <1>8

(* The greater and the lesser of two numbers.                              *)
LEMMA OfTwo ==
  ASSUME NEW a \in Int, NEW b \in Int
  PROVE  /\ Max({a, b}) \in {a, b} /\ Max({a, b}) >= a /\ Max({a, b}) >= b
         /\ Min({a, b}) \in {a, b} /\ Min({a, b}) <= a /\ Min({a, b}) <= b
<1>1. \E x \in {a, b} : \A y \in {a, b} : x >= y
  BY a >= b \/ b >= a
<1>2. \E x \in {a, b} : \A y \in {a, b} : x =< y
  BY a >= b \/ b >= a
<1>3. Max({a, b}) \in {a, b} /\ \A y \in {a, b} : Max({a, b}) >= y
  BY <1>1 DEF Max
<1>4. Min({a, b}) \in {a, b} /\ \A y \in {a, b} : Min({a, b}) =< y
  BY <1>2 DEF Min
<1> QED BY <1>3, <1>4

(* epoll_wait reports channels that are watched for something, each once,  *)
(* and the vector of events doubles only if as many channels are there.    *)
LEMMA PollEffect ==
  ASSUME PollerTypeOK, NEW left, AgreesBut(left), EventListBounded, poll
  PROVE  /\ \A ch \in activeChannels_' :
              ch \in Channels /\ index_[ch] = "kAdded" /\ events_[ch] # {}
         /\ \A ch \in Channels : revents_'[ch] # {} => ch \in activeChannels_'
         /\ revents_' \in [Channels -> SUBSET Events]
         /\ eventListSize' \in Nat
         /\ EventListBounded'
<1> DEFINE n(reported) == Cardinality(reported)
<1>1. PICK reported \in SUBSET ReadyFds :
        /\ n(reported) = Min({Cardinality(ReadyFds), eventListSize})
        /\ activeChannels_' = {epollPtr[fd] : fd \in reported}
        /\ revents_' = [ch \in Channels |->
                          UNION {Reportable(fd) : fd \in
                                   {f \in reported : epollPtr[f] = ch}}]
        /\ eventListSize' = IF n(reported) > 0 THEN Grown(n(reported))
                                               ELSE eventListSize
  BY Zenon DEF poll
<1>2. ASSUME NEW fd \in reported
      PROVE  /\ fd \in Fds /\ epollPtr[fd] \in Channels
             /\ epollEvents[fd] # {} /\ fd_[epollPtr[fd]] = fd
             /\ index_[epollPtr[fd]] = "kAdded"
             /\ events_[epollPtr[fd]] # {}
  <2>1. fd \in Fds /\ Reportable(fd) # {} BY DEF ReadyFds
  <2>2. epollPtr[fd] # Nobody /\ epollEvents[fd] # {}
    BY <2>1 DEF Reportable
  <2>3. epollPtr[fd] \in Channels BY <2>1, <2>2 DEF PollerTypeOK
  <2>4. fd_[epollPtr[fd]] = fd /\ index_[epollPtr[fd]] = "kAdded"
    BY <2>1, <2>2 DEF AgreesBut
  <2>5. epollEvents[fd_[epollPtr[fd]]] = events_[epollPtr[fd]]
    BY <2>3, <2>4 DEF AgreesBut
  <2> QED BY <2>1, <2>2, <2>3, <2>4, <2>5
<1>3. \A ch \in activeChannels_' :
        ch \in Channels /\ index_[ch] = "kAdded" /\ events_[ch] # {}
  BY <1>1, <1>2
<1>4. revents_' \in [Channels -> SUBSET Events]
  <2>1. \A fd \in reported : Reportable(fd) \subseteq Events
    BY <1>2 DEF Reportable, PollerTypeOK
  <2>2. ASSUME NEW ch \in Channels
        PROVE  UNION {Reportable(fd) : fd \in
                        {f \in reported : epollPtr[f] = ch}} \subseteq Events
    BY <2>1
  <2> QED BY <1>1, <2>2
<1>12. \A ch \in Channels : revents_'[ch] # {} => ch \in activeChannels_'
  <2> SUFFICES ASSUME NEW ch \in Channels, revents_'[ch] # {}
               PROVE  ch \in activeChannels_'
    OBVIOUS
  <2>1. revents_'[ch] = UNION {Reportable(fd) : fd \in
                                 {f \in reported : epollPtr[f] = ch}}
    BY <1>1
  <2>2. \E f \in reported : epollPtr[f] = ch BY <2>1
  <2> QED BY <1>1, <2>2
<1> DEFINE C == Cardinality(Channels)
           N == Cardinality(reported)
           s == eventListSize
<1>5. N <= C /\ N \in Nat /\ C \in Nat
  <2> DEFINE f == [fd \in reported |-> epollPtr[fd]]
  <2>1. f \in Injection(reported, Channels)
    BY <1>2 DEF Injection, IsInjective
  <2> HIDE DEF f
  <2>2. IsFiniteSet(Channels) BY PollerAssumption
  <2>3. IsFiniteSet(reported) /\ N <= C BY <2>1, <2>2, FS_Injection
  <2> QED BY <2>2, <2>3, FS_CardinalityType
<1>6. eventListSize' = IF N > 0 /\ N = s THEN 2 * s ELSE s
  BY <1>1 DEF Grown
<1>7. s \in Nat /\ kInitEventListSize \in Nat
  BY PollerAssumption DEF PollerTypeOK
<1> HIDE DEF C, N, s
<1>8. eventListSize' \in Nat BY <1>5, <1>6, <1>7
<1>9. s <= Max({kInitEventListSize, 2 * C}) BY DEF EventListBounded, s, C
<1>10. Max({kInitEventListSize, 2 * C}) >= 2 * C
       /\ Max({kInitEventListSize, 2 * C}) \in Int
  <2>1. PICK k, m : k = kInitEventListSize /\ m = 2 * C OBVIOUS
  <2>2. k \in Int /\ m \in Int BY <1>5, <1>7, <2>1
  <2>3. Max({k, m}) \in {k, m} /\ Max({k, m}) >= m BY <2>2, OfTwo, Zenon
  <2> QED BY <2>1, <2>2, <2>3
<1>11. eventListSize' <= Max({kInitEventListSize, 2 * C})
  BY <1>5, <1>6, <1>7, <1>9, <1>10
<1> QED BY <1>3, <1>4, <1>8, <1>11, <1>12 DEF EventListBounded, C

-----------------------------------------------------------------------------
(* What the thread has to do *)

(* The entries of todo: of a connection, of the acceptor and of the loop.  *)
Chore ==
  {"connectEstablished", "connection", "message", "closeCallback",
   "connectDestroyed", "remove", "handleRead", "handleWrite"} \X Conns
  \cup {"accept", "dtor", "disableAll", "remove", "free"} \X {acceptChannel_}
  \cup {"wakeup", "enableReading", "disableAll", "remove", "free"}
         \X {wakeupChannel_}

(* x is to be done, and is to be done at most once.                        *)
Has(x) == Some(todo, {x})
Single(x) == AtMostOne(todo, {x})

(* Entry h is done, and the entries in M come before what was left.        *)
Turns(h, M) ==
  /\ todo' \in Seq(Chore)
  /\ \A x : Has(x)' => Has(x) \/ x \in M
  /\ \A x : Has(x) /\ x # h => Has(x)'
  /\ \A x \in M : Has(x)' /\ (~Has(x) => Single(x)')
  /\ \A x : x \notin M /\ Single(x) => Single(x)'
  /\ h \notin M /\ Single(h) => ~Has(h)'
  /\ \A a, b : b \notin M /\ Before(todo, a, b) => Before(todo', a, b)

(* M is what the sequence more holds, each entry once.                     *)
Lists(more, M) ==
  /\ more \in Seq(Chore)
  /\ \A x : (Some(more, {x}) <=> x \in M) /\ AtMostOne(more, {x})

(* The channels.                                                           *)
LEMMA ThreeKinds ==
  /\ Channels = Conns \cup {acceptChannel_, wakeupChannel_}
  /\ acceptChannel_ \notin Conns /\ wakeupChannel_ \notin Conns
  /\ acceptChannel_ # wakeupChannel_
  /\ Nobody \notin Channels
BY ReactorAssumption, PollerAssumption DEF Conns

(* Nothing more is to be done ...                                          *)
LEMMA NoList == Lists(<< >>, {})
BY DEF Lists, Some, AtMostOne

(* ... or one thing ...                                                    *)
LEMMA OneList ==
  ASSUME NEW a \in Chore
  PROVE  Lists(<<a>>, {a})
BY DEF Lists, Some, AtMostOne

(* ... or two ...                                                          *)
LEMMA TwoList ==
  ASSUME NEW a \in Chore, NEW b \in Chore, a # b
  PROVE  Lists(<<a, b>>, {a, b})
BY DEF Lists, Some, AtMostOne

(* ... or three.                                                           *)
LEMMA ThreeList ==
  ASSUME NEW a \in Chore, NEW b \in Chore, NEW c \in Chore,
         a # b, a # c, b # c
  PROVE  Lists(<<a, b, c>>, {a, b, c})
BY DEF Lists, Some, AtMostOne

(* What comes before what was left.                                        *)
LEMMA PutBefore ==
  ASSUME NEW rest \in Seq(Chore), NEW more, NEW M, Lists(more, M),
         todo' = more \o rest
  PROVE  /\ todo' \in Seq(Chore)
         /\ \A x : Has(x)' <=> Some(rest, {x}) \/ x \in M
         /\ \A x : AtMostOne(rest, {x}) /\ ~(Some(rest, {x}) /\ x \in M)
                     => Single(x)'
         /\ \A a, b : b \notin M /\ Before(rest, a, b) => Before(todo', a, b)
<1>1. more \in Seq(Chore) /\ more \o rest \in Seq(Chore) BY DEF Lists
<1>2. ASSUME NEW x
      PROVE  /\ Has(x)' <=> Some(rest, {x}) \/ x \in M
             /\ AtMostOne(rest, {x}) /\ ~(Some(rest, {x}) /\ x \in M)
                  => Single(x)'
  <2>1. (Some(more, {x}) <=> x \in M) /\ AtMostOne(more, {x}) BY DEF Lists
  <2>2. /\ Some(more \o rest, {x}) <=> Some(more, {x}) \/ Some(rest, {x})
        /\ AtMostOne(more, {x}) /\ AtMostOne(rest, {x})
             /\ ~(Some(more, {x}) /\ Some(rest, {x}))
             => AtMostOne(more \o rest, {x})
    BY <1>1, ConcatQueue
  <2> QED BY <2>1, <2>2 DEF Has, Single
<1>3. ASSUME NEW a, NEW b, b \notin M, Before(rest, a, b)
      PROVE  Before(todo', a, b)
  <2>1. ~Some(more, {b}) BY <1>3 DEF Lists
  <2>2. Before(more, a, b) BY <2>1 DEF Some, Before
  <2>3. Before(more \o rest, a, b) BY <1>1, <1>3, <2>1, <2>2, BeforeConcat
  <2> QED BY <2>3
<1> QED BY <1>1, <1>2, <1>3

(* The first entry is done.                                                *)
LEMMA Done ==
  ASSUME todo \in Seq(Chore), NEW op, NEW ch, Doing(op, ch),
         NEW more, NEW M, Lists(more, M), Then(more)
  PROVE  Has(<<op, ch>>) /\ <<op, ch>> \in Chore /\ Turns(<<op, ch>>, M)
<1> DEFINE h == <<op, ch>>
           rest == Tail(todo)
<1>1. todo # << >> /\ Head(todo) = h /\ todo' = more \o rest
  BY DEF Doing, Then
<1>2. rest \in Seq(Chore) /\ h \in Chore
  <2>1. Head(todo) \in Chore /\ Tail(todo) \in Seq(Chore)
    BY <1>1, HeadTailProperties, Zenon
  <2> QED BY <1>1, <2>1, Zenon
<1>3. \A x : Has(x) <=> h = x \/ Some(rest, {x})
  <2> SUFFICES ASSUME NEW x PROVE Has(x) <=> h = x \/ Some(rest, {x}) OBVIOUS
  <2>1. Some(todo, {x}) <=> Head(todo) \in {x} \/ Some(Tail(todo), {x})
    BY <1>1, TailQueue
  <2> QED BY <1>1, <2>1 DEF Has
<1>4. \A x : Single(x) => AtMostOne(rest, {x}) /\ (h = x => ~Some(rest, {x}))
  <2> SUFFICES ASSUME NEW x, Single(x)
               PROVE  AtMostOne(rest, {x}) /\ (h = x => ~Some(rest, {x}))
    OBVIOUS
  <2>1. /\ AtMostOne(todo, {x}) => AtMostOne(Tail(todo), {x})
        /\ AtMostOne(todo, {x}) /\ Head(todo) \in {x} => ~Some(Tail(todo), {x})
    BY <1>1, TailQueue
  <2> QED BY <1>1, <2>1 DEF Single
<1>5. \A a, b : Before(todo, a, b) => Before(rest, a, b)
  BY <1>1, BeforeTail
<1>6. \A x : ~Some(rest, {x}) => AtMostOne(rest, {x})
  BY DEF Some, AtMostOne
<1> HIDE DEF h, rest
<1>7. /\ todo' \in Seq(Chore)
      /\ \A x : Has(x)' <=> Some(rest, {x}) \/ x \in M
      /\ \A x : AtMostOne(rest, {x}) /\ ~(Some(rest, {x}) /\ x \in M)
                  => Single(x)'
      /\ \A a, b : b \notin M /\ Before(rest, a, b) => Before(todo', a, b)
  BY <1>1, <1>2, PutBefore
<1>8. Turns(h, M) BY <1>3, <1>4, <1>5, <1>6, <1>7 DEF Turns
<1> QED BY <1>2, <1>3, <1>8 DEF h

(* Entries are put before the others.                                      *)
LEMMA Pushed ==
  ASSUME todo \in Seq(Chore), NEW more, NEW M, Lists(more, M),
         todo' = more \o todo
  PROVE  Turns(<< >>, M)
<1>1. /\ todo' \in Seq(Chore)
      /\ \A x : Has(x)' <=> Has(x) \/ x \in M
      /\ \A x : Single(x) /\ ~(Has(x) /\ x \in M) => Single(x)'
      /\ \A a, b : b \notin M /\ Before(todo, a, b) => Before(todo', a, b)
  BY PutBefore DEF Has, Single
<1>2. \A x : ~Has(x) => Single(x) BY DEF Has, Single, Some, AtMostOne
<1>3. << >> \notin Chore BY DEF Chore
<1>4. ~Has(<< >>)' BY <1>1, <1>3 DEF Has, Some
<1> QED BY <1>1, <1>2, <1>4 DEF Turns

-----------------------------------------------------------------------------
(* Steps of the poller and of the callbacks *)

(* The part of the invariant about the poller.                             *)
PollInv == PollerTypeOK /\ PollerAgrees /\ FdInv /\ EventListBounded

(* A step that leaves the channels and the poller alone.                   *)
LEMMA PollerUntouched ==
  ASSUME PollInv, UNCHANGED <<pollerVars, waitVars, fd_>>, unsent' = unsent,
         ready' \in [Fds -> SUBSET Events]
  PROVE  PollInv'
<1>1. /\ UNCHANGED <<events_, index_, channels_, epollPtr, epollEvents,
                     ctlFailed>>
      /\ UNCHANGED <<revents_, eventListSize, activeChannels_>>
      /\ fd_' = fd_
  BY Zenon DEF pollerVars, waitVars, epollVars
<1>2. PollerTypeOK' BY <1>1 DEF PollInv, PollerTypeOK
<1>3. PollerAgrees'
  <2>1. PollerAgrees /\ ctlFailed' = FALSE
    BY <1>1 DEF PollInv, PollerAgrees, AgreesBut, PollerTypeOK
  <2> QED BY <1>1, <2>1 DEF PollerAgrees, AgreesBut, hasChannel
<1>4. FdInv' BY <1>1, Zenon DEF PollInv, FdInv, Exists
<1>5. EventListBounded' BY <1>1, Zenon DEF PollInv, EventListBounded
<1> QED BY <1>2, <1>3, <1>4, <1>5 DEF PollInv

(* A channel's events of interest are set.                                 *)
LEMMA PollerUpdated ==
  ASSUME PollInv, NEW ch \in Channels, Exists(ch), NEW ev \in SUBSET Events,
         updateChannel(ch, ev), UNCHANGED <<waitVars, fd_>>, unsent' = unsent,
         ready' \in [Fds -> SUBSET Events]
  PROVE  /\ events_' = [events_ EXCEPT ![ch] = ev]
         /\ index_' = [index_ EXCEPT ![ch] = Mark(ch, ev)]
         /\ PollInv'
<1>1. UNCHANGED <<revents_, eventListSize, activeChannels_>> /\ fd_' = fd_
  BY Zenon DEF waitVars
<1>2. /\ events_' = [events_ EXCEPT ![ch] = ev]
      /\ index_' = [index_ EXCEPT ![ch] = Mark(ch, ev)]
      /\ RecordsOK' /\ PollerAgrees'
  <2>1. PICK left : left = unsent OBVIOUS
  <2>2. AgreesBut(left) BY <2>1 DEF PollInv, PollerAgrees
  <2>3. /\ events_' = [events_ EXCEPT ![ch] = ev]
        /\ index_' = [index_ EXCEPT ![ch] = Mark(ch, ev)]
        /\ RecordsOK' /\ AgreesBut(left)'
    BY <1>1, <2>2, UpdateAgrees DEF PollInv
  <2> QED BY <2>1, <2>3 DEF PollerAgrees, AgreesBut
<1>3. Mark(ch, ev) \in {"kNew", "kAdded", "kDeleted"} BY DEF Mark
<1>5. PollerTypeOK'
  BY <1>1, <1>2, <1>3 DEF PollInv, PollerTypeOK, RecordsOK
<1>6. FdInv' BY <1>1, <1>2 DEF PollInv, PollerTypeOK, FdInv, Exists
<1>7. EventListBounded' BY <1>1, Zenon DEF PollInv, EventListBounded
<1> QED BY <1>2, <1>5, <1>6, <1>7 DEF PollInv

(* A channel is taken out, and may be one whose address will be left.      *)
LEMMA PollerRemoved ==
  ASSUME PollInv, NEW ch \in Channels, Exists(ch), removeChannel(ch),
         UNCHANGED <<waitVars, fd_>>, ready' = ready, unsent \subseteq unsent'
  PROVE  /\ events_' = events_
         /\ index_' = [index_ EXCEPT ![ch] = "kNew"]
         /\ PollInv'
<1>1. UNCHANGED <<revents_, eventListSize, activeChannels_>> /\ fd_' = fd_
  BY Zenon DEF waitVars
<1>2. /\ events_' = events_
      /\ index_' = [index_ EXCEPT ![ch] = "kNew"]
      /\ RecordsOK' /\ PollerAgrees'
  <2>1. PICK left : left = unsent OBVIOUS
  <2>2. AgreesBut(left) BY <2>1 DEF PollInv, PollerAgrees
  <2>3. /\ events_' = events_
        /\ index_' = [index_ EXCEPT ![ch] = "kNew"]
        /\ RecordsOK' /\ AgreesBut(left)'
    BY <1>1, <2>2, RemoveAgrees DEF PollInv
  <2> QED BY <2>1, <2>3 DEF PollerAgrees, AgreesBut
<1>5. PollerTypeOK'
  BY <1>1, <1>2 DEF PollInv, PollerTypeOK, RecordsOK
<1>6. FdInv' BY <1>1, <1>2 DEF PollInv, PollerTypeOK, FdInv, Exists
<1>7. EventListBounded' BY <1>1, Zenon DEF PollInv, EventListBounded
<1> QED BY <1>2, <1>5, <1>6, <1>7 DEF PollInv

(* A channel that was taken out, or put back after it was, is freed.       *)
LEMMA PollerFreed ==
  ASSUME PollInv, NEW ch \in Channels, Exists(ch),
         index_[ch] = "kNew" \/ ch \in unsent,
         DestroyChannel(ch), UNCHANGED waitVars, unsent' = unsent
  PROVE  /\ fd_' = [fd_ EXCEPT ![ch] = NoFd]
         /\ events_' = [events_ EXCEPT ![ch] = {}]
         /\ index_' = [index_ EXCEPT ![ch] = "kNew"]
         /\ PollInv'
<1>1. UNCHANGED <<revents_, eventListSize, activeChannels_>>
  BY Zenon DEF waitVars
<1>2. /\ fd_' = [fd_ EXCEPT ![ch] = NoFd]
      /\ events_' = [events_ EXCEPT ![ch] = {}]
      /\ index_' = [index_ EXCEPT ![ch] = "kNew"]
      /\ ready' \in [Fds -> SUBSET Events]
      /\ RecordsOK' /\ PollerAgrees' /\ FdInv'
  <2>1. PICK left : left = unsent OBVIOUS
  <2>2. AgreesBut(left) /\ (index_[ch] = "kNew" \/ ch \in left)
    BY <2>1 DEF PollInv, PollerAgrees
  <2>3. /\ fd_' = [fd_ EXCEPT ![ch] = NoFd]
        /\ events_' = [events_ EXCEPT ![ch] = {}]
        /\ index_' = [index_ EXCEPT ![ch] = "kNew"]
        /\ ready' \in [Fds -> SUBSET Events]
        /\ RecordsOK' /\ AgreesBut(left)' /\ FdInv'
    BY <2>2, DestroyAgrees DEF PollInv
  <2> QED BY <2>1, <2>3 DEF PollerAgrees, AgreesBut
<1>5. PollerTypeOK'
  BY <1>1, <1>2 DEF PollInv, PollerTypeOK, RecordsOK, NoFd
<1>7. EventListBounded' BY <1>1, Zenon DEF PollInv, EventListBounded
<1> QED BY <1>2, <1>5, <1>7 DEF PollInv

-----------------------------------------------------------------------------
(* The inductive invariant *)

(* Where the thread is, and what it has to do there.                       *)
PhaseInv ==
  /\ phase # "handle" => handling = Nobody /\ activeChannels_ = {}
  /\ phase = "handle" /\ handling = Nobody => todo = << >>
  /\ phase = "poll" => todo = << >>

(* Nothing else is to be done when x is.                                   *)
Alone(x) == Single(x) /\ \A y \in Chore : Has(y) => y = x

(* A connection is accepted and set up before anything else happens, with  *)
(* the server there.                                                       *)
SetUpInv ==
  /\ Has(<<"accept", acceptChannel_>>) =>
       Alone(<<"accept", acceptChannel_>>) /\ server = "up"
  /\ \A c \in Conns :
       /\ Has(<<"connectEstablished", c>>) =>
            /\ Alone(<<"connectEstablished", c>>) /\ server = "up"
            /\ c \in connections_ /\ state_[c] = "kConnecting"
       /\ state_[c] = "kConnecting" => Has(<<"connectEstablished", c>>)

(* Only the channel in handleEvent has its callbacks to come.              *)
HandlingInv ==
  \A c \in Conns :
    Has(<<"handleRead", c>>) \/ Has(<<"handleWrite", c>>) => handling = c

(* A connection that someone holds exists.                                 *)
HeldInv ==
  \A c \in Conns :
    \/ c \in connections_
    \/ handling = c
    \/ Some(pendingFunctors_, {c})
    \/ \E op \in Holding : Has(<<op, c>>)
    => Exists(c)

(* Something will take c's channel out of the poller.                      *)
Promised(c) ==
  \/ c \in connections_
  \/ Some(pendingFunctors_, {c})
  \/ Has(<<"closeCallback", c>>)
  \/ Has(<<"connectDestroyed", c>>)
  \/ Has(<<"remove", c>>)

(* The states of a connection that is up.                                  *)
Up == {"kConnected", "kDisconnecting"}

(* A handleWrite of c is to come.                                          *)
WriteDue(c) == Has(<<"handleWrite", c>>) \/ "write" \in revents_[c]

(* c is watched, and will be taken down ...                                *)
Kept(c) ==
  index_[c] = "kAdded" /\ (c \in connections_ \/ Has(<<"connectDestroyed", c>>))

(* ... or it was taken out of the poller while it was being shut down, and *)
(* may have been put back.                                                 *)
TakenOut(c) ==
  /\ state_[c] = "kDisconnecting"
  /\ index_[c] = "kNew" \/ (index_[c] = "kAdded" /\ c \in unsent)

(* A channel the poller knows will be taken out, unless it was before its  *)
(* output was sent.  Only a connection that is up has events of interest,  *)
(* reading among them.  One that is down has been closed by its peer or    *)
(* was taken down; only ~TcpServer takes down one that is up.              *)
Watched(c) ==
  /\ index_[c] # "kNew" => Promised(c) \/ c \in unsent
  /\ events_[c] # {} => state_[c] \in Up
  /\ state_[c] \in Up => "read" \in events_[c] /\ (Kept(c) \/ TakenOut(c))
  /\ index_[c] = "kNew" /\ "write" \in events_[c] /\ WriteDue(c) => c \in unsent
  /\ \/ Has(<<"closeCallback", c>>) \/ Has(<<"remove", c>>)
     \/ Some(pendingFunctors_, {c})
     => state_[c] = "kDisconnected"
  /\ Has(<<"connectDestroyed", c>>) =>
       state_[c] = "kDisconnected" \/ server = "gone"

(* So it is with every connection.                                         *)
WatchInv == \A c \in Conns : Watched(c)

(* The acceptor's or the loop's channel is taken out before it is freed.   *)
OrderInv(ch) ==
  /\ Has(<<"disableAll", ch>>) => Has(<<"remove", ch>>)
  /\ Has(<<"remove", ch>>) => Has(<<"free", ch>>)
  /\ Has(<<"free", ch>>) =>
       Exists(ch) /\ (Has(<<"remove", ch>>) \/ index_[ch] = "kNew")
  /\ Single(<<"free", ch>>)
  /\ Before(todo, <<"disableAll", ch>>, <<"remove", ch>>)
  /\ Before(todo, <<"remove", ch>>, <<"free", ch>>)

(* The wakeup channel exists until ~EventLoop.                             *)
WakeupInv ==
  /\ phase # "destroyed" =>
       Exists(wakeupChannel_) /\ ~Has(<<"free", wakeupChannel_>>)
  /\ phase = "destroyed" /\ ~Has(<<"remove", wakeupChannel_>>) =>
       index_[wakeupChannel_] = "kNew"
  /\ Has(<<"enableReading", wakeupChannel_>>) => phase = "created"

(* The acceptor exists until ~TcpServer has taken the connections down.    *)
AcceptorInv ==
  /\ server = "up" \/ Has(<<"dtor", acceptChannel_>>) =>
       Exists(acceptChannel_) /\ ~Has(<<"free", acceptChannel_>>)
  /\ server = "up" => ~Has(<<"dtor", acceptChannel_>>)
  /\ Single(<<"dtor", acceptChannel_>>)
  /\ server = "gone" /\ ~Has(<<"dtor", acceptChannel_>>) =>
       /\ connections_ = {}
       /\ Has(<<"remove", acceptChannel_>>) \/ index_[acceptChannel_] = "kNew"
       /\ Has(<<"free", acceptChannel_>>) \/ ~Exists(acceptChannel_)

(* Once ~TcpServer has begun outside of a batch, only the wakeup channel   *)
(* is reported.  So a connection's output is cut off by one that begins in *)
(* a batch only.                                                           *)
LateInv ==
  /\ server = "gone" /\ ~cut =>
       /\ activeChannels_ \subseteq {wakeupChannel_}
       /\ handling \notin Conns
       /\ \A c \in Conns : ~Has(<<"closeCallback", c>>)
  /\ unsent # {} => server = "gone" /\ cut

(* What the poller has reported is there and held when its turn comes, and *)
(* nothing else has events to be handled.                                  *)
ActiveInv ==
  /\ ~cut => \A ch \in activeChannels_ :
       /\ Exists(ch)
       /\ ch \in Conns => ch \in connections_ \/ Some(pendingFunctors_, {ch})
  /\ \A ch \in Channels : revents_[ch] # {} => ch \in activeChannels_

(* The invariant.                                                          *)
Inv ==
  /\ ReactorTypeOK /\ todo \in Seq(Chore)
  /\ PollerAgrees /\ FdInv /\ EventListBounded
  /\ PhaseInv /\ SetUpInv /\ HandlingInv /\ HeldInv /\ WatchInv
  /\ OrderInv(acceptChannel_) /\ OrderInv(wakeupChannel_)
  /\ WakeupInv /\ AcceptorInv /\ LateInv /\ ActiveInv

-----------------------------------------------------------------------------
(* Steps of a callback *)

(* The entries, by what they are about.                                    *)
LEMMA Chores ==
  /\ \A c \in Conns :
       \A op \in {"connectEstablished", "connection", "message",
                  "closeCallback", "connectDestroyed", "remove", "handleRead",
                  "handleWrite"} : <<op, c>> \in Chore
  /\ \A op \in {"accept", "dtor", "disableAll", "remove", "free"} :
       <<op, acceptChannel_>> \in Chore
  /\ \A op \in {"wakeup", "enableReading", "disableAll", "remove", "free"} :
       <<op, wakeupChannel_>> \in Chore
BY DEF Chore

(* The thread stays where it is while it has something to do.              *)
LEMMA BusyPhase ==
  ASSUME PhaseInv, todo # << >>, UNCHANGED <<phase, handling, activeChannels_>>
  PROVE  PhaseInv'
BY DEF PhaseInv

(* The first entry comes before no entry that must be before it.           *)
LEMMA HeadFirst ==
  ASSUME todo \in Seq(Chore), NEW op, NEW ch, Doing(op, ch), NEW a,
         Before(todo, a, <<op, ch>>)
  PROVE  ~Has(a)
<1>1. todo # << >> /\ Head(todo) = <<op, ch>> BY DEF Doing
<1>2. 1 \in DOMAIN todo /\ todo[1] = <<op, ch>> /\ DOMAIN todo = 1 .. Len(todo)
  BY <1>1
<1> QED BY <1>2 DEF Has, Some, Before

(* The three last entries of a channel, in their order.                    *)
LEMMA InOrder ==
  ASSUME NEW rest \in Seq(Chore), NEW a \in Chore, NEW b \in Chore,
         NEW c \in Chore, a # b, a # c, b # c,
         todo' = <<a, b, c>> \o rest,
         ~Some(rest, {a}), ~Some(rest, {b})
  PROVE  Before(todo', a, b) /\ Before(todo', b, c)
<1>1. <<a, b, c>> \in Seq(Chore) /\ Before(<<a, b, c>>, a, b)
      /\ Before(<<a, b, c>>, b, c)
  BY DEF Before
<1>2. Before(rest, a, b) /\ Before(rest, b, c)
  BY DEF Before, Some
<1> QED BY <1>1, <1>2, BeforeConcat

(* Nothing is being set up when something else is to be done.              *)
LEMMA NotAlone ==
  ASSUME SetUpInv, NEW h \in Chore, Has(h), NEW M, Turns(h, M)
  PROVE  /\ h # <<"accept", acceptChannel_>> =>
              ~Has(<<"accept", acceptChannel_>>)
         /\ <<"accept", acceptChannel_>> \notin M =>
              ~Has(<<"accept", acceptChannel_>>)'
         /\ \A c \in Conns :
              /\ h # <<"connectEstablished", c>> =>
                   ~Has(<<"connectEstablished", c>>)
              /\ <<"connectEstablished", c>> \notin M =>
                   ~Has(<<"connectEstablished", c>>)'
BY DEF SetUpInv, Alone, Turns

(* A connection that nothing is done for, but that handleWrite may be.     *)
LEMMA SameWatch ==
  ASSUME NEW c \in Conns, Watched(c),
         events_'[c] = events_[c], index_'[c] = index_[c],
         state_'[c] = state_[c],
         c \in connections_' <=> c \in connections_,
         Some(pendingFunctors_, {c})' <=> Some(pendingFunctors_, {c}),
         c \in unsent' <=> c \in unsent,
         server' = server \/ server' = "gone",
         \A op \in {"closeCallback", "connectDestroyed", "remove"} :
           Has(<<op, c>>)' <=> Has(<<op, c>>),
         index_[c] = "kNew" /\ WriteDue(c)' => WriteDue(c)
  PROVE  Watched(c)'
<1>1. /\ Has(<<"closeCallback", c>>)' <=> Has(<<"closeCallback", c>>)
      /\ Has(<<"connectDestroyed", c>>)' <=> Has(<<"connectDestroyed", c>>)
      /\ Has(<<"remove", c>>)' <=> Has(<<"remove", c>>)
  OBVIOUS
<1> QED BY <1>1 DEF Watched, Promised, Kept, TakenOut

(* Entries whose being there matters to nothing else.                      *)
Plain ==
  {"connection", "message", "handleRead", "handleWrite"} \X Conns
  \cup {<<"accept", acceptChannel_>>, <<"wakeup", wakeupChannel_>>,
        <<"enableReading", wakeupChannel_>>}

(* The parts of the invariant that only todo changes.                      *)
LEMMA PlainStep ==
  ASSUME Inv, NEW h \in Plain, Has(h), NEW M, Turns(h, M),
         M \subseteq {"connection", "message"} \X Conns,
         \A x \in M : Exists(x[2]),
         UNCHANGED <<pollerVars, waitVars, fd_, loopVars, serverVars>>,
         ready' \in [Fds -> SUBSET Events],
         peerClosed' \subseteq Conns
  PROVE  Inv'
<1>1. /\ UNCHANGED <<events_, index_, revents_, activeChannels_, fd_>>
      /\ UNCHANGED <<phase, handling, pendingFunctors_>>
      /\ UNCHANGED <<connections_, state_, server, cut, unsent>>
  BY Zenon DEF pollerVars, waitVars, loopVars, serverVars
<1>2. PollInv'
  BY <1>1, PollerUntouched, Zenon DEF Inv, ReactorTypeOK, PollInv
<1>3. ReactorTypeOK' /\ todo' \in Seq(Chore)
  BY <1>1, <1>2 DEF Inv, ReactorTypeOK, PollInv, Turns, Exists
<1>4. PhaseInv'
  <2>1. todo # << >> BY DEF Has, Some
  <2> QED BY <1>1, <2>1, BusyPhase DEF Inv
<1>5. h \in Chore BY DEF Plain, Chore
<1>6. SetUpInv'
  <2>0. SetUpInv BY DEF Inv
  <2>1. ~Has(<<"accept", acceptChannel_>>)' BY <1>5, <2>0, NotAlone
  <2>2. \A c \in Conns : /\ <<"connectEstablished", c>> # h
                         /\ <<"connectEstablished", c>> \notin M
    BY DEF Plain
  <2>3. \A c \in Conns : /\ ~Has(<<"connectEstablished", c>>)
                         /\ ~Has(<<"connectEstablished", c>>)'
    BY <1>5, <2>0, <2>2, NotAlone, Zenon
  <2> QED BY <1>1, <2>0, <2>1, <2>3 DEF SetUpInv
<1>7. HandlingInv' BY <1>1 DEF Inv, HandlingInv, Turns
<1>8. HeldInv'
  <2> SUFFICES ASSUME NEW c \in Conns, NEW op \in Holding, Has(<<op, c>>)'
               PROVE  Exists(c)
    BY <1>1 DEF Inv, HeldInv, Exists
  <2>1. Has(<<op, c>>) \/ <<op, c>> \in M BY DEF Turns
  <2> QED BY <2>1 DEF Inv, HeldInv
<1>9. WatchInv'
  <2> SUFFICES ASSUME NEW c \in Conns PROVE Watched(c)'
    BY DEF WatchInv
  <2>1. ASSUME NEW op \in {"closeCallback", "connectDestroyed", "remove"}
        PROVE  Has(<<op, c>>)' <=> Has(<<op, c>>)
    <3>1. <<op, c>> # h /\ <<op, c>> \notin M BY DEF Plain
    <3> QED BY <3>1 DEF Turns
  <2>2. Has(<<"handleWrite", c>>)' => Has(<<"handleWrite", c>>) BY DEF Turns
  <2>3. WriteDue(c)' => WriteDue(c) BY <1>1, <2>2 DEF WriteDue
  <2>4. Watched(c) BY DEF Inv, WatchInv
  <2> QED BY <1>1, <2>1, <2>3, <2>4, SameWatch
<1>10. ASSUME NEW ch \in {acceptChannel_, wakeupChannel_}, OrderInv(ch)
       PROVE  OrderInv(ch)'
  BY <1>1, <1>10, ThreeKinds DEF OrderInv, Turns, Plain, Exists
<1>11. WakeupInv' BY <1>1, ThreeKinds DEF Inv, WakeupInv, Turns, Plain, Exists
<1>12. AcceptorInv'
  BY <1>1, ThreeKinds DEF Inv, AcceptorInv, Turns, Plain, Exists
<1>13. LateInv' BY <1>1 DEF Inv, LateInv, Turns
<1>14. ActiveInv' BY <1>1 DEF Inv, ActiveInv, Exists
<1> QED BY <1>2, <1>3, <1>4, <1>6, <1>7, <1>8, <1>9, <1>10, <1>11, <1>12,
           <1>13, <1>14 DEF Inv, PollInv

(* User code returns.                                                      *)
LEMMA StepUserReturns ==
  ASSUME Inv, UserReturns
  PROVE  Inv'
<1>1. PICK op \in {"message", "connection"}, c \in Conns : Doing(op, c)
  BY DEF UserReturns, InMessage, InConnection
<1>2. /\ Then(<< >>)
      /\ UNCHANGED <<pollerVars, waitVars, fd_, loopVars, serverVars>>
      /\ UNCHANGED <<ready, peerClosed>>
  BY Zenon DEF UserReturns, Rest, clientVars
<1>3. todo \in Seq(Chore) BY DEF Inv
<1>4. Has(<<op, c>>) /\ Turns(<<op, c>>, {}) BY <1>1, <1>2, <1>3, NoList, Done
<1>5. <<op, c>> \in Plain BY DEF Plain
<1>6. ready' \in [Fds -> SUBSET Events] /\ peerClosed' \subseteq Conns
  BY <1>2 DEF Inv, ReactorTypeOK, PollerTypeOK
<1> QED BY <1>2, <1>4, <1>5, <1>6, PlainStep

(* EventLoop::handleRead.                                                  *)
LEMMA StepWakeupRead ==
  ASSUME Inv, WakeupRead
  PROVE  Inv'
<1> DEFINE h == <<"wakeup", wakeupChannel_>>
<1>2. /\ Doing("wakeup", wakeupChannel_)
      /\ Then(<< >>)
      /\ UNCHANGED <<pollerVars, waitVars, fd_, loopVars, serverVars>>
      /\ ready' = [ready EXCEPT ![WakeupFd] = {}]
      /\ peerClosed' = peerClosed
  BY Zenon DEF WakeupRead
<1>3. todo \in Seq(Chore) BY DEF Inv
<1>4. Has(h) /\ Turns(h, {}) BY <1>2, <1>3, NoList, Done
<1>5. h \in Plain BY DEF Plain
<1>6. ready' \in [Fds -> SUBSET Events] /\ peerClosed' \subseteq Conns
  BY <1>2 DEF Inv, ReactorTypeOK, PollerTypeOK
<1> HIDE DEF h
<1> QED BY <1>2, <1>4, <1>5, <1>6, PlainStep

(* Acceptor::handleRead when there is no connection.                       *)
LEMMA StepNotAccepted ==
  ASSUME Inv, Doing("accept", acceptChannel_), Then(<< >>),
         ready' = IF Accepted THEN [ready EXCEPT ![ListenFd] = {}] ELSE ready,
         UNCHANGED <<pollerVars, waitVars, fd_, loopVars, serverVars,
                     peerClosed>>
  PROVE  Inv'
<1> DEFINE h == <<"accept", acceptChannel_>>
<1>3. todo \in Seq(Chore) BY DEF Inv
<1>4. Has(h) /\ Turns(h, {}) BY <1>3, NoList, Done
<1>5. h \in Plain BY DEF Plain
<1>6. ready' \in [Fds -> SUBSET Events] /\ peerClosed' \subseteq Conns
  BY DEF Inv, ReactorTypeOK, PollerTypeOK
<1> HIDE DEF h
<1> QED BY <1>4, <1>5, <1>6, PlainStep

(* TcpConnection::handleRead with data.                                    *)
LEMMA StepMessage ==
  ASSUME Inv, NEW c \in Conns, Doing("handleRead", c),
         Then(<< <<"message", c>> >>),
         ready' = IF c \in peerClosed THEN ready
                    ELSE [ready EXCEPT ![fd_[c]] = @ \ {"read"}],
         UNCHANGED <<pollerVars, waitVars, fd_, loopVars, serverVars,
                     peerClosed>>
  PROVE  Inv'
<1> DEFINE h == <<"handleRead", c>>
           x == <<"message", c>>
<1>3. todo \in Seq(Chore) /\ x \in Chore BY Chores DEF Inv
<1>4. Has(h) /\ Turns(h, {x}) BY <1>3, OneList, Done
<1>5. h \in Plain BY DEF Plain
<1>6. ready' \in [Fds -> SUBSET Events] /\ peerClosed' \subseteq Conns
  BY DEF Inv, ReactorTypeOK, PollerTypeOK
<1>7. Exists(c) BY <1>4 DEF Inv, HandlingInv, HeldInv
<1>8. \A y \in {x} : Exists(y[2]) /\ y \in {"connection", "message"} \X Conns
  BY <1>7
<1> HIDE DEF h, x
<1> QED BY <1>4, <1>5, <1>6, <1>8, PlainStep

(* TcpConnection::handleWrite that finds nothing to do, or cannot do all.  *)
LEMMA StepBlocked ==
  ASSUME Inv, NEW c \in Conns, Doing("handleWrite", c), Then(<< >>),
         ready' \in {ready, [ready EXCEPT ![fd_[c]] = @ \ {"write"}]},
         UNCHANGED <<pollerVars, waitVars, fd_, loopVars, serverVars,
                     peerClosed>>
  PROVE  Inv'
<1> DEFINE h == <<"handleWrite", c>>
<1>3. todo \in Seq(Chore) BY DEF Inv
<1>4. Has(h) /\ Turns(h, {}) BY <1>3, NoList, Done
<1>5. h \in Plain BY DEF Plain
<1>6. ready' \in [Fds -> SUBSET Events] /\ peerClosed' \subseteq Conns
  BY DEF Inv, ReactorTypeOK, PollerTypeOK
<1> HIDE DEF h
<1> QED BY <1>4, <1>5, <1>6, PlainStep

(* A step on a connection's channel, in one of its callbacks.              *)
LEMMA ConnectionStep ==
  ASSUME Inv, NEW c \in Conns, Exists(c),
         NEW h \in {"connectEstablished", "handleRead", "handleWrite",
                    "connectDestroyed", "remove"} \X {c},
         Has(h), NEW M, Turns(h, M),
         M \subseteq {"connection", "closeCallback", "remove"} \X {c},
         <<"closeCallback", c>> \in M => handling = c,
         NEW s \in Up \cup {"kDisconnected"}, NEW ev, NEW i,
         state_' = [state_ EXCEPT ![c] = s],
         events_' = [events_ EXCEPT ![c] = ev],
         index_' = [index_ EXCEPT ![c] = i],
         PollInv', Watched(c)', unsent' \in {unsent, unsent \cup {c}},
         unsent' # {} => server = "gone" /\ cut,
         UNCHANGED <<waitVars, fd_, loopVars, connections_, server, cut,
                     peerClosed>>
  PROVE  Inv'
<1>1. /\ UNCHANGED <<revents_, activeChannels_, fd_>>
      /\ UNCHANGED <<phase, handling, pendingFunctors_>>
      /\ UNCHANGED <<connections_, server, cut, peerClosed>>
  BY Zenon DEF waitVars, loopVars
<1>0. /\ \A d \in Conns : d # c => /\ state_'[d] = state_[d]
                                   /\ events_'[d] = events_[d]
                                   /\ index_'[d] = index_[d]
      /\ state_'[c] = s
      /\ \A ch \in {acceptChannel_, wakeupChannel_} : index_'[ch] = index_[ch]
  BY ThreeKinds DEF Inv, ReactorTypeOK, PollerTypeOK
<1>3. ReactorTypeOK' /\ todo' \in Seq(Chore)
  BY <1>1 DEF Inv, ReactorTypeOK, PollInv, Turns, Exists, Up
<1>4. PhaseInv'
  <2>1. todo # << >> BY DEF Has, Some
  <2> QED BY <1>1, <2>1, BusyPhase DEF Inv
<1>5. h \in Chore BY DEF Chore
<1>6. SetUpInv'
  <2>0. SetUpInv BY DEF Inv
  <2>1. ~Has(<<"accept", acceptChannel_>>)' BY <1>5, <2>0, NotAlone
  <2>2. \A d \in Conns : /\ d # c => <<"connectEstablished", d>> # h
                         /\ <<"connectEstablished", d>> \notin M
    OBVIOUS
  <2>3. \A d \in Conns : /\ d # c => ~Has(<<"connectEstablished", d>>)
                         /\ ~Has(<<"connectEstablished", d>>)'
    BY <1>5, <2>0, <2>2, NotAlone, Zenon
  <2> QED BY <1>0, <1>1, <2>0, <2>1, <2>3 DEF SetUpInv, Up
<1>7. HandlingInv'
  <2>1. \A d \in Conns, op \in {"handleRead", "handleWrite"} :
          Has(<<op, d>>)' => Has(<<op, d>>)
    BY DEF Turns
  <2> QED BY <1>1, <2>1 DEF Inv, HandlingInv
<1>8. HeldInv'
  <2> SUFFICES ASSUME NEW d \in Conns, NEW op \in Holding, Has(<<op, d>>)'
               PROVE  Exists(d)
    BY <1>1 DEF Inv, HeldInv, Exists
  <2>1. Has(<<op, d>>) \/ <<op, d>> \in M BY DEF Turns
  <2> QED BY <2>1 DEF Inv, HeldInv
<1>9. WatchInv'
  <2> SUFFICES ASSUME NEW d \in Conns, d # c PROVE Watched(d)'
    BY DEF WatchInv
  <2>1. \A op \in {"closeCallback", "connectDestroyed", "remove"} :
          <<op, d>> # h /\ <<op, d>> \notin M
    OBVIOUS
  <2>2. \A op \in {"closeCallback", "connectDestroyed", "remove"} :
          Has(<<op, d>>)' <=> Has(<<op, d>>)
    BY <2>1 DEF Turns
  <2>3. Has(<<"handleWrite", d>>)' => Has(<<"handleWrite", d>>) BY DEF Turns
  <2>4. WriteDue(d)' => WriteDue(d) BY <1>1, <2>3 DEF WriteDue
  <2>5. Watched(d) /\ (d \in unsent' <=> d \in unsent) BY DEF Inv, WatchInv
  <2> QED BY <1>0, <1>1, <2>2, <2>4, <2>5, SameWatch
<1>10. ASSUME NEW ch \in {acceptChannel_, wakeupChannel_}, OrderInv(ch)
       PROVE  OrderInv(ch)'
  BY <1>0, <1>1, <1>10, ThreeKinds DEF OrderInv, Turns, Exists
<1>11. WakeupInv' BY <1>0, <1>1, ThreeKinds DEF Inv, WakeupInv, Turns, Exists
<1>12. AcceptorInv'
  BY <1>0, <1>1, ThreeKinds DEF Inv, AcceptorInv, Turns, Exists
<1>13. LateInv'
  <2>1. \A d \in Conns : Has(<<"closeCallback", d>>)' =>
          Has(<<"closeCallback", d>>) \/ handling = c
    BY DEF Turns
  <2> QED BY <1>1, <2>1 DEF Inv, LateInv
<1>14. ActiveInv' BY <1>1 DEF Inv, ActiveInv, Exists
<1> QED BY <1>3, <1>4, <1>6, <1>7, <1>8, <1>9, <1>10, <1>11, <1>12,
           <1>13, <1>14 DEF Inv, PollInv

(* A connection that someone holds, by the entry that does.                *)
LEMMA HeldBy ==
  ASSUME Inv, NEW c \in Conns,
         NEW op \in Holding \cup {"handleRead", "handleWrite"}, Has(<<op, c>>)
  PROVE  /\ Exists(c) /\ c \in Channels
         /\ state_[c] \in Up \cup {"kConnecting", "kDisconnected"}
         /\ unsent # {} => server = "gone" /\ cut
         /\ ready \in [Fds -> SUBSET Events] /\ events_[c] \in SUBSET Events
         /\ PollInv /\ todo \in Seq(Chore)
<1>1. op \in Holding \/ handling = c BY DEF Inv, HandlingInv
<1>2. Exists(c) BY <1>1 DEF Inv, HeldInv
<1>3. c \in Channels BY ThreeKinds
<1> QED
  BY <1>2, <1>3 DEF Inv, ReactorTypeOK, PollerTypeOK, PollInv, LateInv, Up

(* connectEstablished.                                                     *)
LEMMA StepEstablished ==
  ASSUME Inv, NEW c \in Conns, connectEstablished(c)
  PROVE  Inv'
<1> DEFINE h == <<"connectEstablished", c>>
           x == <<"connection", c>>
           ev == events_[c] \cup {"read"}
<1>1. /\ Doing("connectEstablished", c)
      /\ state_' = [state_ EXCEPT ![c] = "kConnected"]
      /\ updateChannel(c, ev)
      /\ Then(<<x>>)
      /\ UNCHANGED <<waitVars, fd_>>
      /\ UNCHANGED <<loopVars, connections_, server, cut, peerClosed>>
      /\ ready' = ready /\ unsent' = unsent
  BY Zenon DEF connectEstablished, enableReading, clientVars
<1>2. todo \in Seq(Chore) /\ x \in Chore BY Chores DEF Inv
<1>3. Has(h) /\ Turns(h, {x}) BY <1>1, <1>2, OneList, Done
<1>4. /\ Exists(c) /\ c \in Channels
      /\ ready \in [Fds -> SUBSET Events] /\ events_[c] \in SUBSET Events
      /\ PollInv /\ (unsent # {} => server = "gone" /\ cut)
  BY <1>3, HeldBy DEF Holding
<1>5. ev \in SUBSET Events /\ ready' \in [Fds -> SUBSET Events]
  BY <1>1, <1>4 DEF Events
<1>6. /\ events_' = [events_ EXCEPT ![c] = ev]
      /\ index_' = [index_ EXCEPT ![c] = Mark(c, ev)]
      /\ PollInv'
  BY <1>1, <1>4, <1>5, PollerUpdated
<1>7. Mark(c, ev) = "kAdded" BY DEF Mark
<1>8. c \in connections_ /\ connections_' = connections_
  BY <1>1, <1>3 DEF Inv, SetUpInv
<1>9. /\ ~Has(<<"closeCallback", c>>)' /\ ~Has(<<"remove", c>>)'
      /\ ~Has(<<"connectDestroyed", c>>)' /\ ~Some(pendingFunctors_, {c})'
  <2>1. \A y \in Chore : Has(y) => y = h BY <1>3 DEF Inv, SetUpInv, Alone
  <2>2. /\ ~Has(<<"closeCallback", c>>) /\ ~Has(<<"remove", c>>)
        /\ ~Has(<<"connectDestroyed", c>>)
    BY <2>1, Chores
  <2>3. state_[c] = "kConnecting" BY <1>3 DEF Inv, SetUpInv
  <2>4. ~Some(pendingFunctors_, {c}) BY <2>3 DEF Inv, WatchInv, Watched
  <2>5. pendingFunctors_' = pendingFunctors_ BY <1>1 DEF loopVars
  <2> QED BY <1>3, <2>2, <2>4, <2>5 DEF Turns
<1>10. events_'[c] = ev /\ index_'[c] = "kAdded" /\ state_'[c] = "kConnected"
  BY <1>1, <1>4, <1>6, <1>7 DEF Inv, ReactorTypeOK, PollerTypeOK
<1>11. Watched(c)'
  BY <1>8, <1>9, <1>10 DEF Watched, Promised, Kept, Up
<1>12. /\ h \in {"connectEstablished"} \X {c}
       /\ {x} \subseteq {"connection"} \X {c}
  OBVIOUS
<1>13. /\ UNCHANGED <<waitVars, fd_, loopVars, connections_, server, cut,
                       peerClosed>>
       /\ unsent' = unsent /\ "kConnected" \in Up
  BY <1>1 DEF Up
<1> HIDE DEF ev, x, h
<1>14. <<"closeCallback", c>> \notin {x} BY DEF x
<1> QED BY <1>1, <1>3, <1>4, <1>6, <1>11, <1>12, <1>13, <1>14, ConnectionStep

(* handleRead at the end of the stream: handleClose.                       *)
LEMMA StepClosed ==
  ASSUME Inv, NEW c \in Conns, Doing("handleRead", c),
         state_' = [state_ EXCEPT ![c] = "kDisconnected"], disableAll(c),
         Then(<< <<"connection", c>>, <<"closeCallback", c>> >>),
         ready' = ready, unsent' = unsent,
         UNCHANGED <<waitVars, fd_, loopVars, connections_, server, cut,
                     peerClosed>>
  PROVE  Inv'
<1> DEFINE h == <<"handleRead", c>>
           x == <<"connection", c>>
           y == <<"closeCallback", c>>
<1>1. updateChannel(c, {}) BY DEF disableAll
<1>2. todo \in Seq(Chore) /\ x \in Chore /\ y \in Chore /\ x # y
  BY Chores DEF Inv
<1>3. Has(h) /\ Turns(h, {x, y}) BY <1>2, TwoList, Done
<1>4. /\ Exists(c) /\ c \in Channels
      /\ ready \in [Fds -> SUBSET Events]
      /\ PollInv /\ (unsent # {} => server = "gone" /\ cut)
  BY <1>3, HeldBy
<1>5. ready' \in [Fds -> SUBSET Events] /\ {} \in SUBSET Events BY <1>4
<1>6. /\ events_' = [events_ EXCEPT ![c] = {}]
      /\ index_' = [index_ EXCEPT ![c] = Mark(c, {})]
      /\ PollInv'
  BY <1>1, <1>4, <1>5, PollerUpdated
<1>7. Has(y)' BY <1>3 DEF Turns
<1>8. events_'[c] = {} /\ state_'[c] = "kDisconnected"
  BY <1>4, <1>6 DEF Inv, ReactorTypeOK, PollerTypeOK
<1>9. handling = c BY <1>3 DEF Inv, HandlingInv
<1>11. Watched(c)' BY <1>7, <1>8 DEF Watched, Promised, Up
<1>12. {x, y} \subseteq {"connection", "closeCallback", "remove"} \X {c}
  OBVIOUS
<1> QED BY <1>3, <1>4, <1>6, <1>9, <1>11, <1>12, ConnectionStep

(* handleWrite when all is sent.  If c was taken out of the poller before, *)
(* it is put back.                                                         *)
LEMMA StepWritten ==
  ASSUME Inv, NEW c \in Conns, Doing("handleWrite", c), isWriting(c),
         disableWriting(c), Then(<< >>), ready' = ready, unsent' = unsent,
         UNCHANGED <<waitVars, fd_, loopVars, connections_, server, cut,
                     peerClosed>>, state_' = state_
  PROVE  Inv'
<1> DEFINE h == <<"handleWrite", c>>
           ev == events_[c] \ {"write"}
<1>1. updateChannel(c, ev) BY DEF disableWriting
<1>2. todo \in Seq(Chore) BY DEF Inv
<1>3. Has(h) /\ Turns(h, {}) BY <1>2, NoList, Done
<1>4. /\ Exists(c) /\ c \in Channels
      /\ ready \in [Fds -> SUBSET Events] /\ events_[c] \in SUBSET Events
      /\ PollInv /\ (unsent # {} => server = "gone" /\ cut)
  BY <1>3, HeldBy
<1>5. ready' \in [Fds -> SUBSET Events] /\ ev \in SUBSET Events BY <1>4
<1>6. /\ events_' = [events_ EXCEPT ![c] = ev]
      /\ index_' = [index_ EXCEPT ![c] = Mark(c, ev)]
      /\ PollInv'
  BY <1>1, <1>4, <1>5, PollerUpdated
<1>7. Watched(c) /\ "write" \in events_[c] BY DEF Inv, WatchInv, isWriting
<1>8. state_[c] \in Up /\ "read" \in ev BY <1>7 DEF Watched
<1>9. Mark(c, ev) = "kAdded" BY <1>8 DEF Mark
<1>10. /\ events_'[c] = ev /\ index_'[c] = "kAdded"
       /\ state_' = [state_ EXCEPT ![c] = state_[c]]
  BY <1>4, <1>6, <1>9 DEF Inv, ReactorTypeOK, PollerTypeOK
<1>11. Watched(c)'
  <2>1. \A op \in {"closeCallback", "connectDestroyed", "remove"} :
          Has(<<op, c>>)' <=> Has(<<op, c>>)
    BY <1>3 DEF Turns
  <2>2. /\ Has(<<"closeCallback", c>>)' <=> Has(<<"closeCallback", c>>)
        /\ Has(<<"connectDestroyed", c>>)' <=> Has(<<"connectDestroyed", c>>)
        /\ Has(<<"remove", c>>)' <=> Has(<<"remove", c>>)
    BY <2>1
  <2>3. UNCHANGED <<connections_, pendingFunctors_, server>> BY DEF loopVars
  <2>4. index_[c] = "kNew" => c \in unsent
    BY <1>3, <1>7 DEF Watched, WriteDue
  <2>5. Kept(c) \/ (state_[c] = "kDisconnecting" /\ c \in unsent)
    BY <1>7, <1>8, <2>4 DEF Watched, TakenOut
  <2>6. Kept(c)' \/ TakenOut(c)'
    BY <1>10, <2>2, <2>3, <2>5 DEF Kept, TakenOut
  <2>7. Promised(c)' \/ c \in unsent
    BY <2>2, <2>3, <2>5 DEF Promised, Kept
  <2> HIDE DEF ev
  <2> QED BY <1>7, <1>8, <1>10, <2>2, <2>3, <2>6, <2>7 DEF Watched
<1> HIDE DEF ev
<1> QED BY <1>3, <1>4, <1>6, <1>8, <1>10, <1>11, ConnectionStep

(* connectDestroyed of a connection that is kConnected.                    *)
LEMMA StepTakenDown ==
  ASSUME Inv, NEW c \in Conns, Doing("connectDestroyed", c),
         state_[c] = "kConnected",
         state_' = [state_ EXCEPT ![c] = "kDisconnected"], disableAll(c),
         Then(<< <<"connection", c>>, <<"remove", c>> >>), ready' = ready,
         unsent' = unsent,
         UNCHANGED <<waitVars, fd_, loopVars, connections_, server, cut,
                     peerClosed>>
  PROVE  Inv'
<1> DEFINE h == <<"connectDestroyed", c>>
           x == <<"connection", c>>
           y == <<"remove", c>>
<1>1. updateChannel(c, {}) BY DEF disableAll
<1>2. todo \in Seq(Chore) /\ x \in Chore /\ y \in Chore /\ x # y
  BY Chores DEF Inv
<1>3. Has(h) /\ Turns(h, {x, y}) BY <1>2, TwoList, Done
<1>4. /\ Exists(c) /\ c \in Channels
      /\ ready \in [Fds -> SUBSET Events]
      /\ PollInv /\ (unsent # {} => server = "gone" /\ cut)
  BY <1>3, HeldBy DEF Holding
<1>5. ready' \in [Fds -> SUBSET Events] /\ {} \in SUBSET Events BY <1>4
<1>6. /\ events_' = [events_ EXCEPT ![c] = {}]
      /\ index_' = [index_ EXCEPT ![c] = Mark(c, {})]
      /\ PollInv'
  BY <1>1, <1>4, <1>5, PollerUpdated
<1>7. Has(y)' BY <1>3 DEF Turns
<1>8. events_'[c] = {} /\ state_'[c] = "kDisconnected"
  BY <1>4, <1>6 DEF Inv, ReactorTypeOK, PollerTypeOK
<1>11. Watched(c)' BY <1>7, <1>8 DEF Watched, Promised, Up
<1>12. /\ {x, y} \subseteq {"connection", "closeCallback", "remove"} \X {c}
       /\ <<"closeCallback", c>> \notin {x, y}
  OBVIOUS
<1> QED BY <1>3, <1>4, <1>6, <1>11, <1>12, ConnectionStep

(* The two ways to say that a handleWrite is to come.                      *)
LEMMA ToCome ==
  ASSUME NEW c
  PROVE  WriteToCome(c) <=> WriteDue(c)
BY DEF WriteToCome, WriteDue, Has, Some

(* A handleWrite is to come in a batch only, so a server that takes down a *)
(* connection before it was destroyed in the batch.                        *)
LEMMA CutInBatch ==
  ASSUME Inv, NEW c \in Conns, WriteDue(c), server = "gone"
  PROVE  cut
<1>1. handling = c \/ c \in activeChannels_
  <2>1. Has(<<"handleWrite", c>>) => handling = c BY DEF Inv, HandlingInv
  <2>2. "write" \in revents_[c] => c \in activeChannels_
    BY ThreeKinds DEF Inv, ActiveInv
  <2> QED BY <2>1, <2>2 DEF WriteDue
<1> QED BY <1>1, ThreeKinds DEF Inv, LateInv

(* The channel of a connection that is not kConnected is taken out.        *)
LEMMA StepTakenOut ==
  ASSUME Inv, NEW c \in Conns, NEW op \in {"connectDestroyed", "remove"},
         Doing(op, c), state_[c] # "kConnected", removeChannel(c), Then(<< >>),
         ready' = ready, state_' = state_,
         unsent' = IF isWriting(c) /\ WriteToCome(c) THEN unsent \cup {c}
                                                     ELSE unsent,
         UNCHANGED <<waitVars, fd_, loopVars, connections_, server, cut,
                     peerClosed>>
  PROVE  Inv'
<1> DEFINE h == <<op, c>>
<1>2. todo \in Seq(Chore) BY DEF Inv
<1>3. Has(h) /\ Turns(h, {}) BY <1>2, NoList, Done
<1>4. /\ Exists(c) /\ c \in Channels /\ PollInv
      /\ state_[c] \in Up \cup {"kConnecting", "kDisconnected"}
      /\ unsent # {} => server = "gone" /\ cut
  BY <1>3, HeldBy DEF Holding
<1>5. state_[c] \in {"kDisconnecting", "kDisconnected"}
  <2>1. ~Has(<<"connectEstablished", c>>)
    BY <1>3, Chores, NotAlone DEF Inv
  <2> QED BY <1>4, <2>1 DEF Inv, SetUpInv, Up
<1>6. /\ events_' = events_
      /\ index_' = [index_ EXCEPT ![c] = "kNew"]
      /\ PollInv'
  BY <1>4, PollerRemoved
<1>7. /\ events_' = [events_ EXCEPT ![c] = events_[c]]
      /\ index_'[c] = "kNew"
      /\ state_' = [state_ EXCEPT ![c] = state_[c]]
  BY <1>4, <1>6 DEF Inv, ReactorTypeOK, PollerTypeOK
<1>8. Watched(c) BY DEF Inv, WatchInv
<1>9. "write" \in events_[c] /\ WriteDue(c) => c \in unsent'
  BY ToCome DEF isWriting
<1>10. unsent' # {} => server = "gone" /\ cut
  <2> SUFFICES ASSUME isWriting(c), WriteToCome(c)
               PROVE  server = "gone" /\ cut
    BY <1>4
  <2>1. WriteDue(c) BY ToCome
  <2>2. state_[c] # "kDisconnected" BY <1>8 DEF Watched, isWriting, Up
  <2>3. server = "gone" BY <1>3, <1>8, <2>2 DEF Watched
  <2> QED BY <2>1, <2>3, CutInBatch
<1>11. Watched(c)'
  <2>1. /\ Has(<<"closeCallback", c>>)' => Has(<<"closeCallback", c>>)
        /\ Has(<<"connectDestroyed", c>>)' => Has(<<"connectDestroyed", c>>)
        /\ Has(<<"remove", c>>)' => Has(<<"remove", c>>)
        /\ Has(<<"handleWrite", c>>)' => Has(<<"handleWrite", c>>)
    BY <1>3 DEF Turns
  <2>2. UNCHANGED <<revents_, pendingFunctors_, server>>
    BY Zenon DEF waitVars, loopVars
  <2>3. WriteDue(c)' => WriteDue(c) BY <2>1, <2>2 DEF WriteDue
  <2>4. state_[c] \in Up => TakenOut(c)' BY <1>5, <1>7 DEF TakenOut, Up
  <2> QED BY <1>6, <1>7, <1>8, <1>9, <2>1, <2>2, <2>3, <2>4 DEF Watched
<1>12. h \in {"connectDestroyed", "remove"} \X {c} OBVIOUS
<1>13. /\ unsent' \in {unsent, unsent \cup {c}}
       /\ state_[c] \in Up \cup {"kDisconnected"}
  BY <1>5 DEF Up
<1> HIDE DEF h
<1> QED BY <1>3, <1>4, <1>6, <1>7, <1>10, <1>11, <1>12, <1>13, ConnectionStep

(* A step that does nothing for any connection, but for the channel of c.  *)
LEMMA ChannelOnly ==
  ASSUME Inv, PollInv', todo' \in Seq(Chore),
         \A d \in Conns : fd_'[d] = fd_[d],
         \A d \in Conns : \/ Watched(d)'
                          \/ events_'[d] = events_[d] /\ index_'[d] = index_[d],
         \A d \in Conns : \A op \in Holding \cup {"handleRead", "handleWrite"} :
           Has(<<op, d>>)' <=> Has(<<op, d>>),
         PhaseInv', SetUpInv', OrderInv(acceptChannel_)',
         OrderInv(wakeupChannel_)', WakeupInv', AcceptorInv', ActiveInv',
         UNCHANGED <<waitVars, loopVars, serverVars, peerClosed>>
  PROVE  Inv'
<1>1. /\ UNCHANGED <<revents_, activeChannels_>>
      /\ UNCHANGED <<phase, handling, pendingFunctors_>>
      /\ UNCHANGED <<connections_, server, cut, unsent, state_, peerClosed>>
  BY Zenon DEF waitVars, loopVars, serverVars
<1>3. ReactorTypeOK'
  BY <1>1 DEF Inv, ReactorTypeOK, PollInv, Exists
<1>7. HandlingInv' BY <1>1 DEF Inv, HandlingInv
<1>8. HeldInv'
  BY <1>1 DEF Inv, HeldInv, Exists
<1>9. WatchInv'
  <2> SUFFICES ASSUME NEW d \in Conns, events_'[d] = events_[d],
                      index_'[d] = index_[d]
               PROVE  Watched(d)'
    BY DEF WatchInv
  <2>1. \A op \in {"closeCallback", "connectDestroyed", "remove"} :
          Has(<<op, d>>)' <=> Has(<<op, d>>)
    BY DEF Holding
  <2>2. WriteDue(d)' => WriteDue(d) BY <1>1 DEF WriteDue
  <2>3. Watched(d) BY DEF Inv, WatchInv
  <2> QED BY <1>1, <2>1, <2>2, <2>3, SameWatch
<1>13. LateInv'
  <2>1. \A d \in Conns : Has(<<"closeCallback", d>>)' =>
          Has(<<"closeCallback", d>>)
    BY DEF Holding
  <2> QED BY <1>1, <2>1 DEF Inv, LateInv
<1> QED BY <1>3, <1>7, <1>8, <1>9, <1>13 DEF Inv, PollInv

(* The last entries of the acceptor's or the loop's channel.               *)
LEMMA LastEntries ==
  ASSUME Inv, NEW ch \in {acceptChannel_, wakeupChannel_},
         NEW op \in {"enableReading", "disableAll", "remove", "free"},
         Doing(op, ch), Then(<< >>), UNCHANGED <<waitVars, loopVars, serverVars>>
  PROVE  /\ <<op, ch>> \in Chore /\ Has(<<op, ch>>) /\ Turns(<<op, ch>>, {})
         /\ PhaseInv'
         /\ SetUpInv'
         /\ \A d \in Conns : \A o \in Holding \cup {"handleRead", "handleWrite"} :
              Has(<<o, d>>)' <=> Has(<<o, d>>)
<1>0. /\ UNCHANGED <<revents_, activeChannels_, phase, handling,
                     connections_, state_>>
      /\ server' = server
  BY Zenon DEF waitVars, loopVars, serverVars
<1>1. /\ <<op, ch>> \in Chore /\ Has(<<op, ch>>) /\ Turns(<<op, ch>>, {})
  BY NoList, Done DEF Inv
<1>2. PhaseInv'
  <2>1. todo # << >> BY DEF Doing
  <2> QED BY <1>0, <2>1, BusyPhase DEF Inv
<1>3. SetUpInv'
  <2> DEFINE h == <<op, ch>>
             M == {}
  <2>0. SetUpInv /\ h \in Chore /\ Has(h) /\ Turns(h, M) BY <1>1 DEF Inv
  <2>1. ~Has(<<"accept", acceptChannel_>>)' BY <1>1, <2>0, NotAlone
  <2>2. \A d \in Conns : /\ h # <<"connectEstablished", d>>
                         /\ <<"connectEstablished", d>> \notin M
    BY ThreeKinds
  <2> HIDE DEF h, M
  <2>3. \A d \in Conns : /\ ~Has(<<"connectEstablished", d>>)
                         /\ ~Has(<<"connectEstablished", d>>)'
    BY <2>0, <2>2, NotAlone, Zenon
  <2> QED BY <1>0, <2>0, <2>1, <2>3 DEF SetUpInv
<1>4. ASSUME NEW d \in Conns, NEW o
      PROVE  Has(<<o, d>>)' <=> Has(<<o, d>>)
  <2>1. <<o, d>> # <<op, ch>> BY ThreeKinds
  <2> QED BY <1>1, <2>1 DEF Turns
<1> QED BY <1>1, <1>2, <1>3, <1>4

(* send to a connection.                                                   *)
LEMMA StepSend ==
  ASSUME Inv, NEW c \in Conns, Send(c)
  PROVE  Inv'
<1> DEFINE ev == events_[c] \cup {"write"}
<1>1. /\ state_[c] = "kConnected"
      /\ ready' = [ready EXCEPT ![fd_[c]] = @ \ {"write"}]
      /\ updateChannel(c, ev)
      /\ UNCHANGED <<waitVars, fd_>>
      /\ UNCHANGED <<waitVars, loopVars, serverVars, peerClosed>>
      /\ UNCHANGED <<fd_, todo>>
      /\ UNCHANGED <<revents_, activeChannels_, phase, handling,
                     pendingFunctors_>>
      /\ UNCHANGED <<connections_, state_, server, cut, unsent>>
  BY Zenon DEF Send, enableWriting, waitVars, loopVars, serverVars
<1>4. /\ Exists(c) /\ c \in Channels
      /\ ready \in [Fds -> SUBSET Events] /\ events_[c] \in SUBSET Events
      /\ PollInv
  BY <1>1, ThreeKinds DEF Inv, ReactorTypeOK, PollerTypeOK, PollInv
<1>5. ready' \in [Fds -> SUBSET Events] /\ ev \in SUBSET Events
  BY <1>1, <1>4 DEF Events
<1>6. /\ events_' = [events_ EXCEPT ![c] = ev]
      /\ index_' = [index_ EXCEPT ![c] = Mark(c, ev)]
      /\ PollInv'
  BY <1>1, <1>4, <1>5, PollerUpdated
<1>7. Mark(c, ev) = "kAdded" BY DEF Mark
<1>8. /\ events_'[c] = ev /\ index_'[c] = "kAdded"
      /\ \A d \in Channels : d # c => /\ events_'[d] = events_[d]
                                      /\ index_'[d] = index_[d]
  BY <1>4, <1>6, <1>7 DEF Inv, ReactorTypeOK, PollerTypeOK
<1>9. Watched(c)'
  <2>1. Watched(c) /\ Kept(c)
    BY <1>1 DEF Inv, WatchInv, Watched, TakenOut, Up
  <2>2. Kept(c)' /\ Promised(c)'
    BY <1>1, <1>8, <2>1 DEF Kept, Promised, Has
  <2> QED BY <1>1, <1>8, <2>1, <2>2 DEF Watched, Has, Up
<1> HIDE DEF ev
<1>10. \A ch \in {acceptChannel_, wakeupChannel_} : index_'[ch] = index_[ch]
  BY <1>8, ThreeKinds
<1>11. /\ PhaseInv' /\ SetUpInv' /\ ActiveInv'
       /\ OrderInv(acceptChannel_)' /\ OrderInv(wakeupChannel_)'
  BY <1>1, <1>10
     DEF Inv, PhaseInv, SetUpInv, ActiveInv, OrderInv, Exists, Has, Single, Alone
<1>12. WakeupInv' /\ AcceptorInv'
  BY <1>1, <1>10 DEF Inv, WakeupInv, AcceptorInv, Exists, Has, Single
<1>13. todo' \in Seq(Chore) BY <1>1 DEF Inv
<1>14. /\ \A d \in Conns : fd_'[d] = fd_[d]
       /\ \A d \in Conns : \/ Watched(d)'
                           \/ events_'[d] = events_[d] /\ index_'[d] = index_[d]
       /\ \A d \in Conns : \A op \in Holding \cup {"handleRead", "handleWrite"} :
            Has(<<op, d>>)' <=> Has(<<op, d>>)
  BY <1>1, <1>8, <1>9, ThreeKinds DEF Has
<1> QED BY <1>1, <1>6, <1>11, <1>12, <1>13, <1>14, ChannelOnly, Zenon

(* shutdown of a connection.                                               *)
LEMMA StepShutdown ==
  ASSUME Inv, NEW c \in Conns, Shutdown(c)
  PROVE  Inv'
<1>1. /\ state_[c] = "kConnected"
      /\ state_' = [state_ EXCEPT ![c] = "kDisconnecting"]
      /\ UNCHANGED <<pollerVars, waitVars, fd_>>
      /\ UNCHANGED <<events_, index_, revents_, activeChannels_, todo>>
      /\ UNCHANGED <<phase, handling, pendingFunctors_, ready, peerClosed>>
      /\ UNCHANGED <<connections_, server, cut, unsent>>
      /\ fd_' = fd_ /\ unsent' = unsent
  BY Zenon DEF Shutdown, pollerVars, waitVars, loopVars, clientVars
<1>2. ready' \in [Fds -> SUBSET Events]
  BY <1>1 DEF Inv, ReactorTypeOK, PollerTypeOK
<1>3. PollInv'
  BY <1>1, <1>2, PollerUntouched, Zenon DEF Inv, ReactorTypeOK, PollInv
<1>4. /\ \A d \in Conns : d # c => state_'[d] = state_[d]
      /\ state_'[c] = "kDisconnecting"
  BY <1>1 DEF Inv, ReactorTypeOK
<1>5. ReactorTypeOK' /\ todo' \in Seq(Chore)
  <2>1. \A d \in Conns : Exists(d)' <=> state_'[d] # "none"
    BY <1>1, <1>4 DEF Inv, ReactorTypeOK, Exists
  <2> QED BY <1>1, <1>3, <2>1 DEF Inv, ReactorTypeOK, PollInv
<1>6. PhaseInv' /\ HandlingInv' /\ LateInv'
  BY <1>1 DEF Inv, PhaseInv, HandlingInv, LateInv, Has
<1>7. SetUpInv'
  BY <1>1, <1>4 DEF Inv, SetUpInv, Alone, Has, Single
<1>8. HeldInv' /\ ActiveInv'
  BY <1>1 DEF Inv, HeldInv, ActiveInv, Has, Exists
<1>9. WatchInv'
  <2> SUFFICES ASSUME NEW d \in Conns PROVE Watched(d)'
    BY DEF WatchInv
  <2>1. Watched(d) BY DEF Inv, WatchInv
  <2>2. \A x : Has(x)' <=> Has(x) BY <1>1 DEF Has
  <2>3. WriteDue(d)' => WriteDue(d) BY <1>1, <2>2 DEF WriteDue
  <2>4. CASE d # c BY <1>1, <1>4, <2>1, <2>2, <2>3, <2>4, SameWatch
  <2>5. CASE d = c
    <3>1. Kept(c) BY <1>1, <2>1, <2>5 DEF Watched, TakenOut, Up
    <3>2. Kept(c)' /\ Promised(c)'
      BY <1>1, <2>2, <3>1 DEF Kept, Promised
    <3> QED BY <1>1, <1>4, <2>1, <2>2, <2>3, <2>5, <3>2 DEF Watched, Up
  <2> QED BY <2>4, <2>5
<1>10. OrderInv(acceptChannel_)' /\ OrderInv(wakeupChannel_)'
  BY <1>1 DEF Inv, OrderInv, Has, Single, Exists
<1>11. WakeupInv' /\ AcceptorInv'
  BY <1>1 DEF Inv, WakeupInv, AcceptorInv, Has, Single, Exists
<1> QED BY <1>3, <1>5, <1>6, <1>7, <1>8, <1>9, <1>10, <1>11 DEF Inv, PollInv

(* TcpServer::start.                                                       *)
LEMMA StepStart ==
  ASSUME Inv, Start
  PROVE  Inv'
<1> DEFINE c == acceptChannel_
           ev == events_[c] \cup {"read"}
<1>1. /\ server = "up" /\ ready' = ready
      /\ updateChannel(c, ev)
      /\ UNCHANGED <<waitVars, fd_>>
      /\ UNCHANGED <<waitVars, loopVars, serverVars, peerClosed>>
      /\ UNCHANGED <<fd_, todo>>
      /\ UNCHANGED <<revents_, activeChannels_, phase, handling,
                     pendingFunctors_>>
      /\ UNCHANGED <<connections_, state_, server, cut, unsent>>
  BY Zenon DEF Start, enableReading, waitVars, loopVars, serverVars, clientVars
<1>4. /\ Exists(c) /\ c \in Channels
      /\ ready \in [Fds -> SUBSET Events] /\ events_[c] \in SUBSET Events
      /\ PollInv
  BY <1>1, ThreeKinds DEF Inv, ReactorTypeOK, PollerTypeOK, PollInv, AcceptorInv
<1>5. ready' \in [Fds -> SUBSET Events] /\ ev \in SUBSET Events
  BY <1>1, <1>4 DEF Events
<1>6. /\ events_' = [events_ EXCEPT ![c] = ev]
      /\ index_' = [index_ EXCEPT ![c] = Mark(c, ev)]
      /\ PollInv'
  BY <1>1, <1>4, <1>5, PollerUpdated
<1>8. /\ \A d \in Channels : d # c => /\ events_'[d] = events_[d]
                                      /\ index_'[d] = index_[d]
  BY <1>4, <1>6 DEF Inv, ReactorTypeOK, PollerTypeOK
<1> HIDE DEF ev
<1>10. index_'[wakeupChannel_] = index_[wakeupChannel_]
  BY <1>8, ThreeKinds
<1>11. PhaseInv' /\ SetUpInv' /\ ActiveInv' /\ OrderInv(wakeupChannel_)'
  BY <1>1, <1>10
     DEF Inv, PhaseInv, SetUpInv, ActiveInv, OrderInv, Exists, Has, Single, Alone
<1>12. OrderInv(acceptChannel_)'
  BY <1>1 DEF Inv, AcceptorInv, OrderInv, Exists, Has, Single
<1>15. WakeupInv' /\ AcceptorInv'
  BY <1>1, <1>10 DEF Inv, WakeupInv, AcceptorInv, Exists, Has, Single
<1>13. todo' \in Seq(Chore) BY <1>1 DEF Inv
<1>14. /\ \A d \in Conns : fd_'[d] = fd_[d]
       /\ \A d \in Conns : \/ Watched(d)'
                           \/ events_'[d] = events_[d] /\ index_'[d] = index_[d]
       /\ \A d \in Conns : \A op \in Holding \cup {"handleRead", "handleWrite"} :
            Has(<<op, d>>)' <=> Has(<<op, d>>)
  BY <1>1, <1>8, ThreeKinds DEF Has
<1> QED BY <1>1, <1>6, <1>11, <1>12, <1>13, <1>14, <1>15, ChannelOnly, Zenon

(* What the loop and the acceptor do to a channel of theirs.               *)
LEMMA StepChannel ==
  ASSUME Inv, NEW ch \in Channels, ChannelStep(ch)
  PROVE  Inv'
<1>1. /\ Then(<< >>) /\ ready' = ready
      /\ UNCHANGED <<waitVars, fd_>>
      /\ UNCHANGED <<waitVars, loopVars, serverVars, peerClosed>>
      /\ UNCHANGED <<waitVars, loopVars, serverVars>>
      /\ UNCHANGED <<waitVars, fd_, loopVars, connections_, server, cut,
                     peerClosed>>
      /\ fd_' = fd_
      /\ UNCHANGED <<revents_, activeChannels_, phase, handling,
                     pendingFunctors_>>
      /\ UNCHANGED <<connections_, state_, server, cut, unsent>>
  BY Zenon DEF ChannelStep, waitVars, loopVars, serverVars, clientVars
<1>2. PICK op \in {"enableReading", "disableAll", "remove"} :
        /\ Doing(op, ch)
        /\ op = "enableReading" => updateChannel(ch, events_[ch] \cup {"read"})
        /\ op = "disableAll" => updateChannel(ch, {})
        /\ op = "remove" => removeChannel(ch)
  BY DEF ChannelStep, enableReading, disableAll
<1>3. <<op, ch>> \in Chore /\ Has(<<op, ch>>)
  BY <1>1, <1>2, NoList, Done DEF Inv
<1>4. CASE ch \in Conns
  <2>1. op = "remove" BY <1>3, <1>4, ThreeKinds DEF Chore
  <2>2. state_[ch] = "kDisconnected" /\ events_[ch] = {}
    BY <1>3, <1>4, <2>1 DEF Inv, WatchInv, Watched, Up
  <2>3. unsent' = IF isWriting(ch) /\ WriteToCome(ch) THEN unsent \cup {ch}
                                                      ELSE unsent
    BY <1>1, <2>2 DEF isWriting
  <2> QED BY <1>1, <1>2, <1>4, <2>1, <2>2, <2>3, StepTakenOut
<1>5. CASE ch \in {acceptChannel_, wakeupChannel_}
  <2>1. /\ Turns(<<op, ch>>, {}) /\ PhaseInv' /\ SetUpInv'
        /\ \A d \in Conns : \A o \in Holding \cup {"handleRead", "handleWrite"} :
             Has(<<o, d>>)' <=> Has(<<o, d>>)
    BY <1>1, <1>2, <1>5, LastEntries
  <2>2. OrderInv(ch) BY <1>5 DEF Inv
  <2>3. /\ op \in {"disableAll", "remove"} => Has(<<"free", ch>>)
        /\ op = "disableAll" => Has(<<"remove", ch>>)
    BY <1>3, <2>2 DEF OrderInv
  <2>4. op = "enableReading" => ch = wakeupChannel_ /\ phase = "created"
    <3>1. op = "enableReading" => ch = wakeupChannel_
      BY <1>3, <1>5, ThreeKinds DEF Chore
    <3> QED BY <1>3, <3>1 DEF Inv, WakeupInv
  <2>5. Exists(ch)
    BY <2>2, <2>3, <2>4 DEF Inv, OrderInv, WakeupInv
  <2>6. /\ ready' \in [Fds -> SUBSET Events] /\ PollInv
        /\ events_[ch] \cup {"read"} \in SUBSET Events /\ {} \in SUBSET Events
    BY <1>1 DEF Inv, ReactorTypeOK, PollerTypeOK, PollInv, Events
  <2>7. PICK ev, i :
          /\ events_' = [events_ EXCEPT ![ch] = ev]
          /\ index_' = [index_ EXCEPT ![ch] = i]
          /\ op = "remove" => i = "kNew"
          /\ PollInv'
    <3>1. CASE op = "enableReading"
      <4> DEFINE ev == events_[ch] \cup {"read"}
      <4>1. /\ events_' = [events_ EXCEPT ![ch] = ev]
            /\ index_' = [index_ EXCEPT ![ch] = Mark(ch, ev)]
            /\ PollInv'
        BY <1>1, <1>2, <2>5, <2>6, <3>1, PollerUpdated
      <4> QED BY <3>1, <4>1
    <3>2. CASE op = "disableAll"
      <4>1. /\ events_' = [events_ EXCEPT ![ch] = {}]
            /\ index_' = [index_ EXCEPT ![ch] = Mark(ch, {})]
            /\ PollInv'
        BY <1>1, <1>2, <2>5, <2>6, <3>2, PollerUpdated
      <4> QED BY <3>2, <4>1
    <3>3. CASE op = "remove"
      <4>1. /\ events_' = events_
            /\ index_' = [index_ EXCEPT ![ch] = "kNew"]
            /\ PollInv'
        BY <1>1, <1>2, <2>5, <2>6, <3>3, PollerRemoved
      <4>2. events_' = [events_ EXCEPT ![ch] = events_[ch]]
        BY <4>1 DEF Inv, ReactorTypeOK, PollerTypeOK
      <4> QED BY <4>1, <4>2
    <3> QED BY <3>1, <3>2, <3>3
  <2>8. /\ \A other \in Channels \ {ch} : /\ events_'[other] = events_[other]
                                          /\ index_'[other] = index_[other]
        /\ index_'[ch] = i
    BY <2>7 DEF Inv, ReactorTypeOK, PollerTypeOK
  <2>9. ASSUME NEW other \in {acceptChannel_, wakeupChannel_}
        PROVE  OrderInv(other)'
    <3>1. OrderInv(other) BY DEF Inv
    <3>2. CASE other # ch
      <4>1. /\ \A o \in {"disableAll", "remove", "free"} :
                 Has(<<o, other>>)' <=> Has(<<o, other>>)
            /\ Single(<<"free", other>>)'
            /\ Before(todo', <<"disableAll", other>>, <<"remove", other>>)
            /\ Before(todo', <<"remove", other>>, <<"free", other>>)
        BY <2>1, <3>1, <3>2 DEF Turns, OrderInv
      <4>2. index_'[other] = index_[other] BY <2>8, <3>2, ThreeKinds
      <4> QED BY <1>1, <3>1, <4>1, <4>2 DEF OrderInv, Exists
    <3>3. CASE other = ch
      <4>1. /\ \A o \in {"disableAll", "remove", "free"} :
                 Has(<<o, other>>)' => Has(<<o, other>>)
            /\ \A o \in {"disableAll", "remove", "free"} :
                 o # op => (Has(<<o, other>>)' <=> Has(<<o, other>>))
            /\ Single(<<"free", other>>)'
            /\ Before(todo', <<"disableAll", other>>, <<"remove", other>>)
            /\ Before(todo', <<"remove", other>>, <<"free", other>>)
        BY <2>1, <3>1 DEF Turns, OrderInv
      <4>2. op = "remove" => ~Has(<<"disableAll", ch>>)
        BY <1>2, <2>2, HeadFirst DEF OrderInv, Inv
      <4>3. op = "enableReading" => ~Has(<<"free", ch>>)
        BY <2>4 DEF Inv, WakeupInv
      <4> QED BY <1>1, <2>3, <2>5, <2>7, <2>8, <3>1, <3>3, <4>1, <4>2, <4>3
          DEF OrderInv, Exists
    <3> QED BY <3>2, <3>3
  <2>10. WakeupInv'
    <3>1. WakeupInv BY DEF Inv
    <3>2. /\ Has(<<"free", wakeupChannel_>>)' => Has(<<"free", wakeupChannel_>>)
          /\ Has(<<"enableReading", wakeupChannel_>>)' =>
               Has(<<"enableReading", wakeupChannel_>>)
          /\ <<op, ch>> # <<"remove", wakeupChannel_>> =>
               (Has(<<"remove", wakeupChannel_>>)' <=>
                  Has(<<"remove", wakeupChannel_>>))
      BY <2>1 DEF Turns
    <3>3. CASE ch = wakeupChannel_
      BY <1>1, <2>3, <2>4, <2>7, <2>8, <3>1, <3>2, <3>3 DEF WakeupInv, Exists
    <3>4. CASE ch # wakeupChannel_
      BY <1>1, <2>8, <3>1, <3>2, <3>4, ThreeKinds DEF WakeupInv, Exists
    <3> QED BY <3>3, <3>4
  <2>11. AcceptorInv'
    <3>1. AcceptorInv BY DEF Inv
    <3>2. /\ Has(<<"free", acceptChannel_>>)' <=> Has(<<"free", acceptChannel_>>)
          /\ Has(<<"dtor", acceptChannel_>>)' <=> Has(<<"dtor", acceptChannel_>>)
          /\ <<op, ch>> # <<"remove", acceptChannel_>> =>
               (Has(<<"remove", acceptChannel_>>)' <=>
                  Has(<<"remove", acceptChannel_>>))
          /\ Single(<<"dtor", acceptChannel_>>)'
      BY <2>1, <3>1 DEF Turns, AcceptorInv
    <3>3. CASE ch = acceptChannel_
      BY <1>1, <2>3, <2>4, <2>7, <2>8, <3>1, <3>2, <3>3, ThreeKinds
         DEF AcceptorInv, Exists
    <3>4. CASE ch # acceptChannel_
      BY <1>1, <2>8, <3>1, <3>2, <3>4, ThreeKinds DEF AcceptorInv, Exists
    <3> QED BY <3>3, <3>4
  <2>12. ActiveInv'
    <3>1. /\ UNCHANGED <<revents_, activeChannels_, pendingFunctors_>>
          /\ UNCHANGED <<connections_, cut, fd_>>
      BY <1>1
    <3> QED BY <3>1, Zenon DEF Inv, ActiveInv, Exists
  <2>13. todo' \in Seq(Chore) BY <2>1 DEF Turns
  <2>14. /\ \A d \in Conns : fd_'[d] = fd_[d]
         /\ \A d \in Conns : events_'[d] = events_[d] /\ index_'[d] = index_[d]
    BY <1>1, <1>5, <2>8, ThreeKinds
  <2> QED BY <1>1, <2>1, <2>7, <2>9, <2>10, <2>11, <2>12, <2>13, <2>14,
             ChannelOnly, Zenon
<1> QED BY <1>4, <1>5, ThreeKinds

(* The acceptor's or the loop's channel is freed.                          *)
LEMMA StepFreeChannel ==
  ASSUME Inv, NEW ch \in Channels, FreeChannel(ch)
  PROVE  Inv'
<1>1. /\ Doing("free", ch) /\ Then(<< >>) /\ DestroyChannel(ch)
      /\ UNCHANGED <<waitVars, loopVars, serverVars, peerClosed>>
      /\ UNCHANGED <<waitVars, loopVars, serverVars>>
      /\ UNCHANGED waitVars
      /\ UNCHANGED <<revents_, activeChannels_, phase, handling,
                     pendingFunctors_>>
      /\ UNCHANGED <<connections_, state_, server, cut, unsent>>
  BY Zenon DEF FreeChannel, waitVars, loopVars, serverVars
<1>3. <<"free", ch>> \in Chore /\ Has(<<"free", ch>>)
  BY <1>1, NoList, Done DEF Inv
<1>5. ch \in {acceptChannel_, wakeupChannel_} BY <1>3 DEF Chore
<1>6. /\ Turns(<<"free", ch>>, {}) /\ PhaseInv' /\ SetUpInv'
      /\ \A d \in Conns : \A o \in Holding \cup {"handleRead", "handleWrite"} :
           Has(<<o, d>>)' <=> Has(<<o, d>>)
  BY <1>1, <1>5, LastEntries
<1>7. OrderInv(ch) BY <1>5 DEF Inv
<1>8. ~Has(<<"remove", ch>>) BY <1>1, <1>7, HeadFirst DEF OrderInv, Inv
<1>9. Exists(ch) /\ index_[ch] = "kNew" BY <1>3, <1>7, <1>8 DEF OrderInv
<1>10. /\ fd_' = [fd_ EXCEPT ![ch] = NoFd]
       /\ events_' = [events_ EXCEPT ![ch] = {}]
       /\ index_' = index_
       /\ PollInv'
  <2>1. [index_ EXCEPT ![ch] = "kNew"] = index_
    BY <1>9 DEF Inv, ReactorTypeOK, PollerTypeOK
  <2> QED BY <1>1, <1>9, <2>1, PollerFreed DEF Inv, ReactorTypeOK, PollInv
<1>11. /\ \A other \in Channels \ {ch} : /\ events_'[other] = events_[other]
                                         /\ fd_'[other] = fd_[other]
  BY <1>10 DEF Inv, ReactorTypeOK, PollerTypeOK
<1>12. ~Has(<<"free", ch>>)' BY <1>6, <1>7 DEF OrderInv, Turns
<1>13. ASSUME NEW other \in {acceptChannel_, wakeupChannel_}
       PROVE  OrderInv(other)'
  <2>1. OrderInv(other) BY DEF Inv
  <2>2. /\ \A o \in {"disableAll", "remove"} :
             Has(<<o, other>>)' <=> Has(<<o, other>>)
        /\ other # ch => (Has(<<"free", other>>)' <=> Has(<<"free", other>>))
        /\ Single(<<"free", other>>)'
        /\ Before(todo', <<"disableAll", other>>, <<"remove", other>>)
        /\ Before(todo', <<"remove", other>>, <<"free", other>>)
    BY <1>6, <2>1 DEF Turns, OrderInv
  <2>3. CASE other # ch
    <3>1. fd_'[other] = fd_[other] BY <1>11, <2>3, ThreeKinds
    <3> QED BY <1>10, <2>1, <2>2, <2>3, <3>1 DEF OrderInv, Exists
  <2>4. CASE other = ch BY <1>8, <1>12, <2>1, <2>2, <2>4 DEF OrderInv
  <2> QED BY <2>3, <2>4
<1>14. WakeupInv'
  <2>1. /\ Has(<<"free", wakeupChannel_>>)' => Has(<<"free", wakeupChannel_>>)
        /\ Has(<<"enableReading", wakeupChannel_>>)' =>
             Has(<<"enableReading", wakeupChannel_>>)
        /\ Has(<<"remove", wakeupChannel_>>)' <=>
                Has(<<"remove", wakeupChannel_>>)
    BY <1>6 DEF Turns
  <2>2. ch # wakeupChannel_ => fd_'[wakeupChannel_] = fd_[wakeupChannel_]
    BY <1>11, ThreeKinds
  <2> QED BY <1>1, <1>3, <1>10, <2>1, <2>2 DEF Inv, WakeupInv, Exists
<1>15. AcceptorInv'
  <2>0. AcceptorInv BY DEF Inv
  <2>1. /\ Has(<<"free", acceptChannel_>>)' => Has(<<"free", acceptChannel_>>)
        /\ Has(<<"dtor", acceptChannel_>>)' <=> Has(<<"dtor", acceptChannel_>>)
        /\ Has(<<"remove", acceptChannel_>>)' <=>
             Has(<<"remove", acceptChannel_>>)
        /\ Single(<<"dtor", acceptChannel_>>)'
        /\ ch # acceptChannel_ => (Has(<<"free", acceptChannel_>>)' <=>
                                    Has(<<"free", acceptChannel_>>))
    BY <1>6, <2>0 DEF Turns, AcceptorInv
  <2>2. /\ ch # acceptChannel_ => fd_'[acceptChannel_] = fd_[acceptChannel_]
        /\ ch = acceptChannel_ => fd_'[acceptChannel_] = NoFd
    BY <1>10, <1>11, ThreeKinds DEF Inv, ReactorTypeOK, PollerTypeOK
  <2> QED BY <1>1, <1>3, <1>10, <2>0, <2>1, <2>2 DEF AcceptorInv, Exists
<1>16. ActiveInv'
  <2>1. ~cut => ch \notin activeChannels_
    <3>1. ch = acceptChannel_ => server # "up" BY <1>3 DEF Inv, AcceptorInv
    <3>2. ch = wakeupChannel_ => phase = "destroyed" BY <1>3 DEF Inv, WakeupInv
    <3>3. phase = "destroyed" => activeChannels_ = {} BY DEF Inv, PhaseInv
    <3> QED
      BY <1>5, <3>1, <3>2, <3>3, ThreeKinds DEF Inv, ReactorTypeOK, LateInv
  <2>2. activeChannels_ \subseteq Channels
    BY DEF Inv, ReactorTypeOK, PollerTypeOK
  <2> QED BY <1>1, <1>11, <2>1, <2>2 DEF Inv, ActiveInv, Exists
<1>17. todo' \in Seq(Chore) BY <1>6 DEF Turns
<1>18. /\ \A d \in Conns : fd_'[d] = fd_[d]
       /\ \A d \in Conns : events_'[d] = events_[d] /\ index_'[d] = index_[d]
  BY <1>5, <1>10, <1>11, ThreeKinds
<1> QED BY <1>1, <1>6, <1>10, <1>13, <1>14, <1>15, <1>16, <1>17, <1>18,
           ChannelOnly, Zenon

(* Nobody holds c.                                                         *)
LEMMA NobodyHolds ==
  ASSUME Inv, NEW c \in Conns, ~Held(c)
  PROVE  /\ c \notin connections_ /\ handling # c
         /\ ~Some(pendingFunctors_, {c})
         /\ \A op \in Holding : ~Has(<<op, c>>)
<1>1. /\ c \notin connections_ /\ handling # c
      /\ \A k \in DOMAIN pendingFunctors_ : pendingFunctors_[k] # c
      /\ \A k \in DOMAIN todo : ~(todo[k][1] \in Holding /\ todo[k][2] = c)
  BY Zenon DEF Held, Tied
<1>2. \A op \in Holding : ~Has(<<op, c>>)
  <2> SUFFICES ASSUME NEW op \in Holding, NEW k \in DOMAIN todo,
                      todo[k] = <<op, c>>
               PROVE  FALSE
    BY DEF Has, Some
  <2>1. todo[k][1] = op /\ todo[k][2] = c OBVIOUS
  <2> QED BY <1>1, <2>1
<1> QED BY <1>1, <1>2 DEF Some

(* ~TcpConnection.                                                         *)
LEMMA StepFree ==
  ASSUME Inv, NEW c \in Conns, Free(c)
  PROVE  Inv'
<1>1. /\ Exists(c) /\ ~Held(c)
      /\ state_' = [state_ EXCEPT ![c] = "none"]
      /\ DestroyChannel(c)
      /\ peerClosed' = peerClosed \ {c}
      /\ UNCHANGED waitVars
      /\ UNCHANGED <<revents_, activeChannels_, phase, handling,
                     pendingFunctors_>>
      /\ UNCHANGED <<todo, connections_, server, cut, unsent>>
  BY Zenon DEF Free, waitVars, loopVars
<1>2. /\ c \notin connections_ /\ handling # c
      /\ ~Some(pendingFunctors_, {c})
      /\ \A op \in Holding : ~Has(<<op, c>>)
  BY <1>1, NobodyHolds
<1>3. /\ ~Has(<<"closeCallback", c>>) /\ ~Has(<<"connectDestroyed", c>>)
      /\ ~Has(<<"remove", c>>) /\ ~Has(<<"connectEstablished", c>>)
  BY <1>2 DEF Holding
<1>4. index_[c] = "kNew" \/ c \in unsent
  BY <1>2, <1>3 DEF Inv, WatchInv, Watched, Promised
<1>5. c \in Channels BY ThreeKinds
<1>10. /\ fd_' = [fd_ EXCEPT ![c] = NoFd]
       /\ events_' = [events_ EXCEPT ![c] = {}]
       /\ index_' = [index_ EXCEPT ![c] = "kNew"]
       /\ PollInv'
  BY <1>1, <1>4, <1>5, PollerFreed DEF Inv, ReactorTypeOK, PollInv
<1>11. /\ \A other \in Channels \ {c} : /\ events_'[other] = events_[other]
                                        /\ index_'[other] = index_[other]
                                        /\ fd_'[other] = fd_[other]
       /\ events_'[c] = {} /\ fd_'[c] = NoFd /\ index_'[c] = "kNew"
       /\ \A d \in Conns \ {c} : state_'[d] = state_[d]
       /\ state_'[c] = "none"
  BY <1>1, <1>5, <1>10 DEF Inv, ReactorTypeOK, PollerTypeOK
<1>12. ReactorTypeOK' /\ todo' \in Seq(Chore)
  <2>1. \A d \in Conns : Exists(d)' <=> state_'[d] # "none"
    BY <1>11, ThreeKinds DEF Inv, ReactorTypeOK, Exists
  <2> QED BY <1>1, <1>10, <2>1 DEF Inv, ReactorTypeOK, PollInv
<1>13. PhaseInv' /\ LateInv' /\ HandlingInv'
  BY <1>1 DEF Inv, PhaseInv, LateInv, HandlingInv, Has
<1>14. SetUpInv'
  BY <1>1, <1>3, <1>11 DEF Inv, SetUpInv, Has, Alone, Single
<1>15. HeldInv'
  <2> SUFFICES ASSUME NEW d \in Conns,
                      \/ d \in connections_
                      \/ handling = d
                      \/ Some(pendingFunctors_, {d})
                      \/ \E op \in Holding : Has(<<op, d>>)
               PROVE  fd_'[d] # NoFd
    BY <1>1 DEF HeldInv, Has, Exists
  <2>1. d # c BY <1>2
  <2> QED BY <1>11, <2>1, ThreeKinds DEF Inv, HeldInv, Exists
<1>16. WatchInv'
  <2> SUFFICES ASSUME NEW d \in Conns PROVE Watched(d)'
    BY DEF WatchInv
  <2>1. Watched(d) BY DEF Inv, WatchInv
  <2>2. CASE d = c
    BY <1>1, <1>2, <1>3, <1>11, <2>2 DEF Watched, Has, Up
  <2>3. CASE d # c
    <3>1. \A op \in {"closeCallback", "connectDestroyed", "remove"} :
            Has(<<op, d>>)' <=> Has(<<op, d>>)
      BY <1>1 DEF Has
    <3>2. WriteDue(d)' => WriteDue(d) BY <1>1 DEF WriteDue, Has
    <3> QED BY <1>1, <1>11, <2>1, <2>3, <3>1, <3>2, ThreeKinds, SameWatch
  <2> QED BY <2>2, <2>3
<1>17. \A ch \in {acceptChannel_, wakeupChannel_} :
         fd_'[ch] = fd_[ch] /\ index_'[ch] = index_[ch]
  BY <1>11, ThreeKinds
<1>18. OrderInv(acceptChannel_)' /\ OrderInv(wakeupChannel_)'
  BY <1>1, <1>17 DEF Inv, OrderInv, Exists, Has, Single
<1>19. WakeupInv' /\ AcceptorInv'
  BY <1>1, <1>17 DEF Inv, WakeupInv, AcceptorInv, Exists, Has, Single
<1>20. ActiveInv'
  <2>1. ~cut => c \notin activeChannels_ BY <1>2 DEF Inv, ActiveInv
  <2>2. activeChannels_ \subseteq Channels
    BY DEF Inv, ReactorTypeOK, PollerTypeOK
  <2> QED BY <1>1, <1>11, <2>1, <2>2 DEF Inv, ActiveInv, Exists
<1> QED BY <1>10, <1>12, <1>13, <1>14, <1>15, <1>16, <1>18, <1>19, <1>20
        DEF Inv, PollInv

(* A new connection has a descriptor of its own.                           *)
LEMMA PollerAccepted ==
  ASSUME PollInv, NEW c \in Channels, ~Exists(c), NEW fd \in FreeFds,
         fd_' = [fd_ EXCEPT ![c] = fd],
         UNCHANGED <<pollerVars, waitVars>>, unsent = {}, unsent' = unsent,
         ready' \in [Fds -> SUBSET Events]
  PROVE  PollInv'
<1>1. /\ UNCHANGED <<events_, index_, channels_, epollPtr, epollEvents,
                     ctlFailed>>
      /\ UNCHANGED <<revents_, eventListSize, activeChannels_>>
  BY Zenon DEF pollerVars, waitVars, epollVars
<1>2. fd \in Fds /\ \A ch \in Channels : fd_[ch] # fd BY DEF FreeFds
<1>3. index_[c] = "kNew" /\ events_[c] = {} BY DEF PollInv, FdInv
<1>4. PollerTypeOK' BY <1>1, <1>2 DEF PollInv, PollerTypeOK
<1>5. PollerAgrees'
  <2>1. PollerAgrees /\ PollerTypeOK BY DEF PollInv
  <2>2. ctlFailed' = FALSE
    BY <1>1, <2>1 DEF PollerAgrees, AgreesBut, PollerTypeOK
  <2>3. \A ch \in Channels \ {c} : fd_'[ch] = fd_[ch] BY <2>1 DEF PollerTypeOK
  <2>4. \A f \in Fds : /\ epollPtr[f] # Nobody => epollPtr[f] \in Channels \ {c}
                       /\ channels_[f] # Nobody => channels_[f] \in Channels \ {c}
    BY <1>3, <2>1 DEF PollerAgrees, AgreesBut, PollerTypeOK
  <2> QED BY <1>1, <1>3, <2>1, <2>2, <2>3, <2>4
          DEF PollerAgrees, AgreesBut, hasChannel
<1>6. FdInv' BY <1>1, <1>2, <1>3 DEF PollInv, PollerTypeOK, FdInv, Exists
<1>7. EventListBounded' BY <1>1, Zenon DEF PollInv, EventListBounded
<1> QED BY <1>4, <1>5, <1>6, <1>7 DEF PollInv

(* Acceptor::handleRead with newConnection.                                *)
LEMMA StepAccepted ==
  ASSUME Inv, Doing("accept", acceptChannel_), NEW c \in Unused, NEW fd \in Fds,
         LowestFree(fd), fd_' = [fd_ EXCEPT ![c] = fd],
         state_' = [state_ EXCEPT ![c] = "kConnecting"],
         connections_' = connections_ \cup {c},
         NEW more \in {{}, {"read"}},
         ready' = [ready EXCEPT ![fd] = {"write"}, ![ListenFd] = more],
         Then(<< <<"connectEstablished", c>> >>),
         UNCHANGED <<pollerVars, waitVars, loopVars, server, cut, unsent,
                     peerClosed>>
  PROVE  Inv'
<1> DEFINE h == <<"accept", acceptChannel_>>
           x == <<"connectEstablished", c>>
<1>0. /\ UNCHANGED <<events_, index_, revents_, activeChannels_>>
      /\ UNCHANGED <<phase, handling, pendingFunctors_>>
      /\ UNCHANGED <<server, cut, unsent, peerClosed>>
      /\ UNCHANGED <<pollerVars, waitVars>>
  BY Zenon DEF pollerVars, waitVars, loopVars
<1>1. c \in Conns /\ c \in Channels /\ state_[c] = "none" /\ ~Exists(c)
  BY ThreeKinds DEF Unused, Inv, ReactorTypeOK
<1>2. todo \in Seq(Chore) /\ x \in Chore BY <1>1, Chores DEF Inv
<1>3. Has(h) /\ Turns(h, {x}) BY <1>2, OneList, Done
<1>4. Alone(h) /\ server = "up" /\ unsent = {}
  BY <1>3 DEF Inv, SetUpInv, LateInv
<1>5. /\ \A y \in Chore : Has(y)' => y = x
      /\ Has(x)' /\ Single(x)'
      /\ ~Has(x)
      /\ \A y : Has(y)' => y \in Chore
  <2>0. \A y : Has(y)' => y \in Chore BY <1>3 DEF Has, Some, Turns
  <2>1. x # h OBVIOUS
  <2> HIDE DEF x, h
  <2>2. ~Has(h)' BY <1>3, <1>4, <2>1 DEF Turns, Alone
  <2>3. ~Has(x) BY <1>2, <1>4, <2>1 DEF Alone
  <2> QED BY <1>3, <1>4, <2>0, <2>2, <2>3 DEF Turns, Alone
<1>6. fd \in FreeFds /\ ready' \in [Fds -> SUBSET Events]
  <2>1. more \in SUBSET Events /\ {"write"} \in SUBSET Events BY DEF Events
  <2> QED BY <2>1 DEF LowestFree, Inv, ReactorTypeOK, PollerTypeOK
<1>7. PollInv'
  BY <1>0, <1>1, <1>4, <1>6, PollerAccepted DEF Inv, ReactorTypeOK, PollInv
<1>8. /\ \A ch \in Channels \ {c} : fd_'[ch] = fd_[ch]
      /\ fd_'[c] = fd
      /\ \A d \in Conns \ {c} : state_'[d] = state_[d]
      /\ state_'[c] = "kConnecting"
  BY <1>1 DEF Inv, ReactorTypeOK, PollerTypeOK
<1>9. \A ch \in Channels : Exists(ch) => Exists(ch)'
  BY <1>1, <1>8 DEF Exists
<1>10. Exists(c)' BY <1>8, PollerAssumption DEF Exists, Fds, NoFd
<1>12. ReactorTypeOK' /\ todo' \in Seq(Chore)
  <2>1. \A d \in Conns : Exists(d)' <=> state_'[d] # "none"
    BY <1>8, <1>10, ThreeKinds DEF Inv, ReactorTypeOK, Exists
  <2>2. todo' \in Seq(Chore) BY <1>3 DEF Turns
  <2> QED BY <1>0, <1>1, <1>7, <2>1, <2>2 DEF Inv, ReactorTypeOK, PollInv
<1>13. PhaseInv'
  <2>1. todo # << >> BY DEF Doing
  <2> QED BY <1>0, <2>1, BusyPhase DEF Inv
<1>14. /\ \A d \in Conns, op \in {"closeCallback", "connectDestroyed", "remove",
                                  "handleRead", "handleWrite"} :
            ~Has(<<op, d>>)' /\ ~Has(<<op, d>>)
       /\ \A d \in Conns, op \in Holding :
            Has(<<op, d>>)' => d = c
       /\ \A d \in Conns : Has(<<"connectEstablished", d>>)' => d = c
       /\ ~Has(<<"accept", acceptChannel_>>)'
  BY <1>4, <1>5, Chores DEF Alone
<1>15. SetUpInv'
  <2>1. ASSUME NEW d \in Conns, state_'[d] = "kConnecting" PROVE d = c
    <3>1. d # c => Has(<<"connectEstablished", d>>)
      BY <1>8, <2>1 DEF Inv, SetUpInv
    <3> QED BY <1>4, <3>1, Chores DEF Alone
  <2> QED BY <1>0, <1>4, <1>5, <1>8, <1>14, <2>1 DEF SetUpInv, Alone
<1>16. HandlingInv' BY <1>14 DEF HandlingInv
<1>17. HeldInv'
  <2> SUFFICES ASSUME NEW d \in Conns, d # c,
                      \/ d \in connections_
                      \/ handling = d
                      \/ Some(pendingFunctors_, {d})
               PROVE  Exists(d)'
    BY <1>0, <1>10, <1>14 DEF HeldInv
  <2> QED BY <1>9, ThreeKinds DEF Inv, HeldInv
<1>18. WatchInv'
  <2> SUFFICES ASSUME NEW d \in Conns PROVE Watched(d)'
    BY DEF WatchInv
  <2>0. Watched(d) BY DEF Inv, WatchInv
  <2>1. /\ ~Has(<<"closeCallback", d>>)' /\ ~Has(<<"closeCallback", d>>)
        /\ ~Has(<<"connectDestroyed", d>>)' /\ ~Has(<<"connectDestroyed", d>>)
        /\ ~Has(<<"remove", d>>)' /\ ~Has(<<"remove", d>>)
    BY <1>14
  <2>2. CASE d = c
    <3>1. index_[c] = "kNew" /\ events_[c] = {} BY <1>1 DEF Inv, FdInv
    <3>2. ~Some(pendingFunctors_, {c}) BY <1>1, <2>0, <2>2 DEF Watched
    <3> QED BY <1>0, <1>8, <2>1, <2>2, <3>1, <3>2 DEF Watched, Up
  <2>3. CASE d # c
    <3>1. \A op \in {"closeCallback", "connectDestroyed", "remove"} :
            Has(<<op, d>>)' <=> Has(<<op, d>>)
      BY <2>1
    <3>2. WriteDue(d)' => WriteDue(d) BY <1>0, <1>14 DEF WriteDue
    <3> QED BY <1>0, <1>8, <2>0, <2>3, <3>1, <3>2, SameWatch
  <2> QED BY <2>2, <2>3
<1>19. \A ch \in {acceptChannel_, wakeupChannel_} :
         \A op \in {"dtor", "disableAll", "remove", "free", "enableReading"} :
           ~Has(<<op, ch>>)'
  BY <1>1, <1>5, ThreeKinds
<1>20. ASSUME NEW ch \in {acceptChannel_, wakeupChannel_}
       PROVE  OrderInv(ch)'
  <2>1. ~Has(<<"free", ch>>)' /\ ~Has(<<"remove", ch>>)'
        /\ ~Has(<<"disableAll", ch>>)'
    BY <1>19
  <2> QED BY <2>1 DEF OrderInv, Has, Some, Single, AtMostOne, Before
<1>21. WakeupInv'
  <2>1. ~Has(<<"remove", wakeupChannel_>>) BY <1>4, Chores DEF Alone
  <2>2. ~Has(<<"enableReading", wakeupChannel_>>)'
        /\ ~Has(<<"free", wakeupChannel_>>)' BY <1>19
  <2> QED BY <1>0, <1>9, <2>1, <2>2, ThreeKinds DEF Inv, WakeupInv
<1>22. AcceptorInv'
  <2>1. Exists(acceptChannel_) BY <1>4 DEF Inv, AcceptorInv
  <2>2. /\ ~Has(<<"dtor", acceptChannel_>>)' /\ ~Has(<<"free", acceptChannel_>>)'
    BY <1>19
  <2>3. Single(<<"dtor", acceptChannel_>>)'
    BY <2>2 DEF Has, Single, Some, AtMostOne
  <2> QED BY <1>0, <1>4, <1>9, <2>1, <2>2, <2>3, ThreeKinds DEF AcceptorInv
<1>23. LateInv' BY <1>0, <1>4 DEF LateInv, Inv
<1>24. ActiveInv'
  <2>1. activeChannels_ \subseteq Channels
    BY DEF Inv, ReactorTypeOK, PollerTypeOK
  <2>2. ActiveInv BY DEF Inv
  <2>3. /\ UNCHANGED <<revents_, activeChannels_, pendingFunctors_, cut>>
        /\ connections_ \subseteq connections_'
    BY <1>0
  <2>4. ASSUME ~cut, NEW ch \in activeChannels_
        PROVE  /\ Exists(ch)'
               /\ ch \in Conns => \/ ch \in connections_'
                                  \/ Some(pendingFunctors_, {ch})
    BY <1>9, <2>1, <2>2, <2>3, <2>4 DEF ActiveInv
  <2>5. /\ cut' = cut /\ activeChannels_' = activeChannels_
        /\ revents_' = revents_ /\ pendingFunctors_' = pendingFunctors_
    BY <2>3
  <2>6. \A ch \in Channels : revents_'[ch] # {} => ch \in activeChannels_'
    BY <2>2, <2>5 DEF ActiveInv
  <2>7. ASSUME ~cut', NEW ch \in activeChannels_'
        PROVE  /\ Exists(ch)'
               /\ ch \in Conns => \/ ch \in connections_'
                                  \/ Some(pendingFunctors_', {ch})
    BY <2>4, <2>5, <2>7
  <2> QED BY <2>6, <2>7 DEF ActiveInv
<1> QED BY <1>7, <1>12, <1>13, <1>15, <1>16, <1>17, <1>18, <1>20, <1>21,
           <1>22, <1>23, <1>24 DEF Inv, PollInv

(* TcpServer::removeConnection.                                            *)
LEMMA StepCloseCallback ==
  ASSUME Inv, NEW c \in Conns, CloseCallback(c)
  PROVE  Inv'
<1> DEFINE h == <<"closeCallback", c>>
<1>1. /\ Doing("closeCallback", c) /\ Then(<< >>)
      /\ connections_' = connections_ \ {c}
      /\ pendingFunctors_' = Append(pendingFunctors_, c)
      /\ UNCHANGED <<pollerVars, waitVars, fd_>>
      /\ UNCHANGED <<events_, index_, revents_, activeChannels_>>
      /\ UNCHANGED <<phase, handling, state_, server, cut, peerClosed, ready>>
      /\ fd_' = fd_ /\ unsent' = unsent
  BY Zenon DEF CloseCallback, pollerVars, waitVars, clientVars
<1>2. todo \in Seq(Chore) BY DEF Inv
<1>3. h \in Chore /\ Has(h) /\ Turns(h, {}) BY <1>1, <1>2, NoList, Done
<1>4. ready' \in [Fds -> SUBSET Events]
  BY <1>1 DEF Inv, ReactorTypeOK, PollerTypeOK
<1>5. PollInv'
  BY <1>1, <1>4, PollerUntouched, Zenon DEF Inv, ReactorTypeOK, PollInv
<1>6. /\ pendingFunctors_' \in Seq(Conns)
      /\ \A d : Some(pendingFunctors_, {d})' <=>
                 Some(pendingFunctors_, {d}) \/ d = c
  <2>1. pendingFunctors_ \in Seq(Conns) BY DEF Inv, ReactorTypeOK
  <2>2. ASSUME NEW d
        PROVE  Some(Append(pendingFunctors_, c), {d}) <=>
                 Some(pendingFunctors_, {d}) \/ c \in {d}
    BY <2>1, AppendQueue
  <2>3. pendingFunctors_' \in Seq(Conns) BY <1>1, <2>1
  <2>4. \A d : Some(pendingFunctors_', {d}) <=>
                 Some(pendingFunctors_, {d}) \/ d = c
    BY <1>1, <2>2
  <2> QED BY <2>3, <2>4
<1>7. ReactorTypeOK' /\ todo' \in Seq(Chore)
  BY <1>1, <1>3, <1>5, <1>6 DEF Inv, ReactorTypeOK, PollInv, Turns, Exists
<1>8. PhaseInv'
  <2>1. todo # << >> BY <1>1 DEF Doing
  <2> QED BY <1>1, <2>1, BusyPhase DEF Inv
<1>9. state_[c] = "kDisconnected" BY <1>3 DEF Inv, WatchInv, Watched
<1>10. SetUpInv'
  <2> DEFINE M == {}
  <2>0. SetUpInv /\ Turns(h, M) BY <1>3 DEF Inv
  <2>1. ~Has(<<"accept", acceptChannel_>>)' BY <1>3, <2>0, NotAlone
  <2>2. \A d \in Conns : /\ h # <<"connectEstablished", d>>
                         /\ <<"connectEstablished", d>> \notin M
    OBVIOUS
  <2> HIDE DEF h, M
  <2>3. \A d \in Conns : /\ ~Has(<<"connectEstablished", d>>)
                         /\ ~Has(<<"connectEstablished", d>>)'
    BY <1>3, <2>0, <2>2, NotAlone, Zenon
  <2> QED BY <1>1, <2>0, <2>1, <2>3 DEF SetUpInv
<1>11. HandlingInv' BY <1>1, <1>3 DEF Inv, HandlingInv, Turns
<1>12. HeldInv'
  <2> SUFFICES ASSUME NEW d \in Conns,
                      \/ d \in connections_
                      \/ handling = d
                      \/ Some(pendingFunctors_, {d}) \/ d = c
                      \/ \E op \in Holding : Has(<<op, d>>)'
               PROVE  Exists(d)
    BY <1>1, <1>6 DEF HeldInv, Exists
  <2>1. \A op \in Holding : Has(<<op, d>>)' => Has(<<op, d>>)
    BY <1>3 DEF Turns
  <2>2. Exists(c) BY <1>3, HeldBy DEF Holding
  <2> QED BY <2>1, <2>2 DEF Inv, HeldInv
<1>13. WatchInv'
  <2> SUFFICES ASSUME NEW d \in Conns PROVE Watched(d)'
    BY DEF WatchInv
  <2>0. Watched(d) BY DEF Inv, WatchInv
  <2>1. /\ Has(<<"closeCallback", d>>)' => Has(<<"closeCallback", d>>)
        /\ d # c => (Has(<<"closeCallback", d>>) => Has(<<"closeCallback", d>>)')
        /\ Has(<<"connectDestroyed", d>>)' <=> Has(<<"connectDestroyed", d>>)
        /\ Has(<<"remove", d>>)' <=> Has(<<"remove", d>>)
        /\ Has(<<"handleWrite", d>>)' => Has(<<"handleWrite", d>>)
    BY <1>3 DEF Turns
  <2>2. CASE d = c
    <3>1. events_[c] = {} BY <1>9, <2>0, <2>2 DEF Watched, Up
    <3> QED BY <1>1, <1>6, <1>9, <2>0, <2>1, <2>2, <3>1 DEF Watched, Promised, Up
  <2>3. CASE d # c
    <3>1. \A op \in {"closeCallback", "connectDestroyed", "remove"} :
            Has(<<op, d>>)' <=> Has(<<op, d>>)
      BY <2>1, <2>3
    <3>2. WriteDue(d)' => WriteDue(d) BY <1>1, <2>1 DEF WriteDue
    <3> QED BY <1>1, <1>6, <2>0, <2>3, <3>1, <3>2, SameWatch
  <2> QED BY <2>2, <2>3
<1>20. ASSUME NEW ch \in {acceptChannel_, wakeupChannel_}, OrderInv(ch)
       PROVE  OrderInv(ch)'
  BY <1>1, <1>3, <1>20, ThreeKinds DEF OrderInv, Turns, Exists
<1>21. WakeupInv' BY <1>1, <1>3, ThreeKinds DEF Inv, WakeupInv, Turns, Exists
<1>22. AcceptorInv'
  BY <1>1, <1>3, ThreeKinds DEF Inv, AcceptorInv, Turns, Exists
<1>23. LateInv' BY <1>1, <1>3 DEF Inv, LateInv, Turns
<1>24. ActiveInv' BY <1>1, <1>6 DEF Inv, ActiveInv, Exists
<1> QED BY <1>5, <1>7, <1>8, <1>10, <1>11, <1>12, <1>13, <1>20, <1>21,
           <1>22, <1>23, <1>24 DEF Inv, PollInv

(* A functor is taken from the queue.                                      *)
LEMMA StepRunFunctor ==
  ASSUME Inv, RunFunctor
  PROVE  Inv'
<1> DEFINE c == Head(pendingFunctors_)
           x == <<"connectDestroyed", c>>
<1>1. /\ phase = "functors" /\ todo = << >> /\ pendingFunctors_ # << >>
      /\ todo' = <<x>>
      /\ pendingFunctors_' = Tail(pendingFunctors_)
      /\ UNCHANGED <<pollerVars, waitVars, fd_>>
      /\ UNCHANGED <<events_, index_, revents_, activeChannels_>>
      /\ UNCHANGED <<phase, handling, state_, server, cut, peerClosed, ready>>
      /\ UNCHANGED <<fd_, connections_>> /\ unsent' = unsent
  BY Zenon DEF RunFunctor, Rest, pollerVars, waitVars, serverVars, clientVars
<1>2. pendingFunctors_ \in Seq(Conns) BY DEF Inv, ReactorTypeOK
<1>3. c \in Conns /\ pendingFunctors_' \in Seq(Conns) BY <1>1, <1>2
<1>4. \A d : Some(pendingFunctors_, {d}) <=> c = d \/ Some(pendingFunctors_, {d})'
  <2> SUFFICES ASSUME NEW d
               PROVE  Some(pendingFunctors_, {d}) <=>
                        Head(pendingFunctors_) \in {d}
                          \/ Some(Tail(pendingFunctors_), {d})
    BY <1>1
  <2> QED BY <1>1, <1>2, TailQueue
<1> HIDE DEF c
<1>5. \A y : ~Has(y) /\ (Has(y)' <=> y = x) BY <1>1 DEF Has, Some
<1>6. todo' \in Seq(Chore)
  <2>1. x \in Chore BY <1>3, Chores
  <2> QED BY <1>1, <2>1
<1>7. Exists(c) BY <1>3, <1>4 DEF Inv, HeldInv
<1>8. ready' \in [Fds -> SUBSET Events]
  BY <1>1 DEF Inv, ReactorTypeOK, PollerTypeOK
<1>9. PollInv'
  BY <1>1, <1>8, PollerUntouched, Zenon DEF Inv, ReactorTypeOK, PollInv
<1>10. ReactorTypeOK'
  BY <1>1, <1>3, <1>9 DEF Inv, ReactorTypeOK, PollInv, Exists
<1>11. PhaseInv' BY <1>1 DEF Inv, PhaseInv
<1>12. SetUpInv' BY <1>1, <1>5, ThreeKinds DEF Inv, SetUpInv
<1>13. HandlingInv' BY <1>5 DEF HandlingInv
<1>14. HeldInv'
  <2> SUFFICES ASSUME NEW d \in Conns,
                      \/ d \in connections_
                      \/ handling = d
                      \/ Some(pendingFunctors_, {d})'
                      \/ \E op \in Holding : Has(<<op, d>>)'
               PROVE  Exists(d)
    BY <1>1 DEF HeldInv, Exists
  <2>1. \A op \in Holding : Has(<<op, d>>)' => d = c BY <1>5
  <2>2. Some(pendingFunctors_, {d})' => Some(pendingFunctors_, {d}) BY <1>4
  <2> QED BY <1>7, <2>1, <2>2 DEF Inv, HeldInv
<1>15. WatchInv'
  <2> SUFFICES ASSUME NEW d \in Conns PROVE Watched(d)'
    BY DEF WatchInv
  <2>0. Watched(d) BY DEF Inv, WatchInv
  <2>1. /\ ~Has(<<"closeCallback", d>>)' /\ ~Has(<<"closeCallback", d>>)
        /\ ~Has(<<"connectDestroyed", d>>)
        /\ Has(<<"connectDestroyed", d>>)' <=> d = c
        /\ ~Has(<<"remove", d>>)' /\ ~Has(<<"remove", d>>)
        /\ ~Has(<<"handleWrite", d>>)'
    BY <1>5
  <2>2. Some(pendingFunctors_, {d}) <=> c = d \/ Some(pendingFunctors_, {d})'
    BY <1>4
  <2>3. WriteDue(d)' => WriteDue(d) BY <1>1, <2>1 DEF WriteDue
  <2>4. CASE d = c
    <3>1. state_[d] = "kDisconnected" /\ events_[d] = {}
      BY <2>0, <2>2, <2>4 DEF Watched, Up
    <3> QED BY <1>1, <2>1, <2>4, <3>1 DEF Watched, Promised, Up
  <2>5. CASE d # c
    <3>1. \A op \in {"closeCallback", "connectDestroyed", "remove"} :
            Has(<<op, d>>)' <=> Has(<<op, d>>)
      BY <2>1, <2>5
    <3> QED BY <1>1, <2>0, <2>2, <2>3, <2>5, <3>1, SameWatch
  <2> QED BY <2>4, <2>5
<1>16. \A ch \in {acceptChannel_, wakeupChannel_} :
         \A op \in {"dtor", "disableAll", "remove", "free", "enableReading"} :
           ~Has(<<op, ch>>)' /\ ~Has(<<op, ch>>)
  BY <1>3, <1>5, ThreeKinds
<1>17. \A y : Single(y)' BY <1>1 DEF Single, AtMostOne
<1>18. ASSUME NEW ch \in {acceptChannel_, wakeupChannel_}
       PROVE  OrderInv(ch)'
  <2>1. ~Has(<<"free", ch>>)' /\ ~Has(<<"remove", ch>>)'
        /\ ~Has(<<"disableAll", ch>>)'
    BY <1>16
  <2> QED BY <2>1 DEF OrderInv, Has, Some, Single, AtMostOne, Before
<1>19. WakeupInv' BY <1>1, <1>16 DEF Inv, WakeupInv, Exists
<1>20. AcceptorInv' BY <1>1, <1>16, <1>17 DEF Inv, AcceptorInv, Exists
<1>21. LateInv' BY <1>1, <1>5 DEF Inv, LateInv
<1>22. ActiveInv' BY <1>1 DEF Inv, PhaseInv, ActiveInv
<1> QED BY <1>6, <1>9, <1>10, <1>11, <1>12, <1>13, <1>14, <1>15, <1>18,
           <1>19, <1>20, <1>21, <1>22 DEF Inv, PollInv

(* ~TcpServer begins.                                                      *)
LEMMA StepDestroyServer ==
  ASSUME Inv, DestroyServer
  PROVE  Inv'
<1> DEFINE x == <<"dtor", acceptChannel_>>
<1>1. /\ server = "up" /\ server' = "gone" /\ cut' = InMessage
      /\ todo' = <<x>> \o todo
      /\ UNCHANGED <<pollerVars, waitVars, fd_>>
      /\ UNCHANGED <<events_, index_, revents_, activeChannels_>>
      /\ UNCHANGED <<phase, handling, pendingFunctors_, peerClosed, ready>>
      /\ UNCHANGED <<fd_, connections_, state_>> /\ unsent' = unsent
  BY Zenon DEF DestroyServer, pollerVars, waitVars, loopVars, clientVars
<1>2. \/ \E c \in Conns : Doing("message", c)
      \/ todo = << >> /\ phase \in {"functors", "returned"}
  BY DEF DestroyServer, InMessage, InFunctor
<1>3. todo \in Seq(Chore) /\ x \in Chore BY Chores DEF Inv
<1>4. Turns(<< >>, {x}) BY <1>1, <1>3, OneList, Pushed
<1>5. /\ ~Has(<<"accept", acceptChannel_>>)
      /\ \A d \in Conns : ~Has(<<"connectEstablished", d>>)
  <2>1. CASE todo = << >> BY <2>1 DEF Has, Some
  <2>2. CASE \E c \in Conns : Doing("message", c)
    <3>1. PICK c \in Conns : Doing("message", c) BY <2>2
    <3>2. <<"message", c>> \in Chore /\ Has(<<"message", c>>)
      BY <1>3, <3>1, Chores, HeadEntry DEF Doing, Has
    <3> QED BY <3>2, Chores DEF Inv, SetUpInv, Alone
  <2> QED BY <1>2, <2>1, <2>2
<1>6. ready' \in [Fds -> SUBSET Events]
  BY <1>1 DEF Inv, ReactorTypeOK, PollerTypeOK
<1>7. PollInv'
  BY <1>1, <1>6, PollerUntouched, Zenon DEF Inv, ReactorTypeOK, PollInv
<1>8. ReactorTypeOK' /\ todo' \in Seq(Chore)
  <2>1. cut' \in BOOLEAN BY <1>1, Zenon DEF InMessage
  <2>2. todo' \in Seq(Chore) BY <1>4 DEF Turns
  <2> QED BY <1>1, <1>7, <2>1, <2>2 DEF Inv, ReactorTypeOK, PollInv, Exists
<1>9. PhaseInv' BY <1>1, <1>2 DEF Inv, PhaseInv, Doing
<1>10. SetUpInv'
  <2>1. /\ ~Has(<<"accept", acceptChannel_>>)'
        /\ \A d \in Conns : ~Has(<<"connectEstablished", d>>)'
    BY <1>4, <1>5 DEF Turns
  <2> QED BY <1>1, <1>5, <2>1 DEF Inv, SetUpInv
<1>11. \A d \in Conns : \A op : Has(<<op, d>>)' <=> Has(<<op, d>>)
  BY <1>4, ThreeKinds DEF Turns
<1>12. HandlingInv' BY <1>1, <1>11 DEF Inv, HandlingInv
<1>13. HeldInv' BY <1>1, <1>11 DEF Inv, HeldInv, Exists
<1>14. WatchInv'
  <2> SUFFICES ASSUME NEW d \in Conns PROVE Watched(d)'
    BY DEF WatchInv
  <2>1. Watched(d) BY DEF Inv, WatchInv
  <2>2. WriteDue(d)' => WriteDue(d) BY <1>1, <1>11 DEF WriteDue
  <2> QED BY <1>1, <1>11, <2>1, <2>2, SameWatch
<1>15. ASSUME NEW ch \in {acceptChannel_, wakeupChannel_}, OrderInv(ch)
       PROVE  OrderInv(ch)'
  <2>1. /\ \A op \in {"disableAll", "remove", "free"} :
             Has(<<op, ch>>)' <=> Has(<<op, ch>>)
        /\ Single(<<"free", ch>>)'
        /\ Before(todo', <<"disableAll", ch>>, <<"remove", ch>>)
        /\ Before(todo', <<"remove", ch>>, <<"free", ch>>)
    BY <1>4, <1>15 DEF Turns, OrderInv
  <2> QED BY <1>1, <1>15, <2>1 DEF OrderInv, Exists
<1>16. WakeupInv' BY <1>1, <1>4, ThreeKinds DEF Inv, WakeupInv, Turns, Exists
<1>17. AcceptorInv'
  <2>1. Has(x)' /\ (~Has(x) => Single(x)') BY <1>4 DEF Turns
  <2>2. Has(<<"free", acceptChannel_>>)' => Has(<<"free", acceptChannel_>>)
    BY <1>4 DEF Turns
  <2> QED BY <1>1, <2>1, <2>2 DEF Inv, AcceptorInv, Exists
<1>18. ~cut' => /\ activeChannels_ = {} /\ handling = Nobody
                /\ \A d \in Conns : ~Has(<<"closeCallback", d>>)
  <2>1. SUFFICES ASSUME ~cut'
                 PROVE  todo = << >> /\ phase \in {"functors", "returned"}
    BY DEF Inv, PhaseInv, Has, Some
  <2>2. ~InMessage BY <1>1, <2>1
  <2> QED BY <1>2, <2>2 DEF InMessage
<1>19. LateInv' BY <1>1, <1>11, <1>18, ThreeKinds DEF LateInv, Inv
<1>20. ActiveInv' BY <1>1, <1>18 DEF ActiveInv, Inv
<1> QED BY <1>7, <1>8, <1>9, <1>10, <1>12, <1>13, <1>14, <1>15, <1>16, <1>17,
           <1>19, <1>20 DEF Inv, PollInv

(* ~TcpServer takes a connection down.                                     *)
LEMMA StepDestroyOne ==
  ASSUME Inv, Doing("dtor", acceptChannel_), NEW c \in connections_,
         connections_' = connections_ \ {c},
         todo' = << <<"connectDestroyed", c>> >> \o todo,
         UNCHANGED <<pollerVars, waitVars, fd_, loopVars, state_, server, cut,
                     unsent, clientVars>>
  PROVE  Inv'
<1> DEFINE x == <<"connectDestroyed", c>>
<1>1. /\ UNCHANGED <<events_, index_, revents_, activeChannels_>>
      /\ UNCHANGED <<phase, handling, pendingFunctors_, peerClosed, ready>>
      /\ UNCHANGED <<fd_, state_, server, cut>> /\ unsent' = unsent
      /\ UNCHANGED <<pollerVars, waitVars, fd_>>
  BY Zenon DEF pollerVars, waitVars, loopVars, clientVars
<1>2. c \in Conns BY DEF Inv, ReactorTypeOK
<1>3. todo \in Seq(Chore) /\ x \in Chore BY <1>2, Chores DEF Inv
<1>4. Turns(<< >>, {x}) BY <1>3, OneList, Pushed
<1>5. Has(<<"dtor", acceptChannel_>>) BY <1>3, HeadEntry DEF Doing, Has
<1>6. /\ ~Has(<<"accept", acceptChannel_>>)
      /\ \A d \in Conns : ~Has(<<"connectEstablished", d>>)
  BY <1>5, Chores DEF Inv, SetUpInv, Alone
<1>7. server = "gone" BY <1>5 DEF Inv, AcceptorInv, ReactorTypeOK
<1>8. ready' \in [Fds -> SUBSET Events]
  BY <1>1 DEF Inv, ReactorTypeOK, PollerTypeOK
<1>9. PollInv'
  BY <1>1, <1>8, PollerUntouched, Zenon DEF Inv, ReactorTypeOK, PollInv
<1>10. ReactorTypeOK' /\ todo' \in Seq(Chore)
  <2>2. todo' \in Seq(Chore) BY <1>4 DEF Turns
  <2> QED BY <1>1, <1>9, <2>2 DEF Inv, ReactorTypeOK, PollInv, Exists
<1>11. PhaseInv'
  <2>1. todo # << >> BY DEF Doing
  <2> QED BY <1>1, <2>1, BusyPhase DEF Inv
<1>12. SetUpInv'
  <2>1. /\ ~Has(<<"accept", acceptChannel_>>)'
        /\ \A d \in Conns : ~Has(<<"connectEstablished", d>>)'
    BY <1>4, <1>6 DEF Turns
  <2> QED BY <1>1, <1>6, <2>1 DEF Inv, SetUpInv
<1>13. /\ \A d \in Conns : \A op :
            Has(<<op, d>>)' => Has(<<op, d>>) \/ <<op, d>> = x
       /\ \A d \in Conns : \A op : Has(<<op, d>>) => Has(<<op, d>>)'
       /\ Has(x)'
  <2>1. \A d : \A op : << >> # <<op, d>> OBVIOUS
  <2> QED BY <1>4, <2>1 DEF Turns
<1>14. HandlingInv'
  <2>1. \A d \in Conns, op \in {"handleRead", "handleWrite"} :
          Has(<<op, d>>)' => Has(<<op, d>>)
    BY <1>13
  <2> QED BY <1>1, <2>1 DEF Inv, HandlingInv
<1>15. HeldInv'
  <2> SUFFICES ASSUME NEW d \in Conns,
                      \/ d \in connections_
                      \/ handling = d
                      \/ Some(pendingFunctors_, {d})
                      \/ \E op \in Holding : Has(<<op, d>>)'
               PROVE  Exists(d)
    BY <1>1 DEF HeldInv, Exists
  <2>1. \A op \in Holding : Has(<<op, d>>)' => Has(<<op, d>>) \/ d = c
    BY <1>13
  <2> QED BY <2>1 DEF Inv, HeldInv
<1>16. WatchInv'
  <2> SUFFICES ASSUME NEW d \in Conns PROVE Watched(d)'
    BY DEF WatchInv
  <2>0. Watched(d) BY DEF Inv, WatchInv
  <2>1. /\ Has(<<"closeCallback", d>>)' <=> Has(<<"closeCallback", d>>)
        /\ Has(<<"remove", d>>)' <=> Has(<<"remove", d>>)
        /\ Has(<<"connectDestroyed", d>>) => Has(<<"connectDestroyed", d>>)'
        /\ d = c <=> <<"connectDestroyed", d>> = x
        /\ d = c => Has(<<"connectDestroyed", d>>)'
        /\ d # c => (Has(<<"connectDestroyed", d>>)' =>
                       Has(<<"connectDestroyed", d>>))
        /\ Has(<<"handleWrite", d>>)' => Has(<<"handleWrite", d>>)
    <3>1. <<"closeCallback", d>> # x /\ <<"remove", d>> # x
          /\ <<"handleWrite", d>> # x
      OBVIOUS
    <3>2. d = c <=> <<"connectDestroyed", d>> = x OBVIOUS
    <3> HIDE DEF x
    <3> QED BY <1>13, <3>1, <3>2
  <2>2. WriteDue(d)' => WriteDue(d) BY <1>1, <2>1 DEF WriteDue
  <2> HIDE DEF x
  <2>3. CASE d = c
    <3>1. Kept(d) => Kept(d)' BY <1>1, <2>1, <2>3 DEF Kept
    <3>2. TakenOut(d) => TakenOut(d)' BY <1>1 DEF TakenOut
    <3> QED BY <1>1, <1>7, <2>0, <2>1, <2>2, <2>3, <3>1, <3>2
            DEF Watched, Promised
  <2>4. CASE d # c
    <3>1. \A op \in {"closeCallback", "connectDestroyed", "remove"} :
            Has(<<op, d>>)' <=> Has(<<op, d>>)
      BY <2>1, <2>4
    <3> QED BY <1>1, <2>0, <2>2, <2>4, <3>1, SameWatch
  <2> QED BY <2>3, <2>4
<1>17. ASSUME NEW ch \in {acceptChannel_, wakeupChannel_}, OrderInv(ch)
       PROVE  OrderInv(ch)'
  <2>1. /\ \A op \in {"disableAll", "remove", "free"} :
             Has(<<op, ch>>)' <=> Has(<<op, ch>>)
        /\ Single(<<"free", ch>>)'
        /\ Before(todo', <<"disableAll", ch>>, <<"remove", ch>>)
        /\ Before(todo', <<"remove", ch>>, <<"free", ch>>)
    <3>1. \A op : <<op, ch>> # x /\ <<op, ch>> # << >> BY <1>2, ThreeKinds
    <3> HIDE DEF x
    <3>2. /\ Single(<<"free", ch>>)
          /\ Before(todo, <<"disableAll", ch>>, <<"remove", ch>>)
          /\ Before(todo, <<"remove", ch>>, <<"free", ch>>)
      BY <1>17 DEF OrderInv
    <3>3. \A op \in {"disableAll", "remove", "free"} :
            Has(<<op, ch>>)' <=> Has(<<op, ch>>)
      BY <1>4, <3>1 DEF Turns
    <3>4. Single(<<"free", ch>>)' BY <1>4, <3>1, <3>2 DEF Turns
    <3>5. <<"remove", ch>> \notin {x} /\ <<"free", ch>> \notin {x} BY <3>1
    <3>6. /\ Before(todo', <<"disableAll", ch>>, <<"remove", ch>>)
          /\ Before(todo', <<"remove", ch>>, <<"free", ch>>)
      BY <1>4, <3>2, <3>5 DEF Turns
    <3> QED BY <3>3, <3>4, <3>6
  <2> QED BY <1>1, <1>17, <2>1 DEF OrderInv, Exists
<1>18. WakeupInv'
  BY <1>1, <1>2, <1>4, ThreeKinds DEF Inv, WakeupInv, Turns, Exists
<1>19. AcceptorInv'
  <2>1. /\ Has(<<"dtor", acceptChannel_>>)'
        /\ Single(<<"dtor", acceptChannel_>>)'
        /\ Has(<<"free", acceptChannel_>>)' => Has(<<"free", acceptChannel_>>)
    BY <1>2, <1>4, <1>5, ThreeKinds DEF Inv, AcceptorInv, Turns
  <2> QED BY <1>1, <1>5, <1>7, <2>1 DEF Inv, AcceptorInv, Exists
<1>20. LateInv'
  <2>1. \A d \in Conns : Has(<<"closeCallback", d>>)' =>
          Has(<<"closeCallback", d>>)
    BY <1>13
  <2> QED BY <1>1, <2>1 DEF Inv, LateInv
<1>21. ActiveInv'
  <2>1. ~cut => activeChannels_ \cap Conns = {}
    BY <1>7, ThreeKinds DEF Inv, LateInv
  <2>2. ActiveInv BY DEF Inv
  <2>3. UNCHANGED <<revents_, activeChannels_, pendingFunctors_, cut, fd_>>
    BY <1>1
  <2> QED BY <2>1, <2>2, <2>3 DEF ActiveInv, Exists
<1> QED BY <1>9, <1>10, <1>11, <1>12, <1>14, <1>15, <1>16, <1>17, <1>18,
           <1>19, <1>20, <1>21 DEF Inv, PollInv

(* The last entries of a channel are put before the others.                *)
LEMMA LastThree ==
  ASSUME NEW ch \in {acceptChannel_, wakeupChannel_}, NEW rest \in Seq(Chore),
         todo' = << <<"disableAll", ch>>, <<"remove", ch>>, <<"free", ch>> >>
                   \o rest,
         ~Some(rest, { <<"disableAll", ch>> }), ~Some(rest, { <<"remove", ch>> }),
         ~Some(rest, { <<"free", ch>> }), Exists(ch)'
  PROVE  /\ OrderInv(ch)'
         /\ Has(<<"remove", ch>>)' /\ Has(<<"free", ch>>)'
<1> DEFINE a == <<"disableAll", ch>>
           b == <<"remove", ch>>
           c == <<"free", ch>>
<1>1. a \in Chore /\ b \in Chore /\ c \in Chore /\ a # b /\ a # c /\ b # c
  BY Chores
<1>2. ~Some(rest, {a}) /\ ~Some(rest, {b}) /\ ~Some(rest, {c})
      /\ todo' = <<a, b, c>> \o rest
  OBVIOUS
<1> HIDE DEF a, b, c
<1>3. Lists(<<a, b, c>>, {a, b, c}) BY <1>1, ThreeList
<1>4. Before(todo', a, b) /\ Before(todo', b, c) BY <1>1, <1>2, InOrder
<1>5. /\ Has(b)' /\ Has(c)'
      /\ AtMostOne(rest, {c}) => Single(c)'
  BY <1>2, <1>3, PutBefore
<1>6. AtMostOne(rest, {c}) BY <1>2 DEF Some, AtMostOne
<1> QED BY <1>4, <1>5, <1>6 DEF OrderInv, a, b, c

(* ~TcpServer goes on to ~Acceptor.                                        *)
LEMMA StepDestroyAcceptor ==
  ASSUME Inv, Doing("dtor", acceptChannel_), connections_ = {},
         Then(<< <<"disableAll", acceptChannel_>>,
                 <<"remove", acceptChannel_>>, <<"free", acceptChannel_>> >>),
         UNCHANGED <<pollerVars, waitVars, fd_, loopVars, serverVars,
                     clientVars>>
  PROVE  Inv'
<1> DEFINE h == <<"dtor", acceptChannel_>>
           a == <<"disableAll", acceptChannel_>>
           b == <<"remove", acceptChannel_>>
           f == <<"free", acceptChannel_>>
<1>1. /\ UNCHANGED <<events_, index_, revents_, activeChannels_>>
      /\ UNCHANGED <<phase, handling, pendingFunctors_, peerClosed, ready>>
      /\ UNCHANGED <<fd_, connections_, state_, server, cut>>
      /\ UNCHANGED <<pollerVars, waitVars, fd_>> /\ unsent' = unsent
  BY Zenon DEF pollerVars, waitVars, loopVars, serverVars, clientVars
<1>2. todo \in Seq(Chore) BY DEF Inv
<1>3. /\ a \in Chore /\ b \in Chore /\ f \in Chore
      /\ a # b /\ a # f /\ b # f
      /\ a # h /\ b # h /\ f # h
  BY Chores
<1> HIDE DEF h, a, b, f
<1>4. Lists(<<a, b, f>>, {a, b, f}) BY <1>3, ThreeList
<1>5. Has(h) /\ Turns(h, {a, b, f}) /\ h \in Chore
  <2>1. Then(<<a, b, f>>) BY DEF a, b, f
  <2> QED BY <1>2, <1>4, <2>1, Done DEF h
<1>6. /\ server = "gone" /\ Exists(acceptChannel_) /\ Single(h)
      /\ ~Has(f) /\ ~Has(b) /\ ~Has(a)
  BY <1>5 DEF Inv, AcceptorInv, OrderInv, ReactorTypeOK, h, a, b, f
<1>7. /\ OrderInv(acceptChannel_)' /\ Has(b)' /\ Has(f)'
  <2>1. /\ todo # << >> /\ todo' = << <<"disableAll", acceptChannel_>>,
           <<"remove", acceptChannel_>>, <<"free", acceptChannel_>> >> \o Tail(todo)
    BY DEF Doing, Then
  <2>2. Tail(todo) \in Seq(Chore) BY <1>2, <2>1, HeadTailProperties, Zenon
  <2>3. \A x : Some(Tail(todo), {x}) => Has(x)
    BY <1>2, <2>1, TailQueue DEF Has
  <2>4. Exists(acceptChannel_)' BY <1>1, <1>6 DEF Exists
  <2>5. /\ ~Some(Tail(todo), { <<"disableAll", acceptChannel_>> })
        /\ ~Some(Tail(todo), { <<"remove", acceptChannel_>> })
        /\ ~Some(Tail(todo), { <<"free", acceptChannel_>> })
    BY <1>6, <2>3 DEF a, b, f
  <2> QED BY <2>1, <2>2, <2>4, <2>5, LastThree DEF b, f
<1>8. ready' \in [Fds -> SUBSET Events]
  BY <1>1 DEF Inv, ReactorTypeOK, PollerTypeOK
<1>9. PollInv'
  BY <1>1, <1>8, PollerUntouched, Zenon DEF Inv, ReactorTypeOK, PollInv
<1>10. ReactorTypeOK' /\ todo' \in Seq(Chore)
  <2>2. todo' \in Seq(Chore) BY <1>5 DEF Turns
  <2> QED BY <1>1, <1>9, <2>2 DEF Inv, ReactorTypeOK, PollInv, Exists
<1>11. PhaseInv'
  <2>1. todo # << >> BY DEF Doing
  <2> QED BY <1>1, <2>1, BusyPhase DEF Inv
<1>12. \A d \in Conns : \A op : Has(<<op, d>>)' <=> Has(<<op, d>>)
  <2>1. \A d \in Conns : \A op : /\ <<op, d>> # h /\ <<op, d>> # a
                                 /\ <<op, d>> # b /\ <<op, d>> # f
    BY ThreeKinds DEF h, a, b, f
  <2> QED BY <1>5, <2>1 DEF Turns
<1>13. SetUpInv'
  <2>1. /\ ~Has(<<"accept", acceptChannel_>>)
        /\ \A d \in Conns : ~Has(<<"connectEstablished", d>>)
    BY <1>5, Chores DEF Inv, SetUpInv, Alone, h
  <2>2. ~Has(<<"accept", acceptChannel_>>)' BY <1>5, <2>1 DEF Turns, a, b, f
  <2> QED BY <1>1, <1>12, <2>1, <2>2 DEF Inv, SetUpInv
<1>14. HandlingInv' BY <1>1, <1>12 DEF Inv, HandlingInv
<1>15. HeldInv' BY <1>1, <1>12 DEF Inv, HeldInv, Exists
<1>16. WatchInv'
  <2> SUFFICES ASSUME NEW d \in Conns PROVE Watched(d)'
    BY DEF WatchInv
  <2>1. Watched(d) BY DEF Inv, WatchInv
  <2>2. WriteDue(d)' => WriteDue(d) BY <1>1, <1>12 DEF WriteDue
  <2> QED BY <1>1, <1>12, <2>1, <2>2, SameWatch
<1>17. \A op : /\ <<op, wakeupChannel_>> # h
               /\ <<op, wakeupChannel_>> \notin {a, b, f}
  BY ThreeKinds DEF h, a, b, f
<1>18. \A op : Has(<<op, wakeupChannel_>>)' <=> Has(<<op, wakeupChannel_>>)
  BY <1>5, <1>17 DEF Turns
<1>19. OrderInv(wakeupChannel_)'
  <2>1. OrderInv(wakeupChannel_) BY DEF Inv
  <2>2. Single(<<"free", wakeupChannel_>>)'
    BY <1>5, <1>17, <2>1 DEF Turns, OrderInv
  <2>3. /\ Before(todo', <<"disableAll", wakeupChannel_>>,
                         <<"remove", wakeupChannel_>>)
        /\ Before(todo', <<"remove", wakeupChannel_>>, <<"free", wakeupChannel_>>)
    <3>1. /\ Before(todo, <<"disableAll", wakeupChannel_>>,
                          <<"remove", wakeupChannel_>>)
          /\ Before(todo, <<"remove", wakeupChannel_>>, <<"free", wakeupChannel_>>)
      BY <2>1 DEF OrderInv
    <3> QED BY <1>5, <1>17, <3>1 DEF Turns
  <2> QED BY <1>1, <1>18, <2>1, <2>2, <2>3 DEF OrderInv, Exists
<1>20. WakeupInv' BY <1>1, <1>18 DEF Inv, WakeupInv, Exists
<1>21. AcceptorInv'
  <2>1. ~Has(h)' BY <1>3, <1>5, <1>6 DEF Turns
  <2>2. Single(h)' BY <2>1 DEF Has, Single, Some, AtMostOne
  <2> QED BY <1>1, <1>6, <1>7, <2>1, <2>2 DEF AcceptorInv, h, b, f
<1>22. LateInv' BY <1>1, <1>12 DEF Inv, LateInv
<1>23. ActiveInv' BY <1>1 DEF Inv, ActiveInv, Exists
<1> QED BY <1>7, <1>9, <1>10, <1>11, <1>13, <1>14, <1>15, <1>16, <1>19, <1>20,
           <1>21, <1>22, <1>23 DEF Inv, PollInv

(* ~EventLoop.                                                             *)
LEMMA StepDestroyLoop ==
  ASSUME Inv, DestroyLoop
  PROVE  Inv'
<1> DEFINE more == << <<"disableAll", wakeupChannel_>>,
                      <<"remove", wakeupChannel_>>, <<"free", wakeupChannel_>> >>
<1>1. /\ phase = "returned" /\ todo = << >> /\ server = "gone"
      /\ phase' = "destroyed" /\ todo' = more
      /\ UNCHANGED <<events_, index_, revents_, activeChannels_>>
      /\ UNCHANGED <<handling, pendingFunctors_, peerClosed, ready>>
      /\ UNCHANGED <<fd_, connections_, state_, server, cut>>
      /\ UNCHANGED <<pollerVars, waitVars, fd_>> /\ unsent' = unsent
  BY Zenon DEF DestroyLoop, Rest, pollerVars, waitVars, serverVars, clientVars
<1>2. Exists(wakeupChannel_) /\ Exists(wakeupChannel_)'
  BY <1>1 DEF Inv, WakeupInv, Exists
<1>3. more \in Seq(Chore) /\ more = more \o << >> /\ << >> \in Seq(Chore)
  <2>1. \A op \in {"disableAll", "remove", "free"} :
          <<op, wakeupChannel_>> \in Chore
    BY Chores
  <2>2. more \in Seq(Chore) BY <2>1
  <2> QED BY <2>2, ConcatEmptySeq
<1>4. /\ OrderInv(wakeupChannel_)'
      /\ Has(<<"remove", wakeupChannel_>>)' /\ Has(<<"free", wakeupChannel_>>)'
  <2>1. \A X : ~Some(<< >>, X) BY EmptyQueue
  <2> QED BY <1>1, <1>2, <1>3, <2>1, LastThree
<1>5. /\ \A x : ~Has(x)
      /\ \A x : Has(x)' => \E op \in {"disableAll", "remove", "free"} :
                             x = <<op, wakeupChannel_>>
  BY <1>1 DEF Has, Some
<1>6. ready' \in [Fds -> SUBSET Events]
  BY <1>1 DEF Inv, ReactorTypeOK, PollerTypeOK
<1>7. PollInv'
  BY <1>1, <1>6, PollerUntouched, Zenon DEF Inv, ReactorTypeOK, PollInv
<1>8. ReactorTypeOK' /\ todo' \in Seq(Chore)
  BY <1>1, <1>3, <1>7 DEF Inv, ReactorTypeOK, PollInv, Exists
<1>9. PhaseInv' BY <1>1 DEF Inv, PhaseInv
<1>10. /\ \A d \in Conns : \A op : ~Has(<<op, d>>)'
       /\ \A op : ~Has(<<op, acceptChannel_>>)'
  BY <1>5, ThreeKinds
<1>11. SetUpInv' BY <1>1, <1>5, <1>10 DEF Inv, SetUpInv
<1>12. HandlingInv' BY <1>10 DEF HandlingInv
<1>13. HeldInv' BY <1>1, <1>10 DEF Inv, HeldInv, Exists
<1>14. WatchInv'
  <2> SUFFICES ASSUME NEW d \in Conns PROVE Watched(d)'
    BY DEF WatchInv
  <2>1. Watched(d) BY DEF Inv, WatchInv
  <2>2. WriteDue(d)' => WriteDue(d) BY <1>1, <1>10 DEF WriteDue
  <2> QED BY <1>1, <1>5, <1>10, <2>1, <2>2, SameWatch
<1>15. OrderInv(acceptChannel_)'
  <2>1. \A op \in {"disableAll", "remove", "free"} :
          ~Some(todo', {<<op, acceptChannel_>>})
    BY <1>10 DEF Has
  <2> QED BY <1>10, <2>1 DEF OrderInv, Single, Some, AtMostOne, Before
<1>16. WakeupInv'
  <2>1. ~Has(<<"enableReading", wakeupChannel_>>)' BY <1>5
  <2> QED BY <1>1, <1>4, <2>1 DEF WakeupInv
<1>17. AcceptorInv'
  <2>1. Single(<<"dtor", acceptChannel_>>)'
    BY <1>10 DEF Has, Single, Some, AtMostOne
  <2> QED BY <1>1, <1>5, <1>10, <2>1 DEF Inv, AcceptorInv, Exists
<1>18. LateInv' BY <1>1, <1>10 DEF Inv, LateInv
<1>19. ActiveInv' BY <1>1 DEF Inv, ActiveInv, Exists
<1> QED BY <1>4, <1>7, <1>8, <1>9, <1>11, <1>12, <1>13, <1>14, <1>15, <1>16,
           <1>17, <1>18, <1>19 DEF Inv, PollInv

-----------------------------------------------------------------------------
(* Steps of the loop *)

(* A step that changes neither the poller, the connections nor what is to  *)
(* be done.                                                                *)
LEMMA LoopOnly ==
  ASSUME Inv, PollInv', UNCHANGED <<Rest, todo, pendingFunctors_>>,
         phase' \in {"created", "poll", "handle", "functors", "returned"},
         phase # "destroyed",
         todo # << >> => phase' = phase,
         handling' \in Channels \cup {Nobody},
         todo # << >> => handling' = handling,
         handling' \in {handling, Nobody},
         \A c \in Conns : index_[c] = "kNew" /\ WriteDue(c)' => WriteDue(c),
         PhaseInv', ActiveInv', LateInv'
  PROVE  Inv'
<1>1. /\ UNCHANGED <<events_, index_, todo, pendingFunctors_, peerClosed>>
      /\ UNCHANGED <<fd_, connections_, state_, server, cut, unsent>>
  BY Zenon DEF Rest, pollerVars, serverVars, clientVars
<1>2. ReactorTypeOK' /\ todo' \in Seq(Chore)
  BY <1>1 DEF Inv, ReactorTypeOK, PollInv, Exists
<1>3. SetUpInv' /\ OrderInv(acceptChannel_)' /\ OrderInv(wakeupChannel_)'
  BY <1>1 DEF Inv, SetUpInv, OrderInv, Alone, Has, Single, Exists
<1>4. todo = << >> => \A x : ~Has(x) BY DEF Has, Some
<1>5. HandlingInv' BY <1>1, <1>4 DEF Inv, HandlingInv, Has
<1>6. HeldInv' BY <1>1, ThreeKinds DEF Inv, HeldInv, Has, Exists
<1>7. WatchInv'
  <2> SUFFICES ASSUME NEW d \in Conns PROVE Watched(d)'
    BY DEF WatchInv
  <2>1. Watched(d) BY DEF Inv, WatchInv
  <2>2. \A x : Has(x)' <=> Has(x) BY <1>1 DEF Has
  <2> QED BY <1>1, <2>1, <2>2, SameWatch
<1>8. WakeupInv' BY <1>1, <1>4 DEF Inv, WakeupInv, Has, Exists
<1>9. AcceptorInv' BY <1>1 DEF Inv, AcceptorInv, Has, Single, Exists
<1> QED BY <1>2, <1>3, <1>5, <1>6, <1>7, <1>8, <1>9 DEF Inv, PollInv

(* The loop goes from one part of its round to the next.                   *)
LEMMA StepLoop ==
  ASSUME Inv, EnterLoop \/ EventDone \/ BeginPending \/ EndPending
  PROVE  Inv'
<1>1. UNCHANGED <<Rest, waitVars, todo, pendingFunctors_>>
  <2>1. CASE EnterLoop BY <2>1, Zenon DEF EnterLoop
  <2>2. CASE EventDone BY <2>2, Zenon DEF EventDone
  <2>3. CASE BeginPending BY <2>3, Zenon DEF BeginPending
  <2>4. CASE EndPending BY <2>4, Zenon DEF EndPending
  <2> QED BY <2>1, <2>2, <2>3, <2>4
<1>2. /\ UNCHANGED <<pollerVars, waitVars, fd_>>
      /\ UNCHANGED <<revents_, activeChannels_, todo, pendingFunctors_, ready>>
      /\ UNCHANGED <<fd_, connections_, state_, server, cut>>
      /\ UNCHANGED <<Rest, todo, pendingFunctors_>> /\ unsent' = unsent
  BY <1>1, Zenon DEF Rest, waitVars, pollerVars, serverVars, clientVars
<1>3. \/ phase = "created" /\ todo = << >> /\ phase' = "poll" /\ handling' = handling
      \/ /\ phase = "handle" /\ handling # Nobody /\ todo = << >>
         /\ phase' = "handle" /\ handling' = Nobody
      \/ /\ phase = "handle" /\ activeChannels_ = {} /\ handling = Nobody
         /\ phase' = "functors" /\ handling' = handling
      \/ /\ phase = "functors" /\ todo = << >>
         /\ phase' \in {"poll", "returned"} /\ handling' = handling
  <2>1. CASE EnterLoop BY <2>1 DEF EnterLoop
  <2>2. CASE EventDone BY <2>2 DEF EventDone
  <2>3. CASE BeginPending BY <2>3 DEF BeginPending
  <2>4. CASE EndPending BY <2>4 DEF EndPending
  <2> QED BY <2>1, <2>2, <2>3, <2>4
<1>4. ready' \in [Fds -> SUBSET Events]
  BY <1>2 DEF Inv, ReactorTypeOK, PollerTypeOK
<1>5. PollInv'
  BY <1>2, <1>4, PollerUntouched, Zenon DEF Inv, ReactorTypeOK, PollInv
<1>6. PhaseInv' BY <1>2, <1>3 DEF Inv, PhaseInv
<1>7. ActiveInv' BY <1>2 DEF Inv, ActiveInv, Exists
<1>8. LateInv' BY <1>2, <1>3, ThreeKinds DEF Inv, LateInv, Has
<1>9. todo # << >> => phase' = phase /\ handling' = handling
  BY <1>3 DEF Inv, PhaseInv
<1>10. /\ phase' \in {"created", "poll", "handle", "functors", "returned"}
       /\ phase # "destroyed" /\ handling' \in {handling, Nobody}
       /\ handling' \in Channels \cup {Nobody}
  BY <1>3 DEF Inv, ReactorTypeOK
<1>11. \A c \in Conns : WriteDue(c)' => WriteDue(c) BY <1>2 DEF WriteDue, Has
<1> QED BY <1>2, <1>5, <1>6, <1>7, <1>8, <1>9, <1>10, <1>11, LoopOnly

(* The poll returns.                                                       *)
LEMMA StepPoll ==
  ASSUME Inv, Poll
  PROVE  Inv'
<1>1. /\ phase = "poll" /\ phase' = "handle" /\ poll
      /\ UNCHANGED <<Rest, todo, pendingFunctors_>>
      /\ UNCHANGED <<events_, index_, channels_, epollPtr, epollEvents>>
      /\ UNCHANGED <<ctlFailed, ready, todo, handling, pendingFunctors_>>
      /\ UNCHANGED <<fd_, connections_, state_, server, cut, unsent>>
  BY Zenon DEF Poll, Rest, pollerVars, epollVars, serverVars, clientVars
<1>2. todo = << >> /\ handling = Nobody BY <1>1 DEF Inv, PhaseInv
<1>3. /\ \A ch \in activeChannels_' :
           ch \in Channels /\ index_[ch] = "kAdded" /\ events_[ch] # {}
      /\ \A ch \in Channels : revents_'[ch] # {} => ch \in activeChannels_'
      /\ revents_' \in [Channels -> SUBSET Events]
      /\ eventListSize' \in Nat
      /\ EventListBounded'
  <2>1. PICK left : left = unsent OBVIOUS
  <2>2. AgreesBut(left) BY <2>1 DEF Inv, PollerAgrees
  <2> QED BY <1>1, <2>2, PollEffect DEF Inv, ReactorTypeOK
<1>4. PollInv'
  <2>1. PollerTypeOK /\ PollerAgrees /\ FdInv BY DEF Inv, ReactorTypeOK
  <2>2. PollerTypeOK' BY <1>1, <1>3, <2>1 DEF PollerTypeOK
  <2>3. ctlFailed' = FALSE
    BY <1>1, <2>1 DEF PollerAgrees, AgreesBut, PollerTypeOK
  <2>4. PollerAgrees'
    BY <1>1, <2>1, <2>3 DEF PollerAgrees, AgreesBut, hasChannel
  <2>5. FdInv' BY <1>1, <2>1 DEF FdInv, Exists
  <2> QED BY <1>3, <2>2, <2>4, <2>5 DEF PollInv
<1>5. \A x : ~Has(x) BY <1>2 DEF Has, Some
<1>6. PhaseInv' BY <1>1, <1>2 DEF PhaseInv
<1>7. \A c \in Conns : c \in activeChannels_' => c \in connections_ \/ cut
  <2> SUFFICES ASSUME NEW c \in Conns, c \in activeChannels_', ~cut
               PROVE  c \in connections_
    OBVIOUS
  <2>1. events_[c] # {} /\ index_[c] = "kAdded" BY <1>3
  <2>2. Watched(c) /\ unsent = {} BY DEF Inv, WatchInv, LateInv
  <2>3. Kept(c) BY <2>1, <2>2 DEF Watched, TakenOut
  <2> QED BY <1>5, <2>3 DEF Kept
<1>8. ActiveInv'
  <2>1. \A ch \in activeChannels_' : Exists(ch) BY <1>3 DEF Inv, FdInv
  <2> QED BY <1>1, <1>3, <1>7, <2>1 DEF ActiveInv, Exists
<1>9. LateInv'
  <2>1. unsent' # {} => server' = "gone" /\ cut' BY <1>1 DEF Inv, LateInv
  <2> SUFFICES ASSUME server = "gone", ~cut
               PROVE  activeChannels_' \subseteq {wakeupChannel_}
    BY <1>1, <1>2, <1>5, <2>1, ThreeKinds DEF LateInv, Has
  <2>2. connections_ = {} /\ index_[acceptChannel_] = "kNew"
    BY <1>5 DEF Inv, AcceptorInv
  <2> QED BY <1>3, <1>7, <2>2, ThreeKinds
<1>10. ASSUME NEW c \in Conns, index_[c] = "kNew", WriteDue(c)' PROVE FALSE
  <2>1. ~Has(<<"handleWrite", c>>)' BY <1>1, <1>5 DEF Has
  <2>2. revents_'[c] # {} BY <1>10, <2>1 DEF WriteDue
  <2> QED BY <1>3, <1>10, <2>2, ThreeKinds
<1> QED BY <1>1, <1>2, <1>4, <1>6, <1>8, <1>9, <1>10, LoopOnly

(* handleEvent begins.                                                     *)
LEMMA StepHandleEvent ==
  ASSUME Inv, NEW ch \in Channels, HandleEvent(ch)
  PROVE  Inv'
<1>1. /\ phase = "handle" /\ handling = Nobody /\ ch \in activeChannels_
      /\ Exists(ch) /\ activeChannels_' = activeChannels_ \ {ch}
      /\ handling' = ch /\ todo' = Callbacks(ch)
      /\ revents_' = [revents_ EXCEPT ![ch] = {}]
      /\ eventListSize' = eventListSize
      /\ UNCHANGED <<events_, index_, channels_, epollPtr, epollEvents>>
      /\ UNCHANGED <<ctlFailed, ready, phase, pendingFunctors_, peerClosed>>
      /\ UNCHANGED <<fd_, connections_, state_, server, cut, unsent>>
  BY Zenon DEF HandleEvent, Rest, pollerVars, epollVars, serverVars, clientVars
<1>2. todo = << >> BY <1>1 DEF Inv, PhaseInv
<1>3. \A x : ~Has(x) BY <1>2 DEF Has, Some
<1>4. PollInv'
  <2>1. PollerTypeOK /\ PollerAgrees /\ FdInv /\ EventListBounded
    BY DEF Inv, ReactorTypeOK
  <2>2. PollerTypeOK' BY <1>1, <2>1 DEF PollerTypeOK
  <2>3. ctlFailed' = FALSE
    BY <1>1, <2>1 DEF PollerAgrees, AgreesBut, PollerTypeOK
  <2>4. PollerAgrees'
    BY <1>1, <2>1, <2>3 DEF PollerAgrees, AgreesBut, hasChannel
  <2>5. FdInv' BY <1>1, <2>1 DEF FdInv, Exists
  <2>6. EventListBounded' BY <1>1, <2>1, Zenon DEF EventListBounded
  <2> QED BY <2>2, <2>4, <2>5, <2>6 DEF PollInv
<1>5. /\ todo' \in Seq(Chore)
      /\ \A x : Has(x)' =>
           \/ x = <<"wakeup", wakeupChannel_>>
           \/ /\ x = <<"accept", acceptChannel_>> /\ ch = acceptChannel_
              /\ todo' = <<x>>
           \/ /\ x \in { <<"handleRead", ch>>, <<"handleWrite", ch>> }
              /\ ch \in Conns
              /\ x = <<"handleWrite", ch>> => "write" \in revents_[ch]
  <2>1. CASE ch = wakeupChannel_
    <3>1. todo' = << <<"wakeup", wakeupChannel_>> >>
      BY <1>1, <2>1, ThreeKinds DEF Callbacks
    <3>2. <<"wakeup", wakeupChannel_>> \in Chore BY Chores
    <3> QED BY <3>1, <3>2 DEF Has, Some
  <2>2. CASE ch = acceptChannel_
    <3>1. todo' = << <<"accept", acceptChannel_>> >>
      BY <1>1, <2>2, ThreeKinds DEF Callbacks
    <3>2. <<"accept", acceptChannel_>> \in Chore BY Chores
    <3> QED BY <2>2, <3>1, <3>2 DEF Has, Some
  <2>3. CASE ch \in Conns
    <3> DEFINE a == <<"handleRead", ch>>
               b == <<"handleWrite", ch>>
               q == IF "read" \in revents_[ch] THEN <<a>> ELSE << >>
               r == IF "write" \in revents_[ch] THEN <<b>> ELSE << >>
    <3>1. todo' = q \o r
      BY <1>1, <2>3, ThreeKinds DEF Callbacks
    <3>2. a \in Chore /\ b \in Chore BY <2>3, Chores
    <3> HIDE DEF a, b
    <3>3. q \in Seq(Chore) /\ r \in Seq(Chore) BY <3>2
    <3>4. \A x : /\ Some(q, {x}) => x = a
                 /\ Some(r, {x}) => x = b /\ "write" \in revents_[ch]
      <4> SUFFICES ASSUME NEW x
                   PROVE  /\ Some(q, {x}) => x = a
                          /\ Some(r, {x}) => x = b /\ "write" \in revents_[ch]
        OBVIOUS
      <4>1. /\ ~Some(<< >>, {x})
            /\ Some(<<a>>, {x}) <=> a \in {x}
            /\ Some(<<b>>, {x}) <=> b \in {x}
        BY EmptyQueue, OneEntry
      <4>2. /\ q \in {<<a>>, << >>} /\ r \in {<<b>>, << >>}
            /\ "write" \notin revents_[ch] => r = << >>
        BY DEF q, r
      <4> HIDE DEF q, r
      <4> QED BY <4>1, <4>2
    <3> HIDE DEF q, r
    <3>5. q \o r \in Seq(Chore) BY <3>3
    <3>6. \A x : Some(q \o r, {x}) => Some(q, {x}) \/ Some(r, {x})
      BY <3>3, ConcatQueue
    <3>7. \A x : Has(x)' => x = a \/ (x = b /\ "write" \in revents_[ch])
      BY <3>1, <3>4, <3>6 DEF Has
    <3>8. a # b BY DEF a, b
    <3> QED BY <2>3, <3>1, <3>5, <3>7, <3>8 DEF a, b
  <2> QED BY <2>1, <2>2, <2>3, ThreeKinds
<1>6. ReactorTypeOK'
  BY <1>1, <1>4 DEF Inv, ReactorTypeOK, PollInv, Exists
<1>7. PhaseInv' BY <1>1, ThreeKinds DEF PhaseInv
<1>8. /\ \A d \in Conns, op \in Holding : ~Has(<<op, d>>)'
      /\ \A c \in {acceptChannel_, wakeupChannel_} :
           \A op \in {"dtor", "disableAll", "remove", "free", "enableReading"} :
             ~Has(<<op, c>>)'
  <2>1. ASSUME NEW d \in Conns, NEW op \in Holding PROVE ~Has(<<op, d>>)'
    <3>1. /\ <<op, d>> # <<"wakeup", wakeupChannel_>>
          /\ <<op, d>> # <<"accept", acceptChannel_>>
          /\ <<op, d>> # <<"handleRead", ch>> /\ <<op, d>> # <<"handleWrite", ch>>
      BY ThreeKinds DEF Holding
    <3> QED BY <1>5, <3>1
  <2>2. ASSUME NEW c \in {acceptChannel_, wakeupChannel_},
               NEW op \in {"dtor", "disableAll", "remove", "free", "enableReading"}
        PROVE  ~Has(<<op, c>>)'
    <3>1. /\ <<op, c>> # <<"wakeup", wakeupChannel_>>
          /\ <<op, c>> # <<"accept", acceptChannel_>>
          /\ <<op, c>> # <<"handleRead", ch>> /\ <<op, c>> # <<"handleWrite", ch>>
      OBVIOUS
    <3> QED BY <1>5, <3>1
  <2> QED BY <2>1, <2>2
<1>9. /\ \A d \in Conns : ~Has(<<"connectEstablished", d>>)'
      /\ \A d \in Conns : ~Has(<<"closeCallback", d>>)'
      /\ \A d \in Conns : ~Has(<<"connectDestroyed", d>>)'
      /\ \A d \in Conns : ~Has(<<"remove", d>>)'
  BY <1>8 DEF Holding
<1>10. SetUpInv'
  <2>1. Has(<<"accept", acceptChannel_>>)' =>
          Alone(<<"accept", acceptChannel_>>)' /\ server = "up"
    <3> SUFFICES ASSUME Has(<<"accept", acceptChannel_>>)'
                 PROVE  Alone(<<"accept", acceptChannel_>>)' /\ server = "up"
      OBVIOUS
    <3>1. /\ ch = acceptChannel_ /\ todo' = << <<"accept", acceptChannel_>> >>
      BY <1>5, ThreeKinds
    <3>2. Alone(<<"accept", acceptChannel_>>)'
      BY <3>1 DEF Alone, Single, AtMostOne, Has, Some
    <3>4. server = "up"
      <4>1. ~Has(<<"free", acceptChannel_>>) /\ ~Has(<<"dtor", acceptChannel_>>)
        BY <1>3
      <4>2. server = "gone" => ~Exists(acceptChannel_)
        BY <1>3 DEF Inv, AcceptorInv
      <4> QED BY <1>1, <3>1, <4>2 DEF Inv, ReactorTypeOK
    <3> QED BY <3>2, <3>4
  <2> QED BY <1>1, <1>3, <1>9, <2>1 DEF Inv, SetUpInv
<1>11. HandlingInv'
  <2>1. \A d \in Conns, op \in {"handleRead", "handleWrite"} :
          Has(<<op, d>>)' => d = ch
    BY <1>5, ThreeKinds
  <2> QED BY <1>1, <2>1 DEF HandlingInv
<1>12. HeldInv' BY <1>1, <1>8 DEF Inv, HeldInv, Exists
<1>13. WatchInv'
  <2> SUFFICES ASSUME NEW d \in Conns PROVE Watched(d)'
    BY DEF WatchInv
  <2>1. Watched(d) BY DEF Inv, WatchInv
  <2>2. revents_'[d] = IF d = ch THEN {} ELSE revents_[d]
    BY <1>1, ThreeKinds DEF Inv, ReactorTypeOK, PollerTypeOK
  <2>3. Has(<<"handleWrite", d>>)' => "write" \in revents_[d]
    BY <1>5, ThreeKinds
  <2>4. WriteDue(d)' => WriteDue(d) BY <2>2, <2>3 DEF WriteDue
  <2>5. \A op \in {"closeCallback", "connectDestroyed", "remove"} :
          Has(<<op, d>>)' <=> Has(<<op, d>>)
    BY <1>3, <1>9
  <2> QED BY <1>1, <2>1, <2>4, <2>5, SameWatch
<1>14. ASSUME NEW c \in {acceptChannel_, wakeupChannel_}
       PROVE  OrderInv(c)'
  <2>1. ~Has(<<"free", c>>)' /\ ~Has(<<"remove", c>>)'
        /\ ~Has(<<"disableAll", c>>)'
    BY <1>8
  <2> QED BY <2>1 DEF OrderInv, Has, Some, Single, AtMostOne, Before
<1>15. WakeupInv' BY <1>1, <1>3, <1>8 DEF Inv, WakeupInv, Exists
<1>16. AcceptorInv'
  <2>1. ~Has(<<"dtor", acceptChannel_>>)' /\ ~Has(<<"free", acceptChannel_>>)'
    BY <1>8
  <2>2. Single(<<"dtor", acceptChannel_>>)'
    BY <2>1 DEF Has, Single, Some, AtMostOne
  <2> QED BY <1>1, <1>3, <2>1, <2>2 DEF Inv, AcceptorInv, Exists
<1>17. LateInv' BY <1>1, <1>9, ThreeKinds DEF Inv, LateInv
<1>18. ActiveInv'
  <2>1. \A other \in Channels : revents_'[other] # {} =>
          other # ch /\ revents_[other] # {}
    BY <1>1 DEF Inv, ReactorTypeOK, PollerTypeOK
  <2> QED BY <1>1, <2>1 DEF Inv, ActiveInv, Exists
<1> QED BY <1>4, <1>5, <1>6, <1>7, <1>10, <1>11, <1>12, <1>13, <1>14, <1>15,
           <1>16, <1>17, <1>18 DEF Inv, PollInv

(* handleEvent of a channel that was freed.                                *)
LEMMA StepHandleFreed ==
  ASSUME Inv, NEW ch \in Channels, HandleFreed(ch)
  PROVE  Inv'
<1>1. /\ phase = "handle" /\ handling = Nobody
      /\ activeChannels_' = activeChannels_ \ {ch}
      /\ revents_' = [revents_ EXCEPT ![ch] = {}]
      /\ eventListSize' = eventListSize
      /\ UNCHANGED <<events_, index_, channels_, epollPtr, epollEvents>>
      /\ UNCHANGED <<ctlFailed, ready, phase, handling, pendingFunctors_, todo>>
      /\ UNCHANGED <<fd_, connections_, state_, server, cut, unsent>>
      /\ UNCHANGED <<Rest, todo, pendingFunctors_>>
  BY Zenon DEF HandleFreed, Rest, pollerVars, epollVars, serverVars, clientVars,
               loopVars
<1>2. PollInv'
  <2>1. PollerTypeOK /\ PollerAgrees /\ FdInv /\ EventListBounded
    BY DEF Inv, ReactorTypeOK
  <2>2. PollerTypeOK' BY <1>1, <2>1 DEF PollerTypeOK
  <2>3. ctlFailed' = FALSE
    BY <1>1, <2>1 DEF PollerAgrees, AgreesBut, PollerTypeOK
  <2>4. PollerAgrees'
    BY <1>1, <2>1, <2>3 DEF PollerAgrees, AgreesBut, hasChannel
  <2>5. FdInv' BY <1>1, <2>1 DEF FdInv, Exists
  <2>6. EventListBounded' BY <1>1, <2>1, Zenon DEF EventListBounded
  <2> QED BY <2>2, <2>4, <2>5, <2>6 DEF PollInv
<1>3. PhaseInv' BY <1>1 DEF Inv, PhaseInv
<1>6. /\ \A other \in Channels : revents_'[other] # {} =>
           other # ch /\ revents_[other] # {}
      /\ \A other \in Channels : revents_'[other] \subseteq revents_[other]
  BY <1>1 DEF Inv, ReactorTypeOK, PollerTypeOK
<1>4. ActiveInv' BY <1>1, <1>6 DEF Inv, ActiveInv, Exists
<1>5. LateInv' BY <1>1 DEF Inv, LateInv, Has
<1>7. \A c \in Conns : WriteDue(c)' => WriteDue(c)
  BY <1>1, <1>6, ThreeKinds DEF WriteDue, Has
<1> QED BY <1>1, <1>2, <1>3, <1>4, <1>5, <1>7, LoopOnly

(* The clients act, or nobody does.                                        *)
LEMMA StepOutside ==
  ASSUME Inv, UNCHANGED <<pollerVars, waitVars, fd_, loopVars, todo, serverVars>>,
         ready' \in [Fds -> SUBSET Events], peerClosed' \subseteq Conns
  PROVE  Inv'
<1>1. /\ UNCHANGED <<events_, index_, revents_, activeChannels_, todo>>
      /\ UNCHANGED <<phase, handling, pendingFunctors_>>
      /\ UNCHANGED <<fd_, connections_, state_, server, cut>>
      /\ UNCHANGED <<pollerVars, waitVars, fd_>> /\ unsent' = unsent
  BY Zenon DEF pollerVars, waitVars, loopVars, serverVars
<1>2. PollInv'
  BY <1>1, PollerUntouched, Zenon DEF Inv, ReactorTypeOK, PollInv
<1>3. ReactorTypeOK' /\ todo' \in Seq(Chore)
  BY <1>1, <1>2 DEF Inv, ReactorTypeOK, PollInv, Exists
<1>4. PhaseInv' /\ SetUpInv' /\ HandlingInv' /\ LateInv'
  <2>1. PhaseInv' BY <1>1 DEF Inv, PhaseInv, Alone, Has
  <2>2. SetUpInv' BY <1>1 DEF Inv, SetUpInv, Alone, Has, Single
  <2>3. HandlingInv' BY <1>1 DEF Inv, HandlingInv, Alone, Has, Single
  <2>4. LateInv' BY <1>1 DEF Inv, LateInv, Has
  <2> QED BY <2>1, <2>2, <2>3, <2>4
<1>5. HeldInv' /\ ActiveInv'
  <2>1. HeldInv' BY <1>1 DEF Inv, HeldInv, Has, Exists
  <2>2. ActiveInv' BY <1>1 DEF Inv, ActiveInv, Exists
  <2> QED BY <2>1, <2>2
<1>6. WatchInv'
  <2> SUFFICES ASSUME NEW d \in Conns PROVE Watched(d)'
    BY DEF WatchInv
  <2>1. Watched(d) BY DEF Inv, WatchInv
  <2>2. \A x : Has(x)' <=> Has(x) BY <1>1 DEF Has
  <2>3. WriteDue(d)' => WriteDue(d) BY <1>1, <2>2 DEF WriteDue
  <2> QED BY <1>1, <2>1, <2>2, <2>3, SameWatch
<1>7. OrderInv(acceptChannel_)' /\ OrderInv(wakeupChannel_)'
  BY <1>1 DEF Inv, OrderInv, Has, Single, Exists
<1>8. WakeupInv' /\ AcceptorInv'
  BY <1>1 DEF Inv, WakeupInv, AcceptorInv, Has, Single, Exists
<1> QED BY <1>2, <1>3, <1>4, <1>5, <1>6, <1>7, <1>8 DEF Inv, PollInv

-----------------------------------------------------------------------------
(* The invariant holds *)

(* The server as it is made.                                               *)
LEMMA InitReactor ==
  ASSUME Init
  PROVE  Inv
<1> DEFINE x == <<"enableReading", wakeupChannel_>>
<1>0. /\ fd_ = [ch \in Channels |-> CASE ch = wakeupChannel_ -> WakeupFd
                                      [] ch = acceptChannel_ -> ListenFd
                                      [] OTHER -> NoFd]
      /\ events_ = [ch \in Channels |-> {}]
      /\ revents_ = [ch \in Channels |-> {}]
      /\ index_ = [ch \in Channels |-> "kNew"]
      /\ ready = [fd \in Fds |-> {}]
      /\ PollerInit
      /\ phase = "created"
      /\ todo = <<x>>
      /\ handling = Nobody
      /\ pendingFunctors_ = << >>
      /\ connections_ = {}
      /\ state_ = [c \in Conns |-> "none"]
      /\ server = "up"
      /\ peerClosed = {}
      /\ cut = FALSE /\ unsent = {}
  BY DEF Init
<1>1. /\ channels_ = [fd \in Fds |-> Nobody]
      /\ epollPtr = [fd \in Fds |-> Nobody]
      /\ epollEvents = [fd \in Fds |-> {}]
      /\ ctlFailed = FALSE
      /\ eventListSize = kInitEventListSize
      /\ activeChannels_ = {}
  BY <1>0 DEF PollerInit
<1>2. WakeupFd \in Fds /\ ListenFd \in Fds /\ NoFd \notin Fds
      /\ WakeupFd # ListenFd
  BY PollerAssumption, ReactorAssumption DEF WakeupFd, ListenFd, Fds, NoFd
<1>3. /\ fd_ \in [Channels -> Fds \cup {NoFd}]
      /\ fd_[wakeupChannel_] = WakeupFd /\ fd_[acceptChannel_] = ListenFd
      /\ \A c \in Conns : fd_[c] = NoFd
  BY <1>0, <1>2, ThreeKinds
<1>4. PollerTypeOK
  BY <1>0, <1>1, <1>3, PollerAssumption DEF PollerTypeOK
<1>5. x \in Chore BY Chores
<1>6. ReactorTypeOK /\ todo \in Seq(Chore)
  <2>1. todo \in Seq(Chore)
    <3> HIDE DEF x
    <3> QED BY <1>0, <1>5
  <2>2. pendingFunctors_ \in Seq(Conns) BY <1>0
  <2>3. \A c \in Conns : Exists(c) <=> state_[c] # "none"
    BY <1>0, <1>3 DEF Exists
  <2> QED BY <1>0, <1>4, <2>1, <2>2, <2>3 DEF ReactorTypeOK
<1>7. PollerAgrees BY <1>0, <1>1 DEF PollerAgrees, AgreesBut
<1>8. FdInv BY <1>0, <1>2, <1>3, ThreeKinds DEF FdInv, Exists
<1>9. EventListBounded
  <2>1. Cardinality(Channels) \in Nat
    BY PollerAssumption, FS_CardinalityType
  <2>2. kInitEventListSize \in Int /\ 2 * Cardinality(Channels) \in Int
    BY <2>1, PollerAssumption
  <2> QED BY <1>1, <2>2, OfTwo DEF EventListBounded
<1>10. \A y : (Has(y) <=> y = x) /\ Single(y)
  BY <1>0 DEF Has, Single, Some, AtMostOne
<1>11. \A d : ~Some(pendingFunctors_, {d}) BY <1>0, EmptyQueue
<1>12. /\ \A c \in Conns : \A op : ~Has(<<op, c>>)
       /\ \A op : ~Has(<<op, acceptChannel_>>)
       /\ \A op : op # "enableReading" => ~Has(<<op, wakeupChannel_>>)
  BY <1>10, ThreeKinds
<1>13. PhaseInv BY <1>0, <1>1 DEF PhaseInv
<1>14. SetUpInv BY <1>0, <1>12 DEF SetUpInv
<1>15. HandlingInv BY <1>12 DEF HandlingInv
<1>16. HeldInv BY <1>0, <1>11, <1>12, ThreeKinds DEF HeldInv
<1>17. WatchInv
  BY <1>0, <1>11, <1>12, ThreeKinds DEF WatchInv, Watched, WriteDue, Up
<1>18. ASSUME NEW ch \in {acceptChannel_, wakeupChannel_}
       PROVE  OrderInv(ch)
  <2>1. ~Has(<<"free", ch>>) /\ ~Has(<<"remove", ch>>)
        /\ ~Has(<<"disableAll", ch>>)
    BY <1>12
  <2> QED BY <2>1 DEF OrderInv, Has, Some, Single, AtMostOne, Before
<1>19. WakeupInv BY <1>0, <1>2, <1>3, <1>12 DEF WakeupInv, Exists
<1>20. AcceptorInv BY <1>0, <1>2, <1>3, <1>10, <1>12 DEF AcceptorInv, Exists
<1>21. LateInv BY <1>0 DEF LateInv
<1>22. ActiveInv BY <1>0, <1>1 DEF ActiveInv
<1> QED BY <1>6, <1>7, <1>8, <1>9, <1>13, <1>14, <1>15, <1>16, <1>17, <1>18,
           <1>19, <1>20, <1>21, <1>22 DEF Inv

(* Acceptor::handleRead.                                                   *)
LEMMA StepAccept ==
  ASSUME Inv, Accept
  PROVE  Inv'
<1>1. /\ Doing("accept", acceptChannel_)
      /\ UNCHANGED <<pollerVars, waitVars, loopVars, server, cut, unsent,
                     peerClosed>>
  BY Zenon DEF Accept
<1>2. CASE /\ ready' = IF Accepted THEN [ready EXCEPT ![ListenFd] = {}] ELSE ready
           /\ Then(<< >>)
           /\ UNCHANGED <<fd_, state_, connections_>>
  <2>1. UNCHANGED <<pollerVars, waitVars, fd_, loopVars, serverVars, peerClosed>>
    BY <1>1, <1>2 DEF serverVars
  <2> QED BY <1>1, <1>2, <2>1, StepNotAccepted
<1>3. CASE /\ Accepted
           /\ \E c \in Unused, fd \in Fds :
                /\ LowestFree(fd)
                /\ fd_' = [fd_ EXCEPT ![c] = fd]
                /\ state_' = [state_ EXCEPT ![c] = "kConnecting"]
                /\ connections_' = connections_ \cup {c}
                /\ ready' \in
                     {[ready EXCEPT ![fd] = {"write"}, ![ListenFd] = more] :
                        more \in {{}, {"read"}}}
                /\ Then(<< <<"connectEstablished", c>> >>)
  <2>1. PICK c \in Unused, fd \in Fds :
          /\ LowestFree(fd)
          /\ fd_' = [fd_ EXCEPT ![c] = fd]
          /\ state_' = [state_ EXCEPT ![c] = "kConnecting"]
          /\ connections_' = connections_ \cup {c}
          /\ ready' \in
               {[ready EXCEPT ![fd] = {"write"}, ![ListenFd] = more] :
                  more \in {{}, {"read"}}}
          /\ Then(<< <<"connectEstablished", c>> >>)
    BY <1>3, Zenon
  <2>2. PICK more \in {{}, {"read"}} :
          ready' = [ready EXCEPT ![fd] = {"write"}, ![ListenFd] = more]
    BY <2>1, Zenon
  <2> QED BY <1>1, <2>1, <2>2, StepAccepted
<1> QED BY <1>2, <1>3, Zenon DEF Accept

(* TcpConnection::handleRead.                                              *)
LEMMA StepHandleRead ==
  ASSUME Inv, NEW c \in Conns, HandleRead(c)
  PROVE  Inv'
<1>1. /\ Doing("handleRead", c)
      /\ UNCHANGED <<waitVars, fd_, loopVars, connections_, server, cut,
                     peerClosed>>
      /\ unsent' = unsent
  BY Zenon DEF HandleRead
<1>2. CASE /\ ready' = IF c \in peerClosed THEN ready
                         ELSE [ready EXCEPT ![fd_[c]] = @ \ {"read"}]
           /\ Then(<< <<"message", c>> >>)
           /\ UNCHANGED <<pollerVars, state_>>
  <2>1. UNCHANGED <<pollerVars, waitVars, fd_, loopVars, serverVars, peerClosed>>
    BY <1>1, <1>2 DEF serverVars
  <2> QED BY <1>1, <1>2, <2>1, StepMessage
<1>3. CASE /\ state_' = [state_ EXCEPT ![c] = "kDisconnected"]
           /\ disableAll(c)
           /\ Then(<< <<"connection", c>>, <<"closeCallback", c>> >>)
           /\ ready' = ready
  BY <1>1, <1>3, StepClosed
<1> QED BY <1>2, <1>3, Zenon DEF HandleRead

(* TcpConnection::handleWrite.                                             *)
LEMMA StepHandleWrite ==
  ASSUME Inv, NEW c \in Conns, HandleWrite(c)
  PROVE  Inv'
<1>1. /\ Doing("handleWrite", c) /\ Then(<< >>)
      /\ UNCHANGED <<waitVars, fd_, loopVars, connections_, server, cut,
                     peerClosed>>
      /\ UNCHANGED <<waitVars, fd_, loopVars, serverVars, peerClosed>>
      /\ state_' = state_ /\ unsent' = unsent
  BY Zenon DEF HandleWrite, serverVars
<1>2. CASE isWriting(c) /\ disableWriting(c) /\ ready' = ready
  BY <1>1, <1>2, StepWritten
<1>3. CASE /\ ready' \in {ready, [ready EXCEPT ![fd_[c]] = @ \ {"write"}]}
           /\ UNCHANGED pollerVars
  <2>1. UNCHANGED <<pollerVars, waitVars, fd_, loopVars, serverVars, peerClosed>>
    BY <1>1, <1>3
  <2> QED BY <1>1, <1>3, <2>1, StepBlocked
<1> QED BY <1>2, <1>3, Zenon DEF HandleWrite

(* TcpConnection::connectDestroyed.                                        *)
LEMMA StepDestroyed ==
  ASSUME Inv, NEW c \in Conns, connectDestroyed(c)
  PROVE  Inv'
<1>1. /\ Doing("connectDestroyed", c) /\ ready' = ready
      /\ UNCHANGED <<waitVars, fd_, loopVars, connections_, server, cut,
                     peerClosed>>
  BY Zenon DEF connectDestroyed, clientVars
<1>2. CASE /\ state_[c] = "kConnected"
           /\ state_' = [state_ EXCEPT ![c] = "kDisconnected"]
           /\ disableAll(c)
           /\ Then(<< <<"connection", c>>, <<"remove", c>> >>)
           /\ UNCHANGED unsent
  BY <1>1, <1>2, StepTakenDown
<1>3. CASE /\ state_[c] # "kConnected" /\ removeChannel(c) /\ Then(<< >>)
           /\ unsent' = IF isWriting(c) /\ WriteToCome(c) THEN unsent \cup {c}
                                                          ELSE unsent
           /\ UNCHANGED state_
  BY <1>1, <1>3, StepTakenOut
<1> QED BY <1>2, <1>3, Zenon DEF connectDestroyed

(* ~TcpServer.                                                             *)
LEMMA StepDestructor ==
  ASSUME Inv, Destructor
  PROVE  Inv'
<1>1. /\ Doing("dtor", acceptChannel_)
      /\ UNCHANGED <<pollerVars, waitVars, fd_, loopVars, state_, server, cut,
                     unsent, clientVars>>
  BY Zenon DEF Destructor
<1>2. CASE \E c \in connections_ : /\ connections_' = connections_ \ {c}
                                   /\ todo' = TearDown(c) \o todo
  <2>1. PICK c \in connections_ : /\ connections_' = connections_ \ {c}
                                  /\ todo' = TearDown(c) \o todo
    BY <1>2
  <2> QED BY <1>1, <2>1, StepDestroyOne DEF TearDown
<1>3. CASE /\ connections_ = {}
           /\ Then(<< <<"disableAll", acceptChannel_>>,
                      <<"remove", acceptChannel_>>,
                      <<"free", acceptChannel_>> >>)
           /\ UNCHANGED connections_
  <2>1. UNCHANGED <<pollerVars, waitVars, fd_, loopVars, serverVars, clientVars>>
    BY <1>1, <1>3 DEF serverVars
  <2> QED BY <1>1, <1>3, <2>1, StepDestroyAcceptor
<1> QED BY <1>2, <1>3, Zenon DEF Destructor

(* The clients and other threads.                                          *)
LEMMA StepClients ==
  ASSUME Inv, Outside
  PROVE  Inv'
<1>0. ready \in [Fds -> SUBSET Events] /\ peerClosed \subseteq Conns
  BY DEF Inv, ReactorTypeOK, PollerTypeOK
<1>1. ASSUME NEW fd, NEW ev \in SUBSET Events, Becomes(fd, ev)
      PROVE  ready' \in [Fds -> SUBSET Events]
  BY <1>0, <1>1 DEF Becomes
<1>2. {"read"} \in SUBSET Events /\ {"write"} \in SUBSET Events BY DEF Events
<1>3. CASE ClientConnects \/ Wakeup
  BY <1>0, <1>1, <1>2, <1>3, StepOutside DEF ClientConnects, Wakeup, ClientRest
<1>4. ASSUME NEW c \in Conns, ClientSends(c) \/ ClientReads(c) PROVE Inv'
  BY <1>0, <1>1, <1>2, <1>4, StepOutside DEF ClientSends, ClientReads, ClientRest
<1>5. ASSUME NEW c \in Conns, ClientCloses(c) PROVE Inv'
  BY <1>0, <1>1, <1>2, <1>5, StepOutside DEF ClientCloses, ClientRest
<1> QED BY <1>3, <1>4, <1>5 DEF Outside

(* Every step.                                                             *)
LEMMA NextReactor ==
  ASSUME Inv, [Next]_vars
  PROVE  Inv'
<1>1. CASE UNCHANGED vars
  <2>1. /\ UNCHANGED <<pollerVars, waitVars, fd_, loopVars, todo, serverVars>>
        /\ UNCHANGED <<ready, peerClosed>>
    BY <1>1 DEF vars, clientVars
  <2>2. ready' \in [Fds -> SUBSET Events] /\ peerClosed' \subseteq Conns
    BY <2>1 DEF Inv, ReactorTypeOK, PollerTypeOK
  <2> QED BY <2>1, <2>2, StepOutside
<1>2. CASE LoopStep
  <2>1. CASE EnterLoop \/ EventDone \/ BeginPending \/ EndPending
    BY <2>1, StepLoop
  <2>2. CASE Poll BY <2>2, StepPoll
  <2>3. CASE RunFunctor BY <2>3, StepRunFunctor
  <2>4. CASE WakeupRead BY <2>4, StepWakeupRead
  <2>5. CASE Accept BY <2>5, StepAccept
  <2>6. CASE UserReturns BY <2>6, StepUserReturns
  <2>7. CASE Destructor BY <2>7, StepDestructor
  <2>8. CASE \E ch \in Channels : \/ HandleEvent(ch) \/ HandleFreed(ch)
                                  \/ ChannelStep(ch) \/ FreeChannel(ch)
    BY <2>8, StepHandleEvent, StepHandleFreed, StepChannel, StepFreeChannel
  <2>9. CASE \E c \in Conns : \/ connectEstablished(c) \/ HandleRead(c)
                              \/ HandleWrite(c) \/ CloseCallback(c)
                              \/ connectDestroyed(c)
    BY <2>9, StepEstablished, StepHandleRead, StepHandleWrite,
       StepCloseCallback, StepDestroyed
  <2> QED BY <1>2, <2>1, <2>2, <2>3, <2>4, <2>5, <2>6, <2>7, <2>8, <2>9
          DEF LoopStep
<1>3. CASE UserCall
  BY <1>3, StepStart, StepDestroyServer, StepDestroyLoop, StepSend,
     StepShutdown DEF UserCall
<1>4. CASE \E c \in Conns : Free(c) BY <1>4, StepFree
<1>5. CASE Outside BY <1>5, StepClients
<1> QED BY <1>1, <1>2, <1>3, <1>4, <1>5 DEF Next

(* The inductive invariant of the single-threaded server.                  *)
THEOREM ReactorInvariant == Spec => []Inv
BY InitReactor, NextReactor, PTL DEF Spec

-----------------------------------------------------------------------------
(* What the checks state *)

(* Type correctness, and that a connection object has a descriptor exactly *)
(* as long as it exists: what Acceptor::handleRead, TcpServer and the      *)
(* destructors of Acceptor, EventLoop and TcpConnection maintain together. *)
THEOREM ReactorTypeCorrect == Spec => []ReactorTypeOK
<1>1. Inv => ReactorTypeOK BY DEF Inv
<1> QED BY <1>1, ReactorInvariant, PTL

(* The channel's index_, the poller's channels_ and the kernel's list      *)
(* agree, and epoll_ctl never fails, for any number of connections and     *)
(* however descriptors are used again (EPollPoller::updateChannel and      *)
(* removeChannel as the loop, the acceptor and the connections use them);  *)
(* but that channels_ may keep the address of a connection that is in      *)
(* unsent: shut down with output left, taken out by a ~TcpServer in a      *)
(* callback of the batch, and put back by its handleWrite in that batch    *)
(* (TcpConnection::connectDestroyed has left its events_ as they were).    *)
THEOREM RecordsAgree == Spec => []PollerAgrees
<1>1. Inv => PollerAgrees BY DEF Inv
<1> QED BY <1>1, ReactorInvariant, PTL

(* EPollPoller's vector of events never has more than twice as many        *)
(* entries as there are channels, unless it began with more.               *)
THEOREM EventListCorrect == Spec => []EventListBounded
<1>1. Inv => EventListBounded BY DEF Inv
<1> QED BY <1>1, ReactorInvariant, PTL

(* Channel::handleEvent runs on a channel that exists, to its last         *)
(* callback, and so does every other channel of the batch unless a         *)
(* callback destroys the server.                                           *)
THEOREM HandledAlive == Spec => []ChannelsAlive
<1>1. Inv => ChannelsAlive
  BY DEF Inv, ChannelsAlive, HeldInv, ActiveInv
<1> QED BY <1>1, ReactorInvariant, PTL

(* TcpConnection::handleClose never calls TcpServer::removeConnection once *)
(* ~TcpServer has begun, unless it began in a callback of a batch.         *)
THEOREM NotCalledLate == Spec => []ServerNotCalledLate
<1>1. Inv => ServerNotCalledLate
  <2> SUFFICES ASSUME Inv, server = "gone", ~cut, NEW k \in DOMAIN todo,
                      todo[k][1] = "closeCallback"
               PROVE  FALSE
    BY DEF ServerNotCalledLate
  <2>1. todo[k] \in Chore BY DEF Inv
  <2>2. PICK c \in Conns : todo[k] = <<"closeCallback", c>>
    BY <2>1 DEF Chore
  <2>3. Has(<<"closeCallback", c>>) BY <2>2 DEF Has, Some
  <2> QED BY <2>3 DEF Inv, LateInv
<1> QED BY <1>1, ReactorInvariant, PTL

(* ~TcpServer and ~Acceptor leave the poller with the wakeup channel only, *)
(* and ~EventLoop with nothing: EPollPoller's map holds no address of a    *)
(* channel that was freed, but for those of connections in unsent, which   *)
(* TcpConnection::handleWrite has put back after ~TcpServer in a message   *)
(* callback.                                                               *)
THEOREM PollerLeftEmpty == Spec => []NothingLeft
<1>1. Inv => NothingLeft
  <2> SUFFICES ASSUME Inv, server = "gone", todo = << >>,
                      pendingFunctors_ = << >>, NEW fd \in Fds,
                      channels_[fd] # Nobody,
                      ~(cut /\ channels_[fd] \in unsent)
               PROVE  channels_[fd] = wakeupChannel_ /\ phase # "destroyed"
    BY DEF NothingLeft
  <2> DEFINE ch == channels_[fd]
  <2>0. ch \notin unsent BY DEF Inv, LateInv
  <2>1. ch \in Channels /\ ch \notin unsent /\ index_[ch] # "kNew"
    BY <2>0 DEF Inv, ReactorTypeOK, PollerTypeOK, PollerAgrees, AgreesBut
  <2>2. \A x : ~Has(x) BY DEF Has, Some
  <2>3. \A d : ~Some(pendingFunctors_, {d}) BY DEF Some
  <2>4. ch # acceptChannel_ /\ connections_ = {}
    BY <2>1, <2>2 DEF Inv, AcceptorInv
  <2> HIDE DEF ch
  <2>5. ch \notin Conns
    BY <2>1, <2>2, <2>3, <2>4 DEF Inv, WatchInv, Watched, Promised
  <2>6. phase = "destroyed" => index_[wakeupChannel_] = "kNew"
    BY <2>2 DEF Inv, WakeupInv
  <2>7. ch = wakeupChannel_ BY <2>1, <2>4, <2>5, ThreeKinds
  <2> QED BY <2>1, <2>6, <2>7 DEF ch
<1> QED BY <1>1, ReactorInvariant, PTL
=============================================================================
