------------------------------- MODULE Reactor -------------------------------
(***************************************************************************)
(* A single-threaded server, as example/testserver.cc runs it: one loop    *)
(* whose poller has the wakeup channel, the acceptor's channel and the     *)
(* channels of all connections.  It composes EventLoop::loop, the Poller,  *)
(* the Acceptor, TcpServer with no pool, and of TcpConnection what it does *)
(* with its channel.                                                       *)
(*                                                                         *)
(* What the thread has to do inside the current callback is the stack      *)
(* todo; "message" and "connection" in it are callbacks into user code,    *)
(* which may send to and shut down any connection, and which may destroy   *)
(* the server, but in connectionCallback_, whose callers go on to use it.  *)
(* Functors of the user may do the same.  Everything happens in one        *)
(* thread; the clients act at any time.                                    *)
(***************************************************************************)
EXTENDS Poller, Sequences

CONSTANTS
  acceptChannel_, wakeupChannel_,
  MayShutdown           \* the connections that user code may shut down

Conns == Channels \ {acceptChannel_, wakeupChannel_}

WakeupFd == 1
ListenFd == 2

ASSUME ReactorAssumption ==
  /\ acceptChannel_ \in Channels
  /\ wakeupChannel_ \in Channels
  /\ acceptChannel_ # wakeupChannel_
  /\ MayShutdown \subseteq Conns
  /\ ListenFd <= MaxFd
  /\ MaxFd - ListenFd <= Cardinality(Conns)    \* memory for any connection

VARIABLES
  phase,            \* where the thread is in loop()
  todo,             \* what it has to do, <<operation, channel>>
  handling,         \* the channel in handleEvent, or Nobody
  pendingFunctors_, \* connections whose connectDestroyed is queued
  connections_,
  state_,           \* of each connection; "none" if there is none
  server,           \* "up", or "gone" once ~TcpServer has begun
  peerClosed,       \* connections whose client has closed
  cut,              \* history: was the server destroyed in the midst of a batch?
  unsent            \* history: connections taken out of the poller before a
                    \* handleWrite that was still to send their output

loopVars == <<phase, handling, pendingFunctors_>>
serverVars == <<connections_, state_, server, cut, unsent>>
clientVars == <<ready, peerClosed>>
vars == <<pollerVars, waitVars, fd_, loopVars, todo, serverVars, clientVars>>

(* EventLoop's constructor has registered the wakeup channel; TcpServer's  *)
(* has made the acceptor's.                                                *)
Init ==
  /\ fd_ = [ch \in Channels |-> CASE ch = wakeupChannel_ -> WakeupFd
                                  [] ch = acceptChannel_ -> ListenFd
                                  [] OTHER -> NoFd]
  /\ events_ = [ch \in Channels |-> {}]
  /\ revents_ = [ch \in Channels |-> {}]
  /\ index_ = [ch \in Channels |-> "kNew"]
  /\ ready = [fd \in Fds |-> {}]
  /\ PollerInit
  /\ phase = "created"
  /\ todo = << <<"enableReading", wakeupChannel_>> >>
  /\ handling = Nobody
  /\ pendingFunctors_ = << >>
  /\ connections_ = {}
  /\ state_ = [c \in Conns |-> "none"]
  /\ server = "up"
  /\ peerClosed = {}
  /\ cut = FALSE
  /\ unsent = {}

-----------------------------------------------------------------------------
(* EventLoop::loop *)

Rest == <<pollerVars, fd_, serverVars, clientVars>>

EnterLoop ==
  /\ phase = "created" /\ todo = << >>
  /\ phase' = "poll"
  /\ UNCHANGED <<Rest, waitVars, todo, handling, pendingFunctors_>>

(* The poll returns, with nothing at the timeout.                          *)
Poll ==
  /\ phase = "poll"
  /\ poll
  /\ phase' = "handle"
  /\ UNCHANGED <<Rest, todo, handling, pendingFunctors_>>

(* Does a channel still exist?                                             *)
Exists(ch) == fd_[ch] # NoFd

(* The callbacks that handleEventWithGuard selects, in its order.  Its     *)
(* branches for EPOLLHUP and EPOLLERR are left out: every channel that is  *)
(* polled is watched for EPOLLIN, with which EPOLLHUP is reported and is   *)
(* ignored, and errorCallback_ only logs.  TcpConnection has all branches. *)
Callbacks(ch) ==
  CASE ch = wakeupChannel_ -> << <<"wakeup", ch>> >>
    [] ch = acceptChannel_ -> << <<"accept", ch>> >>
    [] OTHER ->
         (IF "read" \in revents_[ch] THEN << <<"handleRead", ch>> >>
                                     ELSE << >>)
         \o (IF "write" \in revents_[ch] THEN << <<"handleWrite", ch>> >>
                                         ELSE << >>)

(* handleEvent.  revents_ is not looked at again, so it is forgotten.      *)
HandleEvent(ch) ==
  /\ phase = "handle" /\ handling = Nobody
  /\ ch \in activeChannels_
  /\ Exists(ch)
  /\ activeChannels_' = activeChannels_ \ {ch}
  /\ handling' = ch
  /\ todo' = Callbacks(ch)
  /\ revents_' = [revents_ EXCEPT ![ch] = {}]
  /\ UNCHANGED <<Rest, eventListSize, phase, pendingFunctors_>>

(* handleEvent on a channel that was freed with its connection.  Anything  *)
(* may happen; this is the case the comment in handleEvent hopes for, in   *)
(* which tie_ can still be read.                                           *)
HandleFreed(ch) ==
  /\ phase = "handle" /\ handling = Nobody
  /\ ch \in activeChannels_
  /\ ~Exists(ch)
  /\ activeChannels_' = activeChannels_ \ {ch}
  /\ revents_' = [revents_ EXCEPT ![ch] = {}]
  /\ UNCHANGED <<Rest, eventListSize, loopVars, todo>>

EventDone ==
  /\ phase = "handle" /\ handling # Nobody /\ todo = << >>
  /\ handling' = Nobody
  /\ UNCHANGED <<Rest, waitVars, phase, todo, pendingFunctors_>>

BeginPending ==
  /\ phase = "handle"
  /\ activeChannels_ = {} /\ handling = Nobody
  /\ phase' = "functors"
  /\ UNCHANGED <<Rest, waitVars, todo, handling, pendingFunctors_>>

RunFunctor ==
  /\ phase = "functors" /\ todo = << >>
  /\ pendingFunctors_ # << >>
  /\ todo' = << <<"connectDestroyed", Head(pendingFunctors_)>> >>
  /\ pendingFunctors_' = Tail(pendingFunctors_)
  /\ UNCHANGED <<Rest, waitVars, phase, handling>>

(* The batch is done: loop() goes on, or returns if quit() was called.     *)
EndPending ==
  /\ phase = "functors" /\ todo = << >>
  /\ pendingFunctors_ = << >>
  /\ phase' \in {"poll", "returned"}
  /\ UNCHANGED <<Rest, waitVars, todo, handling, pendingFunctors_>>

(* ~EventLoop: the wakeup channel is taken out.                            *)
DestroyLoop ==
  /\ phase = "returned" /\ todo = << >> /\ server = "gone"
  /\ phase' = "destroyed"
  /\ todo' = << <<"disableAll", wakeupChannel_>>,
                <<"remove", wakeupChannel_>>, <<"free", wakeupChannel_>> >>
  /\ UNCHANGED <<Rest, waitVars, handling, pendingFunctors_>>

-----------------------------------------------------------------------------
(* Steps inside a callback *)

(* The thread is about to do op on ch.                                     *)
Doing(op, ch) == todo # << >> /\ Head(todo) = <<op, ch>>

(* It does so, and has more to do before what was left.                    *)
Then(more) == todo' = more \o Tail(todo)

ChannelStep(ch) ==
  /\ \/ Doing("enableReading", ch) /\ enableReading(ch)
     \/ Doing("disableAll", ch) /\ disableAll(ch)
     \/ Doing("remove", ch) /\ removeChannel(ch)
  /\ Then(<< >>)
  /\ UNCHANGED <<waitVars, fd_, loopVars, serverVars, clientVars>>

(* EventLoop::handleRead.                                                  *)
WakeupRead ==
  /\ Doing("wakeup", wakeupChannel_)
  /\ ready' = [ready EXCEPT ![WakeupFd] = {}]
  /\ Then(<< >>)
  /\ UNCHANGED <<pollerVars, waitVars, fd_, loopVars, serverVars, peerClosed>>

FreeFds == Fds \ {fd_[ch] : ch \in Channels}

Unused == {c \in Conns : state_[c] = "none"}

(* accept4 has a descriptor for the client.                                *)
Accepted == FreeFds # {}

(* The kernel assigns the lowest free descriptor.                          *)
LowestFree(fd) == fd \in FreeFds /\ \A other \in FreeFds : fd <= other

(* Acceptor::handleRead and newConnection.  Out of descriptors accept      *)
(* fails and the client keeps waiting; any other failure is the end of a   *)
(* client that has given up.  connectEstablished follows at once, as       *)
(* everything is in one thread.                                            *)
Accept ==
  /\ Doing("accept", acceptChannel_)
  /\ \/ /\ Accepted
        /\ \E c \in Unused, fd \in Fds :
             /\ LowestFree(fd)
             /\ fd_' = [fd_ EXCEPT ![c] = fd]
             /\ state_' = [state_ EXCEPT ![c] = "kConnecting"]
             /\ connections_' = connections_ \cup {c}
             /\ ready' \in
                  {[ready EXCEPT ![fd] = {"write"}, ![ListenFd] = more] :
                     more \in {{}, {"read"}}}
             /\ Then(<< <<"connectEstablished", c>> >>)
     \/ /\ ready' = IF Accepted THEN [ready EXCEPT ![ListenFd] = {}]
                                ELSE ready
        /\ Then(<< >>)
        /\ UNCHANGED <<fd_, state_, connections_>>
  /\ UNCHANGED <<pollerVars, waitVars, loopVars, server, cut, unsent,
                 peerClosed>>

connectEstablished(c) ==
  /\ Doing("connectEstablished", c)
  /\ state_' = [state_ EXCEPT ![c] = "kConnected"]
  /\ enableReading(c)
  /\ Then(<< <<"connection", c>> >>)
  /\ UNCHANGED <<waitVars, fd_, loopVars, connections_, server, cut,
                 unsent, clientVars>>

(* TcpConnection::handleRead: data for messageCallback_, or the end of the *)
(* stream, and handleClose.                                                *)
HandleRead(c) ==
  /\ Doing("handleRead", c)
  /\ \/ /\ ready' = IF c \in peerClosed
                      THEN ready
                      ELSE [ready EXCEPT ![fd_[c]] = @ \ {"read"}]
        /\ Then(<< <<"message", c>> >>)
        /\ UNCHANGED <<pollerVars, state_>>
     \/ /\ c \in peerClosed
        /\ state_' = [state_ EXCEPT ![c] = "kDisconnected"]
        /\ disableAll(c)
        /\ Then(<< <<"connection", c>>, <<"closeCallback", c>> >>)
        /\ UNCHANGED ready
  /\ UNCHANGED <<waitVars, fd_, loopVars, connections_, server, cut,
                 unsent, peerClosed>>

(* TcpConnection::handleWrite: all is sent, or the send buffer is full.    *)
(* It goes by events_ alone, so disableWriting puts the channel of a       *)
(* connection back that connectDestroyed has taken out with output left.   *)
HandleWrite(c) ==
  /\ Doing("handleWrite", c)
  /\ \/ /\ isWriting(c)
        /\ disableWriting(c)
        /\ UNCHANGED ready
     \/ /\ isWriting(c)
        /\ ready' = [ready EXCEPT ![fd_[c]] = @ \ {"write"}]
        /\ UNCHANGED pollerVars
     \/ ~isWriting(c) /\ UNCHANGED <<pollerVars, ready>>
  /\ Then(<< >>)
  /\ UNCHANGED <<waitVars, fd_, loopVars, serverVars, peerClosed>>

(* TcpServer::removeConnection, and removeConnectionInLoop on the spot.    *)
(* If the server was destroyed earlier in the batch it is called all the   *)
(* same, through a dangling pointer; the case shown is the one in which    *)
(* its memory can still be read.                                           *)
CloseCallback(c) ==
  /\ Doing("closeCallback", c)
  /\ connections_' = connections_ \ {c}
  /\ pendingFunctors_' = Append(pendingFunctors_, c)
  /\ Then(<< >>)
  /\ UNCHANGED <<pollerVars, waitVars, fd_, phase, handling, state_, server,
                 cut, unsent, clientVars>>

(* The batch has a handleWrite of c still to come.                         *)
WriteToCome(c) ==
  \/ "write" \in revents_[c]
  \/ \E k \in DOMAIN todo : todo[k] = <<"handleWrite", c>>

(* TcpConnection::connectDestroyed.  Only a connection that is kConnected  *)
(* loses its events of interest.  One that is kDisconnecting keeps them,   *)
(* and if it is writing, a handleWrite of the same batch will put its      *)
(* channel back.                                                           *)
connectDestroyed(c) ==
  /\ Doing("connectDestroyed", c)
  /\ \/ /\ state_[c] = "kConnected"
        /\ state_' = [state_ EXCEPT ![c] = "kDisconnected"]
        /\ disableAll(c)
        /\ Then(<< <<"connection", c>>, <<"remove", c>> >>)
        /\ UNCHANGED unsent
     \/ /\ state_[c] # "kConnected"
        /\ removeChannel(c)
        /\ Then(<< >>)
        /\ unsent' = IF isWriting(c) /\ WriteToCome(c) THEN unsent \cup {c}
                                                       ELSE unsent
        /\ UNCHANGED state_
  /\ UNCHANGED <<waitVars, fd_, loopVars, connections_, server, cut,
                 clientVars>>

-----------------------------------------------------------------------------
(* User code *)

InMessage == \E c \in Conns : Doing("message", c)
InConnection == \E c \in Conns : Doing("connection", c)
InFunctor == phase = "functors" /\ todo = << >>

UserReturns ==
  /\ InMessage \/ InConnection
  /\ Then(<< >>)
  /\ UNCHANGED <<Rest, waitVars, loopVars>>

(* send to a connection, more than the send buffer takes.                  *)
Send(c) ==
  /\ InMessage \/ InConnection \/ InFunctor
  /\ state_[c] = "kConnected" /\ ~isWriting(c)
  /\ ready' = [ready EXCEPT ![fd_[c]] = @ \ {"write"}]
  /\ enableWriting(c)
  /\ UNCHANGED <<waitVars, fd_, loopVars, todo, serverVars, peerClosed>>

(* shutdown of a connection.  If nothing is being written, or once all is, *)
(* shutdownInLoop closes the socket's sending side; the channel stays.     *)
Shutdown(c) ==
  /\ InMessage \/ InConnection \/ InFunctor
  /\ c \in MayShutdown
  /\ state_[c] = "kConnected"
  /\ state_' = [state_ EXCEPT ![c] = "kDisconnecting"]
  /\ UNCHANGED <<pollerVars, waitVars, fd_, loopVars, todo, connections_,
                 server, cut, unsent, clientVars>>

(* TcpServer::start, before loop() or in a functor: Acceptor::listen.      *)
Start ==
  /\ phase = "created" \/ InFunctor
  /\ todo = << >> /\ server = "up" /\ events_[acceptChannel_] = {}
  /\ enableReading(acceptChannel_)
  /\ UNCHANGED <<waitVars, fd_, loopVars, todo, serverVars, clientVars>>

(* ~TcpServer begins, in messageCallback_, in a functor or after loop().   *)
DestroyServer ==
  /\ InMessage \/ InFunctor \/ (phase = "returned" /\ todo = << >>)
  /\ server = "up"
  /\ server' = "gone"
  /\ cut' = InMessage
  /\ todo' = << <<"dtor", acceptChannel_>> >> \o todo
  /\ UNCHANGED <<pollerVars, waitVars, fd_, loopVars, connections_, state_,
                 unsent, clientVars>>

(* Mutant: the destructor only lets go of its connections.                 *)
TearDownMutant(c) == << >>

(* What ~TcpServer runs for a connection.                                  *)
TearDown(c) == << <<"connectDestroyed", c>> >>

(* ~TcpServer: connectDestroyed for each connection, on the spot, and then *)
(* ~Acceptor.                                                              *)
Destructor ==
  /\ Doing("dtor", acceptChannel_)
  /\ \/ \E c \in connections_ :
          /\ connections_' = connections_ \ {c}
          /\ todo' = TearDown(c) \o todo
     \/ /\ connections_ = {}
        /\ Then(<< <<"disableAll", acceptChannel_>>,
                   <<"remove", acceptChannel_>>, <<"free", acceptChannel_>> >>)
        /\ UNCHANGED connections_
  /\ UNCHANGED <<pollerVars, waitVars, fd_, loopVars, state_, server, cut,
                 unsent, clientVars>>

(* The acceptor or the loop goes, with its channel and its descriptor.     *)
FreeChannel(ch) ==
  /\ Doing("free", ch)
  /\ DestroyChannel(ch)
  /\ Then(<< >>)
  /\ UNCHANGED <<waitVars, loopVars, serverVars, peerClosed>>

(* Mutant: handleEvent does not lock tie_.                                 *)
TiedMutant(c) == FALSE

(* handleEvent holds the connection of its channel.                        *)
Tied(c) == handling = c

(* Operations whose caller holds a shared_ptr to the connection.           *)
Holding == {"connectEstablished", "connection", "message", "closeCallback",
            "connectDestroyed", "remove"}

Held(c) ==
  \/ c \in connections_
  \/ Tied(c)
  \/ \E k \in DOMAIN pendingFunctors_ : pendingFunctors_[k] = c
  \/ \E k \in DOMAIN todo : todo[k][1] \in Holding /\ todo[k][2] = c

(* The last shared_ptr goes, in this thread or, if user code has kept one, *)
(* later: ~TcpConnection, with its channel and its socket.  Its address    *)
(* and its descriptor may be used again.                                   *)
Free(c) ==
  /\ Exists(c)
  /\ ~Held(c)
  /\ state_' = [state_ EXCEPT ![c] = "none"]
  /\ DestroyChannel(c)
  /\ peerClosed' = peerClosed \ {c}
  /\ UNCHANGED <<waitVars, loopVars, todo, connections_, server, cut,
                 unsent>>

-----------------------------------------------------------------------------
(* The clients and other threads.  What they do while the thread is busy   *)
(* is only seen when it polls again: a handler that reads more than was    *)
(* there when its channel was reported does what it would have done had it *)
(* been there before.  So they act while the thread polls.                 *)

Becomes(fd, ev) ==
  /\ phase = "poll"
  /\ ready' = [ready EXCEPT ![fd] = @ \cup ev]

ClientRest == <<pollerVars, waitVars, fd_, loopVars, todo, serverVars>>

ClientConnects ==
  /\ "read" \in events_[acceptChannel_]
  /\ Becomes(ListenFd, {"read"})
  /\ UNCHANGED <<ClientRest, peerClosed>>

ClientSends(c) ==
  /\ Exists(c) /\ c \notin peerClosed
  /\ Becomes(fd_[c], {"read"})
  /\ UNCHANGED <<ClientRest, peerClosed>>

ClientReads(c) ==
  /\ Exists(c)
  /\ Becomes(fd_[c], {"write"})
  /\ UNCHANGED <<ClientRest, peerClosed>>

ClientCloses(c) ==
  /\ Exists(c)
  /\ peerClosed' = peerClosed \cup {c}
  /\ Becomes(fd_[c], {"read"})
  /\ UNCHANGED ClientRest

(* Another thread calls wakeup().                                          *)
Wakeup ==
  /\ Becomes(WakeupFd, {"read"})
  /\ UNCHANGED <<ClientRest, peerClosed>>

-----------------------------------------------------------------------------

(* The steps of the thread, user code's own calls left out.                *)
LoopStep ==
  \/ EnterLoop \/ Poll \/ EventDone \/ BeginPending \/ RunFunctor
  \/ EndPending \/ WakeupRead \/ Accept \/ UserReturns \/ Destructor
  \/ \E ch \in Channels : \/ HandleEvent(ch) \/ HandleFreed(ch)
                           \/ ChannelStep(ch) \/ FreeChannel(ch)
  \/ \E c \in Conns : \/ connectEstablished(c) \/ HandleRead(c)
                      \/ HandleWrite(c) \/ CloseCallback(c)
                      \/ connectDestroyed(c)

UserCall ==
  \/ Start \/ DestroyServer \/ DestroyLoop
  \/ \E c \in Conns : Send(c) \/ Shutdown(c)

Outside ==
  \/ ClientConnects \/ Wakeup
  \/ \E c \in Conns : ClientSends(c) \/ ClientReads(c) \/ ClientCloses(c)

Next == LoopStep \/ UserCall \/ (\E c \in Conns : Free(c)) \/ Outside

Spec == Init /\ [][Next]_vars

(* Fairness: the thread is scheduled and callbacks return.  Nothing is     *)
(* assumed of the clients, nor of the order in which the kernel reports.   *)
FairSpec == Spec /\ WF_vars(LoopStep)

-----------------------------------------------------------------------------
(* Properties *)

(* Type correctness.  A connection has a descriptor as long as it exists.  *)
ReactorTypeOK ==
  /\ PollerTypeOK
  /\ phase \in {"created", "poll", "handle", "functors", "returned",
                "destroyed"}
  /\ handling \in Channels \cup {Nobody}
  /\ pendingFunctors_ \in Seq(Conns)
  /\ connections_ \subseteq Conns
  /\ state_ \in [Conns -> {"none", "kConnecting", "kConnected",
                           "kDisconnecting", "kDisconnected"}]
  /\ \A c \in Conns : Exists(c) <=> state_[c] # "none"
  /\ server \in {"up", "gone"}
  /\ peerClosed \subseteq Conns
  /\ cut \in BOOLEAN
  /\ unsent \subseteq Conns

(* The channel whose event is handled exists until the last callback that  *)
(* revents_ selects has returned, even if one of them destroys the server. *)
(* What activeChannels_ holds when its turn comes exists: no callback of   *)
(* an earlier channel of the batch frees a channel, unless it destroys the *)
(* server.                                                                 *)
ChannelsAlive ==
  /\ handling \in Conns => Exists(handling)
  /\ ~cut => \A ch \in activeChannels_ : Exists(ch)

(* No connection calls closeCallback_, with the server's this in it, once  *)
(* ~TcpServer has begun, even if user code keeps the connection; unless    *)
(* it began in a callback of a batch that goes on.                         *)
ServerNotCalledLate ==
  (server = "gone" /\ ~cut) =>
    \A k \in DOMAIN todo : todo[k][1] # "closeCallback"

(* The records agree, but for what is left of connections that ~TcpServer  *)
(* took out of the poller while they were being shut down and before a     *)
(* handleWrite that was to send the last of their output.                  *)
PollerAgrees == AgreesBut(unsent)

(* When ~TcpServer is through and the functors have run, the poller is     *)
(* left with the wakeup channel, and after ~EventLoop with nothing; but    *)
(* for the same connections, and only if ~TcpServer was called in a        *)
(* message callback.                                                       *)
NothingLeft ==
  (server = "gone" /\ todo = << >> /\ pendingFunctors_ = << >>) =>
    \A fd \in Fds :
      channels_[fd] # Nobody =>
        \/ channels_[fd] = wakeupChannel_ /\ phase # "destroyed"
        \/ cut /\ channels_[fd] \in unsent

(* A channel that is ready is handled, however many are and whichever ones *)
(* the kernel prefers to report, unless it is taken out of the poller or   *)
(* loop() returns before.                                                  *)
ReadyIsHandled ==
  \A ch \in Channels :
    (ch \in {epollPtr[fd] : fd \in ReadyFds} /\ phase = "poll")
      ~> \/ handling = ch
         \/ index_[ch] # "kAdded"
         \/ phase \in {"returned", "destroyed"}
=============================================================================
