---------------------------- MODULE TcpConnection ----------------------------
(***************************************************************************)
(* One TcpConnection (src/TcpConnection.cc) with its Channel and the index *)
(* its poller keeps for it, from TcpServer::newConnection to destruction.  *)
(*                                                                         *)
(* The connection lives in one loop's thread.  That thread runs functors   *)
(* in the order they were queued (module TaskQueue, which EventLoop        *)
(* implements) and the channel's events; todo is what is left to do of the *)
(* functor or event at hand, "user" standing for a callback into user      *)
(* code, which may call send, sendFile and shutdown.  Worker threads call  *)
(* the same methods: their test of state_, their store to it and their     *)
(* push of the functor are separate steps.  TcpServer and the kernel's     *)
(* socket appear as far as the connection depends on them.                 *)
(*                                                                         *)
(* Bytes are tokens, so that a byte that is lost, duplicated or overtaken  *)
(* can be told.  inputBuffer_ is a Buffer (see that module) and is left to *)
(* the user; only whether something can be read matters here.              *)
(***************************************************************************)
EXTENDS Integers, Sequences, FiniteSets

CONSTANTS
  Workers,          \* threads other than the loop's that hold the connection
  Messages,         \* what may be passed to send, each once
  Files,            \* what may be passed to sendFile, each once
  Size,             \* bytes of each message; of a file, the count to send
  FileLen,          \* bytes there really are in each file
  KernelBuf,        \* bytes the kernel's send buffer holds
  highWaterMark_,
  MaxInbound,       \* bound: chunks the peer sends
  WorkerSends,      \* do workers call send and sendFile?
  WorkerShutdown,   \* do workers call shutdown?
  ServerDestroys    \* may ~TcpServer run while the connection is up?

ASSUME ConnectionAssumption ==
  /\ Messages \cap Files = {}
  /\ Size \in [Messages \cup Files -> Nat]
  /\ FileLen \in [Files -> Nat]
  /\ \A f \in Files : FileLen[f] <= Size[f]
  /\ KernelBuf \in Nat \ {0}
  /\ highWaterMark_ \in Nat
  /\ MaxInbound \in Nat
  /\ {WorkerSends, WorkerShutdown, ServerDestroys} \subseteq BOOLEAN

VARIABLES
  state_,           \* std::atomic_int state_
  outputBuffer_,    \* its readable bytes
  events_,          \* the channel's events of interest
  index_,           \* the poller's mark on the channel
  pending,          \* functors queued in the loop for this connection
  todo,             \* what the loop's thread has left of the current one
  worker,           \* where each worker is in send, sendFile or shutdown
  passed,           \* messages and files already passed to send or sendFile
  server,           \* the connection in TcpServer: "has", "removing", "gone"
  destroyed,        \* has ~TcpConnection run?
  sndbuf,           \* bytes in the kernel's send buffer
  wrShut,           \* has shutdown(SHUT_WR) been called?
  inbound,          \* chunks the kernel holds for reading
  peerSent,         \* chunks the peer has sent
  peerState,        \* "open", "fin" (it closed) or "rst" (it reset)
  soError,          \* is an error pending on the socket?
  peerData,         \* bytes the peer has received
  accepted,         \* history: bytes sendInLoop and sendfile took, in order
  ups,              \* history: connectionCallback_ calls with the state up
  downs,            \* history: connectionCallback_ calls with the state down
  epipe             \* history: was written to after shutdown(SHUT_WR)

chanVars == <<events_, index_>>
peerVars == <<inbound, peerSent, peerState, soError, peerData>>
sockVars == <<sndbuf, wrShut, peerVars>>
histVars == <<accepted, ups, downs, epipe>>
elseVars == <<worker, passed, server, destroyed>>
vars == <<state_, outputBuffer_, chanVars, pending, todo, elseVars, sockVars,
          histVars>>

(* newConnection has put the connection into connections_ and queued       *)
(* connectEstablished in its loop.                                         *)
Init ==
  /\ state_ = "kConnecting"
  /\ outputBuffer_ = << >>
  /\ events_ = {}
  /\ index_ = "kNew"
  /\ pending = << <<"connectEstablished">> >>
  /\ todo = << >>
  /\ worker = [w \in Workers |-> <<"idle">>]
  /\ passed = {}
  /\ server = "has"
  /\ destroyed = FALSE
  /\ sndbuf = << >>
  /\ wrShut = FALSE
  /\ inbound = 0
  /\ peerSent = 0
  /\ peerState = "open"
  /\ soError = FALSE
  /\ peerData = << >>
  /\ accepted = << >>
  /\ ups = 0
  /\ downs = 0
  /\ epipe = FALSE

-----------------------------------------------------------------------------
(* Channel and poller *)

(* EPollPoller::updateChannel.  A channel the poller does not watch is     *)
(* added, even if it has no events of interest.                            *)
Update(ev) ==
  /\ events_' = ev
  /\ index_' = IF index_ = "kAdded" /\ ev = {} THEN "kDeleted" ELSE "kAdded"

enableReading == Update(events_ \cup {"read"})

(* Mutant: the output is buffered, and no one waits for room to send it.   *)
enableWritingMutant == UNCHANGED chanVars

enableWriting == Update(events_ \cup {"write"})

(* Mutant: the channel goes on waiting for room when nothing is left.      *)
disableWritingMutant == UNCHANGED chanVars

disableWriting == Update(events_ \ {"write"})

disableAll == Update({})

(* Mutant: the poller is not told.                                         *)
RemoveChannelMutant == UNCHANGED chanVars

(* EPollPoller::removeChannel.  events_ stays as it is.                    *)
RemoveChannel ==
  /\ index_' = "kNew"
  /\ UNCHANGED events_

isWriting == "write" \in events_

-----------------------------------------------------------------------------
(* The socket.  A byte is the message or file it belongs to, and its place *)

Payload(m) ==
  [i \in 1 .. IF m \in Files THEN FileLen[m] ELSE Size[m] |-> <<m, i>>]

WouldBlock == -1    \* write returned -1, EWOULDBLOCK
Fault == -2         \* write returned -1, EPIPE or ECONNRESET

(* What write(2) may return for len bytes.                                 *)
WriteResults(len) ==
  LET free == KernelBuf - Len(sndbuf) IN
  IF wrShut \/ peerState = "rst" THEN {Fault}
  ELSE IF len = 0 THEN {0}
  ELSE IF free = 0 THEN {WouldBlock}
  ELSE 1 .. (IF len < free THEN len ELSE free)

(* What sendfile(2) may return.  At the end of the file it returns 0 and   *)
(* does not look at the socket.                                            *)
SendfileResults(f, offset) ==
  IF offset = FileLen[f] THEN {0} ELSE WriteResults(FileLen[f] - offset)

-----------------------------------------------------------------------------
(* sendInLoop, shutdownInLoop, sendFileInLoop.  q is what the functor      *)
(* queue holds besides what they add to it.                                *)

(* Mutant: what the direct write took is buffered again.                   *)
UnwrittenMutant(data, n) == data

(* The part of data that write(2) did not take.                            *)
Unwritten(data, n) ==
  SubSeq(data, 1 + (IF n > 0 THEN n ELSE 0), Len(data))

(* Mutant: every send above the mark reports it.                           *)
CrossesMutant(oldLen, remaining) == oldLen + remaining >= highWaterMark_

(* Is highWaterMarkCallback_ due when remaining bytes join oldLen?         *)
Crosses(oldLen, remaining) ==
  oldLen + remaining >= highWaterMark_ /\ oldLen < highWaterMark_

sendInLoop(data, q) ==
  \/ /\ state_ = "kDisconnected"
     /\ pending' = q
     /\ UNCHANGED <<outputBuffer_, chanVars, sndbuf, accepted, epipe>>
  \/ /\ state_ # "kDisconnected"
     /\ LET direct == ~isWriting /\ outputBuffer_ = << >> IN
        \E n \in IF direct THEN WriteResults(Len(data)) ELSE {WouldBlock} :
          LET rest   == Unwritten(data, n)
              queued == n # Fault /\ rest # << >>
              high   == queued /\ Crosses(Len(outputBuffer_), Len(rest))
          IN
          /\ sndbuf' = sndbuf \o SubSeq(data, 1, n)
          /\ outputBuffer_' = IF queued THEN outputBuffer_ \o rest
                                        ELSE outputBuffer_
          /\ IF queued /\ ~isWriting THEN enableWriting
                                     ELSE UNCHANGED chanVars
          /\ pending' = q
               \o (IF n >= 0 /\ n = Len(data) THEN << <<"writeComplete">> >>
                                              ELSE << >>)
               \o (IF high THEN << <<"highWaterMark">> >> ELSE << >>)
          /\ accepted' = IF n = Fault THEN accepted ELSE accepted \o data
          /\ epipe' = (epipe \/ (n = Fault /\ wrShut))

(* Mutant: shutdownInLoop does not wait for the output to drain.           *)
shutdownInLoopMutant(writing) == wrShut' = TRUE

(* Socket::shutdownWrite.                                                  *)
shutdownWrite == wrShut' = TRUE

(* writing is isWriting() at the time of the call.                         *)
shutdownInLoop(writing) == IF writing THEN UNCHANGED wrShut ELSE shutdownWrite

(* Mutant: a full send buffer is taken for the end.                        *)
RetryFileMutant(n) == n >= 0

(* Is the rest of the file tried again, after sendfile(2) returned n?      *)
RetryFile(n) == n # Fault

(* Mutant: the -1 of a failed call is not told from a count.               *)
BytesSentMutant(n) == n

(* How much of the file was sent, if sendfile(2) returned n.               *)
BytesSent(n) == IF n > 0 THEN n ELSE 0

(* Mutant: the next attempt starts where this one did.                     *)
NextOffsetMutant(offset, sent) == offset

(* sendfile(2) has advanced offset past what it sent.                      *)
NextOffset(offset, sent) == offset + sent

(* One attempt at the rest of a file, from offset on.  What is missing of  *)
(* count is tried again, even at the end of the file.                      *)
sendFileInLoop(f, offset, q) ==
  \/ /\ state_ = "kDisconnecting"
     /\ pending' = q
     /\ UNCHANGED <<sndbuf, accepted, epipe>>
  \/ /\ state_ # "kDisconnecting"
     /\ LET direct == ~isWriting /\ outputBuffer_ = << >> IN
        \E n \in IF direct THEN SendfileResults(f, offset) ELSE {WouldBlock} :
          LET sent == BytesSent(n)
              piece == SubSeq(Payload(f), offset + 1, offset + sent)
              remaining == Size[f] - offset - sent
          IN
          /\ sndbuf' = sndbuf \o piece
          /\ accepted' = accepted \o piece
          /\ pending' = q \o
               (IF remaining = 0 /\ n >= 0 THEN << <<"writeComplete">> >>
                ELSE IF RetryFile(n) /\ remaining > 0
                  THEN << <<"sendFileInLoop", f, NextOffset(offset, sent)>> >>
                ELSE << >>)
          /\ epipe' = (epipe \/ (n = Fault /\ wrShut))

-----------------------------------------------------------------------------
(* The channel's events, in the loop's thread *)

Idle == todo = << >> /\ ~destroyed

(* What epoll_wait reports.  Errors and hang-ups need no interest.         *)
Hup == peerState = "rst" \/ (peerState = "fin" /\ wrShut)
In  == "read" \in events_ /\ (inbound > 0 \/ peerState # "open")
Out == isWriting /\ (Len(sndbuf) < KernelBuf \/ peerState = "rst")

(* Channel::handleEvent: the callbacks that revents_ selects, in order.    *)
(* Callbacks of other channels of the same poll may come first, so revents *)
(* may be stale when this channel's turn comes.                            *)
HandleEvent ==
  /\ Idle
  /\ index_ = "kAdded"
  /\ In \/ Out \/ Hup \/ soError
  /\ todo' = << "user" >>
               \o (IF Hup /\ ~In THEN << "handleClose" >> ELSE << >>)
               \o (IF soError    THEN << "handleError" >> ELSE << >>)
               \o (IF In         THEN << "handleRead" >>  ELSE << >>)
               \o (IF Out        THEN << "handleWrite" >> ELSE << >>)
  /\ UNCHANGED <<state_, outputBuffer_, chanVars, pending, elseVars, sockVars,
                 histVars>>

(* handleClose, up to and including the user's connectionCallback_.        *)
Close ==
  /\ state_' = "kDisconnected"
  /\ disableAll
  /\ downs' = downs + 1
  /\ todo' = << "user", "closeCallback" >> \o Tail(todo)

HandleClose ==
  /\ todo # << >> /\ Head(todo) = "handleClose"
  /\ Close
  /\ UNCHANGED <<outputBuffer_, pending, elseVars, sockVars, accepted, ups,
                 epipe>>

(* Mutant: the server is not told.                                         *)
removeConnectionMutant == server

(* closeCallback_ is TcpServer::removeConnection: it asks the base loop.   *)
removeConnection == IF server = "has" THEN "removing" ELSE server

CloseCallback ==
  /\ todo # << >> /\ Head(todo) = "closeCallback"
  /\ server' = removeConnection
  /\ todo' = Tail(todo)
  /\ UNCHANGED <<state_, outputBuffer_, chanVars, pending, worker, passed,
                 destroyed, sockVars, histVars>>

(* handleError takes the pending error off the socket and logs it.         *)
HandleError ==
  /\ todo # << >> /\ Head(todo) = "handleError"
  /\ soError' = FALSE
  /\ todo' = Tail(todo)
  /\ UNCHANGED <<state_, outputBuffer_, chanVars, pending, elseVars, sndbuf,
                 wrShut, inbound, peerSent, peerState, peerData, histVars>>

(* handleRead: data for messageCallback_, ...                              *)
ReadData ==
  /\ inbound > 0
  /\ inbound' = inbound - 1
  /\ todo' = << "user" >> \o Tail(todo)
  /\ UNCHANGED <<state_, chanVars, soError, downs>>

(* ... an error, on which it calls handleError, ...                        *)
ReadError ==
  /\ inbound = 0 /\ soError
  /\ soError' = FALSE
  /\ todo' = Tail(todo)
  /\ UNCHANGED <<state_, chanVars, inbound, downs>>

(* ... or the end of the stream.                                           *)
ReadEnd ==
  /\ inbound = 0 /\ ~soError
  /\ Close
  /\ UNCHANGED <<inbound, soError>>

HandleRead ==
  /\ todo # << >> /\ Head(todo) = "handleRead"
  /\ ReadData \/ ReadError \/ ReadEnd
  /\ UNCHANGED <<outputBuffer_, pending, elseVars, sndbuf, wrShut, peerSent,
                 peerState, peerData, accepted, ups, epipe>>

(* Mutant: a shutdown that found output to send is forgotten.              *)
ShutdownAfterDrainMutant == UNCHANGED wrShut

(* The shutdown that waited for the output, if there is one.               *)
ShutdownAfterDrain ==
  IF state_ = "kDisconnecting" THEN shutdownInLoop(FALSE) ELSE UNCHANGED wrShut

(* handleWrite: when the output has drained, writing is disabled and a     *)
(* shutdown that was waiting for that goes ahead.                          *)
HandleWrite ==
  /\ todo # << >> /\ Head(todo) = "handleWrite"
  /\ todo' = Tail(todo)
  /\ \/ /\ ~isWriting
        /\ UNCHANGED <<outputBuffer_, chanVars, pending, sndbuf, wrShut>>
     \/ /\ isWriting
        /\ \E n \in WriteResults(Len(outputBuffer_)) :
             LET rest == Unwritten(outputBuffer_, n) IN
             /\ outputBuffer_' = rest
             /\ sndbuf' = sndbuf \o SubSeq(outputBuffer_, 1, n)
             /\ IF n > 0 /\ rest = << >>
                  THEN /\ disableWriting
                       /\ pending' = Append(pending, <<"writeComplete">>)
                       /\ ShutdownAfterDrain
                  ELSE UNCHANGED <<chanVars, pending, wrShut>>
  /\ UNCHANGED <<state_, elseVars, peerVars, histVars>>

(* connectDestroyed's last line.                                           *)
ChannelRemove ==
  /\ todo # << >> /\ Head(todo) = "remove"
  /\ RemoveChannel
  /\ todo' = Tail(todo)
  /\ UNCHANGED <<state_, outputBuffer_, pending, elseVars, sockVars, histVars>>

-----------------------------------------------------------------------------
(* User code in the loop's thread *)

InUser == todo # << >> /\ Head(todo) = "user"

UserReturns ==
  /\ InUser
  /\ todo' = Tail(todo)
  /\ UNCHANGED <<state_, outputBuffer_, chanVars, pending, elseVars, sockVars,
                 histVars>>

(* send, in its three forms: sendInLoop is called directly.                *)
OwnSend(m) ==
  /\ InUser
  /\ state_ = "kConnected"
  /\ passed' = passed \cup {m}
  /\ sendInLoop(Payload(m), pending)
  /\ UNCHANGED <<state_, todo, worker, server, destroyed, wrShut, peerVars,
                 ups, downs>>

OwnSendFile(f) ==
  /\ InUser
  /\ state_ = "kConnected"
  /\ passed' = passed \cup {f}
  /\ sendFileInLoop(f, 0, pending)
  /\ UNCHANGED <<state_, outputBuffer_, chanVars, todo, worker, server,
                 destroyed, wrShut, peerVars, ups, downs>>

OwnShutdown ==
  /\ InUser
  /\ state_ = "kConnected"
  /\ state_' = "kDisconnecting"
  /\ shutdownInLoop(isWriting)
  /\ UNCHANGED <<outputBuffer_, chanVars, pending, todo, elseVars, sndbuf,
                 peerVars, histVars>>

-----------------------------------------------------------------------------
(* Functors queued in the loop, one action for each kind *)

NextFunctor(kind) == Idle /\ pending # << >> /\ Head(pending)[1] = kind

connectEstablished ==
  /\ NextFunctor("connectEstablished")
  /\ state_' = "kConnected"
  /\ enableReading
  /\ ups' = ups + 1
  /\ todo' = << "user" >>
  /\ pending' = Tail(pending)
  /\ UNCHANGED <<outputBuffer_, elseVars, sockVars, accepted, downs, epipe>>

RunSendInLoop ==
  /\ NextFunctor("sendInLoop")
  /\ sendInLoop(Payload(Head(pending)[2]), Tail(pending))
  /\ UNCHANGED <<state_, todo, elseVars, wrShut, peerVars, ups, downs>>

RunSendFileInLoop ==
  /\ NextFunctor("sendFileInLoop")
  /\ sendFileInLoop(Head(pending)[2], Head(pending)[3], Tail(pending))
  /\ UNCHANGED <<state_, outputBuffer_, chanVars, todo, elseVars, wrShut,
                 peerVars, ups, downs>>

RunShutdownInLoop ==
  /\ NextFunctor("shutdownInLoop")
  /\ shutdownInLoop(isWriting)
  /\ pending' = Tail(pending)
  /\ UNCHANGED <<state_, outputBuffer_, chanVars, todo, elseVars, sndbuf,
                 peerVars, histVars>>

(* writeCompleteCallback_ and highWaterMarkCallback_.                      *)
RunUserCallback ==
  /\ NextFunctor("writeComplete") \/ NextFunctor("highWaterMark")
  /\ todo' = << "user" >>
  /\ pending' = Tail(pending)
  /\ UNCHANGED <<state_, outputBuffer_, chanVars, elseVars, sockVars,
                 histVars>>

(* Mutant: the test of state_ is missing.                                  *)
StillUpMutant == TRUE

(* connectDestroyed has to report the connection down itself.              *)
StillUp == state_ = "kConnected"

connectDestroyed ==
  /\ NextFunctor("connectDestroyed")
  /\ \/ /\ StillUp
        /\ state_' = "kDisconnected"
        /\ disableAll
        /\ downs' = downs + 1
        /\ todo' = << "user", "remove" >>
     \/ /\ ~StillUp
        /\ RemoveChannel
        /\ UNCHANGED <<state_, downs, todo>>
  /\ pending' = Tail(pending)
  /\ UNCHANGED <<outputBuffer_, elseVars, sockVars, accepted, ups, epipe>>

-----------------------------------------------------------------------------
(* Worker threads *)

WorkerRest == <<outputBuffer_, chanVars, todo, server, destroyed, sockVars,
                histVars>>

(* send or sendFile: state_ is tested.                                     *)
WorkerSend(w, m) ==
  /\ WorkerSends /\ ~destroyed
  /\ worker[w] = <<"idle">>
  /\ state_ = "kConnected"
  /\ passed' = passed \cup {m}
  /\ worker' = [worker EXCEPT ![w] = <<"send", m>>]
  /\ UNCHANGED <<state_, pending, WorkerRest>>

(* ... and the functor pushed.                                             *)
WorkerQueueSend(w) ==
  /\ worker[w][1] = "send"
  /\ LET m == worker[w][2] IN
       pending' = Append(pending, IF m \in Files
                                    THEN <<"sendFileInLoop", m, 0>>
                                    ELSE <<"sendInLoop", m>>)
  /\ worker' = [worker EXCEPT ![w] = <<"idle">>]
  /\ UNCHANGED <<state_, passed, WorkerRest>>

(* shutdown: state_ is tested, ...                                         *)
WorkerShutdownTest(w) ==
  /\ WorkerShutdown /\ ~destroyed
  /\ worker[w] = <<"idle">>
  /\ state_ = "kConnected"
  /\ worker' = [worker EXCEPT ![w] = <<"shutdown">>]
  /\ UNCHANGED <<state_, pending, passed, WorkerRest>>

(* ... then stored to, whatever it has become, ...                         *)
WorkerShutdownSet(w) ==
  /\ worker[w] = <<"shutdown">>
  /\ state_' = "kDisconnecting"
  /\ worker' = [worker EXCEPT ![w] = <<"shutdownSet">>]
  /\ UNCHANGED <<pending, passed, WorkerRest>>

(* ... and the functor pushed.                                             *)
WorkerQueueShutdown(w) ==
  /\ worker[w] = <<"shutdownSet">>
  /\ pending' = Append(pending, <<"shutdownInLoop">>)
  /\ worker' = [worker EXCEPT ![w] = <<"idle">>]
  /\ UNCHANGED <<state_, passed, WorkerRest>>

-----------------------------------------------------------------------------
(* TcpServer, in the base loop's thread *)

ServerRest == <<state_, outputBuffer_, chanVars, todo, worker, passed,
                destroyed, sockVars, histVars>>

(* removeConnectionInLoop: out of connections_, and connectDestroyed.      *)
RemoveConnectionInLoop ==
  /\ server = "removing"
  /\ server' = "gone"
  /\ pending' = Append(pending, <<"connectDestroyed">>)
  /\ UNCHANGED ServerRest

(* ~TcpServer: connectDestroyed for a connection that is still there.      *)
(* The server's base loop is another thread, so runInLoop queues it.  With *)
(* one loop for both it runs on the spot, in the midst of a callback: that *)
(* is Reactor's subject.                                                   *)
DestroyServer ==
  /\ ServerDestroys
  /\ server = "has"
  /\ server' = "gone"
  /\ pending' = Append(pending, <<"connectDestroyed">>)
  /\ UNCHANGED ServerRest

(* The last shared_ptr goes: ~TcpConnection.                               *)
Destroy ==
  /\ Idle
  /\ server = "gone"
  /\ pending = << >>
  /\ \A w \in Workers : worker[w] = <<"idle">>
  /\ destroyed' = TRUE
  /\ UNCHANGED <<state_, outputBuffer_, chanVars, pending, todo, worker,
                 passed, server, sockVars, histVars>>

-----------------------------------------------------------------------------
(* The kernel and the peer *)

PeerRest == <<state_, outputBuffer_, chanVars, pending, todo, elseVars, wrShut,
              histVars>>

(* The peer reads a byte.                                                  *)
PeerReceives ==
  /\ sndbuf # << >>
  /\ peerData' = Append(peerData, Head(sndbuf))
  /\ sndbuf' = Tail(sndbuf)
  /\ UNCHANGED <<PeerRest, inbound, peerSent, peerState, soError>>

PeerSends ==
  /\ peerState = "open" /\ peerSent < MaxInbound /\ ~destroyed
  /\ peerSent' = peerSent + 1
  /\ inbound' = inbound + 1
  /\ UNCHANGED <<PeerRest, sndbuf, peerState, soError, peerData>>

PeerCloses ==
  /\ peerState = "open" /\ ~destroyed
  /\ peerState' = "fin"
  /\ UNCHANGED <<PeerRest, sndbuf, inbound, peerSent, soError, peerData>>

PeerResets ==
  /\ peerState # "rst" /\ ~destroyed
  /\ peerState' = "rst"
  /\ soError' = TRUE
  /\ sndbuf' = << >>
  /\ UNCHANGED <<PeerRest, inbound, peerSent, peerData>>

(* The connection is over.                                                 *)
Over == destroyed /\ UNCHANGED vars

-----------------------------------------------------------------------------

(* What the loop's thread does without being told to by user code.         *)
LoopStep ==
  \/ HandleEvent \/ HandleClose \/ CloseCallback \/ HandleError
  \/ HandleRead \/ HandleWrite \/ ChannelRemove \/ UserReturns
  \/ connectEstablished \/ RunSendInLoop \/ RunSendFileInLoop
  \/ RunShutdownInLoop \/ RunUserCallback \/ connectDestroyed

OwnCall ==
  \/ \E m \in Messages \ passed : OwnSend(m)
  \/ \E f \in Files \ passed : OwnSendFile(f)
  \/ OwnShutdown

(* A worker goes on with the call it is in.                                *)
WorkerGoesOn(w) ==
  WorkerQueueSend(w) \/ WorkerShutdownSet(w) \/ WorkerQueueShutdown(w)

WorkerCall(w) ==
  \/ \E m \in (Messages \cup Files) \ passed : WorkerSend(w, m)
  \/ WorkerShutdownTest(w)

Next ==
  \/ LoopStep
  \/ OwnCall
  \/ \E w \in Workers : WorkerCall(w) \/ WorkerGoesOn(w)
  \/ RemoveConnectionInLoop \/ DestroyServer \/ Destroy
  \/ PeerReceives \/ PeerSends \/ PeerCloses \/ PeerResets
  \/ Over

Spec == Init /\ [][Next]_vars

(***************************************************************************)
(* Fairness: the loop's thread, the base loop's thread and the workers are *)
(* scheduled, callbacks return, and the peer reads what reaches it; loop() *)
(* polls between two batches of functors, so functors that queue others    *)
(* for ever do not keep an event from being handled.  The peer need not    *)
(* send, close or reset, and no one need call anything.                    *)
(***************************************************************************)
Fairness ==
  /\ WF_vars(LoopStep)
  /\ WF_vars(HandleEvent)
  /\ WF_vars(RemoveConnectionInLoop)
  /\ WF_vars(Destroy)
  /\ WF_vars(PeerReceives)
  /\ \A w \in Workers : WF_vars(WorkerGoesOn(w))

FairSpec == Spec /\ Fairness

-----------------------------------------------------------------------------
(* Properties *)

(* TcpConnection::StateE.                                                  *)
States == {"kConnecting", "kConnected", "kDisconnecting", "kDisconnected"}

Bytes == (Messages \cup Files) \X Nat

(* What may be queued in the loop.  A file is resumed within its length.   *)
Functor ==
  {<<k>> : k \in {"connectEstablished", "connectDestroyed", "shutdownInLoop",
                  "writeComplete", "highWaterMark"}}
  \cup {<<"sendInLoop", m>> : m \in Messages}
  \cup UNION {{<<"sendFileInLoop", f, i>> : i \in 0 .. FileLen[f]} :
                 f \in Files}

(* What the loop's thread may have to do, and where a worker may be.       *)
Chore == {"user", "handleClose", "handleError", "handleRead", "handleWrite",
          "closeCallback", "remove"}

Point ==
  {<<"idle">>, <<"shutdown">>, <<"shutdownSet">>}
    \cup {<<"send", m>> : m \in Messages \cup Files}

FlagsOK ==
  /\ destroyed \in BOOLEAN
  /\ wrShut \in BOOLEAN
  /\ soError \in BOOLEAN
  /\ epipe \in BOOLEAN

(* Type correctness.                                                       *)
ConnectionTypeOK ==
  /\ state_ \in States
  /\ outputBuffer_ \in Seq(Bytes)
  /\ sndbuf \in Seq(Bytes)
  /\ peerData \in Seq(Bytes)
  /\ accepted \in Seq(Bytes)
  /\ events_ \subseteq {"read", "write"}
  /\ index_ \in {"kNew", "kAdded", "kDeleted"}
  /\ pending \in Seq(Functor)
  /\ todo \in Seq(Chore)
  /\ worker \in [Workers -> Point]
  /\ passed \subseteq Messages \cup Files
  /\ server \in {"has", "removing", "gone"}
  /\ FlagsOK
  /\ inbound \in Nat
  /\ peerSent \in Nat
  /\ ups \in Nat
  /\ downs \in Nat
  /\ peerState \in {"open", "fin", "rst"}

(***************************************************************************)
(* The byte stream: what the peer got, what the kernel holds and what      *)
(* outputBuffer_ holds are, in this order, exactly the bytes that were     *)
(* accepted for sending; a reset may cut the stream but never leaves a     *)
(* gap.                                                                    *)
(***************************************************************************)
StreamIntegrity ==
  /\ peerData = SubSeq(accepted, 1, Len(peerData))
  /\ peerState # "rst" => peerData \o sndbuf \o outputBuffer_ = accepted

(***************************************************************************)
(* The connection keeps the promises of module Connection: connectEstab-   *)
(* lished and connectDestroyed bracket its life, and of what sendInLoop    *)
(* and sendFileInLoop accepted the kernel has all but outputBuffer_.       *)
(***************************************************************************)
Promise == INSTANCE Connection WITH
  status <- IF destroyed THEN "gone" ELSE IF downs > 0 THEN "down"
            ELSE IF ups > 0 THEN "up" ELSE "connecting",
  sent <- Len(accepted) - Len(outputBuffer_),
  delivered <- peerData,
  fin <- wrShut

ImplementsConnection == Promise!Spec

(* What the peer gets of a message or a file is the beginning of it, each  *)
(* byte once and in order, though other output may come between the pieces *)
(* of a file.                                                              *)
EachInOrder ==
  \A k \in DOMAIN peerData :
    LET m == peerData[k][1]
        i == peerData[k][2]
    IN  /\ i \in 1 .. Len(Payload(m))
        /\ \A j \in DOMAIN peerData : peerData[j] = <<m, i>> => j = k
        /\ i > 1 => \E j \in 1 .. k - 1 : peerData[j] = <<m, i - 1>>

(* The calls of highWaterMarkCallback_ that are queued.                    *)
Reports(q) == Cardinality({k \in DOMAIN q : q[k] = <<"highWaterMark">>})

(* highWaterMarkCallback_ is queued once each time the output reaches the  *)
(* mark from below, and never otherwise.                                   *)
HighWaterReported ==
  LET crossing == /\ Len(outputBuffer_) < highWaterMark_
                  /\ Len(outputBuffer_') >= highWaterMark_
      queued == Reports(pending') - Reports(pending)
  IN  IF crossing THEN queued = 1 ELSE queued <= 0

HighWaterOnce == [][HighWaterReported]_vars

(* While the poller watches the channel, it watches for writability        *)
(* exactly if there is output: no output is forgotten, no busy loop.       *)
WritingIffBuffered ==
  index_ = "kAdded" => (isWriting <=> outputBuffer_ # << >>)

(* shutdown() is graceful: once SHUT_WR is called nothing is left behind.  *)
FinAfterOutput == wrShut => outputBuffer_ = << >>

(* connectionCallback_ reports a connection up once, then down at most     *)
(* once, and down if its state is kDisconnected.  A connection is          *)
(* destroyed unreported only if ~TcpServer found it kDisconnecting.        *)
UpThenDown ==
  /\ downs <= ups /\ ups <= 1
  /\ (state_ = "kDisconnected" => downs = 1)
  /\ (destroyed => downs = 1 \/ state_ = "kDisconnecting")

(* The poller holds no pointer to the channel of a destroyed connection,   *)
(* where connectDestroyed is a functor of its own, the base loop being     *)
(* another thread.                                                         *)
NoDanglingChannel == destroyed => index_ = "kNew"

(* Nothing is written once shutdown(SHUT_WR) has been called.              *)
NoWriteAfterShutdown == ~epipe

(* Is a file still to be sent in this connection's loop?                   *)
FilePending == \E k \in DOMAIN pending : pending[k][1] = "sendFileInLoop"

(* When the peer closes or resets, the connection is destroyed, unless a   *)
(* sendFileInLoop that queues itself again keeps it alive.                 *)
ClosedIsDestroyed == (peerState # "open") ~> (destroyed \/ FilePending)

(* shutdown() comes to its SHUT_WR, unless the connection is reported down *)
(* before.                                                                 *)
ShutdownCompletes ==
  (state_ = "kDisconnecting") ~> (wrShut \/ downs > 0)

(* A file given to sendFile reaches the peer in full, unless the           *)
(* connection is shut down or lost before.                                 *)
FileArrives ==
  \A f \in Files :
    (f \in passed)
      ~> \/ \A i \in 1 .. FileLen[f] :
              \E k \in DOMAIN peerData : peerData[k] = <<f, i>>
         \/ state_ # "kConnected"
         \/ peerState # "open"

(* Once disconnected, no file is sent any more, as the first comment of    *)
(* sendFileInLoop has it.  But the code tests for kDisconnecting: if       *)
(* outputBuffer_ is not empty the functor queues itself again and again,   *)
(* and with its shared_ptr keeps the connection alive.                     *)
SendFileGivesUp ==
  (state_ = "kDisconnected") ~> ~FilePending

(* Buffered output drains, unless the connection is reported down before.  *)
OutputDrains ==
  (outputBuffer_ # << >>) ~> (outputBuffer_ = << >> \/ downs > 0)
=============================================================================
