------------------------------ MODULE TcpServer ------------------------------
(***************************************************************************)
(* A TcpServer (src/TcpServer.cc) with its Acceptor and its                *)
(* EventLoopThreadPool: start, accept, the hand-over of connections to the *)
(* loops of the pool, their removal and the destructor.                    *)
(*                                                                         *)
(* Loop Base is the base loop, loops 1, 2, ... are those of the pool.  A   *)
(* loop is a queue of functors (module TaskQueue, which EventLoop          *)
(* implements) that its thread runs in order; a handler of the base loop   *)
(* or of a connection is one step, since all that other threads see of it  *)
(* is the push at its end.  Of a connection only what the server depends   *)
(* on appears; module TcpConnection has the rest.                          *)
(***************************************************************************)
EXTENDS Integers, Sequences, FiniteSets

CONSTANTS
  Threads,          \* threads other than the base loop's that may call start
  MaxThreads,       \* bound on setThreadNum
  MaxConns,         \* bound on the clients that connect
  MaxFds            \* connections the process has file descriptors for

ASSUME ServerAssumption ==
  /\ MaxThreads \in Nat
  /\ MaxConns \in Nat
  /\ MaxFds \in Nat

Base == 0
Loops == 0 .. MaxThreads
Conns == 1 .. MaxConns

(* start() may be called in the base loop's thread, or in another one.     *)
Main == "main"
Callers == Threads \cup {Main}

VARIABLES
  base,             \* the base loop: "user" (not in loop() yet), "looping",
                    \* "returned"
  loopState,        \* the loops of the pool
  queue,            \* the functors queued in each loop
  numThreads_,
  started_,
  caller,           \* threads inside start(), past the test of started_
  loops_,           \* how many loops the pool has
  next_,
  listenning_,
  waiting,          \* clients in the kernel's queue of the listening socket
  arrived,          \* clients that connected so far
  nextConnId_,
  connections_,
  ioLoop,           \* the loop of each connection
  state_,           \* the state of each connection
  destroyRuns,      \* history: how often connectDestroyed ran
  server,           \* "up", then the steps of ~TcpServer, then "gone"
  joined,           \* threads of the pool that ~TcpServer has joined
  lateCall          \* history: was the server called after it was gone?

poolVars == <<numThreads_, started_, caller, loops_>>
acceptVars == <<listenning_, waiting, arrived>>
connVars == <<nextConnId_, next_, ioLoop>>
lifeVars == <<connections_, state_, destroyRuns>>
dtorVars == <<server, joined>>
vars == <<base, loopState, queue, poolVars, acceptVars, connVars, lifeVars,
          dtorVars, lateCall>>

Init ==
  /\ base = "user"
  /\ loopState = [l \in 1 .. MaxThreads |-> "none"]
  /\ queue = [l \in Loops |-> << >>]
  /\ numThreads_ = 0
  /\ started_ = FALSE
  /\ caller = {}
  /\ loops_ = 0
  /\ next_ = 0
  /\ listenning_ = FALSE
  /\ waiting = 0
  /\ arrived = 0
  /\ nextConnId_ = 1
  /\ connections_ = {}
  /\ ioLoop = [c \in Conns |-> Base]
  /\ state_ = [c \in Conns |-> "none"]
  /\ destroyRuns = [c \in Conns |-> 0]
  /\ server = "up"
  /\ joined = 0
  /\ lateCall = FALSE

-----------------------------------------------------------------------------
(* The loops *)

(* May loop l run a functor or handle an event now?  The base loop's       *)
(* thread may be inside start(), called in one of its callbacks.           *)
Runs(l) ==
  IF l = Base THEN base = "looping" /\ Main \notin caller
              ELSE loopState[l] \in {"looping", "quitting"}

NextFunctor(l, kind) ==
  Runs(l) /\ queue[l] # << >> /\ Head(queue[l])[1] = kind

Push(q, l, f) == [q EXCEPT ![l] = Append(@, f)]
Pop(q, l) == [q EXCEPT ![l] = Tail(@)]

(* The thread of a pool loop enters loop().                                *)
LoopEnters(l) ==
  /\ loopState[l] = "starting"
  /\ loopState' = [loopState EXCEPT ![l] = "looping"]
  /\ UNCHANGED <<base, queue, poolVars, acceptVars, connVars, lifeVars,
                 dtorVars, lateCall>>

(* A loop that was told to quit returns at the end of a batch.  What the   *)
(* base loop's thread queued since its last swap is never run.             *)
LoopExits(l) ==
  /\ loopState[l] = "quitting"
  /\ loopState' = [loopState EXCEPT ![l] = "exited"]
  /\ UNCHANGED <<base, queue, poolVars, acceptVars, connVars, lifeVars,
                 dtorVars, lateCall>>

(* The main program enters the base loop.                                  *)
BaseEnters ==
  /\ base = "user" /\ Main \notin caller
  /\ base' = "looping"
  /\ UNCHANGED <<loopState, queue, poolVars, acceptVars, connVars, lifeVars,
                 dtorVars, lateCall>>

(* The base loop returns after a quit().  What other threads queued since  *)
(* its last swap is dropped, but not what its own events queued: the batch *)
(* of the same iteration runs that.                                        *)
BaseReturns ==
  /\ Runs(Base)
  /\ \A k \in DOMAIN queue[Base] : queue[Base][k][1] # "connectDestroyed"
  /\ base' = "returned"
  /\ UNCHANGED <<loopState, queue, poolVars, acceptVars, connVars, lifeVars,
                 dtorVars, lateCall>>

-----------------------------------------------------------------------------
(* setThreadNum and start *)

SetThreadNum(n) ==
  /\ server = "up" /\ ~started_
  /\ numThreads_' = n
  /\ UNCHANGED <<base, loopState, queue, started_, caller, loops_, acceptVars,
                 connVars, lifeVars, dtorVars, lateCall>>

(* start: started_.exchange(true).  Whoever finds it set returns.          *)
Start(t) ==
  /\ server = "up" /\ t \notin caller
  /\ t = Main => base # "returned"
  /\ started_' = TRUE
  /\ caller' = IF started_ THEN caller ELSE caller \cup {t}
  /\ UNCHANGED <<base, loopState, queue, numThreads_, loops_, acceptVars,
                 connVars, lifeVars, dtorVars, lateCall>>

(* Mutant: one thread too many.                                            *)
LoopWantedMutant == loops_ <= numThreads_

(* The test of the loop in EventLoopThreadPool::start.                     *)
LoopWanted == loops_ < numThreads_

(* EventLoopThreadPool::start: one more EventLoopThread and its startLoop, *)
(* which returns when the thread has published its loop.                   *)
StartLoop(t) ==
  /\ t \in caller
  /\ LoopWanted
  /\ loops_' = loops_ + 1
  /\ loopState' = [loopState EXCEPT ![loops_ + 1] = "starting"]
  /\ UNCHANGED <<base, queue, numThreads_, started_, caller, acceptVars,
                 connVars, lifeVars, dtorVars, lateCall>>

(* Mutant: listen is asked for before the pool is complete.                *)
PoolCompleteMutant == TRUE

PoolComplete == loops_ = numThreads_

(* Mutant: listen is only called if start() is in the base loop's thread.  *)
ListenInLoopMutant(t) ==
  listenning_' = (listenning_ \/ t = Main) /\ UNCHANGED queue

(* runInLoop of Acceptor::listen, called by t.                             *)
ListenInLoop(t) ==
  IF t = Main THEN listenning_' = TRUE /\ UNCHANGED queue
              ELSE /\ queue' = Push(queue, Base, <<"listen">>)
                   /\ UNCHANGED listenning_

StartListen(t) ==
  /\ t \in caller
  /\ PoolComplete
  /\ caller' = caller \ {t}
  /\ ListenInLoop(t)
  /\ UNCHANGED <<base, loopState, numThreads_, started_, loops_, waiting,
                 arrived, connVars, lifeVars, dtorVars, lateCall>>

RunListen ==
  /\ NextFunctor(Base, "listen")
  /\ listenning_' = TRUE
  /\ queue' = Pop(queue, Base)
  /\ UNCHANGED <<base, loopState, poolVars, waiting, arrived, connVars,
                 lifeVars, dtorVars, lateCall>>

-----------------------------------------------------------------------------
(* Accepting *)

(* A client connects; the kernel accepts it into the listening queue.      *)
ClientConnects ==
  /\ listenning_ /\ server # "gone"
  /\ arrived < MaxConns
  /\ waiting' = waiting + 1
  /\ arrived' = arrived + 1
  /\ UNCHANGED <<base, loopState, queue, poolVars, listenning_, connVars,
                 lifeVars, dtorVars, lateCall>>

(* A connection's socket is open as long as something holds a pointer.     *)
Held(c) ==
  c \in connections_
    \/ \E l \in Loops : \E k \in DOMAIN queue[l] :
         Len(queue[l][k]) = 2 /\ queue[l][k][2] = c

FdsLeft == Cardinality({c \in Conns : Held(c)}) < MaxFds

getNextLoop == IF loops_ = 0 THEN Base ELSE next_ + 1

(* Mutant: connectEstablished is queued in the wrong loop.                 *)
EstablishedInMutant == Base

(* The loop in which connectEstablished is to run.                         *)
EstablishedIn == getNextLoop

(* TcpServer::newConnection, with the round robin of getNextLoop.  In the  *)
(* base loop connectEstablished runs at once.                              *)
newConnection(c) ==
  /\ ioLoop' = [ioLoop EXCEPT ![c] = getNextLoop]
  /\ next_' = IF loops_ = 0 THEN next_ ELSE (next_ + 1) % loops_
  /\ nextConnId_' = nextConnId_ + 1
  /\ connections_' = connections_ \cup {c}
  /\ IF getNextLoop = Base
       THEN /\ state_' = [state_ EXCEPT ![c] = "kConnected"]
            /\ UNCHANGED queue
       ELSE /\ state_' = [state_ EXCEPT ![c] = "kConnecting"]
            /\ queue' = Push(queue, EstablishedIn,
                            <<"connectEstablished", c>>)

(* Acceptor::handleRead.  Out of file descriptors accept fails, and the    *)
(* client keeps waiting; any other failure is the end of a client that has *)
(* given up.                                                               *)
HandleRead ==
  /\ Runs(Base)
  /\ listenning_ /\ waiting > 0
  /\ \/ /\ FdsLeft
        /\ waiting' = waiting - 1
        /\ newConnection(nextConnId_)
     \/ /\ waiting' = IF FdsLeft THEN waiting - 1 ELSE waiting
        /\ UNCHANGED <<queue, connVars, connections_, state_>>
  /\ UNCHANGED <<base, loopState, poolVars, listenning_, arrived, destroyRuns,
                 dtorVars, lateCall>>

-----------------------------------------------------------------------------
(* The life of a connection, as far as the server takes part in it *)

RunConnectEstablished(l) ==
  /\ NextFunctor(l, "connectEstablished")
  /\ state_' = [state_ EXCEPT ![Head(queue[l])[2]] = "kConnected"]
  /\ queue' = Pop(queue, l)
  /\ UNCHANGED <<base, loopState, poolVars, acceptVars, connVars, connections_,
                 destroyRuns, dtorVars, lateCall>>

(* Mutant: the connection stays in connections_.                           *)
removeConnectionInLoopMutant(c, q) ==
  /\ queue' = Push(q, ioLoop[c], <<"connectDestroyed", c>>)
  /\ UNCHANGED connections_

(* TcpServer::removeConnectionInLoop, the queues being q.                  *)
removeConnectionInLoop(c, q) ==
  /\ connections_' = connections_ \ {c}
  /\ queue' = Push(q, ioLoop[c], <<"connectDestroyed", c>>)

(* Mutant: the connection does not tell the server.                        *)
removeConnectionMutant(c) == UNCHANGED <<connections_, queue, lateCall>>

(* TcpServer::removeConnection, called in the connection's loop.           *)
removeConnection(c) ==
  /\ IF ioLoop[c] = Base
       THEN removeConnectionInLoop(c, queue)
       ELSE /\ queue' = Push(queue, Base, <<"removeConnectionInLoop", c>>)
            /\ UNCHANGED connections_
  /\ lateCall' = (lateCall \/ server = "gone")

(* TcpConnection::handleClose: the peer is gone.                           *)
HandleClose(c) ==
  /\ Runs(ioLoop[c])
  /\ state_[c] = "kConnected"
  /\ state_' = [state_ EXCEPT ![c] = "kDisconnected"]
  /\ removeConnection(c)
  /\ UNCHANGED <<base, loopState, poolVars, acceptVars, connVars, destroyRuns,
                 dtorVars>>

RunRemoveConnectionInLoop ==
  /\ NextFunctor(Base, "removeConnectionInLoop")
  /\ removeConnectionInLoop(Head(queue[Base])[2], Pop(queue, Base))
  /\ lateCall' = (lateCall \/ server = "gone")
  /\ UNCHANGED <<base, loopState, poolVars, acceptVars, connVars, state_,
                 destroyRuns, dtorVars>>

(* TcpConnection::connectDestroyed.                                        *)
connectDestroyed(c) ==
  /\ destroyRuns' = [destroyRuns EXCEPT ![c] = @ + 1]
  /\ state_' = [state_ EXCEPT ![c] = IF @ = "kConnected" THEN "kDisconnected"
                                                         ELSE @]

RunConnectDestroyed(l) ==
  /\ NextFunctor(l, "connectDestroyed")
  /\ connectDestroyed(Head(queue[l])[2])
  /\ queue' = Pop(queue, l)
  /\ UNCHANGED <<base, loopState, poolVars, acceptVars, connVars, connections_,
                 dtorVars, lateCall>>

-----------------------------------------------------------------------------
(* ~TcpServer, in the base loop's thread after loop() has returned *)

DestroyBegins ==
  /\ server = "up"
  /\ base = "returned" /\ caller = {}
  /\ server' = "body"
  /\ UNCHANGED <<base, loopState, queue, poolVars, acceptVars, connVars,
                 lifeVars, joined, lateCall>>

(* The destructor's loop over connections_: runInLoop of connectDestroyed, *)
(* on the spot for a connection of the base loop.                          *)
DestroyConnection(c) ==
  /\ server = "body"
  /\ c \in connections_
  /\ connections_' = connections_ \ {c}
  /\ IF ioLoop[c] = Base
       THEN connectDestroyed(c) /\ UNCHANGED queue
       ELSE /\ queue' = Push(queue, ioLoop[c], <<"connectDestroyed", c>>)
            /\ UNCHANGED <<state_, destroyRuns>>
  /\ UNCHANGED <<base, loopState, poolVars, acceptVars, connVars, dtorVars,
                 lateCall>>

(* The members go: threadPool_ with its threads, one after the other.      *)
DestroyPool ==
  /\ server = "body" /\ connections_ = {}
  /\ server' = "pool"
  /\ UNCHANGED <<base, loopState, queue, poolVars, acceptVars, connVars,
                 lifeVars, joined, lateCall>>

(* Mutant: the loop is not told to quit.                                   *)
ToldMutant(l) == loopState[l]

(* Loop l, told to quit.  That is lost if it has yet to enter loop().      *)
Told(l) == IF loopState[l] = "looping" THEN "quitting" ELSE loopState[l]

(* ~EventLoopThread: quit() ...                                            *)
QuitLoop ==
  /\ server = "pool" /\ joined < loops_
  /\ server' = "join"
  /\ loopState' = [loopState EXCEPT ![joined + 1] = Told(joined + 1)]
  /\ UNCHANGED <<base, queue, poolVars, acceptVars, connVars, lifeVars, joined,
                 lateCall>>

(* Mutant: the thread is not joined.                                       *)
ThreadEndedMutant(l) == TRUE

ThreadEnded(l) == loopState[l] = "exited"

(* ... and thread_.join().                                                 *)
JoinLoop ==
  /\ server = "join"
  /\ ThreadEnded(joined + 1)
  /\ server' = "pool"
  /\ joined' = joined + 1
  /\ UNCHANGED <<base, loopState, queue, poolVars, acceptVars, connVars,
                 lifeVars, lateCall>>

(* ~Acceptor, and the server is gone.                                      *)
DestroyAcceptor ==
  /\ server = "pool" /\ joined = loops_
  /\ server' = "gone"
  /\ listenning_' = FALSE
  /\ UNCHANGED <<base, loopState, queue, poolVars, waiting, arrived, connVars,
                 lifeVars, joined, lateCall>>

-----------------------------------------------------------------------------

(* What loop l's thread does of itself.                                    *)
LoopStep(l) == RunConnectEstablished(l) \/ RunConnectDestroyed(l)

BaseStep ==
  LoopStep(Base) \/ RunListen \/ RunRemoveConnectionInLoop \/ HandleRead

StartStep(t) == StartLoop(t) \/ StartListen(t)

DestructorStep ==
  \/ \E c \in Conns : DestroyConnection(c)
  \/ DestroyPool \/ QuitLoop \/ JoinLoop \/ DestroyAcceptor

Next ==
  \/ BaseStep
  \/ \E l \in 1 .. MaxThreads : LoopStep(l) \/ LoopEnters(l) \/ LoopExits(l)
  \/ BaseEnters \/ BaseReturns
  \/ \E n \in 0 .. MaxThreads : SetThreadNum(n)
  \/ \E t \in Callers : Start(t) \/ StartStep(t)
  \/ ClientConnects
  \/ \E c \in Conns : HandleClose(c)
  \/ DestroyBegins \/ DestructorStep

Spec == Init /\ [][Next]_vars

(***************************************************************************)
(* Fairness: every thread is scheduled.  No client need connect or close,  *)
(* and no one need call start, enter or leave the base loop or destroy the *)
(* server.                                                                 *)
(***************************************************************************)
Fairness ==
  /\ WF_vars(BaseStep)
  /\ \A l \in 1 .. MaxThreads :
       WF_vars(LoopStep(l)) /\ WF_vars(LoopEnters(l)) /\ WF_vars(LoopExits(l))
  /\ \A t \in Callers : WF_vars(StartStep(t))
  /\ WF_vars(DestructorStep)

FairSpec == Spec /\ Fairness

-----------------------------------------------------------------------------
(* Properties *)

Accepted == 1 .. nextConnId_ - 1

(* What may be queued in a loop.                                           *)
Functor ==
  {<<"listen">>} \cup
    {"connectEstablished", "connectDestroyed", "removeConnectionInLoop"}
       \X Conns

FlagsOK ==
  /\ started_ \in BOOLEAN
  /\ listenning_ \in BOOLEAN
  /\ lateCall \in BOOLEAN

(* Type correctness.                                                       *)
ServerTypeOK ==
  /\ base \in {"user", "looping", "returned"}
  /\ loopState \in [1 .. MaxThreads ->
                      {"none", "starting", "looping", "quitting", "exited"}]
  /\ queue \in [Loops -> Seq(Functor)]
  /\ numThreads_ \in 0 .. MaxThreads
  /\ caller \subseteq Callers
  /\ loops_ \in 0 .. MaxThreads
  /\ next_ \in 0 .. MaxThreads
  /\ waiting \in 0 .. MaxConns
  /\ arrived \in 0 .. MaxConns
  /\ nextConnId_ \in 1 .. MaxConns + 1
  /\ connections_ \subseteq Conns
  /\ ioLoop \in [Conns -> Loops]
  /\ state_ \in [Conns -> {"none", "kConnecting", "kConnected",
                           "kDisconnected"}]
  /\ destroyRuns \in [Conns -> Nat]
  /\ server \in {"up", "body", "pool", "join", "gone"}
  /\ joined \in 0 .. MaxThreads
  /\ FlagsOK

(* The connections go round the whole pool, whatever threads call start()  *)
(* and however early the first client comes.                               *)
RoundRobin ==
  \A c \in Accepted :
    ioLoop[c] = IF numThreads_ = 0 THEN Base ELSE 1 + ((c - 1) % numThreads_)

(* Every connection has exactly one connectDestroyed: it is yet to be      *)
(* asked for (the connection is in connections_), queued in the            *)
(* connection's own loop, or done.  This is so although a close by the     *)
(* peer, on its way through two loops, and ~TcpServer both ask for it.     *)
OneDestroy ==
  \A c \in Accepted :
    destroyRuns[c]
      + Cardinality({k \in DOMAIN queue[ioLoop[c]] :
                       queue[ioLoop[c]][k] = <<"connectDestroyed", c>>})
      + (IF c \in connections_ THEN 1 ELSE 0) = 1

(* connectDestroyed never overtakes connectEstablished.                    *)
EstablishedFirst ==
  \A c \in Accepted : destroyRuns[c] > 0 => state_[c] = "kDisconnected"

(* No loop calls removeConnection on a server that is gone: the raw        *)
(* pointer in closeCallback_ is safe because the pool is joined first.     *)
NoCallOnDeadServer == ~lateCall

(* start() in any thread makes the server listen, once the base loop runs. *)
StartListens ==
  (started_ /\ base = "looping") ~> (listenning_ \/ base = "returned")

(* A connection that was closed comes to its connectDestroyed, unless the  *)
(* base loop is left before.                                               *)
ClosedIsTornDown ==
  \A c \in Conns :
    (state_[c] = "kDisconnected") ~> (destroyRuns[c] = 1 \/ base = "returned")

(* A waiting client is accepted, unless the connections that are up hold   *)
(* all the file descriptors: what is closed gives its descriptor back.     *)
ClientsAreServed ==
  (waiting > 0 /\ base = "looping") ~>
    \/ waiting = 0
    \/ base = "returned"
    \/ Cardinality({c \in Accepted : state_[c] # "kDisconnected"}) = MaxFds

(* ~TcpServer returns, if the loops of the pool are in loop() by then.     *)
ServerDestructorReturns ==
  (server = "body" /\ \A l \in 1 .. loops_ : loopState[l] = "looping")
    ~> (server = "gone")

(* When the server is gone, connectDestroyed has run for every connection. *)
AllDestroyed == server = "gone" => \A c \in Accepted : destroyRuns[c] = 1
=============================================================================
