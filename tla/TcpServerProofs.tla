--------------------------- MODULE TcpServerProofs ---------------------------
(***************************************************************************)
(* Proofs about TcpServer, for any number of loops, connections and        *)
(* threads that call start(): the connections go round the pool, each is   *)
(* set up before it is torn down and torn down once, and no loop calls a   *)
(* server that is gone.                                                    *)
(***************************************************************************)
EXTENDS TcpServer, QueueFacts

-----------------------------------------------------------------------------
(* Division *)

(* A number has one quotient and one remainder.                            *)
LEMMA ModUnique ==
  ASSUME NEW n \in Nat \ {0}, NEW a \in Int, NEW b \in Int,
         NEW r \in 0 .. n - 1, NEW s \in 0 .. n - 1, n * a + r = n * b + s
  PROVE  a = b /\ r = s
<1>1. n * (a - b) = s - r OBVIOUS
<1>2. CASE a - b >= 1
  <2>1. n * (a - b) >= n BY <1>2
  <2> QED BY <1>1, <2>1
<1>3. CASE a - b <= -1
  <2>1. n * (a - b) <= -n BY <1>3
  <2> QED BY <1>1, <2>1
<1> QED BY <1>1, <1>2, <1>3

(* The quotient and the remainder of k.                                    *)
LEMMA DivMod ==
  ASSUME NEW n \in Nat \ {0}, NEW k \in Nat
  PROVE  /\ k % n \in 0 .. n - 1 /\ k \div n \in Int
         /\ k = n * (k \div n) + (k % n)
OBVIOUS

(* The counter of a round robin: next_ = (next_ + 1) % loops_.size()       *)
(* follows the number of calls.                                            *)
LEMMA ModNext ==
  ASSUME NEW n \in Nat \ {0}, NEW k \in Nat
  PROVE  ((k % n) + 1) % n = (k + 1) % n
<1> DEFINE q == k \div n        r == k % n
           p == (k + 1) \div n  s == (k + 1) % n
<1>1. r \in 0 .. n - 1 /\ k = n * q + r /\ q \in Int BY DivMod
<1>2. s \in 0 .. n - 1 /\ k + 1 = n * p + s /\ p \in Int BY DivMod
<1>3. (r + 1) % n = IF r + 1 < n THEN r + 1 ELSE 0 BY <1>1
<1> HIDE DEF q, r, p, s
<1>4. CASE r + 1 < n
  <2>1. n * q + (r + 1) = n * p + s BY <1>1, <1>2
  <2>2. r + 1 \in 0 .. n - 1 BY <1>1, <1>4
  <2>3. r + 1 = s BY <1>1, <1>2, <2>1, <2>2, ModUnique
  <2> QED BY <1>3, <1>4, <2>3 DEF r, s
<1>5. CASE r + 1 = n
  <2>1. n * (q + 1) + 0 = n * p + s BY <1>1, <1>2, <1>5
  <2>2. 0 \in 0 .. n - 1 /\ q + 1 \in Int BY <1>1
  <2>3. 0 = s BY <1>2, <2>1, <2>2, ModUnique
  <2> QED BY <1>1, <1>3, <1>5, <2>3 DEF r, s
<1> QED BY <1>1, <1>4, <1>5

-----------------------------------------------------------------------------
(* The queues *)

(* A functor is added at the end of one queue.                             *)
LEMMA PushType ==
  ASSUME NEW q \in [Loops -> Seq(Functor)], NEW l \in Loops, NEW f \in Functor
  PROVE  /\ Push(q, l, f) \in [Loops -> Seq(Functor)]
         /\ Push(q, l, f)[l] = Append(q[l], f)
         /\ \A i \in Loops \ {l} : Push(q, l, f)[i] = q[i]
BY DEF Push

(* The functor at the head of one is taken off.                            *)
LEMMA PopType ==
  ASSUME NEW q \in [Loops -> Seq(Functor)], NEW l \in Loops, q[l] # << >>
  PROVE  /\ Pop(q, l) \in [Loops -> Seq(Functor)]
         /\ Pop(q, l)[l] = Tail(q[l])
         /\ \A i \in Loops \ {l} : Pop(q, l)[i] = q[i]
BY DEF Pop

(* The kinds of functors.                                                  *)
LEMMA FunctorKinds ==
  /\ <<"listen">> \in Functor
  /\ \A c \in Conns : /\ <<"connectEstablished", c>> \in Functor
                      /\ <<"connectDestroyed", c>> \in Functor
                      /\ <<"removeConnectionInLoop", c>> \in Functor
BY DEF Functor

(* The functor a loop runs next.                                           *)
LEMMA HeadFunctor ==
  ASSUME ServerTypeOK, NEW l \in Loops, NEW kind, NextFunctor(l, kind)
  PROVE  /\ queue[l] \in Seq(Functor) /\ queue[l] # << >>
         /\ kind = "listen" => Head(queue[l]) = <<"listen">>
         /\ kind # "listen" => /\ Head(queue[l])[2] \in Conns
                               /\ Head(queue[l]) = <<kind, Head(queue[l])[2]>>
<1>1. /\ queue[l] \in Seq(Functor) /\ queue[l] # << >>
      /\ Head(queue[l])[1] = kind
  BY DEF NextFunctor, ServerTypeOK
<1>2. Head(queue[l]) \in Functor BY <1>1
<1> QED BY <1>1, <1>2 DEF Functor

-----------------------------------------------------------------------------
(***************************************************************************)
(* The pool and the round robin.  Whoever calls start(), only one thread   *)
(* gets past the test of started_, and listening is asked for only when    *)
(* the pool is complete; so the first client finds all of it.              *)
(***************************************************************************)
Asked ==
  \/ listenning_ \/ nextConnId_ > 1
  \/ Some(queue[Base], {<<"listen">>})

PoolInv ==
  /\ loops_ <= numThreads_
  /\ ~started_ => caller = {} /\ loops_ = 0
  /\ \A t, u \in caller : t = u
  /\ Asked => started_ /\ caller = {} /\ PoolComplete
  /\ server # "up" => caller = {} /\ base = "returned"

(* A connection is made for a client that has arrived.                     *)
ArrivalInv == (nextConnId_ - 1) + waiting <= arrived

(* next_ follows the connections.                                          *)
Turn(k) == IF numThreads_ = 0 THEN 0 ELSE k % numThreads_

RobinInv ==
  /\ next_ = Turn(nextConnId_ - 1)
  /\ RoundRobin

(* The destructor joins the loops of the pool one after the other.         *)
DtorInv ==
  /\ joined <= loops_
  /\ server = "join" => joined < loops_
  /\ server = "gone" => joined = loops_
  /\ \A l \in 1 .. MaxThreads : /\ l > loops_ => loopState[l] = "none"
                                /\ l <= joined => loopState[l] = "exited"

PlainInv == ServerTypeOK /\ PoolInv /\ ArrivalInv /\ RobinInv /\ DtorInv

(* A client is accepted: its connection has a number, and a loop that is   *)
(* the next in turn.                                                       *)
LEMMA NewConnection ==
  ASSUME PlainInv, listenning_, waiting > 0
  PROVE  /\ nextConnId_ \in Conns
         /\ loops_ = numThreads_
         /\ getNextLoop \in Loops
         /\ getNextLoop = IF numThreads_ = 0 THEN Base
                          ELSE 1 + ((nextConnId_ - 1) % numThreads_)
<1> USE DEF PlainInv, ServerTypeOK
<1>1. nextConnId_ \in Conns
  BY ServerAssumption DEF ArrivalInv, Conns
<1>2. loops_ = numThreads_ BY DEF PoolInv, Asked, PoolComplete
<1>3. CASE numThreads_ = 0
  BY <1>1, <1>2, <1>3, ServerAssumption DEF getNextLoop, Loops, Base
<1>4. CASE numThreads_ # 0
  <2>1. numThreads_ \in Nat \ {0} /\ nextConnId_ - 1 \in Nat
    BY <1>1, <1>4, ServerAssumption DEF Conns
  <2>2. (nextConnId_ - 1) % numThreads_ \in 0 .. numThreads_ - 1
    BY <2>1, DivMod
  <2>3. next_ = (nextConnId_ - 1) % numThreads_
    BY <1>4 DEF RobinInv, Turn
  <2>4. getNextLoop = 1 + ((nextConnId_ - 1) % numThreads_)
    BY <1>2, <1>4, <2>2, <2>3 DEF getNextLoop
  <2>5. getNextLoop \in Loops
    BY <2>1, <2>2, <2>4, ServerAssumption DEF Loops
  <2> QED BY <1>1, <1>2, <1>4, <2>4, <2>5
<1> QED BY <1>3, <1>4

(* The initial state.                                                      *)
LEMMA InitPlain == Init => PlainInv
<1> SUFFICES ASSUME Init PROVE PlainInv
  OBVIOUS
<1>0. MaxThreads \in Nat /\ MaxConns \in Nat BY ServerAssumption
<1>1. FlagsOK BY Zenon DEF Init, FlagsOK
<1>2. queue \in [Loops -> Seq(Functor)] BY DEF Init
<1>3. ioLoop \in [Conns -> Loops] BY <1>0 DEF Init, Base, Loops
<1>4. ServerTypeOK BY <1>0, <1>1, <1>2, <1>3 DEF Init, ServerTypeOK
<1>5. Base \in Loops BY <1>0 DEF Base, Loops
<1>6. ~Some(queue[Base], {<<"listen">>}) BY <1>5, EmptyQueue DEF Init
<1>7. PoolInv BY <1>6 DEF Init, PoolInv, Asked
<1>8. ArrivalInv /\ DtorInv BY DEF Init, ArrivalInv, DtorInv
<1>9. RobinInv BY DEF Init, RobinInv, Turn, RoundRobin, Accepted
<1> QED BY <1>4, <1>7, <1>8, <1>9 DEF PlainInv

(* The flags stay Boolean.                                                 *)
LEMMA NextFlags ==
  ASSUME FlagsOK, [Next]_vars
  PROVE  FlagsOK'
<1> USE DEF poolVars, acceptVars, connVars, lifeVars, dtorVars
<1>1. ASSUME NEW l, LoopStep(l) \/ LoopEnters(l) \/ LoopExits(l)
      PROVE  FlagsOK'
  BY <1>1, Zenon DEF LoopStep, RunConnectEstablished, RunConnectDestroyed,
     LoopEnters, LoopExits, FlagsOK
<1>2. CASE RunListen \/ HandleRead
  BY <1>2, Zenon DEF RunListen, HandleRead, FlagsOK
<1>3. CASE RunRemoveConnectionInLoop
  BY <1>3, Zenon DEF RunRemoveConnectionInLoop, FlagsOK
<1>4. CASE BaseEnters \/ BaseReturns \/ ClientConnects \/ DestroyBegins
  BY <1>4, Zenon
     DEF BaseEnters, BaseReturns, ClientConnects, DestroyBegins, FlagsOK
<1>5. ASSUME NEW n, SetThreadNum(n) PROVE FlagsOK'
  BY <1>5, Zenon DEF SetThreadNum, FlagsOK
<1>6. ASSUME NEW t, Start(t) \/ StartStep(t) PROVE FlagsOK'
  BY <1>6, Zenon
     DEF Start, StartStep, StartLoop, StartListen, ListenInLoop, FlagsOK
<1>7. ASSUME NEW c, HandleClose(c) PROVE FlagsOK'
  BY <1>7, Zenon DEF HandleClose, removeConnection, FlagsOK
<1>8. ASSUME NEW c, DestroyConnection(c) PROVE FlagsOK'
  BY <1>8, Zenon DEF DestroyConnection, FlagsOK
<1>9. CASE DestroyPool \/ QuitLoop \/ JoinLoop \/ DestroyAcceptor
  BY <1>9, Zenon DEF DestroyPool, QuitLoop, JoinLoop, DestroyAcceptor, FlagsOK
<1>10. CASE UNCHANGED vars BY <1>10, Zenon DEF vars, FlagsOK
<1> QED
  BY <1>1, <1>2, <1>3, <1>4, <1>5, <1>6, <1>7, <1>8, <1>9, <1>10
     DEF Next, BaseStep, DestructorStep

(* Every action keeps the types.                                           *)
LEMMA NextType ==
  ASSUME PlainInv, [Next]_vars
  PROVE  ServerTypeOK'
<1> USE DEF poolVars, acceptVars, connVars, lifeVars, dtorVars
<1>t. ServerTypeOK BY DEF PlainInv
<1>f. FlagsOK' BY <1>t, NextFlags DEF ServerTypeOK
<1>n. MaxThreads \in Nat /\ MaxConns \in Nat BY ServerAssumption
<1>q. queue \in [Loops -> Seq(Functor)] BY <1>t DEF ServerTypeOK
<1>b. Base \in Loops BY <1>n DEF Base, Loops
<1>l. 1 .. MaxThreads \subseteq Loops BY <1>n DEF Loops
<1> USE <1>t, <1>f, <1>n
<1>1. ASSUME NEW l \in Loops, RunConnectEstablished(l) PROVE ServerTypeOK'
  <2>1. /\ NextFunctor(l, "connectEstablished") /\ queue' = Pop(queue, l)
        /\ state_' = [state_ EXCEPT ![Head(queue[l])[2]] = "kConnected"]
    BY <1>1 DEF RunConnectEstablished
  <2>2. queue' \in [Loops -> Seq(Functor)] /\ Head(queue[l])[2] \in Conns
    BY <1>q, <2>1, HeadFunctor, PopType
  <2> QED BY <1>1, <2>1, <2>2 DEF RunConnectEstablished, ServerTypeOK
<1>2. ASSUME NEW l \in Loops, RunConnectDestroyed(l) PROVE ServerTypeOK'
  <2>1. /\ NextFunctor(l, "connectDestroyed") /\ queue' = Pop(queue, l)
        /\ connectDestroyed(Head(queue[l])[2])
    BY <1>2 DEF RunConnectDestroyed
  <2>2. queue' \in [Loops -> Seq(Functor)] /\ Head(queue[l])[2] \in Conns
    BY <1>q, <2>1, HeadFunctor, PopType
  <2> QED BY <1>2, <2>1, <2>2
          DEF RunConnectDestroyed, connectDestroyed, ServerTypeOK
<1>3. CASE RunListen
  <2>1. NextFunctor(Base, "listen") /\ queue' = Pop(queue, Base)
    BY <1>3 DEF RunListen
  <2>2. queue' \in [Loops -> Seq(Functor)]
    BY <1>q, <1>b, <2>1, HeadFunctor, PopType
  <2> QED BY <1>3, <2>2 DEF RunListen, ServerTypeOK
<1>4. CASE RunRemoveConnectionInLoop
  <2> DEFINE c == Head(queue[Base])[2]
  <2>1. /\ NextFunctor(Base, "removeConnectionInLoop")
        /\ connections_' = connections_ \ {c}
        /\ queue' = Push(Pop(queue, Base), ioLoop[c], <<"connectDestroyed", c>>)
    BY <1>4 DEF RunRemoveConnectionInLoop, removeConnectionInLoop
  <2>2. c \in Conns /\ Pop(queue, Base) \in [Loops -> Seq(Functor)]
    BY <1>q, <1>b, <2>1, HeadFunctor, PopType
  <2>3. ioLoop[c] \in Loops /\ <<"connectDestroyed", c>> \in Functor
    BY <2>2, FunctorKinds DEF ServerTypeOK
  <2>4. queue' \in [Loops -> Seq(Functor)]
    BY <2>1, <2>2, <2>3, PushType
  <2> QED BY <1>4, <2>1, <2>4 DEF RunRemoveConnectionInLoop, ServerTypeOK
<1>5. CASE HandleRead
  <2>1. /\ listenning_ /\ waiting > 0 /\ waiting' \in {waiting - 1, waiting}
        /\ \/ newConnection(nextConnId_)
           \/ UNCHANGED <<queue, connVars, connections_, state_>>
        /\ UNCHANGED <<base, loopState, poolVars, arrived, destroyRuns,
                       dtorVars>>
    BY <1>5 DEF HandleRead
  <2>2. waiting' \in 0 .. MaxConns BY <2>1 DEF ServerTypeOK
  <2>3. CASE newConnection(nextConnId_)
    <3> DEFINE c == nextConnId_
    <3>1. c \in Conns /\ loops_ = numThreads_ /\ getNextLoop \in Loops
      BY <2>1, NewConnection
    <3>2. nextConnId_' \in 1 .. MaxConns + 1
      BY <2>3, <3>1 DEF newConnection, Conns
    <3>3. next_' \in 0 .. MaxThreads
      <4>1. CASE loops_ = 0 BY <2>3, <4>1 DEF newConnection, ServerTypeOK
      <4>2. CASE loops_ # 0
        <5>1. loops_ \in Nat \ {0} /\ next_ + 1 \in Nat
          BY <4>2 DEF ServerTypeOK
        <5>2. (next_ + 1) % loops_ \in 0 .. loops_ - 1 BY <5>1, DivMod
        <5>3. next_' = (next_ + 1) % loops_ BY <2>3, <4>2 DEF newConnection
        <5> QED BY <5>2, <5>3 DEF ServerTypeOK
      <4> QED BY <4>1, <4>2
    <3>4. queue' \in [Loops -> Seq(Functor)]
      <4>1. \/ UNCHANGED queue
            \/ queue' = Push(queue, getNextLoop, <<"connectEstablished", c>>)
        BY <2>3 DEF newConnection, EstablishedIn
      <4>2. <<"connectEstablished", c>> \in Functor BY <3>1, FunctorKinds
      <4>3. CASE UNCHANGED queue BY <1>q, <4>3
      <4>4. CASE queue' = Push(queue, getNextLoop,
                               <<"connectEstablished", c>>)
        BY <1>q, <3>1, <4>2, <4>4, PushType
      <4> QED BY <4>1, <4>3, <4>4
    <3>5. /\ state_' \in [Conns -> {"none", "kConnecting", "kConnected",
                                    "kDisconnected"}]
          /\ ioLoop' \in [Conns -> Loops] /\ connections_' \subseteq Conns
      BY <2>3, <3>1 DEF newConnection, ServerTypeOK
    <3> QED BY <2>1, <2>2, <3>2, <3>3, <3>4, <3>5 DEF ServerTypeOK
  <2>4. CASE UNCHANGED <<queue, connVars, connections_, state_>>
    BY <2>1, <2>2, <2>4 DEF ServerTypeOK
  <2> QED BY <2>1, <2>3, <2>4
<1>6. ASSUME NEW l \in 1 .. MaxThreads, LoopEnters(l) \/ LoopExits(l)
      PROVE  ServerTypeOK'
  BY <1>6 DEF LoopEnters, LoopExits, ServerTypeOK
<1>7. CASE BaseEnters \/ BaseReturns
  BY <1>7 DEF BaseEnters, BaseReturns, ServerTypeOK
<1>8. ASSUME NEW n \in 0 .. MaxThreads, SetThreadNum(n) PROVE ServerTypeOK'
  BY <1>8 DEF SetThreadNum, ServerTypeOK
<1>9. ASSUME NEW t \in Callers, Start(t) PROVE ServerTypeOK'
  BY <1>9 DEF Start, ServerTypeOK
<1>10. ASSUME NEW t \in Callers, StartLoop(t) PROVE ServerTypeOK'
  BY <1>10 DEF StartLoop, LoopWanted, ServerTypeOK
<1>11. ASSUME NEW t \in Callers, StartListen(t) PROVE ServerTypeOK'
  <2>1. \/ UNCHANGED queue
        \/ queue' = Push(queue, Base, <<"listen">>)
    BY <1>11 DEF StartListen, ListenInLoop
  <2>2. queue' \in [Loops -> Seq(Functor)]
    BY <1>q, <1>b, <2>1, FunctorKinds, PushType
  <2> QED BY <1>11, <2>2 DEF StartListen, ServerTypeOK
<1>12. CASE ClientConnects
  <2>1. waiting' = waiting + 1 /\ arrived' = arrived + 1 /\ arrived < MaxConns
    BY <1>12 DEF ClientConnects
  <2>2. waiting' \in 0 .. MaxConns /\ arrived' \in 0 .. MaxConns
    BY <2>1 DEF ServerTypeOK, PlainInv, ArrivalInv
  <2> QED BY <1>12, <2>2 DEF ClientConnects, ServerTypeOK
<1>13. ASSUME NEW c \in Conns, HandleClose(c) PROVE ServerTypeOK'
  <2>1. /\ state_' = [state_ EXCEPT ![c] = "kDisconnected"]
        /\ removeConnection(c)
    BY <1>13 DEF HandleClose
  <2>2. ioLoop[c] \in Loops BY DEF ServerTypeOK
  <2>3. /\ connections_' \in {connections_, connections_ \ {c}}
        /\ \/ queue' = Push(queue, ioLoop[c], <<"connectDestroyed", c>>)
           \/ queue' = Push(queue, Base, <<"removeConnectionInLoop", c>>)
    BY <2>1 DEF removeConnection, removeConnectionInLoop
  <2>4. queue' \in [Loops -> Seq(Functor)]
    <3>1. /\ <<"connectDestroyed", c>> \in Functor
          /\ <<"removeConnectionInLoop", c>> \in Functor
      BY FunctorKinds
    <3>2. CASE queue' = Push(queue, ioLoop[c], <<"connectDestroyed", c>>)
      BY <1>q, <2>2, <3>1, <3>2, PushType
    <3>3. CASE queue' = Push(queue, Base, <<"removeConnectionInLoop", c>>)
      BY <1>q, <1>b, <3>1, <3>3, PushType
    <3> QED BY <2>3, <3>2, <3>3
  <2> QED BY <1>13, <2>1, <2>3, <2>4 DEF HandleClose, ServerTypeOK
<1>14. ASSUME NEW c \in Conns, DestroyConnection(c) PROVE ServerTypeOK'
  <2>1. ioLoop[c] \in Loops BY DEF ServerTypeOK
  <2>2. \/ connectDestroyed(c) /\ UNCHANGED queue
        \/ /\ queue' = Push(queue, ioLoop[c], <<"connectDestroyed", c>>)
           /\ UNCHANGED <<state_, destroyRuns>>
    BY <1>14 DEF DestroyConnection
  <2>3. queue' \in [Loops -> Seq(Functor)]
    <3>1. <<"connectDestroyed", c>> \in Functor BY FunctorKinds
    <3>2. CASE UNCHANGED queue BY <1>q, <3>2
    <3>3. CASE queue' = Push(queue, ioLoop[c], <<"connectDestroyed", c>>)
      BY <1>q, <2>1, <3>1, <3>3, PushType
    <3> QED BY <2>2, <3>2, <3>3
  <2>4. /\ state_' \in [Conns -> {"none", "kConnecting", "kConnected",
                                  "kDisconnected"}]
        /\ destroyRuns' \in [Conns -> Nat]
    <3>1. CASE connectDestroyed(c) BY <3>1 DEF connectDestroyed, ServerTypeOK
    <3>2. CASE UNCHANGED <<state_, destroyRuns>> BY <3>2 DEF ServerTypeOK
    <3> QED BY <2>2, <3>1, <3>2
  <2> QED BY <1>14, <2>3, <2>4 DEF DestroyConnection, ServerTypeOK
<1>15. CASE DestroyBegins \/ DestroyPool \/ DestroyAcceptor
  BY <1>15 DEF DestroyBegins, DestroyPool, DestroyAcceptor, ServerTypeOK
<1>16. CASE QuitLoop BY <1>16 DEF QuitLoop, Told, ServerTypeOK
<1>17. CASE JoinLoop
  BY <1>17 DEF JoinLoop, ServerTypeOK, PlainInv, DtorInv
<1>18. CASE UNCHANGED vars BY <1>18 DEF vars, ServerTypeOK
<1> QED
  BY <1>b, <1>l, <1>1, <1>2, <1>3, <1>4, <1>5, <1>6, <1>7, <1>8, <1>9, <1>10,
     <1>11, <1>12, <1>13, <1>14, <1>15, <1>16, <1>17, <1>18
     DEF Next, BaseStep, LoopStep, StartStep, DestructorStep

(* What a push and a pop do to the functors of a kind.                     *)
LEMMA PushEntry ==
  ASSUME NEW q \in [Loops -> Seq(Functor)], NEW l \in Loops, NEW f \in Functor,
         NEW i \in Loops, NEW X
  PROVE  /\ Some(Push(q, l, f)[i], X) <=> Some(q[i], X) \/ (i = l /\ f \in X)
         /\ AtMostOne(q[i], X) /\ ~(Some(q[i], X) /\ i = l /\ f \in X)
              => AtMostOne(Push(q, l, f)[i], X)
<1>1. q[i] \in Seq(Functor) OBVIOUS
<1>2. CASE i = l
  <2>1. Push(q, l, f)[i] = Append(q[i], f) BY <1>2, PushType
  <2> QED BY <1>1, <1>2, <2>1, AppendQueue
<1>3. CASE i # l
  <2>1. Push(q, l, f)[i] = q[i] BY <1>3, PushType
  <2> QED BY <1>3, <2>1
<1> QED BY <1>2, <1>3

(* A queue after a pop.                                                    *)
LEMMA PopEntry ==
  ASSUME NEW q \in [Loops -> Seq(Functor)], NEW l \in Loops, q[l] # << >>,
         NEW i \in Loops, NEW X
  PROVE  /\ Some(q[i], X)
              <=> Some(Pop(q, l)[i], X) \/ (i = l /\ Head(q[l]) \in X)
         /\ AtMostOne(q[i], X) => AtMostOne(Pop(q, l)[i], X)
         /\ AtMostOne(q[i], X) /\ i = l /\ Head(q[l]) \in X
              => ~Some(Pop(q, l)[i], X)
<1>1. q[i] \in Seq(Functor) OBVIOUS
<1>2. CASE i = l
  <2>1. Pop(q, l)[i] = Tail(q[i]) BY <1>2, PopType
  <2> QED BY <1>1, <1>2, <2>1, TailQueue
<1>3. CASE i # l
  <2>1. Pop(q, l)[i] = q[i] BY <1>3, PopType
  <2> QED BY <1>3, <2>1
<1> QED BY <1>2, <1>3

(* Listening is asked for by start() only.                                 *)
LEMMA AskedSteps ==
  ASSUME PlainInv, [Next]_vars, ~\E t \in Callers : StartListen(t), Asked'
  PROVE  Asked
<1> USE DEF poolVars, acceptVars, connVars, lifeVars, dtorVars
<1> DEFINE L == {<<"listen">>}
<1> HIDE DEF L
<1>q. /\ queue \in [Loops -> Seq(Functor)] /\ Base \in Loops
      /\ MaxThreads \in Nat
      /\ ioLoop \in [Conns -> Loops]
  BY ServerAssumption DEF PlainInv, ServerTypeOK, Base, Loops
<1>p. ASSUME NEW l \in Loops, NEW c, NEW k,
             NextFunctor(l, k), queue' = Pop(queue, l)
      PROVE  Some(queue'[Base], L) => Some(queue[Base], L)
  <2>1. queue[l] # << >> BY <1>p DEF NextFunctor
  <2>2. Some(Pop(queue, l)[Base], L) => Some(queue[Base], L)
    BY <1>q, <2>1, PopEntry
  <2> QED BY <1>p, <2>2
<1>a. ASSUME NEW l \in Loops, NEW f \in Functor, f \notin L,
             queue' = Push(queue, l, f)
      PROVE  Some(queue'[Base], L) => Some(queue[Base], L)
  <2>1. Some(Push(queue, l, f)[Base], L) => Some(queue[Base], L)
    BY <1>q, <1>a, PushEntry
  <2> QED BY <1>a, <2>1
<1>k. \A c \in Conns : /\ <<"connectEstablished", c>> \in Functor \ L
                       /\ <<"connectDestroyed", c>> \in Functor \ L
                       /\ <<"removeConnectionInLoop", c>> \in Functor \ L
  BY FunctorKinds DEF L
<1>1. CASE UNCHANGED <<queue, listenning_, nextConnId_>>
  BY <1>1 DEF Asked
<1>2. ASSUME NEW l \in Loops, LoopStep(l) PROVE Asked
  <2>1. /\ queue' = Pop(queue, l) /\ UNCHANGED <<listenning_, nextConnId_>>
        /\ \E k : NextFunctor(l, k)
    BY <1>2 DEF LoopStep, RunConnectEstablished, RunConnectDestroyed
  <2> QED BY <1>p, <2>1 DEF Asked, L
<1>3. CASE RunListen
  <2>1. NextFunctor(Base, "listen") BY <1>3 DEF RunListen
  <2>2. Head(queue[Base]) \in L /\ queue[Base] \in Seq(Functor)
        /\ queue[Base] # << >>
    BY <1>q, <2>1, HeadFunctor DEF PlainInv, L
  <2> QED BY <2>2, HeadEntry DEF Asked, L
<1>4. CASE RunRemoveConnectionInLoop
  <2> DEFINE c == Head(queue[Base])[2]
             r == Pop(queue, Base)
  <2>1. /\ NextFunctor(Base, "removeConnectionInLoop")
        /\ queue' = Push(r, ioLoop[c], <<"connectDestroyed", c>>)
        /\ UNCHANGED <<listenning_, nextConnId_>>
    BY <1>4 DEF RunRemoveConnectionInLoop, removeConnectionInLoop
  <2>2. c \in Conns /\ queue[Base] # << >>
    BY <1>q, <2>1, HeadFunctor DEF PlainInv
  <2>3. r \in [Loops -> Seq(Functor)] BY <1>q, <2>2, PopType
  <2>4. Some(r[Base], L) => Some(queue[Base], L) BY <1>q, <2>2, PopEntry
  <2>5. ioLoop[c] \in Loops /\ <<"connectDestroyed", c>> \in Functor \ L
    BY <1>q, <1>k, <2>2
  <2> HIDE DEF r, c
  <2>6. Some(queue'[Base], L) => Some(r[Base], L)
    <3> DEFINE f == <<"connectDestroyed", c>>
    <3>1. f \in Functor /\ f \notin L BY <2>5
    <3> HIDE DEF f
    <3>2. Some(Push(r, ioLoop[c], f)[Base], L) => Some(r[Base], L)
      BY <1>q, <2>3, <2>5, <3>1, PushEntry
    <3> QED BY <2>1, <3>2 DEF f
  <2> QED BY <2>1, <2>4, <2>6 DEF Asked, L
<1>5. CASE HandleRead BY <1>5 DEF HandleRead, Asked
<1>6. ASSUME NEW t \in Callers, Start(t) \/ StartLoop(t) PROVE Asked
  BY <1>1, <1>6 DEF Start, StartLoop
<1>7. CASE ClientConnects BY <1>7 DEF ClientConnects, Asked
<1>8. ASSUME NEW c \in Conns, HandleClose(c) PROVE Asked
  <2>1. /\ UNCHANGED <<listenning_, nextConnId_>>
        /\ \/ queue' = Push(queue, ioLoop[c], <<"connectDestroyed", c>>)
           \/ queue' = Push(queue, Base, <<"removeConnectionInLoop", c>>)
    BY <1>8 DEF HandleClose, removeConnection, removeConnectionInLoop
  <2>2. /\ ioLoop[c] \in Loops /\ <<"connectDestroyed", c>> \in Functor \ L
        /\ <<"removeConnectionInLoop", c>> \in Functor \ L
    BY <1>q, <1>k
  <2>3. CASE queue' = Push(queue, ioLoop[c], <<"connectDestroyed", c>>)
    BY <1>a, <2>1, <2>2, <2>3 DEF Asked, L
  <2>4. CASE queue' = Push(queue, Base, <<"removeConnectionInLoop", c>>)
    BY <1>q, <1>a, <2>1, <2>2, <2>4 DEF Asked, L
  <2> QED BY <2>1, <2>3, <2>4
<1>9. ASSUME NEW c \in Conns, DestroyConnection(c) PROVE Asked
  <2>1. /\ UNCHANGED <<listenning_, nextConnId_>>
        /\ \/ UNCHANGED queue
           \/ queue' = Push(queue, ioLoop[c], <<"connectDestroyed", c>>)
    BY <1>9 DEF DestroyConnection
  <2>2. ioLoop[c] \in Loops /\ <<"connectDestroyed", c>> \in Functor \ L
    BY <1>q, <1>k
  <2>3. CASE queue' = Push(queue, ioLoop[c], <<"connectDestroyed", c>>)
    BY <1>a, <2>1, <2>2, <2>3 DEF Asked, L
  <2> QED BY <1>1, <2>1, <2>3
<1>10. CASE DestroyBegins \/ DestroyPool \/ QuitLoop \/ JoinLoop
  BY <1>1, <1>10 DEF DestroyBegins, DestroyPool, QuitLoop, JoinLoop
<1>11. CASE DestroyAcceptor
  BY <1>11, Zenon DEF DestroyAcceptor, Asked
<1>12. CASE BaseEnters \/ BaseReturns
  BY <1>1, <1>12 DEF BaseEnters, BaseReturns
<1>13. ASSUME NEW n, SetThreadNum(n) PROVE Asked
  BY <1>1, <1>13 DEF SetThreadNum
<1>14. ASSUME NEW l, LoopEnters(l) \/ LoopExits(l) PROVE Asked
  BY <1>1, <1>14 DEF LoopEnters, LoopExits
<1>15. CASE UNCHANGED vars BY <1>1, <1>15 DEF vars
<1>16. 1 .. MaxThreads \subseteq Loops BY <1>q DEF Loops
<1> QED
  BY <1>q, <1>2, <1>3, <1>4, <1>5, <1>6, <1>7, <1>8, <1>9, <1>10, <1>11,
     <1>12, <1>13, <1>14, <1>15, <1>16
     DEF Next, BaseStep, StartStep, DestructorStep

(* Steps outside start() and setThreadNum.                                 *)
LEMMA PoolFrame ==
  ASSUME PlainInv, [Next]_vars, UNCHANGED poolVars,
         ~\E t \in Callers : StartListen(t),
         base = "returned" => base' = "returned",
         server' # "up" => server # "up" \/ (caller = {} /\ base = "returned")
  PROVE  PoolInv'
<1>1. Asked' => Asked BY AskedSteps
<1>2. UNCHANGED <<numThreads_, started_, caller, loops_>> BY DEF poolVars
<1> QED BY <1>1, <1>2 DEF PlainInv, PoolInv, PoolComplete

(* start() keeps the pool's invariant, and so does all the rest.           *)
LEMMA NextPool ==
  ASSUME PlainInv, [Next]_vars
  PROVE  PoolInv'
<1> USE DEF poolVars, acceptVars, connVars, lifeVars, dtorVars
<1>t. ServerTypeOK /\ PoolInv BY DEF PlainInv
<1>1. ASSUME NEW t \in Callers, StartListen(t) PROVE PoolInv'
  <2>1. /\ t \in caller /\ PoolComplete /\ caller' = caller \ {t}
        /\ UNCHANGED <<base, numThreads_, started_, loops_, server>>
    BY <1>1 DEF StartListen
  <2>2. caller' = {} /\ started_ BY <1>t, <2>1 DEF PoolInv
  <2> QED BY <1>t, <2>1, <2>2 DEF PoolInv, PoolComplete
<1> SUFFICES ASSUME ~\E t \in Callers : StartListen(t) PROVE PoolInv'
  BY <1>1
<1>a. Asked' => Asked BY AskedSteps
<1>2. ASSUME NEW n \in 0 .. MaxThreads, SetThreadNum(n) PROVE PoolInv'
  <2>1. /\ ~started_ /\ numThreads_' = n
        /\ UNCHANGED <<base, started_, caller, loops_, server>>
    BY <1>2 DEF SetThreadNum
  <2> QED BY <1>t, <1>a, <2>1 DEF PoolInv
<1>3. ASSUME NEW t \in Callers, Start(t) PROVE PoolInv'
  <2>1. /\ server = "up" /\ started_' = TRUE
        /\ caller' = IF started_ THEN caller ELSE caller \cup {t}
        /\ UNCHANGED <<base, numThreads_, loops_, server>>
    BY <1>3 DEF Start
  <2>2. CASE started_ BY <1>t, <1>a, <2>1, <2>2 DEF PoolInv, PoolComplete
  <2>3. CASE ~started_
    <3>1. caller' = {t} /\ ~Asked BY <1>t, <2>1, <2>3 DEF PoolInv
    <3> QED BY <1>t, <1>a, <2>1, <3>1 DEF PoolInv
  <2> QED BY <2>2, <2>3
<1>4. ASSUME NEW t \in Callers, StartLoop(t) PROVE PoolInv'
  <2>1. /\ t \in caller /\ loops_ < numThreads_ /\ loops_' = loops_ + 1
        /\ UNCHANGED <<base, numThreads_, started_, caller, server>>
    BY <1>4 DEF StartLoop, LoopWanted
  <2>2. ~Asked /\ started_ /\ server = "up" BY <1>t, <2>1 DEF PoolInv
  <2>3. loops_' <= numThreads_' BY <1>t, <2>1, ServerAssumption DEF ServerTypeOK
  <2> QED BY <1>t, <1>a, <2>1, <2>2, <2>3 DEF PoolInv
<1>5. ASSUME NEW l, LoopStep(l) \/ LoopEnters(l) \/ LoopExits(l)
      PROVE  PoolInv'
  BY <1>5, PoolFrame DEF LoopStep, RunConnectEstablished, RunConnectDestroyed,
     LoopEnters, LoopExits
<1>6. CASE RunListen \/ RunRemoveConnectionInLoop \/ HandleRead
  BY <1>6, PoolFrame DEF RunListen, RunRemoveConnectionInLoop, HandleRead
<1>7. CASE BaseEnters \/ BaseReturns \/ ClientConnects
  BY <1>7, PoolFrame DEF BaseEnters, BaseReturns, ClientConnects
<1>8. ASSUME NEW c, HandleClose(c) \/ DestroyConnection(c) PROVE PoolInv'
  BY <1>8, PoolFrame DEF HandleClose, DestroyConnection
<1>9. CASE DestroyBegins \/ DestroyPool \/ QuitLoop
  BY <1>9, PoolFrame DEF DestroyBegins, DestroyPool, QuitLoop
<1>10. CASE JoinLoop \/ DestroyAcceptor
  BY <1>10, PoolFrame DEF JoinLoop, DestroyAcceptor
<1>11. CASE UNCHANGED vars BY <1>11, PoolFrame DEF vars
<1> QED
  BY <1>2, <1>3, <1>4, <1>5, <1>6, <1>7, <1>8, <1>9, <1>10, <1>11
     DEF Next, BaseStep, StartStep, DestructorStep

(* The acceptor's counters, and the round robin.                           *)
LEMMA NextRobin ==
  ASSUME PlainInv, [Next]_vars
  PROVE  ArrivalInv' /\ RobinInv'
<1> USE DEF poolVars, acceptVars, connVars, lifeVars, dtorVars
<1>t. ServerTypeOK /\ PoolInv /\ ArrivalInv /\ RobinInv BY DEF PlainInv
<1>0. CASE UNCHANGED <<numThreads_, nextConnId_, waiting, arrived, next_,
                       ioLoop>>
  BY <1>t, <1>0 DEF ArrivalInv, RobinInv, Turn, RoundRobin, Accepted
<1>1. CASE HandleRead
  <2>1. /\ listenning_ /\ waiting > 0 /\ UNCHANGED <<numThreads_, arrived>>
        /\ \/ waiting' = waiting - 1 /\ newConnection(nextConnId_)
           \/ /\ waiting' \in {waiting - 1, waiting}
              /\ UNCHANGED <<nextConnId_, next_, ioLoop>>
    BY <1>1 DEF HandleRead
  <2>2. CASE waiting' = waiting - 1 /\ newConnection(nextConnId_)
    <3> DEFINE n == numThreads_
               c == nextConnId_
    <3>1. /\ c \in Conns /\ loops_ = n
          /\ getNextLoop = IF n = 0 THEN Base ELSE 1 + ((c - 1) % n)
      BY <2>1, NewConnection
    <3>2. /\ ioLoop' = [ioLoop EXCEPT ![c] = getNextLoop]
          /\ next_' = IF n = 0 THEN next_ ELSE (next_ + 1) % n
          /\ nextConnId_' = c + 1
      BY <2>2, <3>1 DEF newConnection
    <3>3. ArrivalInv'
      BY <1>t, <2>1, <2>2, <3>2, ServerAssumption DEF ArrivalInv, ServerTypeOK
    <3>4. c \in Nat \ {0} /\ n \in Nat
      BY <1>t, <3>1, ServerAssumption DEF Conns, ServerTypeOK
    <3>5. next_' = IF n = 0 THEN 0 ELSE (nextConnId_' - 1) % n
      <4>1. CASE n = 0 BY <1>t, <3>2, <4>1 DEF RobinInv, Turn
      <4>2. CASE n # 0
        <5>1. next_ = (c - 1) % n BY <1>t, <4>2 DEF RobinInv, Turn
        <5>2. (((c - 1) % n) + 1) % n = ((c - 1) + 1) % n
          <6>1. c - 1 \in Nat /\ n \in Nat \ {0} BY <3>4, <4>2
          <6> QED BY <6>1, ModNext
        <5>3. (c - 1) + 1 = c /\ nextConnId_' - 1 = c BY <3>2, <3>4
        <5>4. next_' = c % n BY <3>2, <4>2, <5>1, <5>2, <5>3
        <5> QED BY <4>2, <5>3, <5>4
      <4> QED BY <4>1, <4>2
    <3>6. RoundRobin'
      <4> SUFFICES ASSUME NEW d \in Accepted'
                   PROVE  ioLoop'[d] = IF n = 0 THEN Base ELSE 1 + ((d - 1) % n)
        BY <2>1 DEF RoundRobin
      <4>1. d \in Accepted \/ d = c BY <3>2, <3>4 DEF Accepted
      <4>2. CASE d = c
        BY <1>t, <3>1, <3>2, <4>2 DEF ServerTypeOK
      <4>3. CASE d \in Accepted
        <5>1. d # c /\ ioLoop'[d] = ioLoop[d]
          BY <1>t, <3>2, <3>4, <4>3 DEF Accepted, ServerTypeOK
        <5> QED BY <1>t, <4>3, <5>1 DEF RobinInv, RoundRobin
      <4> QED BY <4>1, <4>2, <4>3
    <3>7. RobinInv'
      BY <2>1, <3>5, <3>6 DEF RobinInv, Turn
    <3> QED BY <3>3, <3>7
  <2>3. CASE /\ waiting' \in {waiting - 1, waiting}
             /\ UNCHANGED <<nextConnId_, next_, ioLoop>>
    <3>1. waiting \in Int /\ nextConnId_ \in Int /\ arrived \in Int
      BY <1>t, ServerAssumption DEF ServerTypeOK
    <3>3. ArrivalInv'
      <4>1. (nextConnId_ - 1) + waiting <= arrived BY <1>t DEF ArrivalInv
      <4>2. waiting' <= waiting /\ waiting' \in Int BY <2>3, <3>1
      <4>3. nextConnId_' = nextConnId_ /\ arrived' = arrived BY <2>1, <2>3
      <4>4. (nextConnId_ - 1) + waiting' <= arrived
        <5>1. \A a, v, w, b \in Int : a + w <= b /\ v <= w => a + v <= b
          OBVIOUS
        <5>2. nextConnId_ - 1 \in Int BY <3>1
        <5> QED BY <3>1, <4>1, <4>2, <5>1, <5>2
      <4> QED BY <4>3, <4>4 DEF ArrivalInv
    <3>2. RobinInv'
      BY <1>t, <2>1, <2>3 DEF RobinInv, Turn, RoundRobin, Accepted
    <3> QED BY <3>2, <3>3
  <2> QED BY <2>1, <2>2, <2>3
<1>2. ASSUME NEW n \in 0 .. MaxThreads, SetThreadNum(n)
      PROVE  ArrivalInv' /\ RobinInv'
  <2>1. /\ ~started_ /\ numThreads_' = n
        /\ UNCHANGED <<nextConnId_, waiting, arrived, next_, ioLoop>>
    BY <1>2 DEF SetThreadNum
  <2>2. nextConnId_ = 1
    BY <1>t, <2>1, ServerAssumption DEF PoolInv, Asked, ServerTypeOK
  <2>3. next_ = 0
    BY <1>t, <2>2 DEF RobinInv, Turn, ServerTypeOK
  <2>4. next_' = IF n = 0 THEN 0 ELSE (nextConnId_' - 1) % n
    <3>1. n # 0 => 0 % n = 0 BY ServerAssumption
    <3> QED BY <2>1, <2>2, <2>3, <3>1
  <2>5. RoundRobin' BY <2>1, <2>2 DEF RoundRobin, Accepted
  <2>6. RobinInv' BY <2>1, <2>4, <2>5 DEF RobinInv, Turn
  <2> QED BY <1>t, <2>1, <2>6 DEF ArrivalInv
<1>3. CASE ClientConnects
  BY <1>t, <1>3 DEF ClientConnects, ArrivalInv, RobinInv, Turn, RoundRobin,
     Accepted, ServerTypeOK
<1>4. ASSUME NEW l, LoopStep(l) \/ LoopEnters(l) \/ LoopExits(l)
      PROVE  ArrivalInv' /\ RobinInv'
  BY <1>0, <1>4 DEF LoopStep, RunConnectEstablished, RunConnectDestroyed,
     LoopEnters, LoopExits
<1>5. CASE RunListen \/ RunRemoveConnectionInLoop \/ BaseEnters \/ BaseReturns
  BY <1>0, <1>5
     DEF RunListen, RunRemoveConnectionInLoop, BaseEnters, BaseReturns
<1>6. ASSUME NEW t, Start(t) \/ StartStep(t) PROVE ArrivalInv' /\ RobinInv'
  BY <1>0, <1>6 DEF Start, StartStep, StartLoop, StartListen
<1>7. ASSUME NEW c, HandleClose(c) \/ DestroyConnection(c)
      PROVE  ArrivalInv' /\ RobinInv'
  BY <1>0, <1>7 DEF HandleClose, DestroyConnection
<1>8. CASE DestroyBegins \/ DestroyPool \/ QuitLoop
  BY <1>0, <1>8 DEF DestroyBegins, DestroyPool, QuitLoop
<1>9. CASE JoinLoop \/ DestroyAcceptor \/ UNCHANGED vars
  BY <1>0, <1>9 DEF JoinLoop, DestroyAcceptor, vars
<1> QED
  BY <1>1, <1>2, <1>3, <1>4, <1>5, <1>6, <1>7, <1>8, <1>9
     DEF Next, BaseStep, DestructorStep

(* The loops of the pool.                                                  *)
LEMMA NextDtor ==
  ASSUME PlainInv, [Next]_vars
  PROVE  DtorInv'
<1> USE DEF poolVars, acceptVars, connVars, lifeVars, dtorVars
<1>t. ServerTypeOK /\ PoolInv /\ DtorInv /\ MaxThreads \in Nat
  BY ServerAssumption DEF PlainInv
<1>0. CASE /\ UNCHANGED <<loops_, loopState, joined>>
           /\ server' \in {"join", "gone"} => server' = server
  BY <1>t, <1>0 DEF DtorInv
<1>1. ASSUME NEW l \in 1 .. MaxThreads, LoopEnters(l) \/ LoopExits(l)
      PROVE  DtorInv'
  <2>1. /\ loopState[l] \in {"starting", "quitting"}
        /\ \E s \in {"looping", "exited"} :
             loopState' = [loopState EXCEPT ![l] = s]
        /\ UNCHANGED <<loops_, server, joined>>
    BY <1>1 DEF LoopEnters, LoopExits
  <2>2. ~(l > loops_) /\ ~(l <= joined) BY <1>t, <2>1 DEF DtorInv
  <2>3. \A i \in 1 .. MaxThreads : i # l => loopState'[i] = loopState[i]
    BY <1>t, <2>1 DEF ServerTypeOK
  <2> QED BY <1>t, <2>1, <2>2, <2>3 DEF DtorInv
<1>2. ASSUME NEW t \in Callers, StartLoop(t) PROVE DtorInv'
  <2>1. /\ t \in caller /\ loops_ < numThreads_ /\ loops_' = loops_ + 1
        /\ loopState' = [loopState EXCEPT ![loops_ + 1] = "starting"]
        /\ UNCHANGED <<server, joined>>
    BY <1>2 DEF StartLoop, LoopWanted
  <2>2. server = "up" BY <1>t, <2>1 DEF PoolInv
  <2>3. \A i \in 1 .. MaxThreads :
          i # loops_ + 1 => loopState'[i] = loopState[i]
    BY <1>t, <2>1 DEF ServerTypeOK
  <2> QED BY <1>t, <2>1, <2>2, <2>3 DEF DtorInv, ServerTypeOK
<1>3. CASE QuitLoop
  <2>1. /\ joined < loops_ /\ server' = "join"
        /\ loopState' = [loopState EXCEPT ![joined + 1] = Told(joined + 1)]
        /\ UNCHANGED <<loops_, joined>>
    BY <1>3 DEF QuitLoop
  <2>2. \A i \in 1 .. MaxThreads :
          i # joined + 1 => loopState'[i] = loopState[i]
    BY <1>t, <2>1 DEF ServerTypeOK
  <2> QED BY <1>t, <2>1, <2>2 DEF DtorInv, ServerTypeOK
<1>4. CASE JoinLoop
  <2>1. /\ server = "join" /\ loopState[joined + 1] = "exited"
        /\ server' = "pool" /\ joined' = joined + 1
        /\ UNCHANGED <<loops_, loopState>>
    BY <1>4 DEF JoinLoop, ThreadEnded
  <2> QED BY <1>t, <2>1 DEF DtorInv, ServerTypeOK
<1>5. CASE DestroyAcceptor
  <2>1. /\ joined = loops_ /\ server' = "gone"
        /\ UNCHANGED <<loops_, loopState, joined>>
    BY <1>5 DEF DestroyAcceptor
  <2> QED BY <1>t, <2>1 DEF DtorInv
<1>6. ASSUME NEW l, LoopStep(l) PROVE DtorInv'
  BY <1>0, <1>6 DEF LoopStep, RunConnectEstablished, RunConnectDestroyed
<1>7. CASE RunListen \/ RunRemoveConnectionInLoop \/ HandleRead
  BY <1>0, <1>7 DEF RunListen, RunRemoveConnectionInLoop, HandleRead
<1>8. CASE BaseEnters \/ BaseReturns \/ ClientConnects
  BY <1>0, <1>8 DEF BaseEnters, BaseReturns, ClientConnects
<1>9. ASSUME NEW n, SetThreadNum(n) PROVE DtorInv'
  BY <1>0, <1>9 DEF SetThreadNum
<1>10. ASSUME NEW t, Start(t) \/ StartListen(t) PROVE DtorInv'
  BY <1>0, <1>10 DEF Start, StartListen
<1>11. ASSUME NEW c, HandleClose(c) \/ DestroyConnection(c) PROVE DtorInv'
  BY <1>0, <1>11 DEF HandleClose, DestroyConnection
<1>12. CASE DestroyBegins \/ DestroyPool \/ UNCHANGED vars
  BY <1>0, <1>12 DEF DestroyBegins, DestroyPool, vars
<1> QED
  BY <1>1, <1>2, <1>3, <1>4, <1>5, <1>6, <1>7, <1>8, <1>9, <1>10, <1>11,
     <1>12 DEF Next, BaseStep, StartStep, DestructorStep

(* All of these together.                                                  *)
LEMMA NextPlain ==
  ASSUME PlainInv, [Next]_vars
  PROVE  PlainInv'
BY NextType, NextPool, NextRobin, NextDtor DEF PlainInv

(* Type correctness, of TcpServer.cc:16-159, EventLoopThreadPool.cc:21-61  *)
(* and Acceptor.cc:44-76.  It needs the other invariants: the acceptor     *)
(* makes no connection without a client, and the pool's loops are counted. *)
THEOREM ServerTypeCorrect == Spec => []ServerTypeOK
<1>1. Init => PlainInv BY InitPlain
<1>2. PlainInv /\ [Next]_vars => PlainInv' BY NextPlain
<1>3. PlainInv => ServerTypeOK BY DEF PlainInv
<1> QED BY <1>1, <1>2, <1>3, PTL DEF Spec

(* getNextLoop hands the connections round the whole pool, for any number  *)
(* of threads, whichever thread calls start() and however early the first  *)
(* client comes (EventLoopThreadPool.cc:21-61; TcpServer.cc:68-83).        *)
THEOREM RoundRobinCorrect == Spec => []RoundRobin
<1>1. Init => PlainInv BY InitPlain
<1>2. PlainInv /\ [Next]_vars => PlainInv' BY NextPlain
<1>3. PlainInv => RoundRobin BY DEF PlainInv, RobinInv
<1> QED BY <1>1, <1>2, <1>3, PTL DEF Spec

(* When the server is gone, no loop runs.                                  *)
LEMMA GoneIsQuiet ==
  ASSUME PlainInv, server = "gone", NEW l \in Loops
  PROVE  ~Runs(l)
<1>1. base = "returned" /\ joined = loops_ BY DEF PlainInv, PoolInv, DtorInv
<1>2. CASE l = Base BY <1>1, <1>2 DEF Runs
<1>3. CASE l # Base
  <2>1. l \in 1 .. MaxThreads BY <1>3, ServerAssumption DEF Loops, Base
  <2>2. loops_ \in Int BY DEF PlainInv, ServerTypeOK
  <2>3. loopState[l] \in {"none", "exited"}
    BY <1>1, <2>1, <2>2 DEF PlainInv, DtorInv
  <2> QED BY <1>3, <2>3 DEF Runs
<1> QED BY <1>2, <1>3

(* So none calls removeConnection or removeConnectionInLoop on it.         *)
LEMMA NextLate ==
  ASSUME PlainInv, NoCallOnDeadServer, [Next]_vars
  PROVE  NoCallOnDeadServer'
<1> USE DEF poolVars, acceptVars, connVars, lifeVars, dtorVars
<1>0. CASE UNCHANGED lateCall BY <1>0 DEF NoCallOnDeadServer
<1>1. CASE RunRemoveConnectionInLoop
  <2>1. Runs(Base) /\ Base \in Loops
    BY <1>1, ServerAssumption
       DEF RunRemoveConnectionInLoop, NextFunctor, Base, Loops
  <2>2. server # "gone" BY <2>1, GoneIsQuiet
  <2> QED BY <1>1, <2>2, Zenon
          DEF RunRemoveConnectionInLoop, NoCallOnDeadServer
<1>2. ASSUME NEW c \in Conns, HandleClose(c) PROVE NoCallOnDeadServer'
  <2>1. Runs(ioLoop[c]) /\ ioLoop[c] \in Loops
    BY <1>2 DEF HandleClose, PlainInv, ServerTypeOK
  <2>2. server # "gone" BY <2>1, GoneIsQuiet
  <2> QED BY <1>2, <2>2, Zenon
          DEF HandleClose, removeConnection, NoCallOnDeadServer
<1>3. ASSUME NEW l, LoopStep(l) \/ LoopEnters(l) \/ LoopExits(l)
      PROVE  NoCallOnDeadServer'
  BY <1>0, <1>3 DEF LoopStep, RunConnectEstablished, RunConnectDestroyed,
     LoopEnters, LoopExits
<1>4. CASE RunListen \/ HandleRead \/ BaseEnters \/ BaseReturns
  BY <1>0, <1>4 DEF RunListen, HandleRead, BaseEnters, BaseReturns
<1>5. ASSUME NEW n, SetThreadNum(n) PROVE NoCallOnDeadServer'
  BY <1>0, <1>5 DEF SetThreadNum
<1>6. ASSUME NEW t, Start(t) \/ StartStep(t) PROVE NoCallOnDeadServer'
  BY <1>0, <1>6 DEF Start, StartStep, StartLoop, StartListen
<1>7. ASSUME NEW c, DestroyConnection(c) PROVE NoCallOnDeadServer'
  BY <1>0, <1>7 DEF DestroyConnection
<1>8. CASE ClientConnects \/ DestroyBegins \/ DestroyPool \/ QuitLoop
  BY <1>0, <1>8 DEF ClientConnects, DestroyBegins, DestroyPool, QuitLoop
<1>9. CASE JoinLoop \/ DestroyAcceptor \/ UNCHANGED vars
  BY <1>0, <1>9 DEF JoinLoop, DestroyAcceptor, vars
<1> QED
  BY <1>1, <1>2, <1>3, <1>4, <1>5, <1>6, <1>7, <1>8, <1>9
     DEF Next, BaseStep, DestructorStep

(* The raw pointer to the server in closeCallback_ is never used after     *)
(* ~TcpServer: the destructor of threadPool_, which joins the loops, runs  *)
(* before the server is gone (TcpServer.cc:38-58, 138-159).                *)
THEOREM NoLateCall == Spec => []NoCallOnDeadServer
<1> DEFINE IInv == PlainInv /\ NoCallOnDeadServer
<1>1. Init => IInv BY InitPlain DEF Init, NoCallOnDeadServer
<1>2. IInv /\ [Next]_vars => IInv' BY NextPlain, NextLate
<1> QED BY <1>1, <1>2, PTL DEF Spec

-----------------------------------------------------------------------------
(* The connections *)

Est(c) == <<"connectEstablished", c>>
Des(c) == <<"connectDestroyed", c>>
Rem(c) == <<"removeConnectionInLoop", c>>

(* The functors of a connection.                                           *)
Own(c) == {Est(c), Des(c), Rem(c)}

Has(l, f) == Some(queue[l], {f})
Single(l, f) == AtMostOne(queue[l], {f})

(* A connection that has not been made.                                    *)
Unborn(c) ==
  /\ c \notin connections_ /\ state_[c] = "none" /\ destroyRuns[c] = 0
  /\ \A l \in Loops : \A f \in Own(c) : ~Has(l, f)

(* Its functors are queued where they belong: connectEstablished and       *)
(* connectDestroyed in its own loop, removeConnectionInLoop in the base    *)
(* loop, and that only if its own is another one.                          *)
AtHome(c) ==
  /\ \A l \in Loops : Has(l, Est(c)) \/ Has(l, Des(c)) => l = ioLoop[c]
  /\ \A l \in Loops : Has(l, Rem(c)) => l = Base /\ ioLoop[c] # Base
  /\ state_[c] = "kConnecting" => ioLoop[c] # Base

(* connectEstablished is queued until it has run, ahead of                 *)
(* connectDestroyed.                                                       *)
SetUp(c) ==
  /\ state_[c] # "none"
  /\ state_[c] = "kConnecting" <=> Has(ioLoop[c], Est(c))
  /\ Single(ioLoop[c], Est(c))
  /\ Before(queue[ioLoop[c]], Est(c), Des(c))

(* While the base loop runs, the server keeps the connection until its     *)
(* removeConnectionInLoop, which is queued at most once, has run.          *)
Removal(c) ==
  /\ Single(Base, Rem(c))
  /\ Has(Base, Rem(c)) => state_[c] = "kDisconnected"
  /\ base # "returned" /\ (state_[c] # "kDisconnected" \/ Has(Base, Rem(c)))
       => c \in connections_

(* connectDestroyed is yet to be asked for, queued, or done.               *)
Once(c) ==
  /\ Single(ioLoop[c], Des(c))
  /\ c \in connections_ => destroyRuns[c] = 0 /\ ~Has(ioLoop[c], Des(c))
  /\ c \notin connections_ =>
       destroyRuns[c] = IF Has(ioLoop[c], Des(c)) THEN 0 ELSE 1
  /\ destroyRuns[c] > 0 => state_[c] = "kDisconnected"

Known(c) == AtHome(c) /\ SetUp(c) /\ Removal(c) /\ Once(c)

ConnInv ==
  \A c \in Conns : /\ c < nextConnId_ => Known(c)
                   /\ c >= nextConnId_ => Unborn(c)

(* The functors differ.                                                    *)
LEMMA FunctorsDiffer ==
  ASSUME NEW c \in Conns
  PROVE  /\ Own(c) \subseteq Functor /\ <<"listen">> \notin Own(c)
         /\ Est(c) # Des(c) /\ Est(c) # Rem(c) /\ Des(c) # Rem(c)
         /\ \A d \in Conns : c # d => Own(c) \cap Own(d) = {}
BY DEF Own, Est, Des, Rem, Functor

(* A functor is as much in the queues r as in the queues q.                *)
Kept(q, r, i, f) ==
  /\ Some(r[i], {f}) <=> Some(q[i], {f})
  /\ AtMostOne(q[i], {f}) => AtMostOne(r[i], {f})

(* So are those of a connection.                                           *)
Same(c, q, r) ==
  \A i \in Loops :
    /\ \A f \in Own(c) : Kept(q, r, i, f)
    /\ Before(q[i], Est(c), Des(c)) => Before(r[i], Est(c), Des(c))

(* A push, and a pop, to the functor that moves and to the others.         *)
LEMMA PushKeeps ==
  ASSUME NEW q \in [Loops -> Seq(Functor)], NEW l \in Loops, NEW f \in Functor,
         NEW r, r = Push(q, l, f)
  PROVE  /\ Some(r[l], {f})
         /\ ~Some(q[l], {f}) /\ AtMostOne(q[l], {f}) => AtMostOne(r[l], {f})
         /\ \A i \in Loops : \A g : (i # l \/ g # f) => Kept(q, r, i, g)
<1>1. ASSUME NEW i \in Loops, NEW g
      PROVE  /\ Some(r[i], {g}) <=> Some(q[i], {g}) \/ (i = l /\ f = g)
             /\ AtMostOne(q[i], {g}) /\ ~(Some(q[i], {g}) /\ i = l /\ f = g)
                  => AtMostOne(r[i], {g})
  <2> DEFINE X == {g}
  <2>1. f \in X <=> f = g OBVIOUS
  <2> HIDE DEF X
  <2>2. /\ Some(Push(q, l, f)[i], X) <=> Some(q[i], X) \/ (i = l /\ f \in X)
        /\ AtMostOne(q[i], X) /\ ~(Some(q[i], X) /\ i = l /\ f \in X)
             => AtMostOne(Push(q, l, f)[i], X)
    BY PushEntry
  <2> QED BY <2>1, <2>2 DEF X
<1> QED BY <1>1 DEF Kept

(* The functor that is run leaves its queue; the others stay.              *)
LEMMA PopKeeps ==
  ASSUME NEW q \in [Loops -> Seq(Functor)], NEW l \in Loops, q[l] # << >>,
         NEW r, r = Pop(q, l)
  PROVE  /\ AtMostOne(q[l], {Head(q[l])}) => ~Some(r[l], {Head(q[l])})
         /\ AtMostOne(q[l], {Head(q[l])}) => AtMostOne(r[l], {Head(q[l])})
         /\ \A i \in Loops : \A g :
              (i # l \/ g # Head(q[l])) => Kept(q, r, i, g)
<1> DEFINE h == Head(q[l])
<1> HIDE DEF h
<1>1. ASSUME NEW i \in Loops, NEW g
      PROVE  /\ Some(q[i], {g}) <=> Some(r[i], {g}) \/ (i = l /\ h = g)
             /\ AtMostOne(q[i], {g}) => AtMostOne(r[i], {g})
             /\ AtMostOne(q[i], {g}) /\ i = l /\ h = g => ~Some(r[i], {g})
  <2> DEFINE X == {g}
  <2>1. h \in X <=> h = g OBVIOUS
  <2> HIDE DEF X
  <2>2. /\ Some(q[i], X) <=> Some(Pop(q, l)[i], X) \/ (i = l /\ h \in X)
        /\ AtMostOne(q[i], X) => AtMostOne(Pop(q, l)[i], X)
        /\ AtMostOne(q[i], X) /\ i = l /\ h \in X => ~Some(Pop(q, l)[i], X)
    BY PopEntry DEF h
  <2> QED BY <2>1, <2>2 DEF X
<1>2. /\ AtMostOne(q[l], {h}) => ~Some(r[l], {h})
      /\ AtMostOne(q[l], {h}) => AtMostOne(r[l], {h})
  BY <1>1
<1>3. \A i \in Loops : \A g : (i # l \/ g # h) => Kept(q, r, i, g)
  BY <1>1 DEF Kept
<1> QED BY <1>2, <1>3 DEF h

(* The order of a connection's functors survives both.                     *)
LEMMA PushOrder ==
  ASSUME NEW q \in [Loops -> Seq(Functor)], NEW l \in Loops, NEW f \in Functor,
         NEW r, r = Push(q, l, f), NEW c \in Conns, NEW i \in Loops,
         Before(q[i], Est(c), Des(c)),
         i = l /\ f = Est(c) => ~Some(q[i], {Des(c)})
  PROVE  Before(r[i], Est(c), Des(c))
<1>1. CASE i # l
  <2>1. r[i] = q[i] BY <1>1, PushType
  <2> QED BY <2>1
<1>2. CASE i = l
  <2>1. r[i] = Append(q[i], f) /\ q[i] \in Seq(Functor) BY <1>2, PushType
  <2>2. Est(c) # Des(c) BY FunctorsDiffer
  <2>3. Before(Append(q[i], f), Est(c), Des(c))
    BY <1>2, <2>1, <2>2, BeforeAppend
  <2> QED BY <2>1, <2>3
<1> QED BY <1>1, <1>2

(* A pop keeps the order, and shows what is not queued any more.           *)
LEMMA PopOrder ==
  ASSUME NEW q \in [Loops -> Seq(Functor)], NEW l \in Loops, q[l] # << >>,
         NEW r, r = Pop(q, l), NEW c \in Conns, NEW i \in Loops,
         Before(q[i], Est(c), Des(c))
  PROVE  /\ Before(r[i], Est(c), Des(c))
         /\ i = l /\ Head(q[l]) = Des(c) => ~Some(q[l], {Est(c)})
<1>1. CASE i # l
  <2>1. r[i] = q[i] BY <1>1, PopType
  <2> QED BY <1>1, <2>1
<1>2. CASE i = l
  <2>1. r[i] = Tail(q[i]) /\ q[i] \in Seq(Functor) BY <1>2, PopType
  <2>2. /\ Before(Tail(q[i]), Est(c), Des(c))
        /\ Head(q[i]) = Des(c) => ~Some(q[i], {Est(c)})
    BY <1>2, <2>1, BeforeTail
  <2> QED BY <1>2, <2>1, <2>2
<1> QED BY <1>1, <1>2

(* The functors of the connections that a push or a pop is not about.      *)
LEMMA PushOther ==
  ASSUME NEW q \in [Loops -> Seq(Functor)], NEW l \in Loops, NEW f \in Functor,
         NEW r, r = Push(q, l, f), NEW c \in Conns, f \notin Own(c)
  PROVE  Same(c, q, r)
<1>1. Est(c) \in Own(c) BY DEF Own
<1>2. \A i \in Loops : Before(q[i], Est(c), Des(c))
                         => Before(r[i], Est(c), Des(c))
  BY <1>1, PushOrder
<1>3. \A i \in Loops : \A g \in Own(c) : Kept(q, r, i, g) BY PushKeeps
<1> QED BY <1>2, <1>3 DEF Same

(* The same for a pop.                                                     *)
LEMMA PopOther ==
  ASSUME NEW q \in [Loops -> Seq(Functor)], NEW l \in Loops, q[l] # << >>,
         NEW r, r = Pop(q, l), NEW c \in Conns, Head(q[l]) \notin Own(c)
  PROVE  Same(c, q, r)
<1>1. \A i \in Loops : Before(q[i], Est(c), Des(c))
                         => Before(r[i], Est(c), Des(c))
  BY PopOrder
<1>2. \A i \in Loops : \A g \in Own(c) : Kept(q, r, i, g) BY PopKeeps
<1> QED BY <1>1, <1>2 DEF Same

(* A connection that a step is not about.                                  *)
LEMMA ConnFrame ==
  ASSUME ServerTypeOK, NEW c \in Conns, Same(c, queue, queue'),
         state_'[c] = state_[c], destroyRuns'[c] = destroyRuns[c],
         c \in connections_' <=> c \in connections_,
         ioLoop'[c] = ioLoop[c], base = "returned" => base' = "returned"
  PROVE  /\ Known(c) => Known(c)'
         /\ Unborn(c) => Unborn(c)'
<1>1. ioLoop[c] \in Loops /\ Base \in Loops
  BY ServerAssumption DEF ServerTypeOK, Base, Loops
<1>2. {Est(c), Des(c), Rem(c)} = Own(c) BY DEF Own
<1>3. \A l \in Loops : \A f \in Own(c) : /\ Has(l, f)' <=> Has(l, f)
                                         /\ Single(l, f) => Single(l, f)'
  BY DEF Same, Kept, Has, Single
<1>4. Before(queue[ioLoop[c]], Est(c), Des(c))
        => Before(queue'[ioLoop[c]], Est(c), Des(c))
  BY <1>1 DEF Same
<1>5. AtHome(c) => AtHome(c)' BY <1>1, <1>2, <1>3 DEF AtHome
<1>6. SetUp(c) => SetUp(c)' BY <1>1, <1>2, <1>3, <1>4 DEF SetUp
<1>7. Removal(c) => Removal(c)' BY <1>1, <1>2, <1>3 DEF Removal
<1>8. Once(c) => Once(c)' BY <1>1, <1>2, <1>3 DEF Once
<1>9. Unborn(c) => Unborn(c)' BY <1>3 DEF Unborn
<1> QED BY <1>5, <1>6, <1>7, <1>8, <1>9 DEF Known

(* A step that is about the connections in D, if about any.                *)
LEMMA ConnStep ==
  ASSUME ServerTypeOK, ConnInv, NEW D \in SUBSET Conns,
         nextConnId_' = nextConnId_, ioLoop' = ioLoop,
         base = "returned" => base' = "returned",
         \A c \in Conns \ D : /\ Same(c, queue, queue')
                              /\ state_'[c] = state_[c]
                              /\ destroyRuns'[c] = destroyRuns[c]
                              /\ c \in connections_' <=> c \in connections_,
         \A c \in D : c < nextConnId_ /\ Known(c)'
  PROVE  ConnInv'
<1> SUFFICES ASSUME NEW c \in Conns
             PROVE  /\ c < nextConnId_ => Known(c)'
                    /\ c >= nextConnId_ => Unborn(c)'
  BY DEF ConnInv
<1>1. c \in Int /\ nextConnId_ \in Int
  BY ServerAssumption DEF ServerTypeOK, Conns
<1>2. CASE c \in D BY <1>1, <1>2
<1>3. CASE c \notin D
  <2>1. (Known(c) => Known(c)') /\ (Unborn(c) => Unborn(c)')
    BY <1>3, ConnFrame
  <2> QED BY <2>1 DEF ConnInv
<1> QED BY <1>2, <1>3

(* Queues that do not change.                                              *)
LEMMA SameQueues ==
  ASSUME NEW q, NEW c
  PROVE  Same(c, q, q)
BY DEF Same, Kept

(* Functor f of connection d is run.                                       *)
LEMMA Popped ==
  ASSUME ServerTypeOK, NEW l \in Loops, NEW d \in Conns, NEW f \in Own(d),
         queue[l] # << >>, Head(queue[l]) = f, queue' = Pop(queue, l)
  PROVE  /\ Has(l, f)
         /\ Single(l, f) => ~Has(l, f)' /\ Single(l, f)'
         /\ \A i \in Loops : \A g \in Own(d) : i # l \/ g # f =>
              (Has(i, g)' <=> Has(i, g)) /\ (Single(i, g) => Single(i, g)')
         /\ \A i \in Loops : Before(queue[i], Est(d), Des(d)) =>
              /\ Before(queue'[i], Est(d), Des(d))
              /\ i = l /\ f = Des(d) => ~Has(l, Est(d))
         /\ \A c \in Conns \ {d} : Same(c, queue, queue')
<1>1. queue \in [Loops -> Seq(Functor)] BY DEF ServerTypeOK
<1>2. Has(l, f)
  <2>1. 1 \in DOMAIN queue[l] /\ queue[l][1] = f BY <1>1
  <2> QED BY <2>1 DEF Has, Some
<1>3. /\ AtMostOne(queue[l], {f}) => ~Some(queue'[l], {f})
      /\ AtMostOne(queue[l], {f}) => AtMostOne(queue'[l], {f})
      /\ \A i \in Loops : \A g : (i # l \/ g # f) => Kept(queue, queue', i, g)
  BY <1>1, PopKeeps
<1>4. \A i \in Loops : Before(queue[i], Est(d), Des(d)) =>
        /\ Before(queue'[i], Est(d), Des(d))
        /\ i = l /\ f = Des(d) => ~Some(queue[l], {Est(d)})
  BY <1>1, PopOrder
<1>5. ASSUME NEW c \in Conns \ {d} PROVE Same(c, queue, queue')
  <2>1. Head(queue[l]) \notin Own(c) BY FunctorsDiffer
  <2> QED BY <1>1, <2>1, PopOther
<1> QED BY <1>2, <1>3, <1>4, <1>5 DEF Has, Single, Kept

(* Functor f of connection d is queued.                                    *)
LEMMA Pushed ==
  ASSUME ServerTypeOK, NEW l \in Loops, NEW d \in Conns, NEW f \in Own(d),
         queue' = Push(queue, l, f)
  PROVE  /\ Has(l, f)'
         /\ ~Has(l, f) /\ Single(l, f) => Single(l, f)'
         /\ \A i \in Loops : \A g \in Own(d) : i # l \/ g # f =>
              (Has(i, g)' <=> Has(i, g)) /\ (Single(i, g) => Single(i, g)')
         /\ \A i \in Loops :
              /\ Before(queue[i], Est(d), Des(d))
              /\ i = l /\ f = Est(d) => ~Has(i, Des(d))
              => Before(queue'[i], Est(d), Des(d))
         /\ \A c \in Conns \ {d} : Same(c, queue, queue')
<1>1. queue \in [Loops -> Seq(Functor)] /\ f \in Functor
  BY FunctorsDiffer DEF ServerTypeOK
<1>3. /\ Some(queue'[l], {f})
      /\ ~Some(queue[l], {f}) /\ AtMostOne(queue[l], {f})
           => AtMostOne(queue'[l], {f})
      /\ \A i \in Loops : \A g : (i # l \/ g # f) => Kept(queue, queue', i, g)
  BY <1>1, PushKeeps
<1>4. \A i \in Loops :
        /\ Before(queue[i], Est(d), Des(d))
        /\ i = l /\ f = Est(d) => ~Some(queue[i], {Des(d)})
        => Before(queue'[i], Est(d), Des(d))
  BY <1>1, PushOrder
<1>5. ASSUME NEW c \in Conns \ {d} PROVE Same(c, queue, queue')
  <2>1. f \notin Own(c) BY FunctorsDiffer
  <2> QED BY <1>1, <2>1, PushOther
<1> QED BY <1>3, <1>4, <1>5 DEF Has, Single, Kept

(* A connection that has a functor queued, or a state, has been made.      *)
LEMMA IsKnown ==
  ASSUME ServerTypeOK, ConnInv, NEW d \in Conns,
         \/ \E l \in Loops : \E f \in Own(d) : Has(l, f)
         \/ state_[d] # "none"
         \/ d \in connections_
  PROVE  /\ d < nextConnId_ /\ Known(d)
         /\ ioLoop[d] \in Loops /\ Base \in Loops
         /\ Est(d) \in Own(d) /\ Des(d) \in Own(d) /\ Rem(d) \in Own(d)
         /\ Est(d) # Des(d) /\ Est(d) # Rem(d) /\ Des(d) # Rem(d)
<1>1. d \in Int /\ nextConnId_ \in Int
  BY ServerAssumption DEF ServerTypeOK, Conns
<1>2. ~Unborn(d) BY DEF Unborn
<1>3. d < nextConnId_ /\ Known(d) BY <1>1, <1>2 DEF ConnInv
<1>4. ioLoop[d] \in Loops /\ Base \in Loops
  BY ServerAssumption DEF ServerTypeOK, Base, Loops
<1> QED BY <1>3, <1>4, FunctorsDiffer DEF Own

(* connectEstablished runs.                                                *)
LEMMA EstablishedConn ==
  ASSUME ServerTypeOK, ConnInv, NEW l \in Loops, RunConnectEstablished(l)
  PROVE  ConnInv'
<1>1. PICK d \in Conns : d = Head(queue[l])[2] /\ Head(queue[l]) = Est(d)
  BY HeadFunctor DEF RunConnectEstablished, Est
<1>2. /\ state_' = [state_ EXCEPT ![d] = "kConnected"]
      /\ queue' = Pop(queue, l) /\ queue[l] # << >>
      /\ base' = base /\ nextConnId_' = nextConnId_ /\ ioLoop' = ioLoop
      /\ connections_' = connections_ /\ destroyRuns' = destroyRuns
  BY <1>1, Zenon DEF RunConnectEstablished, NextFunctor, connVars
<1>s. /\ state_'[d] = "kConnected"
      /\ \A c \in Conns \ {d} : state_'[c] = state_[c]
  BY <1>2 DEF ServerTypeOK
<1>o. Est(d) \in Own(d) BY DEF Own
<1>3. /\ Has(l, Est(d))
      /\ Single(l, Est(d)) => ~Has(l, Est(d))' /\ Single(l, Est(d))'
      /\ \A i \in Loops : \A g \in Own(d) : i # l \/ g # Est(d) =>
           (Has(i, g)' <=> Has(i, g)) /\ (Single(i, g) => Single(i, g)')
      /\ \A i \in Loops : Before(queue[i], Est(d), Des(d)) =>
           Before(queue'[i], Est(d), Des(d))
      /\ \A c \in Conns \ {d} : Same(c, queue, queue')
  BY <1>1, <1>2, <1>o, Popped
<1>4. /\ d < nextConnId_ /\ Known(d)
      /\ ioLoop[d] \in Loops /\ Base \in Loops
      /\ Est(d) \in Own(d) /\ Des(d) \in Own(d) /\ Rem(d) \in Own(d)
      /\ Est(d) # Des(d) /\ Est(d) # Rem(d) /\ Des(d) # Rem(d)
  BY <1>3, <1>o, IsKnown
<1>5. l = ioLoop[d] /\ state_[d] = "kConnecting" /\ Single(l, Est(d))
  BY <1>3, <1>4 DEF Known, AtHome, SetUp
<1>6. Known(d)'
  <2>1. AtHome(d)' BY <1>2, <1>s, <1>3, <1>4, <1>5 DEF Known, AtHome
  <2>2. SetUp(d)' BY <1>2, <1>s, <1>3, <1>4, <1>5 DEF Known, SetUp
  <2>3. Removal(d)' BY <1>2, <1>s, <1>3, <1>4, <1>5 DEF Known, Removal
  <2>4. Once(d)' BY <1>2, <1>s, <1>3, <1>4, <1>5 DEF Known, Once
  <2> QED BY <2>1, <2>2, <2>3, <2>4 DEF Known
<1> DEFINE D == {d}
<1>7. D \in SUBSET Conns /\ \A c \in D : c < nextConnId_ /\ Known(c)'
  BY <1>4, <1>6
<1> QED BY <1>2, <1>s, <1>3, <1>7, ConnStep

(* connectDestroyed runs.                                                  *)
LEMMA DestroyedConn ==
  ASSUME ServerTypeOK, ConnInv, NEW l \in Loops, RunConnectDestroyed(l)
  PROVE  ConnInv'
<1>1. PICK d \in Conns : d = Head(queue[l])[2] /\ Head(queue[l]) = Des(d)
  BY HeadFunctor DEF RunConnectDestroyed, Des
<1>2. /\ state_' = [state_ EXCEPT ![d] = IF @ = "kConnected"
                                         THEN "kDisconnected" ELSE @]
      /\ destroyRuns' = [destroyRuns EXCEPT ![d] = @ + 1]
      /\ queue' = Pop(queue, l) /\ queue[l] # << >>
      /\ base' = base /\ nextConnId_' = nextConnId_ /\ ioLoop' = ioLoop
      /\ connections_' = connections_
  BY <1>1, Zenon DEF RunConnectDestroyed, connectDestroyed, NextFunctor,
     connVars
<1>s. /\ state_'[d] = IF state_[d] = "kConnected" THEN "kDisconnected"
                      ELSE state_[d]
      /\ state_[d] \in {"none", "kConnecting", "kConnected", "kDisconnected"}
      /\ destroyRuns'[d] = destroyRuns[d] + 1 /\ destroyRuns[d] \in Nat
      /\ \A c \in Conns \ {d} : /\ state_'[c] = state_[c]
                                /\ destroyRuns'[c] = destroyRuns[c]
  BY <1>2 DEF ServerTypeOK
<1>o. Des(d) \in Own(d) BY DEF Own
<1>3. /\ Has(l, Des(d))
      /\ Single(l, Des(d)) => ~Has(l, Des(d))' /\ Single(l, Des(d))'
      /\ \A i \in Loops : \A g \in Own(d) : i # l \/ g # Des(d) =>
           (Has(i, g)' <=> Has(i, g)) /\ (Single(i, g) => Single(i, g)')
      /\ \A i \in Loops : Before(queue[i], Est(d), Des(d)) =>
           /\ Before(queue'[i], Est(d), Des(d))
           /\ i = l => ~Has(l, Est(d))
      /\ \A c \in Conns \ {d} : Same(c, queue, queue')
  BY <1>1, <1>2, <1>o, Popped
<1>4. /\ d < nextConnId_ /\ Known(d)
      /\ ioLoop[d] \in Loops /\ Base \in Loops
      /\ Est(d) \in Own(d) /\ Des(d) \in Own(d) /\ Rem(d) \in Own(d)
      /\ Est(d) # Des(d) /\ Est(d) # Rem(d) /\ Des(d) # Rem(d)
  BY <1>3, <1>o, IsKnown
<1>5. l = ioLoop[d] /\ ~Has(l, Est(d)) /\ Single(l, Des(d))
  BY <1>3, <1>4 DEF Known, AtHome, SetUp, Once
<1>5a. d \notin connections_ /\ destroyRuns[d] = 0
  BY <1>3, <1>4, <1>5 DEF Known, Once
<1>5b. state_[d] \in {"kConnected", "kDisconnected"}
  BY <1>s, <1>4, <1>5 DEF Known, SetUp
<1>5c. state_'[d] = "kDisconnected" /\ destroyRuns'[d] = 1
  BY <1>s, <1>5a, <1>5b
<1>6. Known(d)'
  <2>1. AtHome(d)' BY <1>2, <1>3, <1>4, <1>5, <1>5c DEF Known, AtHome
  <2>2. SetUp(d)' BY <1>2, <1>3, <1>4, <1>5, <1>5c DEF Known, SetUp
  <2>3. Removal(d)'
    BY <1>2, <1>3, <1>4, <1>5, <1>5a, <1>5c DEF Known, Removal
  <2>4. Once(d)' BY <1>2, <1>3, <1>4, <1>5, <1>5a, <1>5c DEF Known, Once
  <2> QED BY <2>1, <2>2, <2>3, <2>4 DEF Known
<1> DEFINE D == {d}
<1>7. D \in SUBSET Conns /\ \A c \in D : c < nextConnId_ /\ Known(c)'
  BY <1>4, <1>6
<1> QED BY <1>2, <1>s, <1>3, <1>7, ConnStep

(* A connection of the base loop is closed: the server lets go of it, and  *)
(* its connectDestroyed is queued.                                         *)
LEMMA ClosedAtBase ==
  ASSUME PlainInv, ConnInv, NEW d \in Conns, HandleClose(d), ioLoop[d] = Base
  PROVE  ConnInv'
<1>t. ServerTypeOK BY DEF PlainInv
<1>1. /\ state_[d] = "kConnected" /\ Runs(Base)
      /\ state_' = [state_ EXCEPT ![d] = "kDisconnected"]
      /\ connections_' = connections_ \ {d}
      /\ queue' = Push(queue, Base, Des(d))
      /\ base' = base /\ nextConnId_' = nextConnId_ /\ ioLoop' = ioLoop
      /\ destroyRuns' = destroyRuns
  BY Zenon DEF HandleClose, removeConnection, removeConnectionInLoop, Des,
     connVars
<1>s. /\ state_'[d] = "kDisconnected" /\ d \notin connections_'
      /\ \A c \in Conns \ {d} : /\ state_'[c] = state_[c]
                                /\ c \in connections_' <=> c \in connections_
  BY <1>1, <1>t DEF ServerTypeOK
<1>2. /\ d < nextConnId_ /\ Known(d)
      /\ ioLoop[d] \in Loops /\ Base \in Loops
      /\ Est(d) \in Own(d) /\ Des(d) \in Own(d) /\ Rem(d) \in Own(d)
      /\ Est(d) # Des(d) /\ Est(d) # Rem(d) /\ Des(d) # Rem(d)
  BY <1>1, <1>t, IsKnown
<1>3. /\ Has(Base, Des(d))'
      /\ ~Has(Base, Des(d)) /\ Single(Base, Des(d)) => Single(Base, Des(d))'
      /\ \A i \in Loops : \A g \in Own(d) : i # Base \/ g # Des(d) =>
           (Has(i, g)' <=> Has(i, g)) /\ (Single(i, g) => Single(i, g)')
      /\ \A i \in Loops : Before(queue[i], Est(d), Des(d))
                            => Before(queue'[i], Est(d), Des(d))
      /\ \A c \in Conns \ {d} : Same(c, queue, queue')
  BY <1>1, <1>2, <1>t, Pushed
<1>4. base # "returned" BY <1>1 DEF Runs
<1>5. d \in connections_ /\ destroyRuns[d] = 0 /\ ~Has(Base, Des(d))
  BY <1>1, <1>2, <1>4 DEF Known, Removal, Once
<1>5a. ~Has(Base, Rem(d)) /\ ~Has(Base, Est(d))
  BY <1>1, <1>2 DEF Known, AtHome, SetUp
<1>6. Known(d)'
  <2>1. AtHome(d)' BY <1>1, <1>s, <1>2, <1>3 DEF Known, AtHome
  <2>2. SetUp(d)' BY <1>1, <1>s, <1>2, <1>3, <1>5a DEF Known, SetUp
  <2>3. Removal(d)' BY <1>1, <1>s, <1>2, <1>3, <1>5a DEF Known, Removal
  <2>4. Once(d)' BY <1>1, <1>s, <1>2, <1>3, <1>5 DEF Known, Once
  <2> QED BY <2>1, <2>2, <2>3, <2>4 DEF Known
<1> DEFINE D == {d}
<1>7. D \in SUBSET Conns /\ \A c \in D : c < nextConnId_ /\ Known(c)'
  BY <1>2, <1>6
<1> QED BY <1>1, <1>s, <1>t, <1>3, <1>7, ConnStep

(* A connection of another loop is closed: its removeConnectionInLoop is   *)
(* queued in the base loop.                                                *)
LEMMA ClosedAway ==
  ASSUME PlainInv, ConnInv, NEW d \in Conns, HandleClose(d), ioLoop[d] # Base
  PROVE  ConnInv'
<1>t. ServerTypeOK BY DEF PlainInv
<1>1. /\ state_[d] = "kConnected"
      /\ state_' = [state_ EXCEPT ![d] = "kDisconnected"]
      /\ connections_' = connections_
      /\ queue' = Push(queue, Base, Rem(d))
      /\ base' = base /\ nextConnId_' = nextConnId_ /\ ioLoop' = ioLoop
      /\ destroyRuns' = destroyRuns
  BY Zenon DEF HandleClose, removeConnection, Rem, connVars
<1>s. /\ state_'[d] = "kDisconnected"
      /\ \A c \in Conns \ {d} : state_'[c] = state_[c]
  BY <1>1, <1>t DEF ServerTypeOK
<1>2. /\ d < nextConnId_ /\ Known(d)
      /\ ioLoop[d] \in Loops /\ Base \in Loops
      /\ Est(d) \in Own(d) /\ Des(d) \in Own(d) /\ Rem(d) \in Own(d)
      /\ Est(d) # Des(d) /\ Est(d) # Rem(d) /\ Des(d) # Rem(d)
  BY <1>1, <1>t, IsKnown
<1>3. /\ Has(Base, Rem(d))'
      /\ ~Has(Base, Rem(d)) /\ Single(Base, Rem(d)) => Single(Base, Rem(d))'
      /\ \A i \in Loops : \A g \in Own(d) : i # Base \/ g # Rem(d) =>
           (Has(i, g)' <=> Has(i, g)) /\ (Single(i, g) => Single(i, g)')
      /\ \A i \in Loops : Before(queue[i], Est(d), Des(d))
                            => Before(queue'[i], Est(d), Des(d))
      /\ \A c \in Conns \ {d} : Same(c, queue, queue')
  BY <1>1, <1>2, <1>t, Pushed
<1>5. ~Has(Base, Rem(d)) /\ ~Has(ioLoop[d], Est(d)) /\ Single(Base, Rem(d))
  BY <1>1, <1>2 DEF Known, Removal, SetUp
<1>6. Known(d)'
  <2>1. AtHome(d)' BY <1>1, <1>s, <1>2, <1>3 DEF Known, AtHome
  <2>2. SetUp(d)' BY <1>1, <1>s, <1>2, <1>3, <1>5 DEF Known, SetUp
  <2>3. Removal(d)' BY <1>1, <1>s, <1>2, <1>3, <1>5 DEF Known, Removal
  <2>4. Once(d)' BY <1>1, <1>s, <1>2, <1>3, <1>5 DEF Known, Once
  <2> QED BY <2>1, <2>2, <2>3, <2>4 DEF Known
<1> DEFINE D == {d}
<1>7. D \in SUBSET Conns /\ \A c \in D : c < nextConnId_ /\ Known(c)'
  BY <1>2, <1>6
<1> QED BY <1>1, <1>s, <1>t, <1>3, <1>7, ConnStep

(* ~TcpServer lets go of a connection.                                     *)
LEMMA DroppedConn ==
  ASSUME PlainInv, ConnInv, NEW d \in Conns, DestroyConnection(d)
  PROVE  ConnInv'
<1>t. ServerTypeOK BY DEF PlainInv
<1>1. /\ server = "body" /\ d \in connections_
      /\ connections_' = connections_ \ {d}
      /\ base' = base /\ nextConnId_' = nextConnId_ /\ ioLoop' = ioLoop
  BY DEF DestroyConnection, connVars
<1>2. /\ d < nextConnId_ /\ Known(d)
      /\ ioLoop[d] \in Loops /\ Base \in Loops
      /\ Est(d) \in Own(d) /\ Des(d) \in Own(d) /\ Rem(d) \in Own(d)
      /\ Est(d) # Des(d) /\ Est(d) # Rem(d) /\ Des(d) # Rem(d)
  BY <1>1, <1>t, IsKnown
<1>3. base' = "returned" BY <1>1 DEF PlainInv, PoolInv
<1>4. destroyRuns[d] = 0 /\ ~Has(ioLoop[d], Des(d))
  BY <1>1, <1>2 DEF Known, Once
<1>c. /\ d \notin connections_'
      /\ \A c \in Conns \ {d} : c \in connections_' <=> c \in connections_
  BY <1>1
<1> DEFINE D == {d}
<1>5. CASE ioLoop[d] = Base
  <2>1. /\ state_' = [state_ EXCEPT ![d] = IF @ = "kConnected"
                                           THEN "kDisconnected" ELSE @]
        /\ destroyRuns' = [destroyRuns EXCEPT ![d] = @ + 1]
        /\ queue' = queue
    BY <1>5, Zenon DEF DestroyConnection, connectDestroyed
  <2>2. state_[d] \in {"kConnected", "kDisconnected"}
    BY <1>2, <1>5, <1>t DEF Known, AtHome, SetUp, ServerTypeOK
  <2>3. /\ state_'[d] = "kDisconnected" /\ destroyRuns'[d] = 1
        /\ \A c \in Conns \ {d} : /\ state_'[c] = state_[c]
                                  /\ destroyRuns'[c] = destroyRuns[c]
    BY <1>4, <1>t, <2>1, <2>2 DEF ServerTypeOK
  <2>4. \A i \in Loops : \A g \in Own(d) :
          (Has(i, g)' <=> Has(i, g)) /\ (Single(i, g) => Single(i, g)')
    BY <2>1 DEF Has, Single
  <2>5. Known(d)'
    <3>1. AtHome(d)' BY <1>1, <1>2, <2>3, <2>4 DEF Known, AtHome
    <3>2. SetUp(d)' BY <1>1, <1>2, <2>1, <2>2, <2>3, <2>4 DEF Known, SetUp
    <3>3. Removal(d)' BY <1>2, <1>3, <2>3, <2>4 DEF Known, Removal
    <3>4. Once(d)' BY <1>1, <1>c, <1>2, <1>4, <2>3, <2>4 DEF Known, Once
    <3> QED BY <3>1, <3>2, <3>3, <3>4 DEF Known
  <2>6. D \in SUBSET Conns /\ \A c \in D : c < nextConnId_ /\ Known(c)'
    BY <1>2, <2>5
  <2>7. \A c \in Conns : Same(c, queue, queue') BY <2>1, SameQueues
  <2> QED BY <1>1, <1>t, <1>3, <1>c, <2>3, <2>6, <2>7, ConnStep
<1>6. CASE ioLoop[d] # Base
  <2>1. /\ state_' = state_ /\ destroyRuns' = destroyRuns
        /\ queue' = Push(queue, ioLoop[d], Des(d))
    BY <1>6, Zenon DEF DestroyConnection, Des
  <2>2. PICK l \in Loops : l = ioLoop[d] BY <1>2
  <2>3. queue' = Push(queue, l, Des(d)) BY <2>1, <2>2
  <2>4. /\ Has(l, Des(d))'
        /\ ~Has(l, Des(d)) /\ Single(l, Des(d)) => Single(l, Des(d))'
        /\ \A i \in Loops : \A g \in Own(d) : i # l \/ g # Des(d) =>
             (Has(i, g)' <=> Has(i, g)) /\ (Single(i, g) => Single(i, g)')
        /\ \A i \in Loops : Before(queue[i], Est(d), Des(d))
                              => Before(queue'[i], Est(d), Des(d))
        /\ \A c \in Conns \ {d} : Same(c, queue, queue')
    BY <1>2, <1>t, <2>3, Pushed
  <2>5. Known(d)'
    <3>1. AtHome(d)' BY <1>1, <1>2, <2>1, <2>2, <2>4 DEF Known, AtHome
    <3>2. SetUp(d)' BY <1>1, <1>2, <2>1, <2>2, <2>4 DEF Known, SetUp
    <3>3. Removal(d)' BY <1>2, <1>3, <2>1, <2>4 DEF Known, Removal
    <3>4. Once(d)'
      BY <1>1, <1>c, <1>2, <1>4, <2>1, <2>2, <2>4 DEF Known, Once
    <3> QED BY <3>1, <3>2, <3>3, <3>4 DEF Known
  <2>6. D \in SUBSET Conns /\ \A c \in D : c < nextConnId_ /\ Known(c)'
    BY <1>2, <2>5
  <2> QED BY <1>1, <1>t, <1>3, <1>c, <2>1, <2>4, <2>6, ConnStep
<1> QED BY <1>5, <1>6

(* removeConnectionInLoop runs: its functor leaves the base loop's queue   *)
(* and connectDestroyed enters that of the connection's loop.              *)
LEMMA RemovedConn ==
  ASSUME PlainInv, ConnInv, RunRemoveConnectionInLoop
  PROVE  ConnInv'
<1>t. ServerTypeOK BY DEF PlainInv
<1>b. Base \in Loops BY ServerAssumption DEF Base, Loops
<1>0. NextFunctor(Base, "removeConnectionInLoop")
  BY DEF RunRemoveConnectionInLoop
<1>1. PICK d \in Conns : d = Head(queue[Base])[2] /\ Head(queue[Base]) = Rem(d)
  BY <1>0, <1>b, <1>t, HeadFunctor DEF Rem
<1> DEFINE q == Pop(queue, Base)
<1>2. /\ queue' = Push(q, ioLoop[d], Des(d)) /\ queue[Base] # << >>
      /\ Runs(Base)
      /\ connections_' = connections_ \ {d}
      /\ base' = base /\ nextConnId_' = nextConnId_ /\ ioLoop' = ioLoop
      /\ state_' = state_ /\ destroyRuns' = destroyRuns
  BY <1>0, <1>1, Zenon DEF RunRemoveConnectionInLoop, removeConnectionInLoop,
     NextFunctor, connVars, Des
<1>q. queue \in [Loops -> Seq(Functor)] /\ q \in [Loops -> Seq(Functor)]
  BY <1>2, <1>b, <1>t, PopType DEF ServerTypeOK
<1>o. Rem(d) \in Own(d) /\ Des(d) \in Functor BY FunctorsDiffer DEF Own
<1>3. Has(Base, Rem(d)) BY <1>1, <1>2, <1>q, <1>b, HeadEntry DEF Has
<1>4. /\ d < nextConnId_ /\ Known(d)
      /\ ioLoop[d] \in Loops /\ Base \in Loops
      /\ Est(d) \in Own(d) /\ Des(d) \in Own(d) /\ Rem(d) \in Own(d)
      /\ Est(d) # Des(d) /\ Est(d) # Rem(d) /\ Des(d) # Rem(d)
  BY <1>3, <1>o, <1>b, <1>t, IsKnown
<1>5. base # "returned" BY <1>2 DEF Runs
<1>6. /\ ioLoop[d] # Base /\ state_[d] = "kDisconnected"
      /\ Single(Base, Rem(d)) /\ d \in connections_
  BY <1>3, <1>4, <1>5 DEF Known, AtHome, Removal
<1>7. destroyRuns[d] = 0 /\ ~Has(ioLoop[d], Des(d)) /\ ~Has(ioLoop[d], Est(d))
  BY <1>4, <1>6 DEF Known, Once, SetUp
<1>8. PICK l \in Loops : l = ioLoop[d] BY <1>4
<1>r. queue' = Push(q, l, Des(d)) BY <1>2, <1>8
<1>9. /\ AtMostOne(queue[Base], {Rem(d)}) => ~Some(q[Base], {Rem(d)})
      /\ AtMostOne(queue[Base], {Rem(d)}) => AtMostOne(q[Base], {Rem(d)})
      /\ \A i \in Loops : \A g :
           (i # Base \/ g # Rem(d)) => Kept(queue, q, i, g)
  BY <1>1, <1>2, <1>q, <1>b, PopKeeps
<1>10. /\ \A i \in Loops : Before(queue[i], Est(d), Des(d))
                            => Before(q[i], Est(d), Des(d))
  BY <1>2, <1>q, <1>b, PopOrder
<1>11. ASSUME NEW c \in Conns \ {d} PROVE Same(c, queue, queue')
  <2>1. Rem(d) \notin Own(c) /\ Des(d) \notin Own(c) BY <1>4, FunctorsDiffer
  <2>2. Same(c, queue, q) BY <1>1, <1>2, <1>q, <1>b, <2>1, PopOther
  <2> HIDE DEF q
  <2>3. Same(c, q, queue') BY <1>r, <1>q, <1>o, <2>1, PushOther
  <2> QED BY <2>2, <2>3 DEF Same, Kept
<1> HIDE DEF q
<1>12. /\ Some(queue'[l], {Des(d)})
       /\ ~Some(q[l], {Des(d)}) /\ AtMostOne(q[l], {Des(d)})
            => AtMostOne(queue'[l], {Des(d)})
       /\ \A i \in Loops : \A g : (i # l \/ g # Des(d)) => Kept(q, queue', i, g)
  BY <1>r, <1>q, <1>o, PushKeeps
<1>13. \A i \in Loops : Before(q[i], Est(d), Des(d))
                          => Before(queue'[i], Est(d), Des(d))
  BY <1>r, <1>q, <1>o, <1>4, PushOrder
<1>14. /\ Has(l, Des(d))' /\ ~Has(Base, Rem(d))' /\ Single(Base, Rem(d))'
       /\ ~Has(l, Des(d)) /\ Single(l, Des(d)) => Single(l, Des(d))'
       /\ \A i \in Loops : \A g \in Own(d) :
            (i # Base \/ g # Rem(d)) /\ (i # l \/ g # Des(d)) =>
              (Has(i, g)' <=> Has(i, g)) /\ (Single(i, g) => Single(i, g)')
  BY <1>b, <1>4, <1>6, <1>8, <1>9, <1>12 DEF Has, Single, Kept
<1>15. Known(d)'
  <2>1. AtHome(d)' BY <1>2, <1>4, <1>6, <1>8, <1>14 DEF Known, AtHome
  <2>2. SetUp(d)'
    BY <1>2, <1>4, <1>6, <1>7, <1>8, <1>10, <1>13, <1>14 DEF Known, SetUp
  <2>3. Removal(d)' BY <1>2, <1>4, <1>6, <1>14 DEF Known, Removal
  <2>4. Once(d)'
    BY <1>2, <1>4, <1>6, <1>7, <1>8, <1>14 DEF Known, Once
  <2> QED BY <2>1, <2>2, <2>3, <2>4 DEF Known
<1> DEFINE D == {d}
<1>16. D \in SUBSET Conns /\ \A c \in D : c < nextConnId_ /\ Known(c)'
  BY <1>4, <1>15
<1>17. \A c \in Conns \ {d} : c \in connections_' <=> c \in connections_
  BY <1>2
<1> QED BY <1>2, <1>t, <1>11, <1>16, <1>17, ConnStep

(* A client is accepted.                                                   *)
LEMMA AcceptedConn ==
  ASSUME PlainInv, ConnInv, listenning_, waiting > 0,
         newConnection(nextConnId_), base' = base, destroyRuns' = destroyRuns
  PROVE  ConnInv'
<1>t. ServerTypeOK BY DEF PlainInv
<1>1. PICK d \in Conns : d = nextConnId_ BY NewConnection
<1>2. PICK l \in Loops : l = getNextLoop BY NewConnection
<1>3. Unborn(d) /\ d \in Int
  BY <1>1, ServerAssumption DEF ConnInv, Conns
<1>4. /\ ioLoop' = [ioLoop EXCEPT ![d] = l]
      /\ nextConnId_' = d + 1
      /\ connections_' = connections_ \cup {d}
      /\ l = Base => /\ state_' = [state_ EXCEPT ![d] = "kConnected"]
                     /\ queue' = queue
      /\ l # Base => /\ state_' = [state_ EXCEPT ![d] = "kConnecting"]
                     /\ queue' = Push(queue, l, Est(d))
  BY <1>1, <1>2, Zenon DEF newConnection, EstablishedIn, Est
<1>5. /\ ioLoop'[d] = l /\ d \in connections_' /\ destroyRuns'[d] = 0
      /\ state_'[d] = IF l = Base THEN "kConnected" ELSE "kConnecting"
      /\ \A c \in Conns \ {d} : /\ ioLoop'[c] = ioLoop[c]
                                /\ state_'[c] = state_[c]
                                /\ c \in connections_' <=> c \in connections_
  BY <1>3, <1>4, <1>t DEF ServerTypeOK, Unborn
<1>o. /\ Est(d) \in Own(d) /\ Des(d) \in Own(d) /\ Rem(d) \in Own(d)
      /\ Est(d) # Des(d) /\ Est(d) # Rem(d) /\ Des(d) # Rem(d)
      /\ Base \in Loops
  BY FunctorsDiffer, ServerAssumption DEF Own, Base, Loops
<1>6. /\ \A i \in Loops : \A g \in Own(d) :
           Has(i, g)' <=> (l # Base /\ i = l /\ g = Est(d))
      /\ \A c \in Conns \ {d} : Same(c, queue, queue')
  <2>1. CASE l = Base
    <3>1. \A i \in Loops : \A g \in Own(d) : ~Has(i, g)'
      BY <1>3, <1>4, <2>1 DEF Unborn, Has
    <3> QED BY <1>4, <2>1, <3>1, SameQueues
  <2>2. CASE l # Base
    <3>1. queue' = Push(queue, l, Est(d)) BY <1>4, <2>2
    <3>2. /\ Has(l, Est(d))'
          /\ \A i \in Loops : \A g \in Own(d) : i # l \/ g # Est(d) =>
               (Has(i, g)' <=> Has(i, g))
          /\ \A c \in Conns \ {d} : Same(c, queue, queue')
      BY <1>o, <1>t, <3>1, Pushed
    <3> QED BY <1>3, <2>2, <3>2 DEF Unborn
  <2> QED BY <2>1, <2>2
<1>7. \A i \in Loops : \A g \in Own(d) : Single(i, g)'
  <2> SUFFICES ASSUME NEW i \in Loops, NEW g \in Own(d) PROVE Single(i, g)'
    OBVIOUS
  <2>1. ~Has(i, g) => Single(i, g) BY DEF Has, Single, Some, AtMostOne
  <2>2. ~Has(i, g) BY <1>3 DEF Unborn
  <2>3. CASE l = Base BY <1>4, <2>1, <2>2, <2>3 DEF Single
  <2>4. CASE l # Base
    <3>1. queue' = Push(queue, l, Est(d)) BY <1>4, <2>4
    <3>2. /\ ~Has(l, Est(d)) /\ Single(l, Est(d)) => Single(l, Est(d))'
          /\ i # l \/ g # Est(d) => (Single(i, g) => Single(i, g)')
      BY <1>o, <1>t, <3>1, Pushed
    <3> QED BY <2>1, <2>2, <3>2
  <2> QED BY <2>3, <2>4
<1>8. Before(queue'[l], Est(d), Des(d))
  <2>1. ~Has(l, Des(d))' BY <1>o, <1>6
  <2> QED BY <2>1 DEF Has, Some, Before
<1>9. Known(d)'
  <2>1. AtHome(d)' BY <1>o, <1>5, <1>6 DEF AtHome
  <2>2. SetUp(d)' BY <1>o, <1>5, <1>6, <1>7, <1>8 DEF SetUp
  <2>3. Removal(d)' BY <1>o, <1>5, <1>6, <1>7 DEF Removal
  <2>4. Once(d)' BY <1>o, <1>5, <1>6, <1>7 DEF Once
  <2> QED BY <2>1, <2>2, <2>3, <2>4 DEF Known
<1>10. ASSUME NEW c \in Conns
       PROVE  /\ c < nextConnId_' => Known(c)'
              /\ c >= nextConnId_' => Unborn(c)'
  <2>1. c \in Int BY ServerAssumption DEF Conns
  <2>2. CASE c = d BY <1>3, <1>4, <1>9, <2>1, <2>2
  <2>3. CASE c # d
    <3>1. (Known(c) => Known(c)') /\ (Unborn(c) => Unborn(c)')
      BY <1>5, <1>6, <1>t, <2>3, ConnFrame
    <3>2. /\ c < nextConnId_' => c < nextConnId_
          /\ c >= nextConnId_' => c >= nextConnId_
      BY <1>1, <1>3, <1>4, <2>1, <2>3
    <3> QED BY <3>1, <3>2 DEF ConnInv
  <2> QED BY <2>2, <2>3
<1> QED BY <1>10 DEF ConnInv

(* A step that is about no connection: at most <<"listen">> moves.         *)
LEMMA OtherConn ==
  ASSUME PlainInv, ConnInv, nextConnId_' = nextConnId_, ioLoop' = ioLoop,
         base = "returned" => base' = "returned",
         state_' = state_, destroyRuns' = destroyRuns,
         connections_' = connections_,
         \/ queue' = queue
         \/ queue' = Push(queue, Base, <<"listen">>)
         \/ /\ queue' = Pop(queue, Base) /\ queue[Base] # << >>
            /\ Head(queue[Base]) = <<"listen">>
  PROVE  ConnInv'
<1>1. /\ ServerTypeOK /\ queue \in [Loops -> Seq(Functor)] /\ Base \in Loops
      /\ <<"listen">> \in Functor
  BY ServerAssumption, FunctorKinds DEF PlainInv, ServerTypeOK, Base, Loops
<1>2. ASSUME NEW c \in Conns PROVE Same(c, queue, queue')
  <2>1. <<"listen">> \notin Own(c) BY FunctorsDiffer
  <2>2. CASE queue' = queue BY <2>2, SameQueues
  <2>3. CASE queue' = Push(queue, Base, <<"listen">>)
    BY <1>1, <2>1, <2>3, PushOther
  <2>4. CASE /\ queue' = Pop(queue, Base) /\ queue[Base] # << >>
             /\ Head(queue[Base]) = <<"listen">>
    BY <1>1, <2>1, <2>4, PopOther
  <2> QED BY <2>2, <2>3, <2>4
<1> DEFINE D == {}
<1>3. /\ D \in SUBSET Conns
      /\ \A c \in D : c < nextConnId_ /\ Known(c)'
      /\ \A c \in Conns \ D : /\ Same(c, queue, queue')
                              /\ state_'[c] = state_[c]
                              /\ destroyRuns'[c] = destroyRuns[c]
                              /\ c \in connections_' <=> c \in connections_
  BY <1>2
<1> HIDE DEF D
<1> QED BY <1>1, <1>3, ConnStep

(* The connections' invariant is kept by every step.                       *)
LEMMA NextConn ==
  ASSUME PlainInv, ConnInv, [Next]_vars
  PROVE  ConnInv'
<1> USE DEF poolVars, acceptVars, connVars, lifeVars, dtorVars
<1>t. ServerTypeOK /\ Base \in Loops /\ 1 .. MaxThreads \subseteq Loops
  BY ServerAssumption DEF PlainInv, Base, Loops
<1>1. ASSUME NEW l \in Loops, LoopStep(l) PROVE ConnInv'
  BY <1>1, <1>t, EstablishedConn, DestroyedConn DEF LoopStep
<1>2. CASE RunListen
  <2>1. /\ NextFunctor(Base, "listen") /\ queue' = Pop(queue, Base)
        /\ base' = base /\ nextConnId_' = nextConnId_ /\ ioLoop' = ioLoop
        /\ state_' = state_ /\ destroyRuns' = destroyRuns
        /\ connections_' = connections_
    BY <1>2, Zenon DEF RunListen
  <2>2. queue[Base] # << >> /\ Head(queue[Base]) = <<"listen">>
    BY <1>t, <2>1, HeadFunctor
  <2> QED BY <2>1, <2>2, OtherConn
<1>3. CASE RunRemoveConnectionInLoop BY <1>3, RemovedConn
<1>4. CASE HandleRead
  <2>1. /\ listenning_ /\ waiting > 0
        /\ base' = base /\ destroyRuns' = destroyRuns
    BY <1>4, Zenon DEF HandleRead
  <2>2. \/ newConnection(nextConnId_)
        \/ UNCHANGED <<queue, connVars, connections_, state_>>
    BY <1>4, Zenon DEF HandleRead
  <2>3. CASE newConnection(nextConnId_) BY <2>1, <2>3, AcceptedConn
  <2>4. CASE UNCHANGED <<queue, connVars, connections_, state_>>
    BY <2>1, <2>4, OtherConn
  <2> QED BY <2>2, <2>3, <2>4
<1>5. ASSUME NEW c \in Conns, HandleClose(c) PROVE ConnInv'
  BY <1>5, ClosedAtBase, ClosedAway
<1>6. ASSUME NEW c \in Conns, DestroyConnection(c) PROVE ConnInv'
  BY <1>6, DroppedConn
<1>7. ASSUME NEW t, StartListen(t) PROVE ConnInv'
  <2>1. /\ base' = base /\ nextConnId_' = nextConnId_ /\ ioLoop' = ioLoop
        /\ state_' = state_ /\ destroyRuns' = destroyRuns
        /\ connections_' = connections_
    BY <1>7, Zenon DEF StartListen
  <2>2. queue' = queue \/ queue' = Push(queue, Base, <<"listen">>)
    BY <1>7, Zenon DEF StartListen, ListenInLoop
  <2> QED BY <2>1, <2>2, OtherConn
<1>8. CASE /\ base = "returned" => base' = "returned"
           /\ UNCHANGED <<queue, connVars, lifeVars>>
  BY <1>8, OtherConn
<1>9. ASSUME NEW l, LoopEnters(l) \/ LoopExits(l) PROVE ConnInv'
  BY <1>8, <1>9 DEF LoopEnters, LoopExits
<1>10. CASE BaseEnters \/ BaseReturns
  BY <1>8, <1>10 DEF BaseEnters, BaseReturns
<1>11. ASSUME NEW n, SetThreadNum(n) PROVE ConnInv'
  BY <1>8, <1>11 DEF SetThreadNum
<1>12. ASSUME NEW t, Start(t) \/ StartLoop(t) PROVE ConnInv'
  BY <1>8, <1>12 DEF Start, StartLoop
<1>13. CASE ClientConnects \/ DestroyBegins \/ DestroyPool \/ QuitLoop
  BY <1>8, <1>13 DEF ClientConnects, DestroyBegins, DestroyPool, QuitLoop
<1>14. CASE JoinLoop \/ DestroyAcceptor \/ UNCHANGED vars
  BY <1>8, <1>14 DEF JoinLoop, DestroyAcceptor, vars
<1>15. CASE BaseStep BY <1>t, <1>1, <1>2, <1>3, <1>4, <1>15 DEF BaseStep
<1>16. CASE \E l \in 1 .. MaxThreads :
              LoopStep(l) \/ LoopEnters(l) \/ LoopExits(l)
  BY <1>t, <1>1, <1>9, <1>16
<1> QED
  BY <1>5, <1>6, <1>7, <1>10, <1>11, <1>12, <1>13, <1>14, <1>15, <1>16
     DEF Next, StartStep, DestructorStep

(* No connection has been made at the start.                               *)
LEMMA InitConn == Init => ConnInv
<1> SUFFICES ASSUME Init, NEW c \in Conns
             PROVE  c >= nextConnId_ /\ ~(c < nextConnId_) /\ Unborn(c)
  BY DEF ConnInv
<1>1. c >= nextConnId_ /\ ~(c < nextConnId_)
  BY ServerAssumption DEF Init, Conns
<1>2. \A l \in Loops : \A f : ~Has(l, f) BY EmptyQueue DEF Init, Has
<1>3. /\ c \notin connections_ /\ state_[c] = "none" /\ destroyRuns[c] = 0
  BY DEF Init
<1> QED BY <1>1, <1>2, <1>3 DEF Unborn

(* Every connection has exactly one connectDestroyed, although a close by  *)
(* the peer, on its way through two loops, and ~TcpServer both ask for it: *)
(* whoever takes the connection out of connections_ queues it, in the      *)
(* connection's own loop (TcpServer.cc:38-58, 138-159).                    *)
THEOREM DestroyedOnce == Spec => []OneDestroy
<1> DEFINE IInv == PlainInv /\ ConnInv
<1>1. Init => IInv BY InitPlain, InitConn
<1>2. IInv /\ [Next]_vars => IInv' BY NextPlain, NextConn
<1>3. IInv => OneDestroy
  <2> SUFFICES ASSUME IInv, NEW c \in Accepted
               PROVE  destroyRuns[c]
                        + Cardinality({k \in DOMAIN queue[ioLoop[c]] :
                                         queue[ioLoop[c]][k] = Des(c)})
                        + (IF c \in connections_ THEN 1 ELSE 0) = 1
    BY DEF OneDestroy, Des
  <2>1. c \in Conns /\ c < nextConnId_
    BY ServerAssumption DEF PlainInv, ServerTypeOK, Accepted, Conns
  <2>2. Once(c) BY <2>1 DEF ConnInv, Known
  <2>3. Cardinality({k \in DOMAIN queue[ioLoop[c]] :
                       queue[ioLoop[c]][k] = Des(c)})
          = IF Has(ioLoop[c], Des(c)) THEN 1 ELSE 0
    BY <2>2, CountEntry DEF Once, Single, Has
  <2> QED BY <2>2, <2>3 DEF Once
<1> QED BY <1>1, <1>2, <1>3, PTL DEF Spec

(* connectDestroyed never overtakes connectEstablished, in whichever loop  *)
(* either is queued and whoever asks for it (TcpServer.cc:38-58, 86-159):  *)
(* a connection that was destroyed is kDisconnected.                       *)
THEOREM SetUpFirst == Spec => []EstablishedFirst
<1> DEFINE IInv == PlainInv /\ ConnInv
<1>1. Init => IInv BY InitPlain, InitConn
<1>2. IInv /\ [Next]_vars => IInv' BY NextPlain, NextConn
<1>3. IInv => EstablishedFirst
  <2> SUFFICES ASSUME IInv, NEW c \in Accepted
               PROVE  destroyRuns[c] > 0 => state_[c] = "kDisconnected"
    BY DEF EstablishedFirst
  <2>1. c \in Conns /\ c < nextConnId_
    BY ServerAssumption DEF PlainInv, ServerTypeOK, Accepted, Conns
  <2> QED BY <2>1 DEF ConnInv, Known, Once
<1> QED BY <1>1, <1>2, <1>3, PTL DEF Spec
=============================================================================
