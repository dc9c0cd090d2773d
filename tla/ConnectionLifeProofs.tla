------------------------ MODULE ConnectionLifeProofs -------------------------
(***************************************************************************)
(* Proofs about the life of a TcpConnection: its channel is watched for    *)
(* writing exactly while there is output, and, if only the loop's thread   *)
(* calls shutdown, it is reported up and down once, its output is gone     *)
(* before the stream ends, its channel is out of the poller before it is   *)
(* destroyed, and it keeps the promises of module Connection.              *)
(***************************************************************************)
EXTENDS TcpConnectionProofs

-----------------------------------------------------------------------------
(* The functor queue *)

Establish == {<<"connectEstablished">>}
Teardown  == {<<"connectDestroyed">>}
Finish    == {<<"shutdownInLoop">>}

(* Functors that may be queued at any time.                                *)
Ordinary == Functor \ (Establish \cup Teardown \cup Finish)

(* A step takes the functor it runs, if any, off the queue and adds new.   *)
PendingStep(q, new) ==
  /\ pending' = q \o new
  /\ q = pending \/ (Idle /\ pending # << >> /\ q = Tail(pending))
  /\ \/ new \in Seq(Ordinary)
     \/ /\ q = pending /\ new = << <<"connectDestroyed">> >>
        /\ server # "gone" /\ server' = "gone"
     \/ /\ q = pending /\ new = << <<"shutdownInLoop">> >>
        /\ \E w \in Workers : worker[w] = <<"shutdownSet">>

Queues ==
  \E q \in Seq(Functor), new \in Seq(Functor) : PendingStep(q, new)

(* The kinds differ.                                                       *)
LEMMA OrdinaryKinds ==
  /\ <<"writeComplete">> \in Ordinary
  /\ <<"highWaterMark">> \in Ordinary
  /\ \A m \in Messages : <<"sendInLoop", m>> \in Ordinary
  /\ \A f \in Files : \A i \in 0 .. FileLen[f] :
       <<"sendFileInLoop", f, i>> \in Ordinary
<1> USE DEF Ordinary, Establish, Teardown, Finish
<1>1. <<"writeComplete">> \in Ordinary BY FunctorKinds DEF Plain
<1>2. <<"highWaterMark">> \in Ordinary BY FunctorKinds DEF Plain
<1>3. ASSUME NEW m \in Messages PROVE <<"sendInLoop", m>> \in Ordinary
  BY FunctorKinds
<1>4. ASSUME NEW f \in Files, NEW i \in 0 .. FileLen[f]
      PROVE  <<"sendFileInLoop", f, i>> \in Ordinary
  BY FunctorKinds
<1> QED BY <1>1, <1>2, <1>3, <1>4

(* A queue of ordinary functors has none of the others.                    *)
LEMMA OrdinaryQueue ==
  ASSUME NEW new \in Seq(Ordinary)
  PROVE  /\ new \in Seq(Functor)
         /\ ~Some(new, Establish) /\ ~Some(new, Teardown) /\ ~Some(new, Finish)
<1>1. \A k \in DOMAIN new : new[k] \in Ordinary OBVIOUS
<1>2. new \in Seq(Functor) BY DEF Ordinary
<1> QED BY <1>1, <1>2 DEF Some, Ordinary

(* A step that leaves the queue alone, or runs its head.                   *)
LEMMA NothingQueued ==
  ASSUME ConnectionTypeOK
  PROVE  /\ UNCHANGED pending => Queues
         /\ Idle /\ pending # << >> /\ pending' = Tail(pending) => Queues
<1>1. pending \in Seq(Functor) BY DEF ConnectionTypeOK
<1>2. << >> \in Seq(Functor) /\ << >> \in Seq(Ordinary) OBVIOUS
<1>3. ASSUME UNCHANGED pending PROVE Queues
  <2>1. pending' = pending \o << >> BY <1>1, <1>3, ConcatEmptySeq
  <2>2. PendingStep(pending, << >>) BY <1>2, <2>1 DEF PendingStep
  <2> QED BY <1>1, <1>2, <2>2, Zenon DEF Queues
<1>4. ASSUME Idle, pending # << >>, pending' = Tail(pending) PROVE Queues
  <2>1. Tail(pending) \in Seq(Functor) BY <1>1, <1>4
  <2>2. pending' = Tail(pending) \o << >> BY <1>4, <2>1, ConcatEmptySeq
  <2>3. PendingStep(Tail(pending), << >>) BY <1>2, <1>4, <2>2 DEF PendingStep
  <2> QED BY <1>2, <2>1, <2>3, Zenon DEF Queues
<1> QED BY <1>3, <1>4

(* sendInLoop and sendFileInLoop.                                          *)
LEMMA SendQueues ==
  ASSUME ConnectionTypeOK, NEW q \in Seq(Functor),
         q = pending \/ (Idle /\ pending # << >> /\ q = Tail(pending))
  PROVE  /\ \A data \in Seq(Bytes) : sendInLoop(data, q) => Queues
         /\ \A f \in Files : \A offset \in 0 .. FileLen[f] :
              sendFileInLoop(f, offset, q) => Queues
<1>1. << >> \in Seq(Functor) /\ << >> \in Seq(Ordinary) OBVIOUS
<1>2. ASSUME NEW data \in Seq(Bytes), sendInLoop(data, q) PROVE Queues
  <2>1. SendNothing(q) \/ SendData(data, q) BY <1>2, SendInLoopEffect
  <2>2. CASE SendNothing(q)
    <3>1. pending' = q \o << >> BY <2>2, ConcatEmptySeq DEF SendNothing
    <3>2. PendingStep(q, << >>) BY <1>1, <3>1 DEF PendingStep
    <3> QED BY <1>1, <3>2, Zenon DEF Queues
  <2>3. CASE SendData(data, q)
    <3>1. PICK first \in Seq(Bytes), rest \in Seq(Bytes),
               done \in Seq(Functor), high \in Seq(Functor) :
            SentAs(data, q, first, rest, done, high)
      BY <2>3, Zenon DEF SendData
    <3>2. /\ done \in {<< >>, << <<"writeComplete">> >>}
          /\ high \in {<< >>, << <<"highWaterMark">> >>}
          /\ pending' = q \o done \o high
      BY <3>1, Zenon DEF SentAs
    <3>3. /\ << <<"writeComplete">> >> \in Seq(Ordinary)
          /\ << <<"highWaterMark">> >> \in Seq(Ordinary)
      BY OrdinaryKinds
    <3>4. done \in Seq(Ordinary) /\ high \in Seq(Ordinary)
      BY <1>1, <3>2, <3>3, Zenon
    <3>5. done \o high \in Seq(Ordinary) BY <3>4
    <3>6. done \o high \in Seq(Functor) OBVIOUS
    <3>7. (q \o done) \o high = q \o (done \o high) BY ConcatAssociative
    <3>8. PendingStep(q, done \o high) BY <3>2, <3>5, <3>7 DEF PendingStep
    <3> QED BY <3>6, <3>8, Zenon DEF Queues
  <2> QED BY <2>1, <2>2, <2>3
<1>3. ASSUME NEW f \in Files, NEW offset \in 0 .. FileLen[f],
             sendFileInLoop(f, offset, q)
      PROVE  Queues
  <2>1. SendPiece(f, offset, q) BY <1>3, SendFileInLoopEffect
  <2>2. PICK n \in 0 .. FileLen[f] - offset, more \in Seq(Functor) :
          /\ more \in {<< >>, << <<"writeComplete">> >>,
                       << <<"sendFileInLoop", f, offset + n>> >>}
          /\ pending' = q \o more
    BY <2>1 DEF SendPiece
  <2>3. offset + n \in 0 .. FileLen[f] BY ConnectionAssumption
  <2>4. /\ << <<"writeComplete">> >> \in Seq(Ordinary)
        /\ << <<"sendFileInLoop", f, offset + n>> >> \in Seq(Ordinary)
    BY <2>3, OrdinaryKinds
  <2>5. more \in Seq(Ordinary) BY <1>1, <2>2, <2>4, Zenon
  <2>6. PendingStep(q, more) BY <2>2, <2>5 DEF PendingStep
  <2> QED BY <2>6, Zenon DEF Queues
<1> QED BY <1>2, <1>3

(* One functor is added at the end.                                        *)
LEMMA OneQueued ==
  ASSUME ConnectionTypeOK, NEW g \in Functor, pending' = Append(pending, g),
         \/ g \in Ordinary
         \/ /\ g = <<"connectDestroyed">>
            /\ server # "gone" /\ server' = "gone"
         \/ /\ g = <<"shutdownInLoop">>
            /\ \E w \in Workers : worker[w] = <<"shutdownSet">>
  PROVE  Queues
<1>1. pending \in Seq(Functor) BY DEF ConnectionTypeOK
<1>2. <<g>> \in Seq(Functor) /\ (g \in Ordinary => <<g>> \in Seq(Ordinary))
  OBVIOUS
<1>3. pending' = pending \o <<g>> BY <1>1, AppendIsConcat
<1>4. PendingStep(pending, <<g>>) BY <1>2, <1>3 DEF PendingStep
<1> QED BY <1>1, <1>2, <1>4, Zenon DEF Queues

(* Every step treats the queue of functors in one of these ways.           *)
LEMMA QueueSteps ==
  ASSUME ConnectionTypeOK, [Next]_vars
  PROVE  Queues
<1> USE DEF elseVars, chanVars, sockVars, peerVars, histVars
<1>0. pending \in Seq(Functor) BY DEF ConnectionTypeOK
<1>1. CASE HandleEvent \/ HandleClose \/ CloseCallback \/ HandleError
  BY <1>1, NothingQueued DEF HandleEvent, HandleClose, CloseCallback,
     HandleError
<1>2. CASE HandleRead BY <1>2, NothingQueued DEF HandleRead
<1>3. CASE HandleWrite
  <2>1. Drained \/ UNCHANGED <<chanVars, pending, wrShut>>
    BY <1>3, HandleWriteEffect DEF Drain
  <2>2. CASE Drained
    BY <2>2, OneQueued, OrdinaryKinds DEF Drained, Ordinary
  <2>3. CASE UNCHANGED <<chanVars, pending, wrShut>> BY <2>3, NothingQueued
  <2> QED BY <2>1, <2>2, <2>3
<1>4. CASE ChannelRemove \/ UserReturns
  BY <1>4, NothingQueued DEF ChannelRemove, UserReturns
<1>5. CASE connectEstablished \/ RunShutdownInLoop
  BY <1>5, NothingQueued DEF connectEstablished, RunShutdownInLoop,
     NextFunctor
<1>6. CASE RunUserCallback \/ connectDestroyed
  BY <1>6, NothingQueued DEF RunUserCallback, connectDestroyed, NextFunctor
<1>7. CASE RunSendInLoop
  <2>1. /\ NextFunctor("sendInLoop") /\ Idle /\ pending # << >>
        /\ sendInLoop(Payload(Head(pending)[2]), Tail(pending))
    BY <1>7 DEF RunSendInLoop, NextFunctor
  <2> QED BY <2>1, HeadSend, SendQueues
<1>8. CASE RunSendFileInLoop
  <2>1. /\ NextFunctor("sendFileInLoop") /\ Idle /\ pending # << >>
        /\ sendFileInLoop(Head(pending)[2], Head(pending)[3], Tail(pending))
    BY <1>8 DEF RunSendFileInLoop, NextFunctor
  <2> QED BY <2>1, HeadSendFile, SendQueues
<1>9. ASSUME NEW m \in Messages, OwnSend(m) PROVE Queues
  BY <1>0, <1>9, PayloadType, SendQueues DEF OwnSend
<1>10. ASSUME NEW f \in Files, OwnSendFile(f) PROVE Queues
  <2>1. 0 \in 0 .. FileLen[f] BY ConnectionAssumption
  <2> QED BY <1>0, <1>10, <2>1, SendQueues DEF OwnSendFile
<1>11. CASE OwnShutdown BY <1>11, NothingQueued DEF OwnShutdown
<1>12. ASSUME NEW w \in Workers, WorkerQueueSend(w) PROVE Queues
  <2>1. worker[w][1] = "send" /\ worker[w] \in Point
    BY <1>12 DEF WorkerQueueSend, ConnectionTypeOK
  <2>2. worker[w][2] \in Messages \cup Files BY <2>1 DEF Point
  <2> DEFINE g == IF worker[w][2] \in Files
                    THEN <<"sendFileInLoop", worker[w][2], 0>>
                    ELSE <<"sendInLoop", worker[w][2]>>
  <2>3. g \in Ordinary
    BY <2>2, OrdinaryKinds, ConnectionAssumption
  <2>4. pending' = Append(pending, g) BY <1>12 DEF WorkerQueueSend
  <2> HIDE DEF g
  <2> QED BY <2>3, <2>4, OneQueued DEF Ordinary
<1>13. ASSUME NEW w \in Workers, WorkerQueueShutdown(w) PROVE Queues
  <2>1. <<"shutdownInLoop">> \in Functor BY FunctorKinds DEF Plain
  <2> QED BY <1>13, <2>1, OneQueued DEF WorkerQueueShutdown
<1>14. ASSUME NEW w \in Workers, WorkerCall(w) \/ WorkerShutdownSet(w)
       PROVE  Queues
  BY <1>14, NothingQueued DEF WorkerCall, WorkerSend, WorkerShutdownTest,
     WorkerShutdownSet
<1>15. CASE RemoveConnectionInLoop \/ DestroyServer
  <2>1. <<"connectDestroyed">> \in Functor BY FunctorKinds DEF Plain
  <2> QED BY <1>15, <2>1, OneQueued DEF RemoveConnectionInLoop, DestroyServer
<1>16. CASE Destroy BY <1>16, NothingQueued DEF Destroy
<1>17. CASE PeerReceives \/ PeerSends \/ PeerCloses \/ PeerResets
  BY <1>17, NothingQueued DEF PeerReceives, PeerSends, PeerCloses, PeerResets,
     PeerRest
<1>18. CASE Over \/ UNCHANGED vars BY <1>18, NothingQueued DEF Over, vars
<1> QED
  BY <1>1, <1>2, <1>3, <1>4, <1>5, <1>6, <1>7, <1>8, <1>9, <1>10, <1>11,
     <1>12, <1>13, <1>14, <1>15, <1>16, <1>17, <1>18
     DEF Next, LoopStep, OwnCall, WorkerGoesOn

(* What a step does to the functors of the three kinds.                    *)
LEMMA KindSteps ==
  ASSUME ConnectionTypeOK, [Next]_vars
  PROVE  /\ Some(pending', Establish) => Some(pending, Establish)
         /\ AtMostOne(pending, Establish) => AtMostOne(pending', Establish)
         /\ pending # << >>
              => \/ pending' # << >> /\ Head(pending') = Head(pending)
                 \/ Idle
         /\ Some(pending', Finish)
              => \/ Some(pending, Finish)
                 \/ \E w \in Workers : worker[w] = <<"shutdownSet">>
         /\ Some(pending', Teardown)
              => \/ Some(pending, Teardown)
                 \/ server # "gone" /\ server' = "gone"
         /\ AtMostOne(pending, Teardown)
              /\ (Some(pending, Teardown) => server = "gone")
              => AtMostOne(pending', Teardown)
         /\ Some(pending, Teardown)
              => \/ Some(pending', Teardown)
                 \/ Idle /\ pending # << >> /\ Head(pending) \in Teardown
<1>1. PICK q \in Seq(Functor), new \in Seq(Functor) : PendingStep(q, new)
  BY QueueSteps, Zenon DEF Queues
<1>2. /\ pending' = q \o new
      /\ q = pending \/ (Idle /\ pending # << >> /\ q = Tail(pending))
  BY <1>1 DEF PendingStep
<1>3. pending \in Seq(Functor) BY DEF ConnectionTypeOK
<1>4. pending # << >>
        => \/ pending' # << >> /\ Head(pending') = Head(pending)
           \/ Idle
  BY <1>2, <1>3
<1>5. ASSUME NEW X, ~Some(new, X)
      PROVE  /\ Some(pending', X) => Some(pending, X)
             /\ AtMostOne(pending, X) => AtMostOne(pending', X)
             /\ Some(pending, X)
                  => \/ Some(pending', X)
                     \/ Idle /\ pending # << >> /\ Head(pending) \in X
  <2>1. q = pending \/ (pending # << >> /\ q = Tail(pending)) BY <1>2
  <2>2. /\ Some(q \o new, X) => Some(pending, X)
        /\ AtMostOne(pending, X) => AtMostOne(q \o new, X)
        /\ Some(pending, X)
             => Some(q \o new, X) \/ (q = Tail(pending) /\ Head(pending) \in X)
    BY <1>3, <1>5, <2>1, StepQueue, Zenon
  <2>3. ~Some(<< >>, X) BY EmptyQueue
  <2>4. q = pending => (Some(pending, X) => Some(pending', X))
    <3>1. Some(q \o new, X) <=> Some(q, X) \/ Some(new, X)
      BY ConcatQueue, Zenon
    <3> QED BY <1>2, <3>1
  <2> QED BY <1>2, <2>2, <2>4
<1>6. CASE new \in Seq(Ordinary)
  BY <1>4, <1>5, <1>6, OrdinaryQueue
<1>7. CASE /\ q = pending /\ new = << <<"connectDestroyed">> >>
           /\ server # "gone" /\ server' = "gone"
  <2>1. /\ ~Some(new, Establish) /\ ~Some(new, Finish)
        /\ Some(new, Teardown) /\ AtMostOne(new, Teardown)
    BY <1>7, OneEntry DEF Establish, Finish, Teardown
  <2>2. /\ Some(q \o new, Teardown) <=> Some(q, Teardown) \/ Some(new, Teardown)
        /\ AtMostOne(q, Teardown) /\ AtMostOne(new, Teardown)
             /\ ~(Some(q, Teardown) /\ Some(new, Teardown))
             => AtMostOne(q \o new, Teardown)
    BY ConcatQueue, Zenon
  <2>3. /\ Some(pending', Teardown)
        /\ ~Some(pending, Teardown) /\ AtMostOne(pending, Teardown)
             => AtMostOne(pending', Teardown)
    BY <1>2, <1>7, <2>1, <2>2
  <2> QED BY <1>4, <1>5, <1>7, <2>1, <2>3
<1>8. CASE /\ q = pending /\ new = << <<"shutdownInLoop">> >>
           /\ \E w \in Workers : worker[w] = <<"shutdownSet">>
  <2>1. ~Some(new, Establish) /\ ~Some(new, Teardown)
    BY <1>8, OneEntry DEF Establish, Teardown
  <2> QED BY <1>4, <1>5, <1>8, <2>1
<1> QED BY <1>1, <1>6, <1>7, <1>8, Zenon DEF PendingStep

-----------------------------------------------------------------------------
(* Setting up *)

(* Until connectEstablished has run, there is nothing but its functor.     *)
Fresh ==
  /\ state_ = "kConnecting"
  /\ pending # << >> /\ Head(pending) = <<"connectEstablished">>
  /\ events_ = {} /\ index_ = "kNew"
  /\ todo = << >>
  /\ outputBuffer_ = << >> /\ accepted = << >>
  /\ \A w \in Workers : worker[w] = <<"idle">>
  /\ downs = 0 /\ ~destroyed /\ ~wrShut

Established ==
  /\ state_ # "kConnecting"
  /\ ~Some(pending, Establish)

SetUpInv ==
  /\ AtMostOne(pending, Establish)
  /\ (ups = 0 /\ Fresh) \/ (ups = 1 /\ Established)

(* connectEstablished is queued at the start.                              *)
LEMMA InitSetUp == Init => SetUpInv
<1> SUFFICES ASSUME Init PROVE SetUpInv
  OBVIOUS
<1>1. AtMostOne(pending, Establish) BY OneEntry DEF Init
<1>2. Head(pending) = <<"connectEstablished">> /\ pending # << >> BY DEF Init
<1>3. Fresh BY <1>2 DEF Init, Fresh
<1> QED BY <1>1, <1>3 DEF Init, SetUpInv

(* The steps that are possible before connectEstablished has run.          *)
FreshStep ==
  \/ connectEstablished
  \/ RemoveConnectionInLoop \/ DestroyServer
  \/ PeerReceives \/ PeerSends \/ PeerCloses \/ PeerResets
  \/ UNCHANGED vars

(* Only these steps are possible before it has run.                        *)
LEMMA FreshSteps ==
  ASSUME ConnectionTypeOK, Fresh, [Next]_vars
  PROVE  FreshStep
<1> USE DEF Fresh
<1>1. ~HandleEvent BY DEF HandleEvent
<1>2. /\ ~HandleClose /\ ~CloseCallback /\ ~HandleError /\ ~HandleRead
      /\ ~HandleWrite /\ ~ChannelRemove /\ ~UserReturns /\ ~OwnShutdown
  BY DEF HandleClose, CloseCallback, HandleError, HandleRead, HandleWrite,
     ChannelRemove, UserReturns, OwnShutdown, InUser
<1>3. ~OwnCall
  BY <1>2 DEF OwnCall, OwnSend, OwnSendFile, InUser
<1>4. Head(pending)[1] = "connectEstablished" OBVIOUS
<1>5. /\ ~RunSendInLoop /\ ~RunSendFileInLoop /\ ~RunShutdownInLoop
      /\ ~RunUserCallback /\ ~connectDestroyed /\ ~Destroy
  BY <1>4 DEF RunSendInLoop, RunSendFileInLoop, RunShutdownInLoop,
     RunUserCallback, connectDestroyed, NextFunctor, Destroy
<1>6. ASSUME NEW w \in Workers PROVE ~WorkerCall(w) /\ ~WorkerGoesOn(w)
  BY DEF WorkerCall, WorkerSend, WorkerShutdownTest, WorkerGoesOn,
     WorkerQueueSend, WorkerShutdownSet, WorkerQueueShutdown
<1>7. ~Over BY DEF Over
<1> QED BY <1>1, <1>2, <1>3, <1>5, <1>6, <1>7 DEF Next, LoopStep, FreshStep

(* The steps after that leave ups alone, and state_ does not go back.      *)
LEMMA EstablishedSteps ==
  ASSUME ConnectionTypeOK, Established, [Next]_vars
  PROVE  /\ UNCHANGED ups
         /\ state_' # "kConnecting"
         /\ state_' = "kConnected" => state_ = "kConnected"
         /\ ~connectEstablished
<1> USE DEF elseVars, chanVars, sockVars, peerVars, histVars
<1>0. state_ # "kConnecting" BY DEF Established
<1>1. ~connectEstablished
  <2> SUFFICES ASSUME connectEstablished PROVE FALSE
    OBVIOUS
  <2>1. /\ pending \in Seq(Functor) /\ pending # << >>
        /\ Head(pending)[1] = "connectEstablished"
    BY DEF connectEstablished, NextFunctor, ConnectionTypeOK
  <2>2. Head(pending) \in Functor BY <2>1
  <2>3. Head(pending) \in Establish
    BY <2>1, <2>2, FunctorCases DEF Establish, Plain
  <2> QED BY <2>1, <2>3, HeadEntry DEF Established
<1>2. CASE HandleEvent \/ HandleClose \/ CloseCallback \/ HandleError
  BY <1>0, <1>1, <1>2 DEF HandleEvent, HandleClose, Close, CloseCallback,
     HandleError
<1>3. CASE HandleRead
  <2>1. UNCHANGED ups BY <1>3 DEF HandleRead
  <2>2. state_' \in {state_, "kDisconnected"}
    BY <1>3 DEF HandleRead, ReadData, ReadError, ReadEnd, Close
  <2> QED BY <1>0, <1>1, <2>1, <2>2
<1>4. CASE HandleWrite \/ ChannelRemove \/ UserReturns
  BY <1>0, <1>1, <1>4 DEF HandleWrite, ChannelRemove, UserReturns
<1>5. CASE SendStep BY <1>0, <1>1, <1>5, SendStepAccepts
<1>6. CASE RunShutdownInLoop \/ RunUserCallback
  BY <1>0, <1>1, <1>6 DEF RunShutdownInLoop, RunUserCallback
<1>7. CASE connectDestroyed
  <2>1. UNCHANGED ups BY <1>7 DEF connectDestroyed
  <2>2. state_' \in {state_, "kDisconnected"} BY <1>7 DEF connectDestroyed
  <2> QED BY <1>0, <1>1, <2>1, <2>2
<1>8. CASE OwnShutdown BY <1>0, <1>1, <1>8 DEF OwnShutdown
<1>9. ASSUME NEW w \in Workers, WorkerCall(w) \/ WorkerGoesOn(w)
      PROVE  UNCHANGED ups /\ state_' \in {state_, "kDisconnecting"}
  BY <1>9 DEF WorkerCall, WorkerGoesOn, WorkerSend, WorkerShutdownTest,
     WorkerQueueSend, WorkerShutdownSet, WorkerQueueShutdown, WorkerRest
<1>10. CASE RemoveConnectionInLoop \/ DestroyServer \/ Destroy
  BY <1>0, <1>1, <1>10 DEF RemoveConnectionInLoop, DestroyServer, Destroy,
     ServerRest
<1>11. CASE PeerReceives \/ PeerSends \/ PeerCloses \/ PeerResets
  BY <1>0, <1>1, <1>11 DEF PeerReceives, PeerSends, PeerCloses, PeerResets,
     PeerRest
<1>12. CASE Over \/ UNCHANGED vars
  BY <1>0, <1>1, <1>12 DEF Over, vars
<1>13. CASE OwnCall BY <1>5, <1>8, <1>13 DEF OwnCall, SendStep
<1> QED
  BY <1>0, <1>1, <1>2, <1>3, <1>4, <1>5, <1>6, <1>7, <1>9, <1>10, <1>11,
     <1>12, <1>13 DEF Next, LoopStep, SendStep

(* Every step keeps this.                                                  *)
LEMMA NextSetUp ==
  ASSUME ConnectionTypeOK, SetUpInv, [Next]_vars
  PROVE  SetUpInv'
<1>1. AtMostOne(pending', Establish) BY KindSteps DEF SetUpInv
<1>2. CASE ups = 1 /\ Established
  <2>1. ~Some(pending', Establish) BY <1>2, KindSteps DEF Established
  <2> QED BY <1>1, <1>2, <2>1, EstablishedSteps DEF SetUpInv, Established
<1>3. CASE ups = 0 /\ Fresh /\ connectEstablished
  <2>1. /\ ups' = 1 /\ state_' = "kConnected" /\ pending' = Tail(pending)
    BY <1>3 DEF connectEstablished
  <2>2. pending \in Seq(Functor) /\ pending # << >>
    BY <1>3 DEF ConnectionTypeOK, Fresh
  <2>3. Head(pending) \in Establish BY <1>3 DEF Fresh, Establish
  <2>4. ~Some(Tail(pending), Establish)
    BY <2>2, <2>3, TailQueue DEF SetUpInv
  <2> QED BY <1>1, <2>1, <2>4 DEF SetUpInv, Established
<1>4. CASE ups = 0 /\ Fresh /\ ~connectEstablished
  <2> USE DEF elseVars, chanVars, sockVars, peerVars, histVars
  <2>1. FreshStep /\ ~connectEstablished BY <1>4, FreshSteps
  <2>2. UNCHANGED <<state_, events_, index_, todo, outputBuffer_, accepted,
                    worker, downs, destroyed, wrShut, ups>>
    BY <2>1 DEF FreshStep, RemoveConnectionInLoop, DestroyServer, ServerRest,
       PeerReceives, PeerSends, PeerCloses, PeerResets, PeerRest, vars
  <2>3. pending' # << >> /\ Head(pending') = Head(pending)
    <3>1. CASE RemoveConnectionInLoop \/ DestroyServer
      <4>1. pending' = Append(pending, <<"connectDestroyed">>)
        BY <3>1 DEF RemoveConnectionInLoop, DestroyServer
      <4>2. pending \in Seq(Functor) /\ pending # << >>
        BY <1>4 DEF ConnectionTypeOK, Fresh
      <4>3. <<"connectDestroyed">> \in Functor BY FunctorKinds DEF Plain
      <4> QED BY <4>1, <4>2, <4>3
    <3>2. CASE UNCHANGED pending BY <1>4, <3>2 DEF Fresh
    <3> QED
      BY <2>1, <3>1, <3>2 DEF FreshStep, PeerReceives, PeerSends, PeerCloses,
         PeerResets, PeerRest, vars
  <2>4. Fresh' BY <1>4, <2>2, <2>3 DEF Fresh
  <2> QED BY <1>1, <1>4, <2>2, <2>4 DEF SetUpInv
<1> QED BY <1>2, <1>3, <1>4 DEF SetUpInv

-----------------------------------------------------------------------------
(* The channel *)

(* What ends the connection, in what the loop's thread has to do.          *)
Ends == {"handleClose", "handleRead", "remove"}

(* handleClose comes next, or after the callback of another channel.       *)
CloseFirst(t) ==
  Some(t, {"handleClose"})
    => \/ Head(t) = "handleClose"
       \/ Head(t) = "user" /\ Head(Tail(t)) = "handleClose"

TodoOrder(t) == AtMostOne(t, Ends) /\ CloseFirst(t)

(***************************************************************************)
(* Events come from a channel the poller watches, and until they have been *)
(* handled it goes on watching: disableAll, which would put a channel that *)
(* is not watched back into the poller, always finds it there.             *)
(***************************************************************************)
EventsLive ==
  /\ Some(todo, {"handleClose"}) => index_ = "kAdded"
  /\ Some(todo, {"handleRead"}) => index_ = "kAdded" /\ "read" \in events_
  /\ Some(todo, {"remove"}) => state_ # "kConnected"
  /\ state_ = "kConnected" => index_ = "kAdded" /\ "read" \in events_

ChannelInv ==
  /\ TodoOrder(todo)
  /\ EventsLive
  /\ WritingIffBuffered

(* What is left of the work has no more ends than there were.              *)
LEMMA TodoTail ==
  ASSUME todo \in Seq(Chore), todo # << >>, TodoOrder(todo)
  PROVE  /\ Tail(todo) \in Seq(Chore)
         /\ TodoOrder(Tail(todo))
         /\ \A X : Some(Tail(todo), X) => Some(todo, X)
         /\ Head(todo) \in Ends
              => \A e \in Ends : ~Some(Tail(todo), {e})
         /\ Head(todo) \notin {"user", "handleClose"}
              => ~Some(Tail(todo), {"handleClose"})
<1>1. Tail(todo) \in Seq(Chore) OBVIOUS
<1>2. ASSUME NEW X PROVE Some(Tail(todo), X) => Some(todo, X)
  BY TailQueue
<1>3. AtMostOne(Tail(todo), Ends) BY TailQueue DEF TodoOrder
<1>4. ASSUME Head(todo) \in Ends, NEW e \in Ends
      PROVE  ~Some(Tail(todo), {e})
  <2>1. ~Some(Tail(todo), Ends) BY <1>4, TailQueue DEF TodoOrder
  <2> QED BY <2>1 DEF Some
<1>5. CloseFirst(Tail(todo))
  <2> SUFFICES ASSUME Some(Tail(todo), {"handleClose"})
               PROVE  Head(Tail(todo)) = "handleClose"
    BY DEF CloseFirst
  <2>1. Some(todo, {"handleClose"}) BY <1>2
  <2>2. Head(todo) # "handleClose" BY <1>4 DEF Ends
  <2> QED BY <2>1, <2>2 DEF TodoOrder, CloseFirst
<1>6. ASSUME Head(todo) \notin {"user", "handleClose"}
      PROVE  ~Some(Tail(todo), {"handleClose"})
  BY <1>2, <1>6 DEF TodoOrder, CloseFirst
<1> QED BY <1>1, <1>2, <1>3, <1>4, <1>5, <1>6 DEF TodoOrder

(* Callbacks are put before what is left once an end has been reached.     *)
LEMMA TodoUser ==
  ASSUME NEW t \in Seq(Chore), \A e \in Ends : ~Some(t, {e}),
         NEW u \in {<< >>, << "user" >>, << "user", "closeCallback" >>}
  PROVE  TodoOrder(u \o t) /\ \A e \in Ends : ~Some(u \o t, {e})
<1>1. u \in Seq(Chore)
  <2>1. /\ << >> \in Seq(Chore) /\ << "user" >> \in Seq(Chore)
        /\ << "user", "closeCallback" >> \in Seq(Chore)
    BY DEF Chore
  <2> QED BY <2>1, Zenon
<1>2. \A k \in DOMAIN u : u[k] \notin Ends BY DEF Ends
<1>3. ASSUME NEW e \in Ends PROVE ~Some(u \o t, {e})
  <2>1. ~Some(u, {e}) BY <1>2 DEF Some
  <2>2. Some(u \o t, {e}) <=> Some(u, {e}) \/ Some(t, {e})
    BY <1>1, ConcatQueue, Zenon
  <2> QED BY <2>1, <2>2
<1>4. ~Some(u \o t, Ends) BY <1>3 DEF Some, Ends
<1>5. AtMostOne(u \o t, Ends) BY <1>4 DEF Some, AtMostOne
<1>6. CloseFirst(u \o t) BY <1>3 DEF CloseFirst, Ends
<1> QED BY <1>3, <1>5, <1>6 DEF TodoOrder

(* What comes first stays first when more is added.                        *)
LEMMA FirstTwo ==
  ASSUME NEW t \in Seq(Chore), NEW r \in Seq(Chore), Len(t) >= 2
  PROVE  /\ t \o r \in Seq(Chore) /\ Len(t \o r) >= 2
         /\ Head(t \o r) = Head(t) /\ Head(Tail(t \o r)) = Head(Tail(t))
<1>1. t \o r \in Seq(Chore) /\ Len(t \o r) >= 2 OBVIOUS
<1>2. (t \o r)[1] = t[1] /\ (t \o r)[2] = t[2] OBVIOUS
<1>3. /\ Head(t) = t[1] /\ Head(Tail(t)) = t[2]
      /\ Head(t \o r) = (t \o r)[1] /\ Head(Tail(t \o r)) = (t \o r)[2]
  BY <1>1
<1> QED BY <1>1, <1>2, <1>3

(* What handleEvent leaves to do.                                          *)
LEMMA TodoEvent ==
  ASSUME HandleEvent
  PROVE  /\ TodoOrder(todo')
         /\ Some(todo', {"handleRead"}) => In
         /\ ~Some(todo', {"remove"})
<1> DEFINE a == IF Hup /\ ~In THEN << "handleClose" >> ELSE << >>
           b == IF soError    THEN << "handleError" >> ELSE << >>
           c == IF In         THEN << "handleRead" >>  ELSE << >>
           d == IF Out        THEN << "handleWrite" >> ELSE << >>
           ua == << "user" >> \o a
           uab == ua \o b
           uabc == uab \o c
<1>1. todo' = uabc \o d BY DEF HandleEvent
<1>2. /\ a \in {<< "handleClose" >>, << >>}
      /\ b \in {<< "handleError" >>, << >>}
      /\ c \in {<< "handleRead" >>, << >>}
      /\ d \in {<< "handleWrite" >>, << >>}
      /\ a # << >> => ~In
      /\ c # << >> => In
  BY Zenon
<1> HIDE DEF a, b, c, d
<1>3. /\ << >> \in Seq(Chore) /\ << "user" >> \in Seq(Chore)
      /\ << "handleClose" >> \in Seq(Chore)
      /\ << "handleError" >> \in Seq(Chore)
      /\ << "handleRead" >> \in Seq(Chore)
      /\ << "handleWrite" >> \in Seq(Chore)
  BY DEF Chore
<1>4. /\ a \in Seq(Chore) /\ b \in Seq(Chore)
      /\ c \in Seq(Chore) /\ d \in Seq(Chore)
  BY <1>2, <1>3, Zenon
<1>5. ua \in Seq(Chore) BY <1>3, <1>4
<1> HIDE DEF ua
<1>6. uab \in Seq(Chore) BY <1>4, <1>5
<1> HIDE DEF uab
<1>7. uabc \in Seq(Chore) BY <1>4, <1>6
<1> HIDE DEF uabc
<1>8. ASSUME NEW X
      PROVE  /\ Some(todo', X) <=> Some(<< "user" >>, X) \/ Some(a, X)
                \/ Some(b, X) \/ Some(c, X) \/ Some(d, X)
             /\ Some(uab, X) <=> Some(<< "user" >>, X) \/ Some(a, X)
                \/ Some(b, X)
             /\ Some(ua, X) <=> Some(<< "user" >>, X) \/ Some(a, X)
  <2>1. Some(ua, X) <=> Some(<< "user" >>, X) \/ Some(a, X)
    BY <1>3, <1>4, ConcatQueue, Zenon DEF ua
  <2>2. Some(uab, X) <=> Some(ua, X) \/ Some(b, X)
    BY <1>4, <1>5, ConcatQueue, Zenon DEF uab
  <2>3. Some(uabc, X) <=> Some(uab, X) \/ Some(c, X)
    BY <1>4, <1>6, ConcatQueue, Zenon DEF uabc
  <2>4. Some(uabc \o d, X) <=> Some(uabc, X) \/ Some(d, X)
    BY <1>4, <1>7, ConcatQueue, Zenon
  <2> QED BY <1>1, <2>1, <2>2, <2>3, <2>4
<1>9. /\ ~Some(<< "user" >>, Ends) /\ ~Some(b, Ends) /\ ~Some(d, Ends)
      /\ AtMostOne(a, Ends) /\ AtMostOne(c, Ends)
      /\ Some(a, Ends) => a # << >>
      /\ Some(c, Ends) => c # << >>
  BY <1>2 DEF Some, AtMostOne, Ends
<1>10. AtMostOne(todo', Ends)
  <2>1. /\ AtMostOne(<< "user" >>, Ends)
        /\ AtMostOne(b, Ends) /\ AtMostOne(d, Ends)
    BY <1>9 DEF Some, AtMostOne
  <2>2. AtMostOne(ua, Ends)
    BY <1>3, <1>4, <1>9, <2>1, ConcatQueue, Zenon DEF ua
  <2>3. AtMostOne(uab, Ends)
    BY <1>4, <1>5, <1>9, <2>1, <2>2, ConcatQueue, Zenon DEF uab
  <2>4. ~(Some(uab, Ends) /\ Some(c, Ends))
    <3>1. Some(uab, Ends) <=> Some(a, Ends) BY <1>8, <1>9
    <3> QED BY <1>2, <1>9, <3>1
  <2>5. AtMostOne(uabc, Ends)
    BY <1>4, <1>6, <1>9, <2>3, <2>4, ConcatQueue, Zenon DEF uabc
  <2>6. AtMostOne(uabc \o d, Ends)
    BY <1>4, <1>7, <1>9, <2>1, <2>5, ConcatQueue, Zenon
  <2> QED BY <1>1, <2>6
<1>11. CloseFirst(todo')
  <2> SUFFICES ASSUME Some(todo', {"handleClose"})
               PROVE  Head(todo') = "user" /\ Head(Tail(todo')) = "handleClose"
    BY DEF CloseFirst
  <2>1. /\ ~Some(<< "user" >>, {"handleClose"}) /\ ~Some(b, {"handleClose"})
        /\ ~Some(c, {"handleClose"}) /\ ~Some(d, {"handleClose"})
        /\ Some(a, {"handleClose"}) => a # << >>
    BY <1>2 DEF Some
  <2>2. a = << "handleClose" >> BY <1>2, <1>8, <2>1
  <2>3. /\ Len(ua) >= 2 /\ Head(ua) = "user"
        /\ Head(Tail(ua)) = "handleClose"
    BY <2>2 DEF ua
  <2>4. /\ Len(uab) >= 2 /\ Head(uab) = "user"
        /\ Head(Tail(uab)) = "handleClose"
    BY <1>4, <1>5, <2>3, FirstTwo DEF uab
  <2>5. /\ Len(uabc) >= 2 /\ Head(uabc) = "user"
        /\ Head(Tail(uabc)) = "handleClose"
    BY <1>4, <1>6, <2>4, FirstTwo DEF uabc
  <2> QED BY <1>1, <1>4, <1>7, <2>5, FirstTwo
<1>12. Some(todo', {"handleRead"}) => In
  <2>1. /\ ~Some(<< "user" >>, {"handleRead"}) /\ ~Some(a, {"handleRead"})
        /\ ~Some(b, {"handleRead"}) /\ ~Some(d, {"handleRead"})
        /\ Some(c, {"handleRead"}) => c # << >>
    BY <1>2 DEF Some
  <2> QED BY <1>2, <1>8, <2>1
<1>13. ~Some(todo', {"remove"})
  <2>1. /\ ~Some(<< "user" >>, {"remove"}) /\ ~Some(a, {"remove"})
        /\ ~Some(b, {"remove"}) /\ ~Some(c, {"remove"})
        /\ ~Some(d, {"remove"})
    BY <1>2 DEF Some
  <2> QED BY <1>8, <2>1
<1> QED BY <1>10, <1>11, <1>12, <1>13 DEF TodoOrder

(* Steps that leave the channel and the output alone.                      *)
LEMMA ChannelFrame ==
  ASSUME ConnectionTypeOK, ChannelInv,
         UNCHANGED <<outputBuffer_, events_, index_>>,
         state_' = "kConnected" => state_ = "kConnected",
         \/ todo' = todo
         \/ todo # << >> /\ todo' = Tail(todo)
         \/ todo' = << "user" >>
  PROVE  ChannelInv'
<1>1. TodoOrder(todo') /\ \A e \in Ends : Some(todo', {e}) => Some(todo, {e})
  <2>1. CASE todo' = todo BY <2>1 DEF ChannelInv
  <2>2. CASE todo # << >> /\ todo' = Tail(todo)
    BY <2>2, TodoTail DEF ChannelInv, ConnectionTypeOK
  <2>3. CASE todo' = << "user" >>
    <3>1. \A X : Some(todo', X) <=> "user" \in X BY <2>3, OneEntry
    <3>2. AtMostOne(todo', Ends) BY <2>3, OneEntry
    <3> QED BY <3>1, <3>2 DEF TodoOrder, CloseFirst, Ends
  <2> QED BY <2>1, <2>2, <2>3
<1>2. EventsLive' BY <1>1 DEF ChannelInv, EventsLive, Ends
<1>3. WritingIffBuffered' BY DEF ChannelInv, WritingIffBuffered, isWriting
<1> QED BY <1>1, <1>2, <1>3 DEF ChannelInv

(* A send that leaves output behind makes the poller wait for room.        *)
LEMMA ChannelSend ==
  ASSUME ConnectionTypeOK, ChannelInv, NEW data \in Seq(Bytes),
         NEW q \in Seq(Functor), sendInLoop(data, q),
         UNCHANGED <<state_, todo>>
  PROVE  ChannelInv'
<1>1. SendNothing(q) \/ SendData(data, q) BY SendInLoopEffect
<1>2. CASE SendNothing(q)
  BY <1>2, ChannelFrame DEF SendNothing, chanVars
<1>3. CASE SendData(data, q)
  <2>1. PICK first \in Seq(Bytes), rest \in Seq(Bytes),
             done \in Seq(Functor), high \in Seq(Functor) :
          SentAs(data, q, first, rest, done, high)
    BY <1>3, Zenon DEF SendData
  <2>2. outputBuffer_ \in Seq(Bytes) BY DEF ConnectionTypeOK
  <2>3. outputBuffer_' = outputBuffer_ \o rest BY <2>1 DEF SentAs
  <2>4. CASE rest # << >> /\ ~isWriting
    <3>1. Update(events_ \cup {"write"})
      BY <2>1, <2>4 DEF SentAs, enableWriting
    <3>2. events_' = events_ \cup {"write"} /\ index_' = "kAdded"
      BY <3>1 DEF Update
    <3>3. outputBuffer_' # << >> BY <2>2, <2>3, <2>4
    <3> QED BY <3>2, <3>3
            DEF ChannelInv, EventsLive, WritingIffBuffered, isWriting
  <2>5. CASE ~(rest # << >> /\ ~isWriting)
    <3>1. UNCHANGED <<events_, index_>>
      BY <2>1, <2>5 DEF SentAs, chanVars
    <3>2. (outputBuffer_' # << >>) <=> (outputBuffer_ # << >> \/ rest # << >>)
      BY <2>2, <2>3
    <3>3. WritingIffBuffered'
      BY <2>5, <3>1, <3>2 DEF ChannelInv, WritingIffBuffered, isWriting
    <3> QED BY <3>1, <3>3 DEF ChannelInv, EventsLive
  <2> QED BY <2>4, <2>5
<1> QED BY <1>1, <1>2, <1>3

(* handleClose and its like find the channel watched.                      *)
LEMMA ChannelClose ==
  ASSUME ConnectionTypeOK, ChannelInv, todo # << >>, Head(todo) \in Ends,
         index_ = "kAdded", Close
  PROVE  ChannelInv' /\ events_' = {} /\ index_' = "kDeleted"
<1>1. /\ state_' = "kDisconnected" /\ Update({})
      /\ todo' = << "user", "closeCallback" >> \o Tail(todo)
  BY DEF Close, disableAll
<1>2. events_' = {} /\ index_' = "kDeleted" BY <1>1 DEF Update
<1>3. Tail(todo) \in Seq(Chore) /\ \A e \in Ends : ~Some(Tail(todo), {e})
  BY TodoTail DEF ChannelInv, ConnectionTypeOK
<1>4. TodoOrder(todo') /\ \A e \in Ends : ~Some(todo', {e})
  BY <1>1, <1>3, TodoUser
<1> QED BY <1>1, <1>2, <1>4
        DEF ChannelInv, EventsLive, WritingIffBuffered, Ends

(* handleWrite stops waiting when, and only when, the output has drained.  *)
LEMMA ChannelWrite ==
  ASSUME ConnectionTypeOK, ChannelInv, HandleWrite
  PROVE  ChannelInv'
<1>1. /\ todo # << >> /\ Head(todo) = "handleWrite" /\ todo' = Tail(todo)
      /\ UNCHANGED state_
  BY DEF HandleWrite
<1>2. /\ TodoOrder(todo')
      /\ \A X : Some(todo', X) => Some(todo, X)
      /\ ~Some(todo', {"handleClose"})
  BY <1>1, TodoTail DEF ChannelInv, ConnectionTypeOK
<1>3. PICK first \in Seq(Bytes), rest \in Seq(Bytes) :
        /\ outputBuffer_ = first \o rest
        /\ outputBuffer_' = rest
        /\ IF first # << >> /\ rest = << >>
             THEN Drained ELSE UNCHANGED <<chanVars, pending, wrShut>>
  BY HandleWriteEffect DEF Drain
<1>4. CASE first # << >> /\ rest = << >>
  <2>1. Update(events_ \ {"write"})
    BY <1>3, <1>4 DEF Drained, disableWriting
  <2>2. events_' = events_ \ {"write"} /\ outputBuffer_' = << >>
    BY <1>3, <1>4, <2>1 DEF Update
  <2>3. "read" \in events_ => index_' = "kAdded" BY <2>1 DEF Update
  <2>4. EventsLive' BY <1>1, <1>2, <2>2, <2>3 DEF ChannelInv, EventsLive
  <2>5. WritingIffBuffered' BY <2>2 DEF WritingIffBuffered, isWriting
  <2> QED BY <1>2, <2>4, <2>5 DEF ChannelInv
<1>5. CASE ~(first # << >> /\ rest = << >>)
  <2>1. UNCHANGED <<events_, index_>> BY <1>3, <1>5 DEF chanVars
  <2>2. (outputBuffer_' = << >>) <=> (outputBuffer_ = << >>)
    BY <1>3, <1>5
  <2>3. EventsLive' BY <1>1, <1>2, <2>1 DEF ChannelInv, EventsLive
  <2>4. WritingIffBuffered'
    BY <2>1, <2>2 DEF ChannelInv, WritingIffBuffered, isWriting
  <2> QED BY <1>2, <2>3, <2>4 DEF ChannelInv
<1> QED BY <1>4, <1>5

(* Nothing is going on at the start.                                       *)
LEMMA InitChannel == Init => ChannelInv
<1> SUFFICES ASSUME Init PROVE ChannelInv
  OBVIOUS
<1>1. todo = << >> /\ index_ = "kNew" /\ state_ = "kConnecting" BY DEF Init
<1>2. \A X : ~Some(todo, X) /\ AtMostOne(todo, X) BY <1>1, EmptyQueue
<1> QED BY <1>1, <1>2 DEF ChannelInv, TodoOrder, CloseFirst, EventsLive,
        WritingIffBuffered

(* Every step keeps this.                                                  *)
LEMMA NextChannel ==
  ASSUME ConnectionTypeOK, SetUpInv, ChannelInv, [Next]_vars
  PROVE  ChannelInv'
<1> USE DEF elseVars, chanVars, sockVars, peerVars, histVars
<1>0. todo \in Seq(Chore) BY DEF ConnectionTypeOK
<1>1. CASE HandleEvent
  <2>1. index_ = "kAdded" /\ UNCHANGED <<state_, outputBuffer_, chanVars>>
    BY <1>1 DEF HandleEvent
  <2>2. /\ TodoOrder(todo') /\ ~Some(todo', {"remove"})
        /\ Some(todo', {"handleRead"}) => "read" \in events_
    BY <1>1, TodoEvent DEF In
  <2> QED BY <2>1, <2>2
          DEF ChannelInv, EventsLive, WritingIffBuffered, isWriting
<1>2. CASE HandleClose
  <2>1. todo # << >> /\ Head(todo) = "handleClose" /\ Close
    BY <1>2 DEF HandleClose
  <2>2. Some(todo, {"handleClose"}) BY <1>0, <2>1, HeadEntry
  <2>3. index_ = "kAdded" BY <2>2 DEF ChannelInv, EventsLive
  <2> QED BY <2>1, <2>3, ChannelClose DEF Ends
<1>3. CASE CloseCallback \/ HandleError \/ UserReturns
  BY <1>3, ChannelFrame
     DEF CloseCallback, HandleError, UserReturns, InUser
<1>4. CASE HandleRead
  <2>1. todo # << >> /\ Head(todo) = "handleRead" /\ UNCHANGED outputBuffer_
    BY <1>4 DEF HandleRead
  <2>2. Some(todo, {"handleRead"}) BY <1>0, <2>1, HeadEntry
  <2>3. index_ = "kAdded" BY <2>2 DEF ChannelInv, EventsLive
  <2>4. CASE ReadData
    <3>1. /\ UNCHANGED <<state_, events_, index_>>
          /\ todo' = << "user" >> \o Tail(todo)
      BY <2>4 DEF ReadData
    <3>2. Tail(todo) \in Seq(Chore) /\ \A e \in Ends : ~Some(Tail(todo), {e})
      BY <1>0, <2>1, TodoTail DEF ChannelInv, Ends
    <3>3. TodoOrder(todo') /\ \A e \in Ends : ~Some(todo', {e})
      BY <3>1, <3>2, TodoUser
    <3> QED BY <2>1, <3>1, <3>3
            DEF ChannelInv, EventsLive, WritingIffBuffered, isWriting, Ends
  <2>5. CASE ReadError
    BY <2>1, <2>5, ChannelFrame DEF ReadError
  <2>6. CASE ReadEnd
    BY <2>1, <2>3, <2>6, ChannelClose DEF ReadEnd, Ends
  <2> QED BY <1>4, <2>4, <2>5, <2>6 DEF HandleRead
<1>5. CASE HandleWrite BY <1>5, ChannelWrite
<1>6. CASE ChannelRemove
  <2>1. /\ todo # << >> /\ Head(todo) = "remove" /\ todo' = Tail(todo)
        /\ index_' = "kNew" /\ UNCHANGED state_
    BY <1>6 DEF ChannelRemove, RemoveChannel
  <2>2. Some(todo, {"remove"}) BY <1>0, <2>1, HeadEntry
  <2>3. TodoOrder(todo') /\ \A e \in Ends : ~Some(todo', {e})
    BY <1>0, <2>1, TodoTail DEF ChannelInv, Ends
  <2> QED BY <2>1, <2>2, <2>3
          DEF ChannelInv, EventsLive, WritingIffBuffered, Ends
<1>7. CASE connectEstablished
  <2>1. ups = 0 /\ Fresh
    BY <1>7, EstablishedSteps DEF SetUpInv
  <2>2. /\ todo' = << "user" >> /\ Update(events_ \cup {"read"})
        /\ UNCHANGED outputBuffer_
    BY <1>7 DEF connectEstablished, enableReading
  <2>3. events_' = {"read"} /\ index_' = "kAdded" /\ outputBuffer_' = << >>
    BY <2>1, <2>2 DEF Update, Fresh
  <2>4. AtMostOne(todo', Ends) /\ \A e \in Ends : ~Some(todo', {e})
    BY <2>2, OneEntry DEF Ends
  <2> QED BY <2>3, <2>4 DEF ChannelInv, TodoOrder, CloseFirst, EventsLive,
          WritingIffBuffered, isWriting, Ends
<1>8. CASE RunSendInLoop
  <2>1. /\ NextFunctor("sendInLoop") /\ UNCHANGED <<state_, todo>>
        /\ sendInLoop(Payload(Head(pending)[2]), Tail(pending))
    BY <1>8 DEF RunSendInLoop
  <2> QED BY <2>1, HeadSend, ChannelSend
<1>9. ASSUME NEW m \in Messages, OwnSend(m) PROVE ChannelInv'
  <2>1. Payload(m) \in Seq(Bytes) /\ pending \in Seq(Functor)
    BY PayloadType DEF ConnectionTypeOK
  <2> QED BY <1>9, <2>1, ChannelSend DEF OwnSend
<1>10. CASE RunSendFileInLoop
  BY <1>10, ChannelFrame DEF RunSendFileInLoop
<1>11. ASSUME NEW f \in Files, OwnSendFile(f) PROVE ChannelInv'
  BY <1>11, ChannelFrame DEF OwnSendFile
<1>12. CASE RunShutdownInLoop \/ RunUserCallback
  BY <1>12, ChannelFrame DEF RunShutdownInLoop, RunUserCallback
<1>13. CASE connectDestroyed
  <2>1. todo = << >> BY <1>13 DEF connectDestroyed, NextFunctor, Idle
  <2>2. CASE StillUp
    <3>1. /\ state_' = "kDisconnected" /\ Update({})
          /\ todo' = << "user", "remove" >>
      BY <1>13, <2>2, Zenon DEF connectDestroyed, disableAll
    <3>2. index_ = "kAdded" BY <2>2 DEF ChannelInv, EventsLive, StillUp
    <3>3. index_' = "kDeleted" BY <3>1, <3>2 DEF Update
    <3>4. /\ AtMostOne(todo', Ends)
          /\ ~Some(todo', {"handleClose"}) /\ ~Some(todo', {"handleRead"})
      BY <3>1 DEF AtMostOne, Some, Ends
    <3> QED BY <3>1, <3>3, <3>4 DEF ChannelInv, TodoOrder, CloseFirst,
            EventsLive, WritingIffBuffered
  <2>3. CASE ~StillUp
    <3>1. RemoveChannel /\ UNCHANGED <<state_, todo>>
      BY <1>13, <2>3, Zenon DEF connectDestroyed
    <3>2. index_' = "kNew" BY <3>1 DEF RemoveChannel
    <3>3. \A X : ~Some(todo', X) /\ AtMostOne(todo', X)
      BY <2>1, <3>1, EmptyQueue
    <3> QED BY <2>3, <3>1, <3>2, <3>3 DEF ChannelInv, TodoOrder, CloseFirst,
            EventsLive, WritingIffBuffered, StillUp
  <2> QED BY <2>2, <2>3
<1>14. CASE OwnShutdown BY <1>14, ChannelFrame DEF OwnShutdown
<1>15. ASSUME NEW w \in Workers, WorkerCall(w) \/ WorkerGoesOn(w)
       PROVE  ChannelInv'
  <2>1. /\ UNCHANGED <<outputBuffer_, events_, index_, todo>>
        /\ state_' \in {state_, "kDisconnecting"}
    BY <1>15 DEF WorkerCall, WorkerGoesOn, WorkerSend, WorkerShutdownTest,
       WorkerQueueSend, WorkerShutdownSet, WorkerQueueShutdown, WorkerRest
  <2> QED BY <2>1, ChannelFrame
<1>16. CASE RemoveConnectionInLoop \/ DestroyServer \/ Destroy
  BY <1>16, ChannelFrame DEF RemoveConnectionInLoop, DestroyServer, Destroy,
     ServerRest
<1>17. CASE PeerReceives \/ PeerSends \/ PeerCloses \/ PeerResets
  BY <1>17, ChannelFrame DEF PeerReceives, PeerSends, PeerCloses, PeerResets,
     PeerRest
<1>18. CASE Over \/ UNCHANGED vars BY <1>18, ChannelFrame DEF Over, vars
<1> QED
  BY <1>1, <1>2, <1>3, <1>4, <1>5, <1>6, <1>7, <1>8, <1>9, <1>10, <1>11,
     <1>12, <1>13, <1>14, <1>15, <1>16, <1>17, <1>18
     DEF Next, LoopStep, OwnCall

(***************************************************************************)
(* No output is forgotten and no loop is busy waiting for room it does not *)
(* need, whoever calls what: enableWriting (TcpConnection.cc:208),         *)
(* disableWriting (296) and disableAll (253, 326) always find the channel  *)
(* as they assume it to be.                                                *)
(***************************************************************************)
THEOREM WritingCorrect == Spec => []WritingIffBuffered
<1> DEFINE IInv == ConnectionTypeOK /\ SetUpInv /\ ChannelInv
<1>1. Init => IInv BY InitType, InitSetUp, InitChannel
<1>2. IInv /\ [Next]_vars => IInv' BY NextType, NextSetUp, NextChannel
<1>3. IInv => WritingIffBuffered BY DEF ChannelInv
<1> QED BY <1>1, <1>2, <1>3, PTL DEF Spec

-----------------------------------------------------------------------------
(* Ending, when no worker calls shutdown *)

(* No worker is in shutdown, and no functor of it is queued.               *)
NoForeignShutdown ==
  /\ \A w \in Workers : worker[w] \notin {<<"shutdown">>, <<"shutdownSet">>}
  /\ ~Some(pending, Finish)

(***************************************************************************)
(* state_ against the channel and the socket.  A shutdown has been carried *)
(* out or waits for output, and then no sendInLoop adds the channel to the *)
(* poller again: the write fails, or writing is enabled already.           *)
(***************************************************************************)
StateInv ==
  /\ downs = IF state_ = "kDisconnected" THEN 1 ELSE 0
  /\ index_ = "kAdded" => state_ \in {"kConnected", "kDisconnecting"}
  /\ state_ = "kDisconnecting" => wrShut \/ isWriting
  /\ wrShut => /\ outputBuffer_ = << >> /\ ~isWriting
               /\ state_ \notin {"kConnecting", "kConnected"}
  /\ state_ = "kDisconnected" => events_ = {}

(* No thread but the loop's own gets into shutdown.                        *)
LEMMA NextNoForeign ==
  ASSUME ~WorkerShutdown, ConnectionTypeOK, NoForeignShutdown, [Next]_vars
  PROVE  NoForeignShutdown'
<1> USE DEF elseVars, chanVars, sockVars, peerVars, histVars
<1>1. ~Some(pending', Finish) BY KindSteps DEF NoForeignShutdown
<1>2. CASE UNCHANGED worker BY <1>1, <1>2 DEF NoForeignShutdown
<1>3. ASSUME NEW w \in Workers, WorkerCall(w) \/ WorkerGoesOn(w)
      PROVE  NoForeignShutdown'
  <2>1. worker \in [Workers -> Point] BY DEF ConnectionTypeOK
  <2>2. ASSUME NEW m, WorkerSend(w, m) PROVE NoForeignShutdown'
    BY <1>1, <2>1, <2>2 DEF WorkerSend, NoForeignShutdown
  <2>3. CASE WorkerQueueSend(w)
    BY <1>1, <2>1, <2>3 DEF WorkerQueueSend, NoForeignShutdown
  <2>4. ~WorkerShutdownTest(w) BY DEF WorkerShutdownTest
  <2>5. ~WorkerShutdownSet(w) /\ ~WorkerQueueShutdown(w)
    BY DEF WorkerShutdownSet, WorkerQueueShutdown, NoForeignShutdown
  <2> QED BY <1>3, <2>2, <2>3, <2>4, <2>5 DEF WorkerCall, WorkerGoesOn
<1>4. CASE HandleEvent \/ HandleClose \/ CloseCallback \/ HandleError
  BY <1>2, <1>4 DEF HandleEvent, HandleClose, CloseCallback, HandleError
<1>5. CASE HandleRead \/ HandleWrite \/ ChannelRemove \/ UserReturns
  BY <1>2, <1>5 DEF HandleRead, HandleWrite, ChannelRemove, UserReturns
<1>6. CASE SendStep BY <1>2, <1>6, SendStepAccepts
<1>7. CASE connectEstablished \/ RunShutdownInLoop \/ RunUserCallback
  BY <1>2, <1>7 DEF connectEstablished, RunShutdownInLoop, RunUserCallback
<1>8. CASE connectDestroyed \/ OwnShutdown
  BY <1>2, <1>8 DEF connectDestroyed, OwnShutdown
<1>9. CASE RemoveConnectionInLoop \/ DestroyServer \/ Destroy
  BY <1>2, <1>9 DEF RemoveConnectionInLoop, DestroyServer, Destroy, ServerRest
<1>10. CASE PeerReceives \/ PeerSends \/ PeerCloses \/ PeerResets
  BY <1>2, <1>10 DEF PeerReceives, PeerSends, PeerCloses, PeerResets, PeerRest
<1>11. CASE Over \/ UNCHANGED vars BY <1>2, <1>11 DEF Over, vars
<1>12. CASE OwnCall BY <1>6, <1>8, <1>12 DEF OwnCall, SendStep
<1> QED
  BY <1>3, <1>4, <1>5, <1>6, <1>7, <1>8, <1>9, <1>10, <1>11, <1>12
     DEF Next, LoopStep, SendStep

(* So shutdownInLoop is not run as a functor.                              *)
LEMMA NoFinishRun ==
  ASSUME ConnectionTypeOK, NoForeignShutdown
  PROVE  ~RunShutdownInLoop
<1> SUFFICES ASSUME RunShutdownInLoop PROVE FALSE
  OBVIOUS
<1>1. /\ pending \in Seq(Functor) /\ pending # << >>
      /\ Head(pending)[1] = "shutdownInLoop"
  BY DEF RunShutdownInLoop, NextFunctor, ConnectionTypeOK
<1>2. Head(pending) \in Functor BY <1>1
<1>3. Head(pending) \in Finish BY <1>1, <1>2, FunctorCases DEF Finish, Plain
<1> QED BY <1>1, <1>3, HeadEntry DEF NoForeignShutdown

(* A send after the end of the stream, or after the connection was         *)
(* reported down, has no effect; neither it nor one that finds a shutdown  *)
(* waiting touches the channel.                                            *)
LEMMA StateSend ==
  ASSUME ConnectionTypeOK, Established, StateInv, NEW data \in Seq(Bytes),
         NEW q \in Seq(Functor), sendInLoop(data, q),
         UNCHANGED <<state_, downs, wrShut>>
  PROVE  /\ StateInv'
         /\ state_ # "kConnected" => UNCHANGED index_
<1>1. \/ SendNothing(q)
      \/ state_ # "kDisconnected" /\ SendData(data, q)
  BY SendInLoopEffect
<1>2. CASE SendNothing(q)
  <2>1. UNCHANGED <<outputBuffer_, events_, index_>>
    BY <1>2 DEF SendNothing, chanVars
  <2> QED BY <2>1 DEF StateInv, isWriting
<1>3. CASE state_ # "kDisconnected" /\ SendData(data, q)
  <2>1. PICK first \in Seq(Bytes), rest \in Seq(Bytes),
             done \in Seq(Functor), high \in Seq(Functor) :
          SentAs(data, q, first, rest, done, high)
    BY <1>3, Zenon DEF SendData
  <2>2. Direct => Writable BY <2>1 DEF SentAs
  <2>3. ~wrShut BY <2>2 DEF StateInv, Direct, Writable
  <2>4. state_ \in {"kConnected", "kDisconnecting"}
    BY <1>3 DEF ConnectionTypeOK, States, Established
  <2>5. CASE rest # << >> /\ ~isWriting
    <3>1. Update(events_ \cup {"write"})
      BY <2>1, <2>5 DEF SentAs, enableWriting
    <3>2. isWriting' BY <3>1 DEF Update, isWriting
    <3>3. state_ = "kConnected" BY <2>3, <2>4, <2>5 DEF StateInv
    <3> QED BY <1>3, <2>3, <3>2, <3>3 DEF StateInv
  <2>6. CASE ~(rest # << >> /\ ~isWriting)
    <3>1. UNCHANGED <<events_, index_>> BY <2>1, <2>6 DEF SentAs, chanVars
    <3> QED BY <1>3, <2>3, <3>1 DEF StateInv, isWriting
  <2> QED BY <2>5, <2>6
<1> QED BY <1>1, <1>2, <1>3

(* handleWrite: the shutdown that waited is carried out.                   *)
LEMMA StateWrite ==
  ASSUME ConnectionTypeOK, Established, StateInv, HandleWrite
  PROVE  StateInv'
<1>1. UNCHANGED <<state_, downs>> BY DEF HandleWrite, histVars
<1>2. PICK first \in Seq(Bytes), rest \in Seq(Bytes) :
        /\ outputBuffer_ = first \o rest
        /\ outputBuffer_' = rest
        /\ first # << >> => isWriting /\ Writable
        /\ IF first # << >> /\ rest = << >>
             THEN Drained ELSE UNCHANGED <<chanVars, pending, wrShut>>
  BY HandleWriteEffect DEF Drain
<1>3. CASE first # << >> /\ rest = << >>
  <2>1. Update(events_ \ {"write"}) /\ ShutdownAfterDrain
    BY <1>2, <1>3 DEF Drained, disableWriting
  <2>2. ~isWriting' /\ outputBuffer_' = << >>
    BY <1>2, <1>3, <2>1 DEF Update, isWriting
  <2>3. isWriting /\ ~wrShut BY <1>2, <1>3 DEF Writable
  <2>4. state_ \in {"kConnected", "kDisconnecting"}
    BY <2>3 DEF ConnectionTypeOK, States, Established, StateInv, isWriting
  <2>5. CASE state_ = "kDisconnecting"
    <3>1. wrShut' = TRUE
      BY <2>1, <2>5 DEF ShutdownAfterDrain, shutdownInLoop, shutdownWrite
    <3> QED BY <1>1, <2>2, <2>5, <3>1 DEF StateInv
  <2>6. CASE state_ = "kConnected"
    <3>1. UNCHANGED wrShut BY <2>1, <2>6 DEF ShutdownAfterDrain
    <3> QED BY <1>1, <2>3, <2>6, <3>1 DEF StateInv
  <2> QED BY <2>4, <2>5, <2>6
<1>4. CASE ~(first # << >> /\ rest = << >>)
  <2>1. UNCHANGED <<events_, index_, wrShut>> BY <1>2, <1>4 DEF chanVars
  <2>2. wrShut => outputBuffer_' = << >>
    <3> SUFFICES ASSUME wrShut PROVE outputBuffer_' = << >>
      OBVIOUS
    <3>1. outputBuffer_ = << >> BY DEF StateInv
    <3>2. first \o rest = << >> /\ outputBuffer_' = rest BY <1>2, <3>1
    <3>3. rest = << >> BY <3>2
    <3> QED BY <3>2, <3>3
  <2> QED BY <1>1, <2>1, <2>2 DEF StateInv, isWriting
<1> QED BY <1>3, <1>4

(* The steps that leave all this alone.                                    *)
LEMMA StateFrame ==
  ASSUME StateInv, UNCHANGED <<state_, downs, events_, index_, wrShut,
                               outputBuffer_>>
  PROVE  StateInv'
BY DEF StateInv, isWriting

(* The connection is reported down.                                        *)
LEMMA StateDown ==
  ASSUME ConnectionTypeOK, StateInv, index_ = "kAdded",
         state_' = "kDisconnected", disableAll, downs' = downs + 1,
         UNCHANGED <<wrShut, outputBuffer_>>
  PROVE  StateInv'
<1>1. events_' = {} /\ index_' = "kDeleted" BY DEF disableAll, Update
<1>2. downs = 0 BY DEF StateInv
<1>3. ~isWriting' BY <1>1 DEF isWriting
<1> QED BY <1>1, <1>2, <1>3 DEF StateInv

(* Every step keeps the states in step with what was reported.             *)
LEMMA NextState ==
  ASSUME ConnectionTypeOK, SetUpInv, ChannelInv, NoForeignShutdown, StateInv,
         [Next]_vars, NoForeignShutdown'
  PROVE  StateInv'
<1> USE DEF elseVars, chanVars, sockVars, peerVars, histVars
<1>0. todo \in Seq(Chore) BY DEF ConnectionTypeOK
<1>1. CASE ups = 0 /\ Fresh
  <2>1. FreshStep BY <1>1, FreshSteps
  <2>2. CASE connectEstablished
    <3>1. /\ state_' = "kConnected" /\ Update(events_ \cup {"read"})
          /\ UNCHANGED <<wrShut, downs>>
      BY <2>2 DEF connectEstablished, enableReading
    <3> QED BY <1>1, <3>1 DEF StateInv, Fresh
  <2>3. CASE RemoveConnectionInLoop \/ DestroyServer
    BY <2>3, StateFrame DEF RemoveConnectionInLoop, DestroyServer, ServerRest
  <2>4. CASE PeerReceives \/ PeerSends \/ PeerCloses \/ PeerResets
    BY <2>4, StateFrame DEF PeerReceives, PeerSends, PeerCloses, PeerResets,
       PeerRest
  <2>5. CASE UNCHANGED vars BY <2>5, StateFrame DEF vars
  <2> QED BY <2>1, <2>2, <2>3, <2>4, <2>5 DEF FreshStep
<1>2. CASE ups = 1 /\ Established
  <2>1. CASE HandleEvent \/ CloseCallback \/ HandleError \/ UserReturns
    BY <2>1, StateFrame DEF HandleEvent, CloseCallback, HandleError,
       UserReturns
  <2>2. CASE HandleClose
    <3>1. todo # << >> /\ Head(todo) = "handleClose" /\ Close
          /\ UNCHANGED <<wrShut, outputBuffer_>>
      BY <2>2 DEF HandleClose
    <3>2. Some(todo, {"handleClose"}) BY <1>0, <3>1, HeadEntry
    <3>3. index_ = "kAdded" BY <3>2 DEF ChannelInv, EventsLive
    <3> QED BY <3>1, <3>3, StateDown DEF Close
  <2>3. CASE HandleRead
    <3>1. /\ todo # << >> /\ Head(todo) = "handleRead"
          /\ UNCHANGED <<wrShut, outputBuffer_>>
      BY <2>3 DEF HandleRead
    <3>2. Some(todo, {"handleRead"}) BY <1>0, <3>1, HeadEntry
    <3>3. index_ = "kAdded" BY <3>2 DEF ChannelInv, EventsLive
    <3>4. CASE ReadData BY <3>1, <3>4, StateFrame DEF ReadData
    <3>5. CASE ReadError BY <3>1, <3>5, StateFrame DEF ReadError
    <3>6. CASE ReadEnd BY <3>1, <3>3, <3>6, StateDown DEF ReadEnd, Close
    <3> QED BY <2>3, <3>4, <3>5, <3>6 DEF HandleRead
  <2>4. CASE HandleWrite BY <1>2, <2>4, StateWrite
  <2>5. CASE ChannelRemove
    <3>1. /\ index_' = "kNew"
          /\ UNCHANGED <<state_, downs, events_, wrShut, outputBuffer_>>
      BY <2>5 DEF ChannelRemove, RemoveChannel
    <3> QED BY <3>1 DEF StateInv, isWriting
  <2>6. CASE RunSendInLoop
    <3>1. /\ NextFunctor("sendInLoop") /\ UNCHANGED <<state_, downs, wrShut>>
          /\ sendInLoop(Payload(Head(pending)[2]), Tail(pending))
      BY <2>6 DEF RunSendInLoop
    <3> QED BY <1>2, <3>1, HeadSend, StateSend
  <2>7. ASSUME NEW m \in Messages, OwnSend(m) PROVE StateInv'
    <3>1. Payload(m) \in Seq(Bytes) /\ pending \in Seq(Functor)
      BY PayloadType DEF ConnectionTypeOK
    <3> QED BY <1>2, <2>7, <3>1, StateSend DEF OwnSend
  <2>8. CASE RunSendFileInLoop
    BY <2>8, StateFrame DEF RunSendFileInLoop
  <2>9. ASSUME NEW f \in Files, OwnSendFile(f) PROVE StateInv'
    BY <2>9, StateFrame DEF OwnSendFile
  <2>10. CASE RunUserCallback BY <2>10, StateFrame DEF RunUserCallback
  <2>11. CASE connectDestroyed
    <3>1. UNCHANGED <<wrShut, outputBuffer_>> BY <2>11 DEF connectDestroyed
    <3>2. CASE StillUp
      <4>1. /\ state_' = "kDisconnected" /\ disableAll /\ downs' = downs + 1
        BY <2>11, <3>2, Zenon DEF connectDestroyed
      <4>2. index_ = "kAdded" BY <3>2 DEF ChannelInv, EventsLive, StillUp
      <4> QED BY <3>1, <4>1, <4>2, StateDown
    <3>3. CASE ~StillUp
      <4>1. RemoveChannel /\ UNCHANGED <<state_, downs>>
        BY <2>11, <3>3, Zenon DEF connectDestroyed
      <4>2. index_' = "kNew" /\ UNCHANGED events_ BY <4>1 DEF RemoveChannel
      <4> QED BY <3>1, <4>1, <4>2 DEF StateInv, isWriting
    <3> QED BY <3>2, <3>3
  <2>12. CASE OwnShutdown
    <3>1. /\ state_ = "kConnected" /\ state_' = "kDisconnecting"
          /\ IF isWriting THEN UNCHANGED wrShut ELSE wrShut' = TRUE
          /\ UNCHANGED <<downs, events_, index_, outputBuffer_>>
      BY <2>12 DEF OwnShutdown, shutdownInLoop, shutdownWrite
    <3>2. index_ = "kAdded" BY <3>1 DEF ChannelInv, EventsLive
    <3>3. isWriting <=> outputBuffer_ # << >>
      BY <3>2 DEF ChannelInv, WritingIffBuffered
    <3>4. ~wrShut BY <3>1 DEF StateInv
    <3>5. CASE isWriting
      <4>1. UNCHANGED wrShut BY <3>1, <3>5
      <4> QED BY <3>1, <3>4, <3>5, <4>1 DEF StateInv, isWriting
    <3>6. CASE ~isWriting
      <4>1. wrShut' = TRUE BY <3>1, <3>6
      <4> QED BY <3>1, <3>3, <3>6, <4>1 DEF StateInv, isWriting
    <3> QED BY <3>5, <3>6
  <2>13. ASSUME NEW w \in Workers, WorkerCall(w) \/ WorkerGoesOn(w)
         PROVE  StateInv'
    <3>1. ~WorkerShutdownSet(w)
      BY DEF WorkerShutdownSet, NoForeignShutdown
    <3>2. UNCHANGED <<state_, downs, events_, index_, wrShut, outputBuffer_>>
      BY <2>13, <3>1 DEF WorkerCall, WorkerGoesOn, WorkerSend,
         WorkerShutdownTest, WorkerQueueSend, WorkerQueueShutdown, WorkerRest
    <3> QED BY <3>2, StateFrame
  <2>14. CASE RemoveConnectionInLoop \/ DestroyServer \/ Destroy
    BY <2>14, StateFrame DEF RemoveConnectionInLoop, DestroyServer, Destroy,
       ServerRest
  <2>15. CASE PeerReceives \/ PeerSends \/ PeerCloses \/ PeerResets
    BY <2>15, StateFrame DEF PeerReceives, PeerSends, PeerCloses, PeerResets,
       PeerRest
  <2>16. CASE Over \/ UNCHANGED vars BY <2>16, StateFrame DEF Over, vars
  <2>17. ~connectEstablished BY <1>2, EstablishedSteps
  <2> QED
    BY <2>1, <2>2, <2>3, <2>4, <2>5, <2>6, <2>7, <2>8, <2>9, <2>10, <2>11,
       <2>12, <2>13, <2>14, <2>15, <2>16, <2>17, NoFinishRun
       DEF Next, LoopStep, OwnCall
<1> QED BY <1>1, <1>2 DEF SetUpInv

(***************************************************************************)
(* The teardown: connectDestroyed is queued once, when the server has let  *)
(* go of the connection, and until it has run, or its last line has, the   *)
(* connection is not destroyed; after that the channel is out of the       *)
(* poller for good.                                                        *)
(***************************************************************************)
OnlyUser == \A k \in DOMAIN todo : todo[k] = "user"

TornDown ==
  /\ index_ = "kNew"
  /\ state_ \in {"kDisconnecting", "kDisconnected"}
  /\ OnlyUser

Removing == Some(todo, {"remove"})

DestroyInv ==
  /\ AtMostOne(pending, Teardown)
  /\ Some(pending, Teardown) => server = "gone" /\ ~Removing
  /\ Removing => /\ server = "gone" /\ state_ = "kDisconnected"
                 /\ \A k \in DOMAIN todo : todo[k] \in {"user", "remove"}
  /\ server = "gone" => Some(pending, Teardown) \/ Removing \/ TornDown

DestroyedInv ==
  destroyed => /\ server = "gone" /\ pending = << >> /\ todo = << >>
               /\ \A w \in Workers : worker[w] = <<"idle">>

(* After ~TcpConnection only the peer moves.                               *)
LEMMA DestroyedSteps ==
  ASSUME DestroyedInv, destroyed, [Next]_vars
  PROVE  PeerReceives \/ UNCHANGED vars
<1>1. /\ server = "gone" /\ pending = << >> /\ todo = << >>
      /\ \A w \in Workers : worker[w] = <<"idle">>
  BY DEF DestroyedInv
<1>2. ~HandleEvent /\ ~Destroy BY DEF HandleEvent, Destroy, Idle
<1>3. /\ ~HandleClose /\ ~CloseCallback /\ ~HandleError /\ ~HandleRead
      /\ ~HandleWrite /\ ~ChannelRemove /\ ~UserReturns
  BY <1>1 DEF HandleClose, CloseCallback, HandleError, HandleRead,
     HandleWrite, ChannelRemove, UserReturns, InUser
<1>4. ~OwnCall
  BY <1>1 DEF OwnCall, OwnSend, OwnSendFile, OwnShutdown, InUser
<1>5. /\ ~connectEstablished /\ ~RunSendInLoop /\ ~RunSendFileInLoop
      /\ ~RunShutdownInLoop /\ ~RunUserCallback /\ ~connectDestroyed
  BY <1>1 DEF connectEstablished, RunSendInLoop, RunSendFileInLoop,
     RunShutdownInLoop, RunUserCallback, connectDestroyed, NextFunctor
<1>6. ASSUME NEW w \in Workers PROVE ~WorkerCall(w) /\ ~WorkerGoesOn(w)
  BY <1>1 DEF WorkerCall, WorkerSend, WorkerShutdownTest, WorkerGoesOn,
     WorkerQueueSend, WorkerShutdownSet, WorkerQueueShutdown
<1>7. ~RemoveConnectionInLoop /\ ~DestroyServer
  BY <1>1 DEF RemoveConnectionInLoop, DestroyServer
<1>8. ~PeerSends /\ ~PeerCloses /\ ~PeerResets
  BY DEF PeerSends, PeerCloses, PeerResets
<1> QED BY <1>2, <1>3, <1>4, <1>5, <1>6, <1>7, <1>8 DEF Next, LoopStep, Over

(* Only Destroy destroys.                                                  *)
LEMMA DestroyOnly ==
  ASSUME ConnectionTypeOK, [Next]_vars, ~Destroy
  PROVE  UNCHANGED destroyed
<1> USE DEF elseVars, chanVars, sockVars, peerVars, histVars
<1>1. CASE HandleEvent \/ HandleClose \/ CloseCallback \/ HandleError
  BY <1>1 DEF HandleEvent, HandleClose, CloseCallback, HandleError
<1>2. CASE HandleRead \/ HandleWrite \/ ChannelRemove \/ UserReturns
  BY <1>2 DEF HandleRead, HandleWrite, ChannelRemove, UserReturns
<1>3. CASE SendStep BY <1>3, SendStepAccepts
<1>4. CASE connectEstablished \/ RunShutdownInLoop \/ RunUserCallback
  BY <1>4 DEF connectEstablished, RunShutdownInLoop, RunUserCallback
<1>5. CASE connectDestroyed \/ OwnShutdown
  BY <1>5 DEF connectDestroyed, OwnShutdown
<1>6. ASSUME NEW w \in Workers, WorkerCall(w) \/ WorkerGoesOn(w)
      PROVE  UNCHANGED destroyed
  BY <1>6 DEF WorkerCall, WorkerGoesOn, WorkerSend, WorkerShutdownTest,
     WorkerQueueSend, WorkerShutdownSet, WorkerQueueShutdown, WorkerRest
<1>7. CASE RemoveConnectionInLoop \/ DestroyServer
  BY <1>7 DEF RemoveConnectionInLoop, DestroyServer, ServerRest
<1>8. CASE PeerReceives \/ PeerSends \/ PeerCloses \/ PeerResets
  BY <1>8 DEF PeerReceives, PeerSends, PeerCloses, PeerResets, PeerRest
<1>9. CASE Over \/ UNCHANGED vars BY <1>9 DEF Over, vars
<1>10. CASE OwnCall BY <1>3, <1>5, <1>10 DEF OwnCall, SendStep
<1> QED
  BY <1>1, <1>2, <1>3, <1>4, <1>5, <1>6, <1>7, <1>8, <1>9, <1>10
     DEF Next, LoopStep, SendStep

(* A connection that is gone has nothing left to do.                       *)
LEMMA NextDestroyed ==
  ASSUME ConnectionTypeOK, DestroyedInv, [Next]_vars
  PROVE  DestroyedInv'
<1> USE DEF elseVars, chanVars, sockVars, peerVars, histVars
<1>1. CASE destroyed
  <2>1. UNCHANGED <<server, pending, todo, worker>>
    BY <1>1, DestroyedSteps DEF PeerReceives, PeerRest, vars
  <2> QED BY <1>1, <2>1 DEF DestroyedInv
<1>2. CASE Destroy BY <1>2 DEF Destroy, Idle, DestroyedInv
<1>3. CASE ~destroyed /\ ~Destroy
  BY <1>3, DestroyOnly DEF DestroyedInv
<1> QED BY <1>1, <1>2, <1>3

(* Steps that leave the server and the queue's connectDestroyed alone.     *)
LEMMA TeardownFrame ==
  ASSUME ConnectionTypeOK, DestroyInv, [Next]_vars,
         Some(pending, Teardown) => Some(pending', Teardown),
         UNCHANGED server,
         Removing' <=> Removing,
         Removing => /\ UNCHANGED state_
                     /\ \A k \in DOMAIN todo' : todo'[k] \in {"user", "remove"},
         TornDown => TornDown'
  PROVE  DestroyInv'
<1>1. AtMostOne(pending', Teardown) BY KindSteps DEF DestroyInv
<1>2. Some(pending', Teardown) => Some(pending, Teardown)
  BY KindSteps
<1> QED BY <1>1, <1>2 DEF DestroyInv

(* Handlers of events: connectDestroyed has not run.                       *)
LEMMA TeardownEvent ==
  ASSUME ConnectionTypeOK, DestroyInv, [Next]_vars,
         todo # << >>, Head(todo) \notin {"user", "remove"},
         Removing' => Removing,
         (server' = "gone") <=> (server = "gone")
  PROVE  DestroyInv'
<1>1. todo \in Seq(Chore) BY DEF ConnectionTypeOK
<1>2. 1 \in DOMAIN todo /\ todo[1] \notin {"user", "remove"} BY <1>1
<1>3. ~Removing /\ ~TornDown BY <1>2 DEF DestroyInv, TornDown, OnlyUser
<1>4. ~Removing' BY <1>3
<1>5. ~Idle BY DEF Idle
<1>6. AtMostOne(pending', Teardown) BY KindSteps DEF DestroyInv
<1>7. Some(pending', Teardown) <=> Some(pending, Teardown)
  BY <1>5, KindSteps
<1> QED BY <1>3, <1>4, <1>6, <1>7 DEF DestroyInv

(* The functor at the head of the queue, by its kind.                      *)
LEMMA HeadPlain ==
  ASSUME ConnectionTypeOK, NEW k \in Plain, NextFunctor(k)
  PROVE  Head(pending) = <<k>> /\ Tail(pending) \in Seq(Functor)
<1>1. pending \in Seq(Functor) /\ pending # << >> /\ Head(pending)[1] = k
  BY DEF NextFunctor, ConnectionTypeOK
<1>2. Head(pending) \in Functor /\ Tail(pending) \in Seq(Functor) BY <1>1
<1> QED BY <1>1, <1>2, FunctorCases DEF Plain

(* A functor other than connectDestroyed leaves that queued.               *)
LEMMA OtherFunctor ==
  ASSUME ConnectionTypeOK, [Next]_vars,
         todo = << >> => pending = << >> \/ Head(pending) \notin Teardown
  PROVE  Some(pending, Teardown) => Some(pending', Teardown)
BY KindSteps DEF Idle

(* A connection that is up, or whose end is on its way, is held until its  *)
(* teardown has run.                                                       *)
LEMMA NextTeardown ==
  ASSUME ConnectionTypeOK, SetUpInv, ChannelInv, NoForeignShutdown, StateInv,
         DestroyInv, [Next]_vars
  PROVE  DestroyInv'
<1> USE DEF elseVars, chanVars, sockVars, peerVars, histVars
<1>0. todo \in Seq(Chore) /\ pending \in Seq(Functor) BY DEF ConnectionTypeOK
<1>1. CASE HandleEvent
  <2>1. /\ index_ = "kAdded" /\ todo = << >>
        /\ UNCHANGED <<pending, server, state_>>
    BY <1>1 DEF HandleEvent, Idle
  <2>2. ~Removing BY <2>1, EmptyQueue DEF Removing
  <2>3. ~Removing' BY <1>1, TodoEvent DEF Removing
  <2> QED BY <2>1, <2>2, <2>3, TeardownFrame DEF TornDown
<1>2. CASE HandleClose
  <2>1. /\ todo # << >> /\ Head(todo) = "handleClose" /\ UNCHANGED server
        /\ todo' = << "user", "closeCallback" >> \o Tail(todo)
    BY <1>2 DEF HandleClose, Close
  <2>2. Tail(todo) \in Seq(Chore) /\ \A e \in Ends : ~Some(Tail(todo), {e})
    BY <1>0, <2>1, TodoTail DEF ChannelInv, Ends
  <2>3. ~Some(todo', {"remove"}) BY <2>1, <2>2, TodoUser DEF Ends
  <2> QED BY <2>1, <2>3, TeardownEvent DEF Removing
<1>3. CASE CloseCallback \/ HandleError
  <2>1. /\ todo # << >> /\ Head(todo) \in {"closeCallback", "handleError"}
        /\ todo' = Tail(todo)
        /\ (server' = "gone") <=> (server = "gone")
    BY <1>3 DEF CloseCallback, HandleError, removeConnection
  <2>2. Removing' => Removing
    BY <1>0, <2>1, TodoTail DEF ChannelInv, Removing
  <2> QED BY <2>1, <2>2, TeardownEvent
<1>4. CASE HandleRead
  <2>1. todo # << >> /\ Head(todo) = "handleRead" /\ UNCHANGED server
    BY <1>4 DEF HandleRead
  <2>2. Tail(todo) \in Seq(Chore) /\ \A e \in Ends : ~Some(Tail(todo), {e})
    BY <1>0, <2>1, TodoTail DEF ChannelInv, Ends
  <2>3. PICK u \in {<< >>, << "user" >>, << "user", "closeCallback" >>} :
          todo' = u \o Tail(todo)
    <3>1. CASE ReadData BY <3>1 DEF ReadData
    <3>2. CASE ReadError
      <4>1. << >> \o Tail(todo) = Tail(todo) BY <2>2, ConcatEmptySeq
      <4> QED BY <3>2, <4>1 DEF ReadError
    <3>3. CASE ReadEnd BY <3>3 DEF ReadEnd, Close
    <3> QED BY <1>4, <3>1, <3>2, <3>3 DEF HandleRead
  <2>4. ~Some(todo', {"remove"}) BY <2>2, <2>3, TodoUser DEF Ends
  <2> QED BY <2>1, <2>4, TeardownEvent DEF Removing
<1>5. CASE HandleWrite
  <2>1. /\ todo # << >> /\ Head(todo) = "handleWrite" /\ todo' = Tail(todo)
        /\ UNCHANGED server
    BY <1>5 DEF HandleWrite
  <2>2. Removing' => Removing
    BY <1>0, <2>1, TodoTail DEF ChannelInv, Removing
  <2> QED BY <2>1, <2>2, TeardownEvent
<1>6. CASE ChannelRemove
  <2>1. /\ todo # << >> /\ Head(todo) = "remove" /\ todo' = Tail(todo)
        /\ index_' = "kNew" /\ UNCHANGED <<state_, server, pending>>
    BY <1>6 DEF ChannelRemove, RemoveChannel
  <2>2. Removing BY <1>0, <2>1, HeadEntry DEF Removing
  <2>3. ~Some(todo', {"remove"})
    BY <1>0, <2>1, TodoTail DEF ChannelInv, Ends
  <2>4. \A k \in DOMAIN todo' : k + 1 \in DOMAIN todo /\ todo'[k] = todo[k + 1]
    BY <1>0, <2>1
  <2>5. \A k \in DOMAIN todo' : todo'[k] \in {"user", "remove"}
    BY <2>2, <2>4 DEF DestroyInv
  <2>6. OnlyUser' BY <2>3, <2>5 DEF OnlyUser, Some
  <2> QED BY <2>1, <2>2, <2>3, <2>6 DEF DestroyInv, TornDown, Removing
<1>7. CASE UserReturns
  <2>1. /\ todo # << >> /\ Head(todo) = "user" /\ todo' = Tail(todo)
        /\ UNCHANGED <<state_, index_, server, pending>>
    BY <1>7 DEF UserReturns, InUser
  <2>2. Removing' <=> Removing BY <1>0, <2>1, TailQueue DEF Removing
  <2>3. \A k \in DOMAIN todo' : k + 1 \in DOMAIN todo /\ todo'[k] = todo[k + 1]
    BY <1>0, <2>1
  <2>4. OnlyUser => OnlyUser' BY <2>3 DEF OnlyUser
  <2>5. Removing => \A k \in DOMAIN todo' : todo'[k] \in {"user", "remove"}
    BY <2>3 DEF DestroyInv
  <2> QED BY <2>1, <2>2, <2>4, <2>5, TeardownFrame DEF TornDown
<1>8. CASE connectEstablished
  <2>1. Fresh BY <1>8, EstablishedSteps DEF SetUpInv
  <2>2. /\ todo' = << "user" >> /\ UNCHANGED server
    BY <1>8 DEF connectEstablished
  <2>3. ~Removing /\ ~TornDown
    BY <2>1, EmptyQueue DEF Fresh, Removing, TornDown
  <2>4. ~Removing' BY <2>2, OneEntry DEF Removing
  <2>5. Head(pending) \notin Teardown BY <2>1 DEF Fresh, Teardown
  <2> QED BY <2>2, <2>3, <2>4, <2>5, OtherFunctor, TeardownFrame
<1>9. CASE RunSendInLoop
  <2>1. /\ NextFunctor("sendInLoop")
        /\ UNCHANGED <<state_, todo, server, downs, wrShut>>
        /\ sendInLoop(Payload(Head(pending)[2]), Tail(pending))
    BY <1>9 DEF RunSendInLoop
  <2>2. Head(pending) \notin Teardown BY <2>1, HeadSend DEF Teardown
  <2>3. TornDown => TornDown'
    <3> SUFFICES ASSUME TornDown PROVE TornDown'
      OBVIOUS
    <3>1. state_ \in {"kDisconnecting", "kDisconnected"} BY DEF TornDown
    <3>2. Established BY <3>1 DEF SetUpInv, Fresh
    <3>3. UNCHANGED index_ BY <2>1, <3>1, <3>2, HeadSend, StateSend
    <3> QED BY <2>1, <3>3 DEF TornDown, OnlyUser
  <2> QED BY <2>1, <2>2, <2>3, OtherFunctor, TeardownFrame
          DEF Removing, DestroyInv
<1>10. ASSUME NEW m \in Messages, OwnSend(m) PROVE DestroyInv'
  <2>1. /\ todo # << >> /\ state_ = "kConnected"
        /\ UNCHANGED <<state_, todo, server>>
    BY <1>10 DEF OwnSend, InUser
  <2> QED BY <2>1, OtherFunctor, TeardownFrame
          DEF Removing, DestroyInv, TornDown
<1>11. CASE RunSendFileInLoop
  <2>1. /\ NextFunctor("sendFileInLoop")
        /\ UNCHANGED <<state_, todo, index_, server>>
    BY <1>11 DEF RunSendFileInLoop
  <2>2. Head(pending) \notin Teardown BY <2>1, HeadSendFile DEF Teardown
  <2> QED BY <2>1, <2>2, OtherFunctor, TeardownFrame
          DEF Removing, DestroyInv, TornDown, OnlyUser
<1>12. ASSUME NEW f \in Files, OwnSendFile(f) PROVE DestroyInv'
  <2>1. todo # << >> /\ UNCHANGED <<state_, todo, index_, server>>
    BY <1>12 DEF OwnSendFile, InUser
  <2> QED BY <2>1, OtherFunctor, TeardownFrame
          DEF Removing, DestroyInv, TornDown, OnlyUser
<1>13. CASE RunUserCallback
  <2>1. /\ NextFunctor("writeComplete") \/ NextFunctor("highWaterMark")
        /\ todo' = << "user" >> /\ UNCHANGED <<state_, index_, server>>
    BY <1>13 DEF RunUserCallback
  <2>2. Head(pending) \notin Teardown BY <2>1, HeadPlain DEF Plain, Teardown
  <2>3. ~Removing BY <2>1, EmptyQueue DEF NextFunctor, Idle, Removing
  <2>4. ~Removing' BY <2>1, OneEntry DEF Removing
  <2>5. OnlyUser' BY <2>1 DEF OnlyUser
  <2> QED BY <2>1, <2>2, <2>3, <2>4, <2>5, OtherFunctor, TeardownFrame
          DEF TornDown
<1>14. CASE connectDestroyed
  <2>1. /\ NextFunctor("connectDestroyed") /\ todo = << >>
        /\ pending # << >> /\ pending' = Tail(pending) /\ UNCHANGED server
    BY <1>14 DEF connectDestroyed, NextFunctor, Idle
  <2>2. Head(pending) \in Teardown BY <2>1, HeadPlain DEF Plain, Teardown
  <2>3. Some(pending, Teardown) BY <1>0, <2>1, <2>2, HeadEntry
  <2>4. ~Some(pending', Teardown) /\ AtMostOne(pending', Teardown)
    BY <1>0, <2>1, <2>2, TailQueue DEF DestroyInv
  <2>5. server' = "gone" BY <2>1, <2>3 DEF DestroyInv
  <2>6. CASE StillUp
    <3>1. state_' = "kDisconnected" /\ todo' = << "user", "remove" >>
      BY <1>14, <2>6, Zenon DEF connectDestroyed
    <3>2. Removing' BY <3>1 DEF Removing, Some
    <3>3. \A k \in DOMAIN todo' : todo'[k] \in {"user", "remove"} BY <3>1
    <3> QED BY <2>4, <2>5, <3>1, <3>2, <3>3 DEF DestroyInv
  <2>7. CASE ~StillUp
    <3>1. RemoveChannel /\ UNCHANGED <<state_, todo>>
      BY <1>14, <2>7, Zenon DEF connectDestroyed
    <3>2. state_ # "kConnecting"
      BY <2>2 DEF SetUpInv, Fresh, Established, Teardown
    <3>3. state_' \in {"kDisconnecting", "kDisconnected"}
      BY <2>7, <3>1, <3>2 DEF StillUp, ConnectionTypeOK, States
    <3>4. TornDown'
      BY <2>1, <3>1, <3>3 DEF TornDown, OnlyUser, RemoveChannel
    <3>5. ~Removing' BY <2>1, <3>1, EmptyQueue DEF Removing
    <3> QED BY <2>4, <2>5, <3>4, <3>5 DEF DestroyInv
  <2> QED BY <2>6, <2>7
<1>15. CASE OwnShutdown
  <2>1. /\ todo # << >> /\ state_ = "kConnected" /\ UNCHANGED <<todo, server>>
    BY <1>15 DEF OwnShutdown, InUser
  <2> QED BY <2>1, OtherFunctor, TeardownFrame
          DEF Removing, DestroyInv, TornDown
<1>16. ASSUME NEW w \in Workers, WorkerCall(w) \/ WorkerGoesOn(w)
       PROVE  DestroyInv'
  <2>1. ~WorkerShutdownSet(w) BY DEF WorkerShutdownSet, NoForeignShutdown
  <2>2. UNCHANGED <<state_, todo, index_, server>>
    BY <1>16, <2>1 DEF WorkerCall, WorkerGoesOn, WorkerSend,
       WorkerShutdownTest, WorkerQueueSend, WorkerQueueShutdown, WorkerRest
  <2>3. UNCHANGED pending \/ \E g \in Functor : pending' = Append(pending, g)
    <3>1. CASE WorkerCall(w)
      BY <3>1 DEF WorkerCall, WorkerSend, WorkerShutdownTest
    <3>2. CASE WorkerQueueSend(w)
      <4>1. worker[w][1] = "send" /\ worker[w] \in Point
        BY <3>2 DEF WorkerQueueSend, ConnectionTypeOK
      <4>2. worker[w][2] \in Messages \cup Files BY <4>1 DEF Point
      <4> DEFINE g == IF worker[w][2] \in Files
                        THEN <<"sendFileInLoop", worker[w][2], 0>>
                        ELSE <<"sendInLoop", worker[w][2]>>
      <4>3. g \in Functor BY <4>2, FunctorKinds, ConnectionAssumption
      <4>4. pending' = Append(pending, g) BY <3>2 DEF WorkerQueueSend
      <4> HIDE DEF g
      <4> QED BY <4>3, <4>4
    <3>3. ~WorkerQueueShutdown(w)
      BY DEF WorkerQueueShutdown, NoForeignShutdown
    <3> QED BY <1>16, <2>1, <3>1, <3>2, <3>3 DEF WorkerGoesOn
  <2>4. Some(pending, Teardown) => Some(pending', Teardown)
    BY <1>0, <2>3, AppendQueue
  <2> QED BY <2>2, <2>4, TeardownFrame
          DEF Removing, DestroyInv, TornDown, OnlyUser
<1>17. CASE RemoveConnectionInLoop \/ DestroyServer
  <2>1. /\ server # "gone" /\ server' = "gone"
        /\ pending' = Append(pending, <<"connectDestroyed">>)
        /\ UNCHANGED <<state_, todo, index_>>
    BY <1>17 DEF RemoveConnectionInLoop, DestroyServer, ServerRest
  <2>2. <<"connectDestroyed">> \in Functor BY FunctorKinds DEF Plain
  <2>3. Some(pending', Teardown)
    BY <1>0, <2>1, <2>2, AppendQueue DEF Teardown
  <2>4. AtMostOne(pending', Teardown) BY KindSteps DEF DestroyInv
  <2> QED BY <2>1, <2>3, <2>4 DEF DestroyInv, Removing
<1>18. CASE Destroy
  BY <1>18, TeardownFrame
     DEF Destroy, Removing, DestroyInv, TornDown, OnlyUser
<1>19. CASE PeerReceives \/ PeerSends \/ PeerCloses \/ PeerResets
  <2>1. UNCHANGED <<state_, todo, index_, server, pending>>
    BY <1>19 DEF PeerReceives, PeerSends, PeerCloses, PeerResets, PeerRest
  <2> QED BY <2>1, TeardownFrame DEF Removing, DestroyInv, TornDown, OnlyUser
<1>20. CASE Over \/ UNCHANGED vars
  <2>1. UNCHANGED <<state_, todo, index_, server, pending>>
    BY <1>20 DEF Over, vars
  <2> QED BY <2>1, TeardownFrame DEF Removing, DestroyInv, TornDown, OnlyUser
<1> QED
  BY <1>1, <1>2, <1>3, <1>4, <1>5, <1>6, <1>7, <1>8, <1>9, <1>10, <1>11,
     <1>12, <1>13, <1>14, <1>15, <1>16, <1>17, <1>18, <1>19, <1>20,
     NoFinishRun DEF Next, LoopStep, OwnCall

-----------------------------------------------------------------------------
(* The invariants together.                                                *)
LifeInv ==
  /\ ConnectionTypeOK /\ SetUpInv /\ ChannelInv
  /\ NoForeignShutdown /\ StateInv /\ DestroyInv /\ DestroyedInv

(* All of this holds at the start,                                         *)
LEMMA InitLife == Init => LifeInv
<1> SUFFICES ASSUME Init PROVE LifeInv
  OBVIOUS
<1>1. ConnectionTypeOK /\ SetUpInv /\ ChannelInv
  BY InitType, InitSetUp, InitChannel
<1>2. \A X : Some(pending, X) <=> <<"connectEstablished">> \in X
  BY OneEntry DEF Init
<1>3. ~Some(pending, Finish) /\ ~Some(pending, Teardown)
  BY <1>2 DEF Finish, Teardown
<1>4. NoForeignShutdown BY <1>3 DEF Init, NoForeignShutdown
<1>5. StateInv BY DEF Init, StateInv, isWriting
<1>6. AtMostOne(pending, Teardown) BY <1>3 DEF AtMostOne, Some
<1>7. ~Removing BY EmptyQueue DEF Init, Removing
<1>8. DestroyInv BY <1>3, <1>6, <1>7 DEF Init, DestroyInv
<1>9. DestroyedInv BY DEF Init, DestroyedInv
<1> QED BY <1>1, <1>4, <1>5, <1>8, <1>9 DEF LifeInv

(* and every step keeps it, if only the loop's thread calls shutdown.      *)
LEMMA NextLife ==
  ASSUME ~WorkerShutdown, LifeInv, [Next]_vars
  PROVE  LifeInv'
<1> USE DEF LifeInv
<1>1. ConnectionTypeOK' BY NextType
<1>2. SetUpInv' BY NextSetUp
<1>3. ChannelInv' BY NextChannel
<1>4. NoForeignShutdown' BY NextNoForeign
<1>5. StateInv' BY <1>4, NextState
<1>6. DestroyInv' BY NextTeardown
<1>7. DestroyedInv' BY NextDestroyed
<1> QED BY <1>1, <1>2, <1>3, <1>4, <1>5, <1>6, <1>7

(* A connection whose teardown has not run is not destroyed.               *)
LEMMA DestroyedIsTornDown ==
  ASSUME LifeInv, destroyed
  PROVE  TornDown
<1>1. server = "gone" /\ pending = << >> /\ todo = << >>
  BY DEF LifeInv, DestroyedInv
<1>2. ~Some(pending, Teardown) /\ ~Removing BY <1>1, EmptyQueue DEF Removing
<1> QED BY <1>1, <1>2 DEF LifeInv, DestroyInv

(* shutdown() is graceful if only the loop's thread calls it: SHUT_WR      *)
(* comes when outputBuffer_ is empty, and nothing is put there afterwards  *)
(* (TcpConnection.cc:213-230, 285-320).                                    *)
THEOREM FinCorrect == ~WorkerShutdown => (Spec => []FinAfterOutput)
<1> SUFFICES ASSUME ~WorkerShutdown PROVE Spec => []FinAfterOutput
  OBVIOUS
<1>1. Init => LifeInv BY InitLife
<1>2. LifeInv /\ [Next]_vars => LifeInv' BY NextLife
<1>3. LifeInv => FinAfterOutput BY DEF LifeInv, StateInv, FinAfterOutput
<1> QED BY <1>1, <1>2, <1>3, PTL DEF Spec

(* A connection is reported up once, then down at most once, whatever      *)
(* closes it (TcpConnection.cc:233-257, 322-331).                          *)
THEOREM UpDownCorrect == ~WorkerShutdown => (Spec => []UpThenDown)
<1> SUFFICES ASSUME ~WorkerShutdown PROVE Spec => []UpThenDown
  OBVIOUS
<1>1. Init => LifeInv BY InitLife
<1>2. LifeInv /\ [Next]_vars => LifeInv' BY NextLife
<1>3. ASSUME LifeInv PROVE UpThenDown
  <2>1. downs <= ups /\ ups <= 1
    BY <1>3 DEF LifeInv, SetUpInv, Fresh, StateInv
  <2>2. state_ = "kDisconnected" => downs = 1 BY <1>3 DEF LifeInv, StateInv
  <2>3. destroyed => downs = 1 \/ state_ = "kDisconnecting"
    BY <1>3, <2>2, DestroyedIsTornDown DEF TornDown
  <2> QED BY <2>1, <2>2, <2>3 DEF UpThenDown
<1> QED BY <1>1, <1>2, <1>3, PTL DEF Spec

(* The poller has let go of the channel when ~TcpConnection runs, and does *)
(* not take it up again (TcpConnection.cc:248-257; TcpServer.cc:38-58,     *)
(* 138-159).                                                               *)
THEOREM DanglingCorrect == ~WorkerShutdown => (Spec => []NoDanglingChannel)
<1> SUFFICES ASSUME ~WorkerShutdown PROVE Spec => []NoDanglingChannel
  OBVIOUS
<1>1. Init => LifeInv BY InitLife
<1>2. LifeInv /\ [Next]_vars => LifeInv' BY NextLife
<1>3. LifeInv => NoDanglingChannel
  BY DestroyedIsTornDown DEF TornDown, NoDanglingChannel
<1> QED BY <1>1, <1>2, <1>3, PTL DEF Spec

-----------------------------------------------------------------------------
(* The promises of module Connection *)

(* The refinement mapping of ImplementsConnection, part by part.           *)
Status ==
  IF destroyed THEN "gone" ELSE IF downs > 0 THEN "down"
  ELSE IF ups > 0 THEN "up" ELSE "connecting"

Sent == Len(accepted) - Len(outputBuffer_)

(* What the user and the peer can tell of the connection.                  *)
Outward == <<destroyed, ups, downs, accepted, outputBuffer_, peerData, wrShut>>

(* A connection that has been set up and not destroyed is up or down.      *)
LEMMA StatusKnown ==
  ASSUME LifeInv
  PROVE  /\ destroyed => Status = "gone"
         /\ ~destroyed /\ Fresh => Status = "connecting" /\ ups = 0
         /\ ~destroyed /\ ~Fresh =>
              ups = 1 /\ Status = IF downs = 1 THEN "down" ELSE "up"
<1>1. downs \in {0, 1} BY DEF LifeInv, StateInv
<1>2. Fresh => ups = 0 /\ downs = 0
  BY DEF LifeInv, SetUpInv, Fresh, Established
<1>3. ~Fresh => ups = 1 BY DEF LifeInv, SetUpInv
<1> QED BY <1>1, <1>2, <1>3 DEF Status

(* The loop's thread runs no code of a destroyed connection, nor, but for  *)
(* connectEstablished, of one that is not set up.                          *)
LEMMA AtWork ==
  ASSUME LifeInv
  PROVE  /\ todo # << >> => ~destroyed /\ ~Fresh
         /\ Idle => ~destroyed
BY DEF LifeInv, DestroyedInv, Fresh, Idle

(* The steps that only concern the connection's life.                      *)
LEMMA MoveStep ==
  ASSUME UNCHANGED <<accepted, outputBuffer_, peerData, wrShut>>,
         <<Status, Status'>> \in {<<"connecting", "up">>, <<"up", "down">>,
                                  <<"up", "gone">>, <<"down", "gone">>}
  PROVE  Promise!Next
<1>1. UNCHANGED <<accepted, Sent, peerData, wrShut>> BY DEF Sent
<1>2. Promise!Move
  BY <1>1 DEF Promise!Move, Promise!streamVars, Status, Sent
<1> QED BY <1>2 DEF Promise!Next

(* The connection is set up, reported down, or destroyed.                  *)
LEMMA LifeMoves ==
  ASSUME LifeInv, LifeInv',
         UNCHANGED <<accepted, outputBuffer_, peerData, wrShut>>
  PROVE  /\ connectEstablished => Promise!Next
         /\ ~destroyed /\ ~Fresh /\ downs' = downs + 1
              /\ UNCHANGED <<ups, destroyed>> => Promise!Next
         /\ Destroy => Promise!Next
<1>1. ASSUME connectEstablished PROVE Promise!Next
  <2>1. Fresh /\ ~destroyed
    BY <1>1, EstablishedSteps
       DEF LifeInv, SetUpInv, connectEstablished, NextFunctor, Idle
  <2>2. ups' = ups + 1 /\ UNCHANGED <<downs, destroyed>>
    BY <1>1 DEF connectEstablished, elseVars
  <2>3. ups = 0 /\ downs = 0 BY <2>1, StatusKnown DEF Fresh
  <2>4. Status = "connecting" /\ Status' = "up"
    BY <2>1, <2>2, <2>3 DEF Status
  <2> QED BY <2>4, MoveStep
<1>2. ASSUME ~destroyed, ~Fresh, downs' = downs + 1,
             UNCHANGED <<ups, destroyed>>
      PROVE  Promise!Next
  <2>1. ups = 1 BY <1>2, StatusKnown
  <2>2. downs = 0
    BY <1>2 DEF LifeInv, StateInv
  <2>3. Status = "up" /\ Status' = "down" BY <1>2, <2>1, <2>2 DEF Status
  <2> QED BY <2>3, MoveStep
<1>3. ASSUME Destroy PROVE Promise!Next
  <2>1. ~destroyed /\ destroyed' /\ ~Fresh BY <1>3 DEF Destroy, Idle, Fresh
  <2>2. Status \in {"up", "down"} BY <2>1, StatusKnown
  <2>3. Status' = "gone" BY <2>1 DEF Status
  <2> QED BY <2>2, <2>3, MoveStep
<1> QED BY <1>1, <1>2, <1>3

(* send: what is accepted may go to the kernel at once only past an empty  *)
(* outputBuffer_, and nothing is accepted after the end of the stream.     *)
LEMMA AcceptStep ==
  ASSUME LifeInv, SendStep
  PROVE  [Promise!Next]_(Promise!vars)
<1>1. /\ Accepts
      /\ UNCHANGED <<destroyed, ups, downs, wrShut, peerData>>
  BY SendStepAccepts DEF LifeInv, peerVars
<1>2. PICK first \in Seq(Bytes), rest \in Seq(Bytes) : AcceptAs(first, rest)
  BY <1>1, Zenon DEF Accepts
<1>3. /\ outputBuffer_' = outputBuffer_ \o rest
      /\ accepted' = accepted \o (first \o rest)
      /\ first # << >> => outputBuffer_ = << >>
      /\ first \o rest # << >> /\ Direct => ~wrShut
  BY <1>2 DEF AcceptAs, Direct, Writable
<1>4. accepted \in Seq(Bytes) /\ outputBuffer_ \in Seq(Bytes)
  BY DEF LifeInv, ConnectionTypeOK
<1>5. Status' = Status BY <1>1 DEF Status
<1>6. /\ Len(accepted') = Len(accepted) + (Len(first) + Len(rest))
      /\ Len(outputBuffer_') = Len(outputBuffer_) + Len(rest)
  BY <1>3, <1>4
<1>7. /\ Len(first) \in Nat /\ Len(rest) \in Nat
      /\ Len(accepted) \in Nat /\ Len(outputBuffer_) \in Nat
  BY <1>4
<1>8. Sent' = Sent + Len(first) BY <1>6, <1>7 DEF Sent
<1>9. CASE first \o rest = << >>
  <2>1. first = << >> /\ rest = << >> BY <1>9
  <2>2. UNCHANGED <<accepted, outputBuffer_>>
    BY <1>3, <1>4, <1>9, <2>1, ConcatEmptySeq
  <2>3. UNCHANGED Promise!vars
    BY <1>1, <1>5, <2>2 DEF Promise!vars, Promise!streamVars, Status
  <2> QED BY <2>3
<1>10. CASE first \o rest # << >>
  <2>1. ~wrShut BY <1>3, <1>10 DEF LifeInv, StateInv, Direct
  <2>2. Status \in {"up", "down"}
    <3>1. ~destroyed /\ ~Fresh
      <4>1. CASE RunSendInLoop
        <5>1. NextFunctor("sendInLoop") BY <4>1 DEF RunSendInLoop
        <5>2. Head(pending) # <<"connectEstablished">>
          BY <5>1 DEF NextFunctor
        <5> QED BY <5>1, <5>2 DEF NextFunctor, Idle, Fresh
      <4>2. CASE RunSendFileInLoop
        <5>1. NextFunctor("sendFileInLoop") BY <4>2 DEF RunSendFileInLoop
        <5>2. Head(pending) # <<"connectEstablished">>
          BY <5>1 DEF NextFunctor
        <5> QED BY <5>1, <5>2 DEF NextFunctor, Idle, Fresh
      <4>3. CASE \E m \in Messages : OwnSend(m)
        BY <4>3, AtWork DEF OwnSend, InUser
      <4>4. CASE \E f \in Files : OwnSendFile(f)
        BY <4>4, AtWork DEF OwnSendFile, InUser
      <4> QED BY <4>1, <4>2, <4>3, <4>4 DEF SendStep
    <3> QED BY <3>1, StatusKnown
  <2>3. Len(first) + Len(rest) > 0 BY <1>10
  <2>4. Len(accepted') > Len(accepted) BY <1>6, <1>7, <2>3
  <2>5. accepted = SubSeq(accepted', 1, Len(accepted)) BY <1>3, <1>4
  <2>6. Sent' >= Sent /\ Sent' <= Len(accepted')
    BY <1>6, <1>7, <1>8 DEF Sent
  <2>7. Sent' > Sent => Sent = Len(accepted)
    <3> SUFFICES ASSUME Sent' > Sent PROVE Sent = Len(accepted)
      OBVIOUS
    <3>1. Len(first) > 0 BY <1>7, <1>8 DEF Sent
    <3>2. outputBuffer_ = << >> BY <1>3, <3>1
    <3> QED BY <1>7, <3>2 DEF Sent
  <2>8. Promise!Accept
    BY <1>1, <1>5, <2>1, <2>2, <2>4, <2>5, <2>6, <2>7
       DEF Promise!Accept, Status, Sent
  <2> QED BY <2>8 DEF Promise!Next
<1> QED BY <1>9, <1>10

(* handleWrite: the kernel is given what waited, and a shutdown that       *)
(* waited too goes ahead when that was all.                                *)
LEMMA WriteStep ==
  ASSUME LifeInv, HandleWrite
  PROVE  [Promise!Next]_(Promise!vars)
<1>1. UNCHANGED <<destroyed, ups, downs, accepted, peerData>>
  BY DEF HandleWrite, elseVars, histVars, peerVars
<1>2. PICK first \in Seq(Bytes), rest \in Seq(Bytes) :
        /\ outputBuffer_ = first \o rest
        /\ outputBuffer_' = rest
        /\ IF first # << >> /\ rest = << >>
             THEN Drained ELSE UNCHANGED <<chanVars, pending, wrShut>>
  BY HandleWriteEffect DEF Drain, LifeInv
<1>3. Status' = Status BY <1>1 DEF Status
<1>4. accepted \in Seq(Bytes) BY DEF LifeInv, ConnectionTypeOK
<1>5. /\ Len(outputBuffer_) = Len(first) + Len(rest)
      /\ Len(outputBuffer_') = Len(rest)
      /\ Len(first) \in Nat /\ Len(rest) \in Nat /\ Len(accepted) \in Nat
  BY <1>2, <1>4
<1>6. Sent' = Sent + Len(first) BY <1>1, <1>5 DEF Sent
<1>7. CASE first = << >>
  <2>1. UNCHANGED <<wrShut, Sent>> BY <1>2, <1>5, <1>6, <1>7 DEF Sent
  <2>2. UNCHANGED Promise!vars
    BY <1>1, <1>3, <2>1 DEF Promise!vars, Promise!streamVars, Status, Sent
  <2> QED BY <2>2
<1>8. CASE first # << >>
  <2>1. Len(first) > 0 BY <1>8
  <2>2. Sent' > Sent /\ Sent' <= Len(accepted)
    BY <1>1, <1>5, <1>6, <2>1 DEF Sent
  <2>3. wrShut' = wrShut \/ (wrShut' = TRUE /\ rest = << >>)
    <3>1. CASE rest = << >>
      BY <1>2, <1>8, <3>1
         DEF Drained, ShutdownAfterDrain, shutdownInLoop, shutdownWrite
    <3>2. CASE rest # << >> BY <1>2, <3>2
    <3> QED BY <3>1, <3>2
  <2>4. rest = << >> => Sent' = Len(accepted) BY <1>1, <1>5 DEF Sent
  <2>5. wrShut' \in {wrShut, Sent' = Len(accepted)}
    <3>1. CASE wrShut' = wrShut BY <3>1
    <3>2. CASE wrShut' = TRUE /\ rest = << >>
      <4>1. (Sent' = Len(accepted)) = TRUE BY <2>4, <3>2
      <4> QED BY <3>2, <4>1, Zenon
    <3> QED BY <2>3, <3>1, <3>2
  <2>6. Promise!Send
    BY <1>1, <1>3, <2>2, <2>5 DEF Promise!Send, Status, Sent
  <2> QED BY <2>6 DEF Promise!Next
<1> QED BY <1>7, <1>8

(* The peer reads the next byte of the stream.                             *)
LEMMA DeliverStep ==
  ASSUME LifeInv, StreamInv, PeerReceives
  PROVE  Promise!Next
<1>1. /\ sndbuf # << >>
      /\ peerData' = Append(peerData, Head(sndbuf))
      /\ UNCHANGED <<destroyed, ups, downs, accepted, outputBuffer_, wrShut>>
  BY DEF PeerReceives, PeerRest, elseVars, histVars
<1>2. peerState # "rst" BY <1>1 DEF StreamInv
<1>3. accepted = peerData \o (sndbuf \o outputBuffer_)
  BY <1>2 DEF StreamInv, Undelivered
<1>4. /\ peerData \in Seq(Bytes) /\ sndbuf \in Seq(Bytes)
      /\ outputBuffer_ \in Seq(Bytes)
  BY DEF LifeInv, ConnectionTypeOK
<1>5. Len(sndbuf) > 0 /\ Len(sndbuf) \in Nat BY <1>1, <1>4
<1> DEFINE left == sndbuf \o outputBuffer_
<1>6. /\ left \in Seq(Bytes)
      /\ Len(left) = Len(sndbuf) + Len(outputBuffer_)
      /\ left[1] = Head(sndbuf)
  BY <1>4, <1>5
<1> HIDE DEF left
<1>7. /\ Len(accepted) = Len(peerData) + Len(left)
      /\ accepted[Len(peerData) + 1] = left[1]
  <2>1. accepted = peerData \o left BY <1>3 DEF left
  <2>2. Len(left) > 0 BY <1>4, <1>5, <1>6
  <2>3. peerData \in Seq(Bytes) /\ left \in Seq(Bytes) BY <1>4, <1>6
  <2>4. Len(peerData \o left) = Len(peerData) + Len(left) BY <2>3
  <2>5. (peerData \o left)[Len(peerData) + 1] = left[1] BY <2>2, <2>3
  <2> QED BY <2>1, <2>4, <2>5
<1>8. Len(peerData) < Sent BY <1>4, <1>5, <1>6, <1>7 DEF Sent
<1>9. Status' = Status /\ Sent' = Sent BY <1>1 DEF Status, Sent
<1>10. peerData' = Append(peerData, accepted[Len(peerData) + 1])
  BY <1>1, <1>6, <1>7
<1>11. Promise!Deliver
  BY <1>1, <1>8, <1>9, <1>10 DEF Promise!Deliver, Status, Sent
<1> QED BY <1>11 DEF Promise!Next

(* shutdown in the loop's thread.                                          *)
LEMMA FinishStep ==
  ASSUME LifeInv, LifeInv', OwnShutdown
  PROVE  [Promise!Next]_(Promise!vars)
<1>1. /\ todo # << >> /\ state_ = "kConnected"
      /\ UNCHANGED <<destroyed, ups, downs, accepted, outputBuffer_, peerData>>
  BY DEF OwnShutdown, InUser, elseVars, histVars, peerVars
<1>2. Status' = Status /\ Sent' = Sent BY <1>1 DEF Status, Sent
<1>3. wrShut' = wrShut \/ wrShut' = TRUE
  BY DEF OwnShutdown, shutdownInLoop, shutdownWrite
<1>4. CASE wrShut' = wrShut
  <2>1. UNCHANGED Promise!vars
    BY <1>1, <1>2, <1>4 DEF Promise!vars, Promise!streamVars, Status, Sent
  <2> QED BY <2>1
<1>5. CASE wrShut' = TRUE
  <2>1. ~wrShut BY <1>1 DEF LifeInv, StateInv
  <2>2. outputBuffer_ = << >> BY <1>1, <1>5 DEF LifeInv, StateInv
  <2>3. Status \in {"up", "down"} BY <1>1, AtWork, StatusKnown
  <2>4. Len(accepted) \in Nat BY DEF LifeInv, ConnectionTypeOK
  <2>5. Sent = Len(accepted) BY <2>2, <2>4 DEF Sent
  <2>6. Promise!Finish
    BY <1>1, <1>2, <1>5, <2>1, <2>3, <2>5 DEF Promise!Finish, Status, Sent
  <2> QED BY <2>6 DEF Promise!Next
<1> QED BY <1>3, <1>4, <1>5

(* The steps neither the user nor the peer can tell.                       *)
LEMMA SilentStep ==
  ASSUME UNCHANGED Outward
  PROVE  UNCHANGED Promise!vars
BY DEF Outward, Promise!vars, Promise!streamVars

(* Every step is one of module Connection, or none.                        *)
LEMMA PromiseStep ==
  ASSUME LifeInv, LifeInv', StreamInv, [Next]_vars
  PROVE  [Promise!Next]_(Promise!vars)
<1> USE DEF elseVars, chanVars, sockVars, peerVars, histVars
<1>1. CASE HandleEvent \/ CloseCallback \/ HandleError
  <2>1. UNCHANGED Outward
    BY <1>1 DEF HandleEvent, CloseCallback, HandleError, Outward
  <2> QED BY <2>1, SilentStep
<1>2. CASE HandleClose
  <2>1. /\ todo # << >> /\ downs' = downs + 1
        /\ UNCHANGED <<ups, destroyed, accepted, outputBuffer_, peerData,
                       wrShut>>
    BY <1>2 DEF HandleClose, Close
  <2> QED BY <2>1, AtWork, LifeMoves
<1>3. CASE HandleRead
  <2>1. /\ todo # << >>
        /\ UNCHANGED <<ups, destroyed, accepted, outputBuffer_, peerData,
                       wrShut>>
    BY <1>3 DEF HandleRead
  <2>2. UNCHANGED downs \/ downs' = downs + 1
    BY <1>3 DEF HandleRead, ReadData, ReadError, ReadEnd, Close
  <2>3. CASE UNCHANGED downs BY <2>1, <2>3, SilentStep DEF Outward
  <2>4. CASE downs' = downs + 1 BY <2>1, <2>4, AtWork, LifeMoves
  <2> QED BY <2>2, <2>3, <2>4
<1>4. CASE ChannelRemove \/ UserReturns \/ RunUserCallback
  <2>1. UNCHANGED Outward
    BY <1>4 DEF ChannelRemove, UserReturns, RunUserCallback, Outward
  <2> QED BY <2>1, SilentStep
<1>5. CASE connectEstablished
  <2>1. UNCHANGED <<accepted, outputBuffer_, peerData, wrShut>>
    BY <1>5 DEF connectEstablished
  <2> QED BY <1>5, <2>1, LifeMoves
<1>6. CASE connectDestroyed
  <2>1. /\ NextFunctor("connectDestroyed")
        /\ UNCHANGED <<ups, destroyed, accepted, outputBuffer_, peerData,
                       wrShut>>
    BY <1>6 DEF connectDestroyed
  <2>2. ~destroyed BY <2>1 DEF NextFunctor, Idle
  <2>3. CASE StillUp
    <3>1. downs' = downs + 1 BY <1>6, <2>3, Zenon DEF connectDestroyed
    <3>2. ~Fresh BY <2>3 DEF StillUp, Fresh
    <3> QED BY <2>1, <2>2, <3>1, <3>2, LifeMoves
  <2>4. CASE ~StillUp
    <3>1. UNCHANGED downs BY <1>6, <2>4, Zenon DEF connectDestroyed
    <3> QED BY <2>1, <3>1, SilentStep DEF Outward
  <2> QED BY <2>3, <2>4
<1>7. CASE SendStep BY <1>7, AcceptStep
<1>8. CASE HandleWrite BY <1>8, WriteStep
<1>9. CASE OwnShutdown BY <1>9, FinishStep
<1>10. CASE PeerReceives BY <1>10, DeliverStep
<1>11. ~RunShutdownInLoop BY NoFinishRun DEF LifeInv
<1>12. ASSUME NEW w \in Workers, WorkerCall(w) \/ WorkerGoesOn(w)
       PROVE  UNCHANGED Promise!vars
  <2>1. UNCHANGED Outward
    BY <1>12 DEF WorkerCall, WorkerGoesOn, WorkerSend, WorkerShutdownTest,
       WorkerQueueSend, WorkerShutdownSet, WorkerQueueShutdown, WorkerRest,
       Outward
  <2> QED BY <2>1, SilentStep
<1>13. CASE RemoveConnectionInLoop \/ DestroyServer
  <2>1. UNCHANGED Outward
    BY <1>13 DEF RemoveConnectionInLoop, DestroyServer, ServerRest, Outward
  <2> QED BY <2>1, SilentStep
<1>14. CASE Destroy
  <2>1. UNCHANGED <<accepted, outputBuffer_, peerData, wrShut>>
    BY <1>14 DEF Destroy
  <2> QED BY <1>14, <2>1, LifeMoves
<1>15. CASE PeerSends \/ PeerCloses \/ PeerResets
  <2>1. UNCHANGED Outward
    BY <1>15 DEF PeerSends, PeerCloses, PeerResets, PeerRest, Outward
  <2> QED BY <2>1, SilentStep
<1>16. CASE Over \/ UNCHANGED vars
  <2>1. UNCHANGED Outward BY <1>16 DEF Over, vars, Outward
  <2> QED BY <2>1, SilentStep
<1>17. CASE OwnCall BY <1>7, <1>9, <1>17 DEF OwnCall, SendStep
<1> QED
  BY <1>1, <1>2, <1>3, <1>4, <1>5, <1>6, <1>7, <1>8, <1>10, <1>11, <1>12,
     <1>13, <1>14, <1>15, <1>16, <1>17 DEF Next, LoopStep, SendStep

(***************************************************************************)
(* TcpConnection implements Connection if only the loop's thread calls     *)
(* shutdown: up before anything is accepted, down once, gone last; what is *)
(* accepted goes to the kernel in order, and the end of the stream is      *)
(* announced only when the kernel has everything (TcpConnection.cc:        *)
(* 117-398; TcpServer.cc:38-58, 138-159).                                  *)
(***************************************************************************)
THEOREM PromiseKept == ~WorkerShutdown => (Spec => ImplementsConnection)
<1> SUFFICES ASSUME ~WorkerShutdown PROVE Spec => ImplementsConnection
  OBVIOUS
<1> DEFINE IInv == LifeInv /\ StreamInv
<1>1. Init => IInv BY InitLife, InitStream
<1>2. IInv /\ [Next]_vars => IInv' BY NextLife, NextStream DEF LifeInv
<1>3. Init => Promise!Init BY DEF Init, Promise!Init
<1>4. IInv /\ IInv' /\ [Next]_vars => [Promise!Next]_(Promise!vars)
  BY PromiseStep
<1> QED BY <1>1, <1>2, <1>3, <1>4, PTL
        DEF Spec, ImplementsConnection, Promise!Spec
=============================================================================
