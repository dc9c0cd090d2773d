--------------------------- MODULE EventLoopProofs ---------------------------
(***************************************************************************)
(* Proofs about EventLoop, for any sets of threads, functors and channels. *)
(*                                                                         *)
(* The wakeup protocol is proved from LoopInv, an inductive invariant that *)
(* follows the debt "somebody must wake the loop" through the control      *)
(* points at which the loop may still reach epoll_wait without another     *)
(* swap of pendingFunctors_.                                               *)
(***************************************************************************)
EXTENDS EventLoop, SequenceTheorems, TLAPS

(* A wakeup is on its way: the eventfd is readable, or will be.            *)
WakeupPending == wakeupFd_ \/ wakeupDue # {}

(* Callbacks run only while channels are handled or the batch is run; the  *)
(* batch is run only with the flag set, and is empty outside that phase.   *)
PhaseInv ==
  /\ inCallback => pc \in {"handle", "run"}
  /\ pc \in {"swap", "run"} => callingPendingFunctors_
  /\ pc # "run" => functors = << >>

(* From these control points epoll_wait can be reached with no swap in     *)
(* between, so what is queued there must have its wakeup on the way.       *)
DebtInv ==
  /\ (pc \in {"created", "while", "poll", "run"} /\ pendingFunctors_ # << >>)
       => WakeupPending
  /\ (pc = "poll" /\ quit_) => WakeupPending

LoopInv == TypeOK /\ PhaseInv /\ DebtInv

-----------------------------------------------------------------------------
(* The initial state is well typed.                                        *)
LEMMA InitTypeOK == Init => TypeOK
<1> SUFFICES ASSUME Init PROVE TypeOK
  OBVIOUS
<1>1. /\ pendingFunctors_ \in Seq(Functors)
      /\ functors \in Seq(Functors)
      /\ executed \in Seq(Functors)
  BY EmptySeq DEF Init
<1> QED BY <1>1 DEF Init, TypeOK, ControlPoints

(* Every step of loop() keeps the types.                                   *)
LEMMA LoopStepTypeOK == TypeOK /\ (LoopStep \/ PollTimeout) => TypeOK'
<1> SUFFICES ASSUME TypeOK, LoopStep \/ PollTimeout PROVE TypeOK'
  OBVIOUS
<1> USE DEF TypeOK, ControlPoints, loopVars, queueVars, pollVars
<1>1. CASE LoopEnter BY <1>1 DEF LoopEnter
<1>2. CASE LoopTest BY <1>2 DEF LoopTest
<1>3. CASE PollReturn BY <1>3 DEF PollReturn, ReadyChannels
<1>4. CASE HandleRead BY <1>4 DEF HandleRead
<1>5. ASSUME NEW ch \in IoChannels, HandleIo(ch) PROVE TypeOK'
  BY <1>5 DEF HandleIo
<1>6. CASE BeginPending BY <1>6 DEF BeginPending
<1>7. CASE SwapPending BY <1>7 DEF SwapPending
<1>8. CASE RunFunctor
  <2>1. Head(functors) \in Functors /\ Tail(functors) \in Seq(Functors)
    BY <1>8 DEF RunFunctor
  <2> QED BY <1>8, <2>1 DEF RunFunctor
<1>9. CASE EndPending BY <1>9 DEF EndPending
<1>10. CASE EndCallback BY <1>10 DEF EndCallback
<1>11. CASE PollTimeout BY <1>11 DEF PollTimeout
<1> QED BY <1>1, <1>2, <1>3, <1>4, <1>5, <1>6, <1>7, <1>8, <1>9, <1>10, <1>11
        DEF LoopStep

(* So does every call on the loop, from whatever thread.                   *)
LEMMA CallTypeOK ==
  TypeOK /\ (OwnCall \/ \E t \in Threads : OtherCall(t)) => TypeOK'
<1> SUFFICES ASSUME TypeOK, OwnCall \/ \E t \in Threads : OtherCall(t)
             PROVE TypeOK'
  OBVIOUS
<1> USE DEF TypeOK, ControlPoints, loopVars, queueVars, pollVars
<1>1. ASSUME NEW f \in Functors, OwnQueueInLoop(f) PROVE TypeOK'
  BY <1>1 DEF OwnQueueInLoop, OwnWakeup
<1>2. ASSUME NEW f \in Functors, OwnRunInLoop(f) PROVE TypeOK'
  BY <1>2 DEF OwnRunInLoop
<1>3. CASE OwnQuit BY <1>3 DEF OwnQuit
<1>4. ASSUME NEW t \in Threads, NEW f \in Functors, QueueInLoop(t, f)
      PROVE TypeOK'
  BY <1>4 DEF QueueInLoop
<1>5. ASSUME NEW t \in Threads, Quit(t) PROVE TypeOK'
  BY <1>5 DEF Quit
<1>6. ASSUME NEW t \in Threads, Wakeup(t) PROVE TypeOK'
  BY <1>6 DEF Wakeup
<1> QED BY <1>1, <1>2, <1>3, <1>4, <1>5, <1>6 DEF OwnCall, OtherCall

(* Every step keeps the types.                                             *)
LEMMA NextTypeOK == TypeOK /\ [Next]_vars => TypeOK'
<1>1. ASSUME TypeOK, NEW ch \in IoChannels, Arrive(ch) PROVE TypeOK'
  BY <1>1 DEF Arrive, TypeOK, ControlPoints, loopVars, queueVars
<1>2. TypeOK /\ UNCHANGED vars => TypeOK'
  BY DEF vars, loopVars, queueVars, pollVars, TypeOK
<1> QED BY <1>1, <1>2, LoopStepTypeOK, CallTypeOK DEF Next

(* Type correctness of the loop (EventLoop.cc, every operation).           *)
THEOREM TypeCorrect == Spec => []TypeOK
  BY InitTypeOK, NextTypeOK, PTL DEF Spec

-----------------------------------------------------------------------------
(* The phases of loop() hold initially.                                    *)
LEMMA InitPhaseInv == Init => PhaseInv
  BY DEF Init, PhaseInv

(* No step of any thread breaks the phases.                                *)
LEMMA NextPhaseInv == TypeOK /\ PhaseInv /\ [Next]_vars => PhaseInv'
<1> SUFFICES ASSUME TypeOK, PhaseInv, [Next]_vars PROVE PhaseInv'
  OBVIOUS
<1> USE DEF TypeOK, ControlPoints, loopVars, queueVars, pollVars, PhaseInv
<1>1. CASE LoopEnter BY <1>1 DEF LoopEnter
<1>2. CASE LoopTest BY <1>2 DEF LoopTest
<1>3. CASE PollReturn \/ PollTimeout BY <1>3 DEF PollReturn, PollTimeout
<1>4. CASE HandleRead BY <1>4 DEF HandleRead
<1>5. ASSUME NEW ch \in IoChannels, HandleIo(ch) PROVE PhaseInv'
  BY <1>5 DEF HandleIo
<1>6. CASE BeginPending BY <1>6 DEF BeginPending
<1>7. CASE SwapPending BY <1>7 DEF SwapPending
<1>8. CASE RunFunctor BY <1>8 DEF RunFunctor
<1>9. CASE EndPending BY <1>9 DEF EndPending
<1>10. CASE EndCallback BY <1>10 DEF EndCallback
<1>11. CASE OwnCall
  BY <1>11 DEF OwnCall, OwnQueueInLoop, OwnRunInLoop, OwnQuit
<1>12. ASSUME NEW t \in Threads, OtherCall(t) PROVE PhaseInv'
  BY <1>12 DEF OtherCall, QueueInLoop, Quit, Wakeup
<1>13. ASSUME NEW ch \in IoChannels, Arrive(ch) PROVE PhaseInv'
  BY <1>13 DEF Arrive
<1>14. CASE UNCHANGED vars BY <1>14 DEF vars
<1> QED BY <1>1, <1>2, <1>3, <1>4, <1>5, <1>6, <1>7, <1>8, <1>9, <1>10, <1>11,
           <1>12, <1>13, <1>14
        DEF Next, LoopStep

-----------------------------------------------------------------------------
(* A step of loop() keeps the debt: the phases at which it may be missing  *)
(* ("handle", "swap") are left only by a swap that empties the queue.      *)
LEMMA LoopStepDebtInv ==
  TypeOK /\ DebtInv /\ (LoopStep \/ PollTimeout) => DebtInv'
<1> SUFFICES ASSUME TypeOK, DebtInv, LoopStep \/ PollTimeout PROVE DebtInv'
  OBVIOUS
<1> USE DEF TypeOK, ControlPoints, loopVars, queueVars, pollVars, DebtInv,
            WakeupPending
<1>1. CASE LoopEnter BY <1>1 DEF LoopEnter
<1>2. CASE LoopTest BY <1>2 DEF LoopTest
<1>3. CASE PollReturn BY <1>3 DEF PollReturn
<1>4. CASE HandleRead BY <1>4 DEF HandleRead
<1>5. ASSUME NEW ch \in IoChannels, HandleIo(ch) PROVE DebtInv'
  BY <1>5 DEF HandleIo
<1>6. CASE BeginPending BY <1>6 DEF BeginPending
<1>7. CASE SwapPending BY <1>7 DEF SwapPending
<1>8. CASE RunFunctor BY <1>8 DEF RunFunctor
<1>9. CASE EndPending BY <1>9 DEF EndPending
<1>10. CASE EndCallback BY <1>10 DEF EndCallback
<1>11. CASE PollTimeout BY <1>11 DEF PollTimeout
<1> QED BY <1>1, <1>2, <1>3, <1>4, <1>5, <1>6, <1>7, <1>8, <1>9, <1>10, <1>11
        DEF LoopStep

(* So does a call on the loop, when the loop's own thread makes none       *)
(* before loop(): in a callback it is either before the next swap or has   *)
(* the flag set, and another thread owes its wakeup at once.               *)
LEMMA CallDebtInv ==
  ASSUME ~EarlyCalls, LoopInv, OwnCall \/ \E t \in Threads : OtherCall(t)
  PROVE  DebtInv'
<1> USE DEF LoopInv, TypeOK, ControlPoints, loopVars, queueVars, pollVars,
            DebtInv, WakeupPending
<1>1. ASSUME NEW f \in Functors, OwnQueueInLoop(f) PROVE DebtInv'
  BY <1>1 DEF OwnQueueInLoop, OwnWakeup, UserCodeRuns, PhaseInv
<1>2. ASSUME NEW f \in Functors, OwnRunInLoop(f) PROVE DebtInv'
  BY <1>2 DEF OwnRunInLoop
<1>3. CASE OwnQuit BY <1>3 DEF OwnQuit, UserCodeRuns, PhaseInv
<1>4. ASSUME NEW t \in Threads, NEW f \in Functors, QueueInLoop(t, f)
      PROVE DebtInv'
  BY <1>4 DEF QueueInLoop
<1>5. ASSUME NEW t \in Threads, Quit(t) PROVE DebtInv'
  BY <1>5 DEF Quit
<1>6. ASSUME NEW t \in Threads, Wakeup(t) PROVE DebtInv'
  BY <1>6 DEF Wakeup
<1> QED BY <1>1, <1>2, <1>3, <1>4, <1>5, <1>6 DEF OwnCall, OtherCall

(* The inductive invariant holds initially.                                *)
LEMMA InitLoopInv == Init => LoopInv
<1> SUFFICES ASSUME Init PROVE DebtInv
  BY InitTypeOK, InitPhaseInv DEF LoopInv
<1> QED BY DEF Init, DebtInv

(* Every step keeps it.                                                    *)
LEMMA NextLoopInv ==
  ASSUME ~EarlyCalls, LoopInv, [Next]_vars
  PROVE  LoopInv'
<1>1. TypeOK' /\ PhaseInv'
  BY NextTypeOK, NextPhaseInv DEF LoopInv
<1>2. DebtInv'
  <2>1. CASE LoopStep \/ PollTimeout BY <2>1, LoopStepDebtInv DEF LoopInv
  <2>2. CASE OwnCall \/ \E t \in Threads : OtherCall(t)
    BY <2>2, CallDebtInv
  <2>3. ASSUME NEW ch \in IoChannels, Arrive(ch) PROVE DebtInv'
    BY <2>3 DEF Arrive, LoopInv, DebtInv, WakeupPending, loopVars, queueVars
  <2>4. CASE UNCHANGED vars
    BY <2>4 DEF vars, loopVars, queueVars, pollVars, LoopInv, DebtInv,
                WakeupPending
  <2> QED BY <2>1, <2>2, <2>3, <2>4 DEF Next
<1> QED BY <1>1, <1>2 DEF LoopInv

(***************************************************************************)
(* The wakeup protocol of queueInLoop and quit (EventLoop.cc:169-222) is   *)
(* right for any number of threads, functors and channels: the loop is     *)
(* never blocked in epoll_wait with work queued and no wakeup on its way,  *)
(* provided its own thread makes no calls before loop().                   *)
(***************************************************************************)
THEOREM NoWakeupIsLost == ~EarlyCalls => (Spec => []NoLostWakeup)
<1> SUFFICES ASSUME ~EarlyCalls PROVE Spec => []NoLostWakeup
  OBVIOUS
<1>1. LoopInv /\ [Next]_vars => LoopInv'
  BY NextLoopInv
<1>2. LoopInv => NoLostWakeup
  BY DEF LoopInv, DebtInv, NoLostWakeup, WakeupPending
<1> QED BY <1>1, <1>2, InitLoopInv, PTL DEF Spec

-----------------------------------------------------------------------------
(* How the queue of TaskQueue, functors \o pendingFunctors_, moves.        *)

(* A push at the back of pendingFunctors_ is a push at the back of it all. *)
LEMMA ConcatAppend ==
  ASSUME NEW S, NEW s \in Seq(S), NEW t \in Seq(S), NEW e \in S
  PROVE  s \o Append(t, e) = Append(s \o t, e)
<1>1. s \o t \in Seq(S)
  BY ConcatProperties
<1>2. /\ Append(t, e) = t \o <<e>>
      /\ Append(s \o t, e) = (s \o t) \o <<e>>
  BY <1>1, AppendIsConcat
<1>3. <<e>> \in Seq(S)
  OBVIOUS
<1> QED BY <1>2, <1>3, ConcatAssociative

(* The head of a non-empty batch is the head of the whole queue.           *)
LEMMA HeadTailConcat ==
  ASSUME NEW S, NEW s \in Seq(S), NEW t \in Seq(S), s # << >>
  PROVE  /\ s \o t # << >>
         /\ Head(s \o t) = Head(s)
         /\ Tail(s \o t) = Tail(s) \o t
  OBVIOUS

(***************************************************************************)
(* The mutex, the swap and the two vectors implement a FIFO queue that     *)
(* runs every functor at most once (EventLoop.cc:145-163, 193-222), for    *)
(* any number of threads and functors, early calls included.               *)
(***************************************************************************)
THEOREM LoopImplementsTaskQueue == Spec => ImplementsTaskQueue
<1> DEFINE IInv == TypeOK /\ PhaseInv
<1>1. Init => TQ!TQInit
  BY ConcatEmptySeq, EmptySeq DEF Init, TQ!TQInit
<1>2. IInv /\ [Next]_vars => [TQ!TQNext]_(TQ!tqVars)
  <2> SUFFICES ASSUME TypeOK, PhaseInv, [Next]_vars
               PROVE [TQ!TQNext]_(TQ!tqVars)
    OBVIOUS
  <2> DEFINE queue == functors \o pendingFunctors_
  <2> USE DEF loopVars, queueVars, pollVars
  <2>1. CASE SwapPending
    <3>1. functors = << >> /\ pendingFunctors_ \in Seq(Functors)
      BY <2>1 DEF SwapPending, PhaseInv, TypeOK
    <3>2. queue' = queue
      BY <2>1, <3>1, ConcatEmptySeq DEF SwapPending
    <3> QED BY <2>1, <3>2 DEF SwapPending, TQ!tqVars
  <2>2. CASE RunFunctor
    <3>1. queue # << >> /\ Head(queue) = Head(functors)
          /\ queue' = Tail(queue)
      BY <2>2, HeadTailConcat DEF RunFunctor, TypeOK
    <3> QED BY <2>2, <3>1 DEF RunFunctor, TQ!TQNext, TQ!RunNext
  <2>3. ASSUME NEW f \in Functors, OwnQueueInLoop(f)
        PROVE TQ!TQNext
    <3>1. queue' = Append(queue, f)
      BY <2>3, ConcatAppend DEF OwnQueueInLoop, TypeOK
    <3> QED BY <2>3, <3>1 DEF OwnQueueInLoop, TQ!TQNext, TQ!Submit
  <2>4. ASSUME NEW t \in Threads, NEW f \in Functors, QueueInLoop(t, f)
        PROVE TQ!TQNext
    <3>1. queue' = Append(queue, f)
      BY <2>4, ConcatAppend DEF QueueInLoop, TypeOK
    <3> QED BY <2>4, <3>1 DEF QueueInLoop, TQ!TQNext, TQ!Submit
  <2>5. ASSUME NEW f \in Functors, OwnRunInLoop(f)
        PROVE TQ!TQNext
    BY <2>5 DEF OwnRunInLoop, UserCodeRuns, PhaseInv, TQ!TQNext, TQ!RunNow
  <2>6. CASE UNCHANGED queueVars /\ (pc' = "stopped" <=> pc = "stopped")
    BY <2>6 DEF TQ!tqVars
  <2>7. CASE LoopTest
    <3>1. CASE pc' = "stopped"
      BY <2>7, <3>1 DEF LoopTest, TQ!TQNext, TQ!Stop
    <3>2. CASE pc' # "stopped"
      BY <2>6, <2>7, <3>2 DEF LoopTest
    <3> QED BY <3>1, <3>2
  <2>8. CASE \/ LoopEnter \/ PollReturn \/ PollTimeout
             \/ HandleRead \/ (\E ch \in IoChannels : HandleIo(ch))
             \/ BeginPending \/ EndPending \/ EndCallback \/ OwnQuit
             \/ (\E t \in Threads : Quit(t) \/ Wakeup(t))
             \/ (\E ch \in IoChannels : Arrive(ch))
    BY <2>6, <2>8
       DEF LoopEnter, PollReturn, PollTimeout, HandleRead, HandleIo,
           BeginPending, EndPending, EndCallback, OwnQuit, Quit, Wakeup, Arrive
  <2> QED BY <2>1, <2>2, <2>3, <2>4, <2>5, <2>6, <2>7, <2>8
          DEF Next, LoopStep, OwnCall, OtherCall, vars
<1>3. Init => IInv
  BY InitTypeOK, InitPhaseInv
<1>4. IInv /\ [Next]_vars => IInv'
  BY NextTypeOK, NextPhaseInv
<1> QED BY <1>1, <1>2, <1>3, <1>4, PTL
        DEF Spec, ImplementsTaskQueue, TQ!TQSpec
=============================================================================
