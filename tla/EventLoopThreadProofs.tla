------------------------ MODULE EventLoopThreadProofs ------------------------
(***************************************************************************)
(* Proofs about EventLoopThread, for any sets of threads, functors and     *)
(* channels.                                                               *)
(*                                                                         *)
(* threadFunc only ever runs the loop as EventLoop describes it, so what   *)
(* is proved of Spec holds of TSpec.  The two safety properties follow     *)
(* from ThreadInv, which ties the point threadFunc has reached to the      *)
(* state of the loop, of loop_ and of the owner.                           *)
(***************************************************************************)
EXTENDS EventLoopThread, EventLoopProofs

(* The thread starts in startLoop; loop_ is set only between its two       *)
(* assignments; the loop is destroyed exactly when the thread has ended;   *)
(* after loop() has returned nothing runs in the loop; and a joined thread *)
(* has ended.                                                              *)
ThreadInv ==
  /\ ownerPc = "new" => threadPc = "none"
  /\ loop_ => threadPc \in {"loop", "clear"}
  /\ destroyed <=> (threadPc = "ended")
  /\ threadPc \in {"clear", "destroy", "ended"} => pc = "stopped"
  /\ ownerPc = "joined" => threadPc = "ended"

-----------------------------------------------------------------------------
(* A step of the whole is a step of the loop or leaves it alone.           *)
LEMMA ThreadStepIsLoopStep == TNext => [Next]_vars
<1> SUFFICES ASSUME TNext PROVE [Next]_vars
  OBVIOUS
<1>1. CASE OwnerStep
  BY <1>1, OwnerAssumption
     DEF OwnerStep, ThreadStart, SemWait, WaitTest, OwnerQuit, OwnerWakeup,
         Join, Next, OtherCall
<1>2. CASE ReadLoop BY <1>2 DEF ReadLoop
<1>3. CASE ThreadStep
  BY <1>3 DEF ThreadStep, SemPost, Publish, RunLoop, LoopReturns, ClearLoop,
              DestroyLoop, Next
<1>4. CASE OwnUse BY <1>4 DEF OwnUse, Next
<1>5. ASSUME NEW t \in Threads, OtherUse(t) PROVE Next
  BY <1>5 DEF OtherUse, Next, OtherCall
<1>6. CASE Kernel BY <1>6 DEF Kernel, Next
<1>7. CASE Finished BY <1>7 DEF Finished, allVars
<1> QED BY <1>1, <1>2, <1>3, <1>4, <1>5, <1>6, <1>7 DEF TNext

(***************************************************************************)
(* The loop of an EventLoopThread is an EventLoop: threadFunc              *)
(* (EventLoopThread.cc:45-63), startLoop and the destructor use it only    *)
(* as EventLoop allows, so its theorems carry over.                        *)
(***************************************************************************)
THEOREM ThreadRunsLoop == TSpec => Spec
<1>1. TInit => Init BY DEF TInit
<1>2. [TNext]_allVars => [Next]_vars
  BY ThreadStepIsLoopStep DEF allVars
<1> QED BY <1>1, <1>2, PTL DEF TSpec, Spec

-----------------------------------------------------------------------------
(***************************************************************************)
(* The owner, the new thread and the loop they share stay in their types   *)
(* (EventLoopThread.cc, Thread.cc).                                        *)
(***************************************************************************)
THEOREM ThreadTypeCorrect == TSpec => []ThreadTypeOK
<1>1. TInit => ThreadTypeOK
  BY InitTypeOK DEF TInit, ThreadTypeOK, OwnerPoints, ThreadPoints
<1>2. ThreadTypeOK /\ [TNext]_allVars => ThreadTypeOK'
  <2> SUFFICES ASSUME ThreadTypeOK, [TNext]_allVars PROVE ThreadTypeOK'
    OBVIOUS
  <2>1. TypeOK'
    BY ThreadStepIsLoopStep, NextTypeOK DEF ThreadTypeOK, allVars
  <2>2. CASE OwnerStep \/ ReadLoop
    BY <2>1, <2>2 DEF OwnerStep, ThreadStart, SemWait, WaitTest, OwnerQuit,
       OwnerWakeup, Join, ReadLoop, ThreadTypeOK, OwnerPoints, ThreadPoints
  <2>3. CASE ThreadStep
    BY <2>1, <2>3 DEF ThreadStep, SemPost, Publish, RunLoop, LoopReturns,
       ClearLoop, DestroyLoop, threadVars, ThreadTypeOK, OwnerPoints,
       ThreadPoints
  <2>4. CASE OwnUse \/ (\E t \in Threads : OtherUse(t)) \/ Kernel \/ Finished
              \/ UNCHANGED allVars
    BY <2>1, <2>4 DEF OwnUse, OtherUse, Kernel, Finished, allVars, threadVars,
       ThreadTypeOK
  <2> QED BY <2>2, <2>3, <2>4 DEF TNext
<1> QED BY <1>1, <1>2, PTL DEF TSpec

-----------------------------------------------------------------------------
(* Once loop() has returned, no step moves the loop's thread.              *)
LEMMA StoppedStays ==
  ASSUME pc = "stopped", PhaseInv, [Next]_vars
  PROVE  pc' = "stopped"
<1>1. CASE LoopStep \/ PollTimeout
  BY <1>1 DEF LoopStep, PollTimeout, LoopEnter, LoopTest, PollReturn,
              HandleRead, HandleIo, BeginPending, SwapPending, RunFunctor,
              EndPending, EndCallback, PhaseInv
<1>2. CASE OwnCall
  BY <1>2 DEF OwnCall, OwnQueueInLoop, OwnRunInLoop, OwnQuit, loopVars
<1>3. ASSUME NEW t \in Threads, OtherCall(t) PROVE pc' = "stopped"
  BY <1>3 DEF OtherCall, QueueInLoop, Quit, Wakeup, loopVars
<1>4. ASSUME NEW ch \in IoChannels, Arrive(ch) PROVE pc' = "stopped"
  BY <1>4 DEF Arrive, loopVars
<1>5. CASE UNCHANGED vars BY <1>5 DEF vars, loopVars
<1> QED BY <1>1, <1>2, <1>3, <1>4, <1>5 DEF Next

(* Every step keeps ThreadInv: one case per action that moves one of the   *)
(* two threads, one for all the others.                                    *)
LEMMA NextThreadInv ==
  ASSUME ThreadInv, PhaseInv, [TNext]_allVars
  PROVE  ThreadInv'
<1>1. [Next]_vars
  BY ThreadStepIsLoopStep DEF allVars
<1>2. pc = "stopped" => pc' = "stopped"
  BY <1>1, StoppedStays
<1>3. CASE ThreadStart \/ SemWait \/ WaitTest \/ ReadLoop
  BY <1>2, <1>3 DEF ThreadStart, SemWait, WaitTest, ReadLoop, ThreadInv
<1>4. CASE OwnerQuit \/ OwnerWakeup \/ Join
  BY <1>2, <1>4 DEF OwnerQuit, OwnerWakeup, Join, ThreadInv
<1>5. CASE SemPost \/ Publish
  BY <1>2, <1>5 DEF SemPost, Publish, ThreadInv
<1>6. CASE LoopReturns \/ ClearLoop \/ DestroyLoop
  BY <1>2, <1>6 DEF LoopReturns, ClearLoop, DestroyLoop, ThreadInv, vars,
                    loopVars
<1>7. CASE UNCHANGED threadVars
  BY <1>2, <1>7 DEF threadVars, ThreadInv
<1>8. ASSUME NEW t \in Threads, OtherUse(t) PROVE UNCHANGED threadVars
  BY <1>8 DEF OtherUse
<1>9. RunLoop \/ OwnUse \/ Kernel \/ Finished \/ UNCHANGED allVars
        => UNCHANGED threadVars
  BY DEF RunLoop, OwnUse, Kernel, Finished, allVars
<1> QED
  BY <1>3, <1>4, <1>5, <1>6, <1>7, <1>8, <1>9
     DEF TNext, OwnerStep, ThreadStep

(* ThreadInv and the phases of the loop are invariants.                    *)
LEMMA ThreadInvariance == TSpec => [](ThreadInv /\ PhaseInv)
<1>1. TInit => ThreadInv /\ PhaseInv /\ TypeOK
  BY InitPhaseInv, InitTypeOK DEF TInit, ThreadInv
<1>2. ThreadInv /\ PhaseInv /\ TypeOK /\ [TNext]_allVars
        => (ThreadInv /\ PhaseInv /\ TypeOK)'
  <2> SUFFICES ASSUME ThreadInv, PhaseInv, TypeOK, [TNext]_allVars
               PROVE  (ThreadInv /\ PhaseInv /\ TypeOK)'
    OBVIOUS
  <2>1. [Next]_vars BY ThreadStepIsLoopStep DEF allVars
  <2> QED BY <2>1, NextThreadInv, NextPhaseInv, NextTypeOK
<1> QED BY <1>1, <1>2, PTL DEF TSpec

(***************************************************************************)
(* loop_ never points at a destroyed loop (EventLoopThread.cc:54-62): the  *)
(* thread clears it before ~EventLoop runs, under the mutex.               *)
(***************************************************************************)
THEOREM LoopPointerIsValid == TSpec => []LoopPointerValid
<1>1. ThreadInv => LoopPointerValid BY DEF ThreadInv, LoopPointerValid
<1> QED BY <1>1, ThreadInvariance, PTL

(***************************************************************************)
(* When the destructor (EventLoopThread.cc:16-29) has joined the thread,   *)
(* the loop is destroyed and no functor or callback is running.            *)
(***************************************************************************)
THEOREM JoinEndsEverything == TSpec => []NothingRunsAfterJoin
<1>1. ThreadInv /\ PhaseInv => NothingRunsAfterJoin
  BY DEF ThreadInv, PhaseInv, NothingRunsAfterJoin
<1> QED BY <1>1, ThreadInvariance, PTL
=============================================================================
