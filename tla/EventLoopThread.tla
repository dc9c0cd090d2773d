--------------------------- MODULE EventLoopThread ---------------------------
(***************************************************************************)
(* One EventLoopThread (src/EventLoopThread.cc) with its Thread and its    *)
(* EventLoop: the owner that calls startLoop() and later destroys the      *)
(* object, the thread that runs threadFunc(), and other threads that use   *)
(* the loop between the two.                                               *)
(*                                                                         *)
(* The module extends EventLoop: threadFunc's call of loop.loop() is the   *)
(* loop's own behaviour, run only while threadPc = "loop".  A critical     *)
(* section of EventLoopThread::mutex_ is one step: none of them blocks     *)
(* inside, and cond_.wait releases the mutex while it waits.               *)
(***************************************************************************)
EXTENDS EventLoop

CONSTANT Owner          \* the thread that owns the EventLoopThread object

ASSUME OwnerAssumption == Owner \in Threads \cap Quitters

VARIABLES
  ownerPc,              \* where the owner is in startLoop and the destructor
  threadPc,             \* where the new thread is in threadFunc
  loop_,                \* is loop_ set (or nullptr)?
  destroyed             \* has ~EventLoop run?

threadVars == <<ownerPc, threadPc, loop_, destroyed>>
allVars == <<vars, threadVars>>

(* Control points of the owner: "sem", "test" and "wait" are in startLoop  *)
(* ("wait" is blocked in cond_.wait), "using" follows its return, "quit",  *)
(* "wake" and "join" are in the destructor, and "joined" and "detached"    *)
(* are its two ways out.                                                   *)
OwnerPoints ==
  {"new", "sem", "test", "wait", "using", "quit", "wake", "join", "joined",
   "detached"}

(* Control points of the new thread.                                       *)
ThreadPoints ==
  {"none", "started", "init", "loop", "clear", "destroy", "ended"}

TInit ==
  /\ Init
  /\ ownerPc = "new"
  /\ threadPc = "none"
  /\ loop_ = FALSE
  /\ destroyed = FALSE

-----------------------------------------------------------------------------
(* The owner: startLoop *)

(* Thread::start creates the thread ...                                    *)
ThreadStart ==
  /\ ownerPc = "new"
  /\ ownerPc' = "sem"
  /\ threadPc' = "started"
  /\ UNCHANGED <<vars, loop_, destroyed>>

(* ... and waits for its tid: sem_wait returns after sem_post.             *)
SemWait ==
  /\ ownerPc = "sem"
  /\ threadPc # "started"
  /\ ownerPc' = "test"
  /\ UNCHANGED <<vars, threadPc, loop_, destroyed>>

(* cond_.wait with its predicate: return if loop_ is set, else block.      *)
WaitTest ==
  /\ ownerPc = "test"
  /\ ownerPc' = IF loop_ THEN "using" ELSE "wait"
  /\ UNCHANGED <<vars, threadPc, loop_, destroyed>>

-----------------------------------------------------------------------------
(* The owner: ~EventLoopThread *)

(* The destructor copies loop_ under mutex_.  If it is null the thread is  *)
(* not joined, and ~Thread detaches it.                                    *)
ReadLoop ==
  /\ ownerPc = "using"
  /\ Owner \notin wakeupDue
  /\ ownerPc' = IF loop_ THEN "quit" ELSE "detached"
  /\ UNCHANGED <<vars, threadPc, loop_, destroyed>>

(* loop->quit(): the store.                                                *)
OwnerQuit ==
  /\ ownerPc = "quit"
  /\ Quit(Owner)
  /\ ownerPc' = "wake"
  /\ UNCHANGED <<threadPc, loop_, destroyed>>

(* loop->quit(): wakeup().                                                 *)
OwnerWakeup ==
  /\ ownerPc = "wake"
  /\ Wakeup(Owner)
  /\ ownerPc' = "join"
  /\ UNCHANGED <<threadPc, loop_, destroyed>>

(* Mutant: the destructor does not wait for the thread.                    *)
JoinMutant ==
  /\ ownerPc = "join"
  /\ ownerPc' = "joined"
  /\ UNCHANGED <<vars, threadPc, loop_, destroyed>>

(* thread_.join().                                                         *)
Join ==
  /\ ownerPc = "join"
  /\ threadPc = "ended"
  /\ ownerPc' = "joined"
  /\ UNCHANGED <<vars, threadPc, loop_, destroyed>>

-----------------------------------------------------------------------------
(* The new thread: threadFunc *)

(* The lambda of Thread::start stores tid_ and posts the semaphore; then   *)
(* threadFunc constructs its EventLoop.                                    *)
SemPost ==
  /\ threadPc = "started"
  /\ threadPc' = "init"
  /\ UNCHANGED <<vars, ownerPc, loop_, destroyed>>

(* Mutant: loop_ is stored and nobody is notified.                         *)
PublishMutant ==
  /\ threadPc = "init"
  /\ threadPc' = "loop"
  /\ loop_' = TRUE
  /\ UNCHANGED <<vars, ownerPc, destroyed>>

(* callback_ has run.  loop_ = &loop and notify_one, under mutex_: an      *)
(* owner blocked in cond_.wait tests its predicate again.                  *)
Publish ==
  /\ threadPc = "init"
  /\ threadPc' = "loop"
  /\ loop_' = TRUE
  /\ ownerPc' = IF ownerPc = "wait" THEN "test" ELSE ownerPc
  /\ UNCHANGED <<vars, destroyed>>

(* loop.loop(): the steps of the loop and of the callbacks it runs.        *)
RunLoop ==
  /\ threadPc = "loop"
  /\ LoopStep
  /\ UNCHANGED threadVars

LoopReturns ==
  /\ threadPc = "loop"
  /\ pc = "stopped"
  /\ threadPc' = "clear"
  /\ UNCHANGED <<vars, ownerPc, loop_, destroyed>>

(* Mutant: loop_ keeps pointing at the stack object that goes away.        *)
ClearLoopMutant ==
  /\ threadPc = "clear"
  /\ threadPc' = "destroy"
  /\ UNCHANGED <<vars, ownerPc, loop_, destroyed>>

(* loop_ = nullptr, under mutex_.  The lock is the last object constructed *)
(* and so is released first.                                               *)
ClearLoop ==
  /\ threadPc = "clear"
  /\ threadPc' = "destroy"
  /\ loop_' = FALSE
  /\ UNCHANGED <<vars, ownerPc, destroyed>>

(* ~EventLoop, and the thread ends: what is queued is destroyed unrun.     *)
DestroyLoop ==
  /\ threadPc = "destroy"
  /\ threadPc' = "ended"
  /\ destroyed' = TRUE
  /\ UNCHANGED <<vars, ownerPc, loop_>>

-----------------------------------------------------------------------------
(* Calls on the loop: from callback_ and from callbacks in the new thread, *)
(* and from the owner and the other threads once startLoop has returned.   *)

OwnUse ==
  /\ threadPc = "init" \/ (threadPc = "loop" /\ inCallback)
  /\ OwnCall
  /\ UNCHANGED threadVars

(* The owner itself calls quit() only in the destructor.  Another thread   *)
(* may still be in its wakeup() when the destructor has started.           *)
OtherUse(t) ==
  /\ \/ ownerPc = "using" /\ \E f \in Functors : QueueInLoop(t, f)
     \/ ownerPc = "using" /\ t \in Quitters \ {Owner} /\ Quit(t)
     \/ (ownerPc = "using" \/ t # Owner) /\ Wakeup(t)
  /\ UNCHANGED threadVars

Kernel ==
  /\ PollTimeout \/ \E ch \in IoChannels : Arrive(ch)
  /\ UNCHANGED threadVars

OwnerStep ==
  \/ ThreadStart \/ SemWait \/ WaitTest
  \/ OwnerQuit \/ OwnerWakeup \/ Join

ThreadStep ==
  \/ SemPost \/ Publish \/ RunLoop \/ LoopReturns \/ ClearLoop \/ DestroyLoop

(* The owner has left the destructor and the thread is gone.               *)
Finished ==
  /\ ownerPc \in {"joined", "detached"}
  /\ threadPc = "ended"
  /\ UNCHANGED allVars

TNext ==
  \/ OwnerStep
  \/ ReadLoop
  \/ ThreadStep
  \/ OwnUse
  \/ \E t \in Threads : OtherUse(t)
  \/ Kernel
  \/ Finished

TSpec == TInit /\ [][TNext]_allVars

(* Every thread is scheduled.  The owner may keep the object for ever:     *)
(* ReadLoop, the start of the destructor, is not fair.                     *)
TFairness ==
  /\ WF_allVars(OwnerStep)
  /\ WF_allVars(ThreadStep)
  /\ \A t \in Threads : WF_allVars(Wakeup(t) /\ OtherUse(t))

TFairSpec == TSpec /\ TFairness

-----------------------------------------------------------------------------
(* Properties *)

(* Control points and flags stay in their types, and so does the loop.     *)
ThreadTypeOK ==
  /\ TypeOK
  /\ ownerPc \in OwnerPoints
  /\ threadPc \in ThreadPoints
  /\ loop_ \in BOOLEAN
  /\ destroyed \in BOOLEAN

(***************************************************************************)
(* What mutex_ protects is never dangling: whoever reads loop_ and finds   *)
(* it set finds a loop that has not been destroyed.                        *)
(***************************************************************************)
LoopPointerValid == loop_ => ~destroyed

(***************************************************************************)
(* Once the destructor has joined the thread, nothing of the loop is left: *)
(* it is destroyed, no callback is in progress, and no functor will start. *)
(* Whoever owns the EventLoopThread may free what the functors refer to.   *)
(***************************************************************************)
NothingRunsAfterJoin ==
  ownerPc = "joined" => (destroyed /\ ~inCallback /\ pc = "stopped")

(* startLoop returns, whichever of the two threads is faster, unless the   *)
(* loop quits by itself and has cleared loop_ before startLoop tests it.   *)
StartLoopReturns ==
  (ownerPc = "sem") ~> (ownerPc = "using" \/ threadPc = "ended")

(* A destructor entered after the loop is in loop() returns.               *)
DestructorReturnsIfLooping ==
  (ownerPc = "quit" /\ pc # "created") ~> (ownerPc = "joined")

(* The destructor returns, as the comment on quit() has it: quit() leaves  *)
(* the event loop.  It does not if quit_ is stored before loop() clears    *)
(* it: the thread then never ends, and join() waits for it for ever.       *)
DestructorReturns == (ownerPc = "quit") ~> (ownerPc = "joined")
=============================================================================
