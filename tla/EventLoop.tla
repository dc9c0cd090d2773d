------------------------------ MODULE EventLoop ------------------------------
(***************************************************************************)
(* One EventLoop (src/EventLoop.cc): the thread that runs loop(), and the  *)
(* other threads that call queueInLoop, runInLoop, quit and wakeup on it.  *)
(*                                                                         *)
(* Functors are opaque: each element of Functors is one std::function      *)
(* object, handed to the loop at most once.  Running a functor or a        *)
(* channel's callback means that the loop's thread may make any calls on   *)
(* its own loop before the callback returns.  The eventfd counter is       *)
(* abstracted to "readable or not": wakeup() adds to it, handleRead()      *)
(* reads it back to zero and ignores the value.                            *)
(*                                                                         *)
(* A step of a thread is one access to state another thread can see: the   *)
(* critical section of mutex_, a read or a write of the atomic quit_, a    *)
(* write to or a read of the eventfd, the return of epoll_wait.            *)
(***************************************************************************)
EXTENDS Sequences, FiniteSets

CONSTANTS
  Threads,      \* threads other than the loop's own
  Functors,     \* the closures that may be handed to the loop
  IoChannels,   \* channels of the poller other than wakeupChannel_
  Quitters,     \* the threads that may call quit(), LoopThread included
  EarlyCalls,   \* may the loop's thread use the loop before it calls loop()?
  LoopThread,   \* the thread the loop was created in (threadId_)
  WakeupChannel \* wakeupChannel_

ASSUME ThreadAssumption ==
  /\ LoopThread \notin Threads
  /\ Quitters \subseteq Threads \cup {LoopThread}

ASSUME ChannelAssumption == WakeupChannel \notin IoChannels

ASSUME EarlyCallsAssumption == EarlyCalls \in BOOLEAN

VARIABLES
  pc,                       \* where the loop's thread is in loop()
  inCallback,               \* is it inside a functor or a channel's callback?
  quit_,                    \* std::atomic_bool quit_
  callingPendingFunctors_,  \* set while doPendingFunctors runs the batch
  pendingFunctors_,         \* the vector mutex_ protects
  functors,                 \* the local vector doPendingFunctors swapped out
  wakeupFd_,                \* is the eventfd readable?
  activeChannels_,          \* channels poll() returned, not handled yet
  ioReady,                  \* I/O channels the kernel would report
  wakeupDue,                \* threads that have still to call wakeup()
  posted,                   \* functors handed to the loop so far
  executed                  \* functors started, in order

loopVars  == <<pc, inCallback, quit_, callingPendingFunctors_>>
queueVars == <<pendingFunctors_, functors, posted, executed>>
pollVars  == <<wakeupFd_, activeChannels_, ioReady, wakeupDue>>

vars == <<loopVars, queueVars, pollVars>>

Init ==
  /\ pc = "created"
  /\ inCallback = FALSE
  /\ quit_ = FALSE
  /\ callingPendingFunctors_ = FALSE
  /\ pendingFunctors_ = << >>
  /\ functors = << >>
  /\ wakeupFd_ = FALSE
  /\ activeChannels_ = {}
  /\ ioReady = {}
  /\ wakeupDue = {}
  /\ posted = {}
  /\ executed = << >>

(* Control points of the loop's thread.  looping_ is TRUE from "while" to  *)
(* the end of doPendingFunctors.                                           *)
ControlPoints ==
  {"created", "while", "poll", "handle", "swap", "run", "stopped"}

-----------------------------------------------------------------------------
(* EventLoop::loop, doPendingFunctors and handleRead, in the loop's thread *)

(* loop() is entered: quit_ is cleared, whoever set it.                    *)
LoopEnter ==
  /\ pc = "created"
  /\ pc' = "while"
  /\ quit_' = FALSE
  /\ UNCHANGED <<inCallback, callingPendingFunctors_, queueVars, pollVars>>

(* while (!quit_): clear activeChannels_ and poll, or leave loop().        *)
LoopTest ==
  /\ pc = "while"
  /\ pc' = IF quit_ THEN "stopped" ELSE "poll"
  /\ activeChannels_' = IF quit_ THEN activeChannels_ ELSE {}
  /\ UNCHANGED <<inCallback, quit_, callingPendingFunctors_, queueVars,
                 wakeupFd_, ioReady, wakeupDue>>

ReadyChannels == ioReady \cup (IF wakeupFd_ THEN {WakeupChannel} ELSE {})

(* epoll_wait reports some of the channels that are ready.                 *)
PollReturn ==
  /\ pc = "poll"
  /\ \E S \in SUBSET ReadyChannels \ {{}} : activeChannels_' = S
  /\ pc' = "handle"
  /\ UNCHANGED <<inCallback, quit_, callingPendingFunctors_, queueVars,
                 wakeupFd_, ioReady, wakeupDue>>

(* epoll_wait returns nothing: kPollTimeMs went by, or EINTR.              *)
PollTimeout ==
  /\ pc = "poll"
  /\ ReadyChannels = {}
  /\ activeChannels_' = {}
  /\ pc' = "handle"
  /\ UNCHANGED <<inCallback, quit_, callingPendingFunctors_, queueVars,
                 wakeupFd_, ioReady, wakeupDue>>

(* The wakeup channel's callback: read(wakeupFd_) takes it back to zero.   *)
HandleRead ==
  /\ pc = "handle"
  /\ ~inCallback
  /\ WakeupChannel \in activeChannels_
  /\ activeChannels_' = activeChannels_ \ {WakeupChannel}
  /\ wakeupFd_' = FALSE
  /\ UNCHANGED <<loopVars, queueVars, ioReady, wakeupDue>>

(* Another channel's callback starts.  It may or may not consume what made *)
(* the channel ready; epoll is level-triggered.                            *)
HandleIo(ch) ==
  /\ pc = "handle"
  /\ ~inCallback
  /\ ch \in activeChannels_
  /\ activeChannels_' = activeChannels_ \ {ch}
  /\ ioReady' \in {ioReady, ioReady \ {ch}}
  /\ inCallback' = TRUE
  /\ UNCHANGED <<pc, quit_, callingPendingFunctors_, queueVars, wakeupFd_,
                 wakeupDue>>

(* All channels are handled: doPendingFunctors starts.                     *)
BeginPending ==
  /\ pc = "handle"
  /\ ~inCallback
  /\ activeChannels_ = {}
  /\ callingPendingFunctors_' = TRUE
  /\ pc' = "swap"
  /\ UNCHANGED <<inCallback, quit_, queueVars, pollVars>>

(* Mutant: the batch is copied and not swapped out.                        *)
SwapPendingMutant ==
  /\ pc = "swap"
  /\ functors' = pendingFunctors_
  /\ pc' = "run"
  /\ UNCHANGED <<inCallback, quit_, callingPendingFunctors_, pendingFunctors_,
                 posted, executed, pollVars>>

(* functors.swap(pendingFunctors_), under mutex_.                          *)
SwapPending ==
  /\ pc = "swap"
  /\ functors' = pendingFunctors_
  /\ pendingFunctors_' = << >>
  /\ pc' = "run"
  /\ UNCHANGED <<inCallback, quit_, callingPendingFunctors_, posted, executed,
                 pollVars>>

(* The next functor of the batch starts.                                   *)
RunFunctor ==
  /\ pc = "run"
  /\ ~inCallback
  /\ functors # << >>
  /\ executed' = Append(executed, Head(functors))
  /\ functors' = Tail(functors)
  /\ inCallback' = TRUE
  /\ UNCHANGED <<pc, quit_, callingPendingFunctors_, pendingFunctors_, posted,
                 pollVars>>

(* The batch is done: back to the loop's test.                             *)
EndPending ==
  /\ pc = "run"
  /\ ~inCallback
  /\ functors = << >>
  /\ callingPendingFunctors_' = FALSE
  /\ pc' = "while"
  /\ UNCHANGED <<inCallback, quit_, queueVars, pollVars>>

(* The callback in progress returns.                                       *)
EndCallback ==
  /\ inCallback
  /\ inCallback' = FALSE
  /\ UNCHANGED <<pc, quit_, callingPendingFunctors_, queueVars, pollVars>>

-----------------------------------------------------------------------------
(* Calls on the loop from its own thread: isInLoopThread() is true         *)

(* User code runs in the loop's thread inside callbacks and, if it makes   *)
(* early calls, between the constructor and loop().                        *)
UserCodeRuns == inCallback \/ (EarlyCalls /\ pc = "created")

(* Mutant: queueInLoop forgets "|| callingPendingFunctors_".               *)
OwnWakeupMutant == FALSE

(* The test of queueInLoop, when isInLoopThread() is true.                 *)
OwnWakeup == callingPendingFunctors_

(* queueInLoop: wakeup() only if the batch is being run.  The loop's own   *)
(* thread is the only one to read the eventfd and the flag and to empty    *)
(* the queue, so its push and its wakeup() need not be told apart.         *)
OwnQueueInLoop(f) ==
  /\ UserCodeRuns
  /\ f \in Functors \ posted
  /\ posted' = posted \cup {f}
  /\ pendingFunctors_' = Append(pendingFunctors_, f)
  /\ wakeupFd_' = (wakeupFd_ \/ OwnWakeup)
  /\ UNCHANGED <<loopVars, functors, executed, activeChannels_, ioReady,
                 wakeupDue>>

(* runInLoop: the functor runs on the spot.                                *)
OwnRunInLoop(f) ==
  /\ UserCodeRuns
  /\ f \in Functors \ posted
  /\ posted' = posted \cup {f}
  /\ executed' = Append(executed, f)
  /\ UNCHANGED <<loopVars, pendingFunctors_, functors, pollVars>>

(* Mutant: quit wakes the loop whatever thread it is called in.            *)
OwnQuitMutant ==
  /\ UserCodeRuns
  /\ LoopThread \in Quitters
  /\ quit_' = TRUE
  /\ wakeupDue' = wakeupDue \cup {LoopThread}
  /\ UNCHANGED <<pc, inCallback, callingPendingFunctors_, queueVars, wakeupFd_,
                 activeChannels_, ioReady>>

(* quit: no wakeup() is needed.                                            *)
OwnQuit ==
  /\ UserCodeRuns
  /\ LoopThread \in Quitters
  /\ quit_' = TRUE
  /\ UNCHANGED <<pc, inCallback, callingPendingFunctors_, queueVars, pollVars>>

-----------------------------------------------------------------------------
(* Calls on the loop from another thread                                   *)

(* Mutant: queueInLoop from another thread relies on the flag alone.       *)
QueueInLoopMutant(t, f) ==
  /\ t \notin wakeupDue
  /\ f \in Functors \ posted
  /\ posted' = posted \cup {f}
  /\ pendingFunctors_' = Append(pendingFunctors_, f)
  /\ wakeupDue' = IF callingPendingFunctors_ THEN wakeupDue \cup {t}
                                             ELSE wakeupDue
  /\ UNCHANGED <<loopVars, functors, executed, wakeupFd_, activeChannels_,
                 ioReady>>

(* queueInLoop, and runInLoop which passes the functor on to it: the push  *)
(* under mutex_.  wakeup() follows in a step of its own.                   *)
QueueInLoop(t, f) ==
  /\ t \notin wakeupDue
  /\ f \in Functors \ posted
  /\ posted' = posted \cup {f}
  /\ pendingFunctors_' = Append(pendingFunctors_, f)
  /\ wakeupDue' = wakeupDue \cup {t}
  /\ UNCHANGED <<loopVars, functors, executed, wakeupFd_, activeChannels_,
                 ioReady>>

(* Mutant: quit stores the flag and lets the loop sleep on.                *)
QuitMutant(t) ==
  /\ t \notin wakeupDue
  /\ quit_' = TRUE
  /\ UNCHANGED <<pc, inCallback, callingPendingFunctors_, queueVars, pollVars>>

(* quit: the store to quit_; wakeup() follows.                             *)
Quit(t) ==
  /\ t \notin wakeupDue
  /\ quit_' = TRUE
  /\ wakeupDue' = wakeupDue \cup {t}
  /\ UNCHANGED <<pc, inCallback, callingPendingFunctors_, queueVars, wakeupFd_,
                 activeChannels_, ioReady>>

(* wakeup: the write to the eventfd.                                       *)
Wakeup(t) ==
  /\ t \in wakeupDue
  /\ wakeupFd_' = TRUE
  /\ wakeupDue' = wakeupDue \ {t}
  /\ UNCHANGED <<loopVars, queueVars, activeChannels_, ioReady>>

-----------------------------------------------------------------------------
(* The kernel: something arrives on an I/O channel.                        *)
Arrive(ch) ==
  /\ ch \notin ioReady
  /\ ioReady' = ioReady \cup {ch}
  /\ UNCHANGED <<loopVars, queueVars, wakeupFd_, activeChannels_, wakeupDue>>

(* The steps of loop() that do not wait for the poll timeout.              *)
LoopStep ==
  \/ LoopEnter \/ LoopTest \/ PollReturn
  \/ HandleRead \/ (\E ch \in IoChannels : HandleIo(ch))
  \/ BeginPending \/ SwapPending \/ RunFunctor \/ EndPending
  \/ EndCallback

OwnCall ==
  \/ \E f \in Functors : OwnQueueInLoop(f) \/ OwnRunInLoop(f)
  \/ OwnQuit

OtherCall(t) ==
  \/ \E f \in Functors : QueueInLoop(t, f)
  \/ t \in Quitters /\ Quit(t)
  \/ Wakeup(t)

Next ==
  \/ LoopStep
  \/ PollTimeout
  \/ OwnCall
  \/ \E t \in Threads : OtherCall(t)
  \/ \E ch \in IoChannels : Arrive(ch)

Spec == Init /\ [][Next]_vars

(***************************************************************************)
(* Fairness: the operating system schedules every thread, and callbacks    *)
(* return.  No fairness is assumed of PollTimeout: nothing may depend on   *)
(* the ten seconds of kPollTimeMs.                                         *)
(***************************************************************************)
Fairness ==
  /\ WF_vars(LoopStep)
  /\ \A t \in Threads : WF_vars(Wakeup(t))

FairSpec == Spec /\ Fairness

-----------------------------------------------------------------------------
(* Properties *)

(* Type correctness: every variable of the loop stays in its type.         *)
TypeOK ==
  /\ pc \in ControlPoints
  /\ inCallback \in BOOLEAN
  /\ quit_ \in BOOLEAN
  /\ callingPendingFunctors_ \in BOOLEAN
  /\ pendingFunctors_ \in Seq(Functors)
  /\ functors \in Seq(Functors)
  /\ wakeupFd_ \in BOOLEAN
  /\ activeChannels_ \subseteq IoChannels \cup {WakeupChannel}
  /\ ioReady \subseteq IoChannels
  /\ wakeupDue \subseteq Threads
  /\ posted \subseteq Functors
  /\ executed \in Seq(Functors)

(***************************************************************************)
(* No wakeup is lost: the loop's thread is never blocked in epoll_wait     *)
(* with a functor queued, or quit_ set, unless the eventfd is readable or  *)
(* some thread is just about to write to it.  It is the reason for the     *)
(* condition "!isInLoopThread() || callingPendingFunctors_" of             *)
(* queueInLoop and for the wakeup() in quit.                               *)
(***************************************************************************)
NoLostWakeup ==
  (pc = "poll" /\ (pendingFunctors_ # << >> \/ quit_))
    => (wakeupFd_ \/ wakeupDue # {})

(***************************************************************************)
(* The loop implements TaskQueue: the functors of the batch, then those    *)
(* still in pendingFunctors_, are the queue.                               *)
(***************************************************************************)
TQ == INSTANCE TaskQueue WITH
        submitted <- posted,
        queue     <- functors \o pendingFunctors_,
        stopped   <- pc = "stopped"

(* Functors run at most once and in the order in which they were queued,   *)
(* whatever thread queued them and however the swaps cut the queue, and    *)
(* none runs after loop() has returned.                                    *)
ImplementsTaskQueue == TQ!TQSpec

(* Everything queued is run, unless loop() returns before, whether or not  *)
(* the poll times out and however busy the other channels are.             *)
ImplementsFairTaskQueue == TQ!TQFairSpec
=============================================================================
