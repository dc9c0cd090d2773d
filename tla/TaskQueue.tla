------------------------------ MODULE TaskQueue ------------------------------
(***************************************************************************)
(* What EventLoop::queueInLoop and EventLoop::runInLoop promise a caller.  *)
(*                                                                         *)
(* A loop is a queue of functors.  A functor that is submitted runs at     *)
(* most once, functors leave the queue in the order in which they entered  *)
(* it, and the loop's own thread may also run a functor on the spot.  Once *)
(* loop() has returned nothing runs any more, though the queue still takes *)
(* functors.  The mutex, the swap of the vector, the eventfd and the       *)
(* poller are absent: module EventLoop shows that they implement this.     *)
(***************************************************************************)
EXTENDS Sequences

CONSTANT Functors       \* the closures handed to the loop, each an instance

VARIABLES
  submitted,            \* functors handed to the loop so far
  queue,                \* functors waiting to run, oldest first
  executed,             \* functors that ran, in the order they started
  stopped               \* has loop() returned?

tqVars == <<submitted, queue, executed, stopped>>

TQInit ==
  /\ submitted = {}
  /\ queue = << >>
  /\ executed = << >>
  /\ stopped = FALSE

(* A functor enters the queue: it was never handed to the loop before.     *)
Submit(f) ==
  /\ f \in Functors \ submitted
  /\ submitted' = submitted \cup {f}
  /\ queue' = Append(queue, f)
  /\ UNCHANGED <<executed, stopped>>

(* The loop's thread runs a functor at once, without queueing it.          *)
RunNow(f) ==
  /\ ~stopped
  /\ f \in Functors \ submitted
  /\ submitted' = submitted \cup {f}
  /\ executed' = Append(executed, f)
  /\ UNCHANGED <<queue, stopped>>

(* The loop's thread runs the oldest queued functor.                       *)
RunNext ==
  /\ ~stopped
  /\ queue # << >>
  /\ executed' = Append(executed, Head(queue))
  /\ queue' = Tail(queue)
  /\ UNCHANGED <<submitted, stopped>>

(* loop() returns; what is queued stays queued.                            *)
Stop ==
  /\ stopped' = TRUE
  /\ UNCHANGED <<submitted, queue, executed>>

TQNext ==
  \/ \E f \in Functors : Submit(f) \/ RunNow(f)
  \/ RunNext
  \/ Stop

TQSpec == TQInit /\ [][TQNext]_tqVars

(* A loop that has not returned keeps running what is queued.              *)
TQFairSpec == TQSpec /\ WF_tqVars(RunNext)
=============================================================================
