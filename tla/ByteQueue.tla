------------------------------ MODULE ByteQueue ------------------------------
(***************************************************************************)
(* What a Buffer promises: a queue of bytes.  Bytes are appended at the    *)
(* back in chunks and leave at the front in the order they came.           *)
(***************************************************************************)
EXTENDS Naturals, Sequences

CONSTANTS
  Chunks,               \* the byte strings that may be appended
  Lengths               \* the lengths callers ask for

VARIABLES
  queue,                \* the bytes held, oldest first
  call,                 \* the last call, with its argument
  result                \* the bytes the last call handed to its caller

bqVars == <<queue, call, result>>

BQInit ==
  /\ queue = << >>
  /\ call = <<"new">>
  /\ result = << >>

Put(data) ==
  /\ call' = <<"put", data>>
  /\ queue' = queue \o data
  /\ result' = << >>

(* The oldest n bytes leave and go to the caller.                          *)
Take(n) ==
  /\ call' = <<"take", n>>
  /\ n <= Len(queue)
  /\ queue' = SubSeq(queue, n + 1, Len(queue))
  /\ result' = SubSeq(queue, 1, n)

(* The oldest n bytes, or all if there are fewer, are dropped.             *)
Drop(n) ==
  /\ call' = <<"drop", n>>
  /\ queue' = IF n < Len(queue) THEN SubSeq(queue, n + 1, Len(queue))
                                ELSE << >>
  /\ result' = << >>

(* The caller looks at the bytes and leaves them where they are.           *)
Look ==
  /\ call' = <<"look">>
  /\ result' = queue
  /\ UNCHANGED queue

(* The caller takes everything.                                            *)
Steal ==
  /\ call' = <<"swap">>
  /\ result' = queue
  /\ queue' = << >>

BQNext ==
  \/ \E data \in Chunks : Put(data)
  \/ \E n \in Lengths : Take(n) \/ Drop(n)
  \/ Look
  \/ Steal

BQSpec == BQInit /\ [][BQNext]_bqVars
=============================================================================
