------------------------------- MODULE Buffer --------------------------------
(***************************************************************************)
(* muduo's Buffer (include/Buffer.h, src/Buffer.cc): a vector of bytes     *)
(* with a read and a write index.                                          *)
(*                                                                         *)
(*   | kCheapPrepend | already read | readable      | writable    |        *)
(*   0                              readerIndex_    writerIndex_  size     *)
(*                                                                         *)
(* A buffer is a record.  Its methods are operators that return the new    *)
(* buffer, so that one method can call another as in the code; the actions *)
(* at the end apply them to one buffer.  Writes land inside the vector or  *)
(* nowhere: a write past its end shows as writerIndex_ > size.             *)
(***************************************************************************)
EXTENDS Naturals, Sequences

CONSTANTS
  kCheapPrepend,        \* bytes kept free in front
  kInitialSize,         \* writable bytes of a new buffer
  ExtraBuf,             \* sizeof(extrabuf), the stack buffer of readFd
  Bytes,                \* the values of a char
  Zero,                 \* what vector<char> fills new bytes with
  Chunks,               \* the byte strings callers append and peers send
  MaxReadable           \* bound: bytes held at once

ASSUME SizeAssumption ==
  /\ kCheapPrepend \in Nat
  /\ kInitialSize \in Nat
  /\ ExtraBuf \in Nat
  /\ MaxReadable \in Nat

ASSUME ByteAssumption ==
  /\ Zero \in Bytes
  /\ Chunks \subseteq Seq(Bytes)

VARIABLES
  buf,                  \* the buffer
  call,                 \* history: the last call, with its argument
  result,               \* what that call handed to its caller
  peak                  \* history: the most bytes ever readable

vars == <<buf, call, result, peak>>

-----------------------------------------------------------------------------
(* The three regions *)

readableBytes(b) == b.writerIndex_ - b.readerIndex_

writableBytes(b) == b.size - b.writerIndex_

prependableBytes(b) == b.readerIndex_

(* The bytes from peek() to beginWrite().                                  *)
Content(b) ==
  [i \in 1 .. readableBytes(b) |-> b.buffer_[b.readerIndex_ + i - 1]]

(* The constructor, with its default argument.                             *)
NewBuffer ==
  [buffer_      |-> [i \in 0 .. kCheapPrepend + kInitialSize - 1 |-> Zero],
   size         |-> kCheapPrepend + kInitialSize,
   readerIndex_ |-> kCheapPrepend,
   writerIndex_ |-> kCheapPrepend]

-----------------------------------------------------------------------------
(* Methods *)

retrieveAll(b) ==
  [b EXCEPT !.readerIndex_ = kCheapPrepend, !.writerIndex_ = kCheapPrepend]

retrieve(b, len) ==
  IF len < readableBytes(b)
    THEN [b EXCEPT !.readerIndex_ = b.readerIndex_ + len]
    ELSE retrieveAll(b)

(* buffer_.resize(n): the new bytes are zero.                              *)
resize(b, n) ==
  [b EXCEPT !.size = n,
            !.buffer_ = [i \in 0 .. n - 1 |->
                           IF i < b.size THEN b.buffer_[i] ELSE Zero]]

(* The readable bytes are copied down to kCheapPrepend.                    *)
compact(b) ==
  [b EXCEPT
     !.buffer_ =
       [i \in 0 .. b.size - 1 |->
          IF i >= kCheapPrepend /\ i < kCheapPrepend + readableBytes(b)
            THEN b.buffer_[b.readerIndex_ + (i - kCheapPrepend)]
            ELSE b.buffer_[i]],
     !.readerIndex_ = kCheapPrepend,
     !.writerIndex_ = kCheapPrepend + readableBytes(b)]

(* Mutant: the test forgets that kCheapPrepend stays free.                 *)
makeSpaceMutant(b, len) ==
  IF writableBytes(b) + prependableBytes(b) < len
    THEN resize(b, b.writerIndex_ + len)
    ELSE compact(b)

(* Mutant: always grow.                                                    *)
makeSpaceMutant2(b, len) == resize(b, b.writerIndex_ + len)

makeSpace(b, len) ==
  IF writableBytes(b) + prependableBytes(b) < len + kCheapPrepend
    THEN resize(b, b.writerIndex_ + len)
    ELSE compact(b)

ensureWritableBytes(b, len) ==
  IF writableBytes(b) < len THEN makeSpace(b, len) ELSE b

(* std::copy of data to beginWrite(), and the write index moves past it.   *)
write(b, data) ==
  [b EXCEPT
     !.buffer_ =
       [i \in 0 .. b.size - 1 |->
          IF i >= b.writerIndex_ /\ i < b.writerIndex_ + Len(data)
            THEN data[i - b.writerIndex_ + 1]
            ELSE b.buffer_[i]],
     !.writerIndex_ = b.writerIndex_ + Len(data)]

append(b, data) == write(ensureWritableBytes(b, Len(data)), data)

(* How many bytes one readv can take: iovcnt is 2 only if the writable     *)
(* region is smaller than extrabuf.                                        *)
ReadvMax(b) ==
  writableBytes(b) + (IF writableBytes(b) < ExtraBuf THEN ExtraBuf ELSE 0)

(* Mutant: extrabuf is appended before writerIndex_ is moved to the end.   *)
readFdMutant(b, data) ==
  IF Len(data) <= writableBytes(b)
    THEN write(b, data)
    ELSE append(b, SubSeq(data, writableBytes(b) + 1, Len(data)))

(* readv delivered data: into the writable region and, when that is full,  *)
(* through extrabuf and append.                                            *)
readFd(b, data) ==
  IF Len(data) <= writableBytes(b)
    THEN write(b, data)
    ELSE append(write(b, SubSeq(data, 1, writableBytes(b))),
                SubSeq(data, writableBytes(b) + 1, Len(data)))

-----------------------------------------------------------------------------
(* One buffer and its callers *)

Init ==
  /\ buf = NewBuffer
  /\ call = <<"new">>
  /\ result = << >>
  /\ peak = 0

(* The history follows every change of the buffer.                         *)
Becomes(b) ==
  /\ buf' = b
  /\ peak' = IF readableBytes(b) > peak THEN readableBytes(b) ELSE peak

AppendChunk(data) ==
  /\ readableBytes(buf) + Len(data) <= MaxReadable
  /\ Becomes(append(buf, data))
  /\ call' = <<"put", data>>
  /\ result' = << >>

(* readFd returns what readv did: data, nothing at end of file (the empty  *)
(* chunk), or an error that leaves the buffer alone.                       *)
ReadFd(data) ==
  /\ Len(data) <= ReadvMax(buf)
  /\ readableBytes(buf) + Len(data) <= MaxReadable
  /\ Becomes(readFd(buf, data))
  /\ call' = <<"put", data>>
  /\ result' = << >>

(* writeFd hands the readable bytes to write(2) and keeps them: the caller *)
(* retrieves as many as were written.                                      *)
WriteFd ==
  /\ call' = <<"look">>
  /\ result' = Content(buf)
  /\ UNCHANGED <<buf, peak>>

Retrieve(len) ==
  /\ call' = <<"drop", len>>
  /\ Becomes(retrieve(buf, len))
  /\ result' = << >>

(* A caller of retrieveAsString asks for at most what is readable.         *)
RetrieveAsString(len) ==
  /\ len <= readableBytes(buf)
  /\ call' = <<"take", len>>
  /\ result' = SubSeq(Content(buf), 1, len)
  /\ Becomes(retrieve(buf, len))

(* swap with a new Buffer, as TcpConnection::send does: the bytes          *)
(* go with the other buffer.                                               *)
Swap ==
  /\ call' = <<"swap">>
  /\ result' = Content(buf)
  /\ Becomes(NewBuffer)

(* What callers ask for: up to more than there can be.                     *)
Lengths == 0 .. MaxReadable + 1

Next ==
  \/ \E data \in Chunks : AppendChunk(data) \/ ReadFd(data)
  \/ WriteFd
  \/ \E len \in Lengths : Retrieve(len) \/ RetrieveAsString(len)
  \/ Swap

Spec == Init /\ [][Next]_vars

-----------------------------------------------------------------------------
(* Properties *)

(* A buffer in order: kCheapPrepend <= readerIndex_ <= writerIndex_ <=     *)
(* size.  The regions are then real, and no size_t subtraction wraps.      *)
WellFormed(b) ==
  /\ b = [buffer_ |-> b.buffer_, size |-> b.size,
          readerIndex_ |-> b.readerIndex_, writerIndex_ |-> b.writerIndex_]
  /\ b.size \in Nat /\ b.readerIndex_ \in Nat /\ b.writerIndex_ \in Nat
  /\ b.buffer_ \in [0 .. b.size - 1 -> Bytes]
  /\ kCheapPrepend <= b.readerIndex_
  /\ b.readerIndex_ <= b.writerIndex_
  /\ b.writerIndex_ <= b.size

(* Every method leaves the buffer in order; append and readFd never write  *)
(* past the end of the vector.                                             *)
IndicesInOrder == WellFormed(buf)

(***************************************************************************)
(* The memory of a buffer is bounded by its use: unless it still fits its  *)
(* initial size, the vector is less than twice as long as the most bytes   *)
(* it ever held plus kCheapPrepend, however long it lives.                 *)
(***************************************************************************)
CapacityBound ==
  \/ buf.size <= kCheapPrepend + kInitialSize
  \/ buf.size < kCheapPrepend + 2 * peak

(* The queue is what lies between the indices.                             *)
BQ == INSTANCE ByteQueue WITH queue <- Content(buf)

(* Growing, compacting, the detour through extrabuf and the reset of the   *)
(* indices never lose, duplicate or reorder a byte.                        *)
ImplementsByteQueue == BQ!BQSpec
=============================================================================
