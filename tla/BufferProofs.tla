---------------------------- MODULE BufferProofs -----------------------------
(***************************************************************************)
(* Proofs about Buffer, for any sizes and any bytes.  Each method has a    *)
(* lemma: from a buffer in order it makes a buffer in order, and it does   *)
(* to the readable bytes what its name says.                               *)
(***************************************************************************)
EXTENDS Buffer, SequenceTheorems, TLAPS

(* The readable bytes of a buffer in order are a sequence.                 *)
LEMMA ContentType ==
  ASSUME NEW b, WellFormed(b)
  PROVE  /\ readableBytes(b) \in Nat
         /\ Content(b) \in Seq(Bytes)
         /\ Len(Content(b)) = readableBytes(b)
<1>1. readableBytes(b) \in Nat
  BY SizeAssumption DEF WellFormed, readableBytes
<1>2. \A i \in 1 .. readableBytes(b) :
         b.buffer_[b.readerIndex_ + i - 1] \in Bytes
  BY SizeAssumption DEF WellFormed, readableBytes
<1> QED BY <1>1, <1>2 DEF Content

-----------------------------------------------------------------------------
(* A new buffer is in order and empty.                                     *)
LEMMA NewBufferCorrect ==
  /\ WellFormed(NewBuffer)
  /\ Content(NewBuffer) = << >>
  /\ readableBytes(NewBuffer) = 0
<1>1. WellFormed(NewBuffer)
  BY SizeAssumption, ByteAssumption DEF WellFormed, NewBuffer
<1>2. readableBytes(NewBuffer) = 0
  BY SizeAssumption DEF NewBuffer, readableBytes
<1>3. Content(NewBuffer) = << >>
  BY <1>2 DEF Content
<1> QED BY <1>1, <1>2, <1>3

(* retrieve drops the oldest bytes, and all of them if asked for more.     *)
LEMMA RetrieveCorrect ==
  ASSUME NEW b, WellFormed(b), NEW len \in Nat
  PROVE  LET n == IF len < readableBytes(b) THEN len ELSE readableBytes(b)
         IN  /\ WellFormed(retrieve(b, len))
             /\ readableBytes(retrieve(b, len)) = readableBytes(b) - n
             /\ Content(retrieve(b, len))
                  = SubSeq(Content(b), n + 1, Len(Content(b)))
             /\ retrieve(b, len).size = b.size
<1> DEFINE r == retrieve(b, len)
<1>1. CASE len < readableBytes(b)
  <2>1. r = [b EXCEPT !.readerIndex_ = b.readerIndex_ + len]
    BY <1>1 DEF retrieve
  <2>2. /\ r.buffer_ = b.buffer_ /\ r.size = b.size
        /\ r.readerIndex_ = b.readerIndex_ + len
        /\ r.writerIndex_ = b.writerIndex_
        /\ r = [buffer_ |-> r.buffer_, size |-> r.size,
                readerIndex_ |-> r.readerIndex_,
                writerIndex_ |-> r.writerIndex_]
    BY <2>1 DEF WellFormed
  <2> HIDE DEF r
  <2>3. WellFormed(r)
    BY <1>1, <2>2, SizeAssumption DEF WellFormed, readableBytes
  <2>4. readableBytes(r) = readableBytes(b) - len
    BY <2>2, SizeAssumption DEF WellFormed, readableBytes
  <2>5. Content(r) = SubSeq(Content(b), len + 1, Len(Content(b)))
    <3>1. SubSeq(Content(b), len + 1, Len(Content(b))) \in Seq(Bytes)
          /\ Len(SubSeq(Content(b), len + 1, Len(Content(b))))
               = readableBytes(b) - len
      BY <1>1, ContentType
    <3>2. Content(r) \in Seq(Bytes) /\ Len(Content(r)) = readableBytes(b) - len
      BY <2>3, <2>4, ContentType
    <3>3. ASSUME NEW i \in 1 .. readableBytes(b) - len
          PROVE Content(r)[i]
                  = SubSeq(Content(b), len + 1, Len(Content(b)))[i]
      <4>1. Content(r)[i] = b.buffer_[b.readerIndex_ + len + i - 1]
        BY <2>2, <2>4, <3>3, SizeAssumption DEF Content, WellFormed
      <4>2. SubSeq(Content(b), len + 1, Len(Content(b)))[i]
              = Content(b)[len + i]
        BY <1>1, <3>3, ContentType
      <4>3. Content(b)[len + i] = b.buffer_[b.readerIndex_ + (len + i) - 1]
        BY <1>1, <3>3, ContentType DEF Content
      <4>4. b.readerIndex_ + len + i - 1 = b.readerIndex_ + (len + i) - 1
        BY <3>3, ContentType DEF WellFormed
      <4> QED BY <4>1, <4>2, <4>3, <4>4
    <3> QED BY <3>1, <3>2, <3>3, SeqEqual
  <2> QED BY <1>1, <2>2, <2>3, <2>4, <2>5 DEF r
<1>2. CASE ~(len < readableBytes(b))
  <2>1. r = [b EXCEPT !.readerIndex_ = kCheapPrepend,
                      !.writerIndex_ = kCheapPrepend]
    BY <1>2 DEF retrieve, retrieveAll
  <2>2. /\ r.buffer_ = b.buffer_ /\ r.size = b.size
        /\ r.readerIndex_ = kCheapPrepend /\ r.writerIndex_ = kCheapPrepend
        /\ r = [buffer_ |-> r.buffer_, size |-> r.size,
                readerIndex_ |-> r.readerIndex_,
                writerIndex_ |-> r.writerIndex_]
    BY <2>1 DEF WellFormed
  <2> HIDE DEF r
  <2>3. WellFormed(r) /\ readableBytes(r) = 0
    BY <2>2, SizeAssumption DEF WellFormed, readableBytes
  <2>4. Content(r) = << >>
    BY <2>3 DEF Content
  <2>5. SubSeq(Content(b), readableBytes(b) + 1, Len(Content(b))) = << >>
    BY ContentType
  <2> QED BY <1>2, <2>2, <2>3, <2>4, <2>5, ContentType DEF r
<1> QED BY <1>1, <1>2

-----------------------------------------------------------------------------
(* resize to at least the old size keeps the readable bytes.               *)
LEMMA ResizeCorrect ==
  ASSUME NEW b, WellFormed(b), NEW n \in Nat, n >= b.size
  PROVE  /\ WellFormed(resize(b, n))
         /\ Content(resize(b, n)) = Content(b)
         /\ readableBytes(resize(b, n)) = readableBytes(b)
         /\ resize(b, n).writerIndex_ = b.writerIndex_
         /\ resize(b, n).size = n
<1> DEFINE r == resize(b, n)
<1> DEFINE f == [i \in 0 .. n - 1 |->
                   IF i < b.size THEN b.buffer_[i] ELSE Zero]
<1>0. r = [b EXCEPT !.size = n, !.buffer_ = f]
  BY DEF resize
<1> HIDE DEF f, r
<1>1. /\ r.buffer_ = f
      /\ r.size = n
      /\ r.readerIndex_ = b.readerIndex_ /\ r.writerIndex_ = b.writerIndex_
      /\ r = [buffer_ |-> r.buffer_, size |-> r.size,
              readerIndex_ |-> r.readerIndex_,
              writerIndex_ |-> r.writerIndex_]
  BY <1>0 DEF WellFormed
<1>2. r.buffer_ \in [0 .. r.size - 1 -> Bytes]
  BY <1>1, ByteAssumption DEF WellFormed, f
<1>3. WellFormed(r) /\ readableBytes(r) = readableBytes(b)
  BY <1>1, <1>2, SizeAssumption DEF WellFormed, readableBytes
<1>4. Content(r) = Content(b)
  <2>1. ASSUME NEW i \in 1 .. readableBytes(b)
        PROVE r.buffer_[r.readerIndex_ + i - 1]
                = b.buffer_[b.readerIndex_ + i - 1]
    <3>1. b.readerIndex_ + i - 1 \in 0 .. b.size - 1
      BY <2>1, SizeAssumption DEF WellFormed, readableBytes
    <3> QED BY <1>1, <3>1 DEF WellFormed, f
  <2> QED BY <1>3, <2>1 DEF Content
<1> QED BY <1>1, <1>3, <1>4 DEF r

(* compact moves the readable bytes and keeps them.                        *)
LEMMA CompactCorrect ==
  ASSUME NEW b, WellFormed(b)
  PROVE  /\ WellFormed(compact(b))
         /\ Content(compact(b)) = Content(b)
         /\ readableBytes(compact(b)) = readableBytes(b)
         /\ compact(b).writerIndex_ = kCheapPrepend + readableBytes(b)
         /\ compact(b).size = b.size
<1> DEFINE r == compact(b)
<1> DEFINE f ==
      [i \in 0 .. b.size - 1 |->
         IF i >= kCheapPrepend /\ i < kCheapPrepend + readableBytes(b)
           THEN b.buffer_[b.readerIndex_ + (i - kCheapPrepend)]
           ELSE b.buffer_[i]]
<1>0. r = [b EXCEPT !.buffer_ = f,
                    !.readerIndex_ = kCheapPrepend,
                    !.writerIndex_ = kCheapPrepend + readableBytes(b)]
  BY DEF compact
<1> HIDE DEF f, r
<1>1. /\ r.buffer_ = f
      /\ r.size = b.size
      /\ r.readerIndex_ = kCheapPrepend
      /\ r.writerIndex_ = kCheapPrepend + readableBytes(b)
      /\ r = [buffer_ |-> r.buffer_, size |-> r.size,
              readerIndex_ |-> r.readerIndex_,
              writerIndex_ |-> r.writerIndex_]
  BY <1>0 DEF WellFormed
<1>2. readableBytes(b) \in Nat
  BY ContentType
<1>3. r.buffer_ \in [0 .. r.size - 1 -> Bytes]
  <2>1. ASSUME NEW i \in 0 .. b.size - 1, i >= kCheapPrepend,
               i < kCheapPrepend + readableBytes(b)
        PROVE b.readerIndex_ + (i - kCheapPrepend) \in 0 .. b.size - 1
    BY <2>1, SizeAssumption DEF WellFormed, readableBytes
  <2> QED BY <1>1, <2>1 DEF WellFormed, f
<1>4. WellFormed(r) /\ readableBytes(r) = readableBytes(b)
  BY <1>1, <1>2, <1>3, SizeAssumption DEF WellFormed, readableBytes
<1>5. Content(r) = Content(b)
  <2>1. ASSUME NEW i \in 1 .. readableBytes(b)
        PROVE r.buffer_[r.readerIndex_ + i - 1]
                = b.buffer_[b.readerIndex_ + i - 1]
    <3> DEFINE k == kCheapPrepend + i - 1
    <3>1. /\ k \in 0 .. b.size - 1
          /\ k >= kCheapPrepend /\ k < kCheapPrepend + readableBytes(b)
          /\ b.readerIndex_ + (k - kCheapPrepend) = b.readerIndex_ + i - 1
          /\ r.readerIndex_ + i - 1 = k
      BY <1>1, <2>1, SizeAssumption DEF WellFormed, readableBytes
    <3> QED BY <1>1, <3>1 DEF f
  <2> QED BY <1>4, <2>1 DEF Content
<1> QED BY <1>1, <1>4, <1>5 DEF r

-----------------------------------------------------------------------------
(* ensureWritableBytes makes room and keeps the readable bytes.  If the    *)
(* vector grows, it did not have room for the readable bytes and the new   *)
(* ones behind kCheapPrepend, and it grows by no more than the new ones.   *)
LEMMA EnsureCorrect ==
  ASSUME NEW b, WellFormed(b), NEW len \in Nat
  PROVE  LET e == ensureWritableBytes(b, len)
         IN  /\ WellFormed(e)
             /\ Content(e) = Content(b)
             /\ readableBytes(e) = readableBytes(b)
             /\ writableBytes(e) \in Nat /\ len <= writableBytes(e)
             /\ \/ e.size = b.size
                \/ /\ b.size < kCheapPrepend + readableBytes(b) + len
                   /\ e.size <= b.size + len
<1> DEFINE e == ensureWritableBytes(b, len)
<1>1. CASE ~(writableBytes(b) < len)
  BY <1>1, SizeAssumption
     DEF ensureWritableBytes, WellFormed, writableBytes
<1>2. CASE /\ writableBytes(b) < len
           /\ writableBytes(b) + prependableBytes(b) < len + kCheapPrepend
  <2> DEFINE n == b.writerIndex_ + len
  <2>1. e = resize(b, n)
    BY <1>2 DEF ensureWritableBytes, makeSpace
  <2>2. n \in Nat /\ n >= b.size /\ n <= b.size + len
    BY <1>2, SizeAssumption DEF WellFormed, writableBytes
  <2>3. b.size < kCheapPrepend + readableBytes(b) + len
    BY <1>2, SizeAssumption
       DEF WellFormed, writableBytes, prependableBytes, readableBytes
  <2> HIDE DEF n, e
  <2>4. /\ WellFormed(e) /\ Content(e) = Content(b)
        /\ readableBytes(e) = readableBytes(b)
        /\ e.writerIndex_ = b.writerIndex_ /\ e.size = n
    BY <2>1, <2>2, ResizeCorrect
  <2>5. writableBytes(e) = len
    BY <2>4, SizeAssumption DEF n, writableBytes, WellFormed
  <2> QED BY <2>2, <2>3, <2>4, <2>5 DEF e
<1>3. CASE /\ writableBytes(b) < len
           /\ ~(writableBytes(b) + prependableBytes(b) < len + kCheapPrepend)
  <2>1. e = compact(b)
    BY <1>3 DEF ensureWritableBytes, makeSpace
  <2> HIDE DEF e
  <2>2. /\ WellFormed(e) /\ Content(e) = Content(b)
        /\ readableBytes(e) = readableBytes(b)
        /\ e.writerIndex_ = kCheapPrepend + readableBytes(b)
        /\ e.size = b.size
    BY <2>1, CompactCorrect
  <2>3. writableBytes(e) \in Nat /\ len <= writableBytes(e)
    <3>1. writableBytes(e)
            = b.size - (kCheapPrepend + (b.writerIndex_ - b.readerIndex_))
      BY <2>2 DEF writableBytes, readableBytes
    <3>2. ~(b.size - b.writerIndex_ + b.readerIndex_ < len + kCheapPrepend)
      BY <1>3 DEF writableBytes, prependableBytes
    <3> QED BY <3>1, <3>2, SizeAssumption DEF WellFormed
  <2> QED BY <2>2, <2>3 DEF e
<1> QED BY <1>1, <1>2, <1>3

(* Writing what fits adds it at the back.                                  *)
LEMMA WriteCorrect ==
  ASSUME NEW b, WellFormed(b), NEW data \in Seq(Bytes),
         Len(data) <= writableBytes(b)
  PROVE  /\ WellFormed(write(b, data))
         /\ Content(write(b, data)) = Content(b) \o data
         /\ readableBytes(write(b, data)) = readableBytes(b) + Len(data)
         /\ writableBytes(write(b, data)) = writableBytes(b) - Len(data)
         /\ write(b, data).size = b.size
<1> DEFINE r == write(b, data)
<1> DEFINE f ==
      [i \in 0 .. b.size - 1 |->
         IF i >= b.writerIndex_ /\ i < b.writerIndex_ + Len(data)
           THEN data[i - b.writerIndex_ + 1]
           ELSE b.buffer_[i]]
<1>0. r = [b EXCEPT !.buffer_ = f, !.writerIndex_ = b.writerIndex_ + Len(data)]
  BY DEF write
<1> HIDE DEF f, r
<1>1. /\ r.buffer_ = f
      /\ r.size = b.size
      /\ r.readerIndex_ = b.readerIndex_
      /\ r.writerIndex_ = b.writerIndex_ + Len(data)
      /\ r = [buffer_ |-> r.buffer_, size |-> r.size,
              readerIndex_ |-> r.readerIndex_,
              writerIndex_ |-> r.writerIndex_]
  BY <1>0 DEF WellFormed
<1>2. r.buffer_ \in [0 .. r.size - 1 -> Bytes]
  BY <1>1 DEF WellFormed, f
<1>3. /\ WellFormed(r)
      /\ readableBytes(r) = readableBytes(b) + Len(data)
      /\ writableBytes(r) = writableBytes(b) - Len(data)
  BY <1>1, <1>2, SizeAssumption DEF WellFormed, readableBytes, writableBytes
<1>4. Content(r) = Content(b) \o data
  <2>1. /\ Content(b) \in Seq(Bytes) /\ Len(Content(b)) = readableBytes(b)
        /\ readableBytes(b) \in Nat
        /\ Content(r) \in Seq(Bytes) /\ Len(Content(r)) = readableBytes(r)
    BY <1>3, ContentType
  <2>2. /\ Content(b) \o data \in Seq(Bytes)
        /\ Len(Content(b) \o data) = readableBytes(r)
    BY <1>3, <2>1
  <2>3. ASSUME NEW i \in 1 .. readableBytes(r)
        PROVE Content(r)[i] = (Content(b) \o data)[i]
    <3> DEFINE k == b.readerIndex_ + i - 1
    <3>0. k \in 0 .. b.size - 1
      BY <1>1, <1>3, <2>3 DEF WellFormed, readableBytes
    <3>1. Content(r)[i] = f[k]
      BY <1>1, <2>3 DEF Content
    <3>2. CASE i <= readableBytes(b)
      <4>1. k < b.writerIndex_
        BY <2>3, <3>2 DEF WellFormed, readableBytes
      <4>2. f[k] = b.buffer_[k]
        BY <3>0, <4>1 DEF f, WellFormed
      <4>3. (Content(b) \o data)[i] = Content(b)[i]
        BY <2>1, <2>3, <3>2
      <4> QED BY <2>1, <2>3, <3>1, <3>2, <4>2, <4>3 DEF Content
    <3>3. CASE i > readableBytes(b)
      <4>1. /\ k >= b.writerIndex_ /\ k < b.writerIndex_ + Len(data)
            /\ k - b.writerIndex_ + 1 = i - readableBytes(b)
        BY <1>1, <1>3, <2>3, <3>3 DEF WellFormed, readableBytes
      <4>2. f[k] = data[i - readableBytes(b)]
        BY <3>0, <4>1 DEF f
      <4>3. (Content(b) \o data)[i] = data[i - readableBytes(b)]
        BY <1>3, <2>1, <2>3, <3>3
      <4> QED BY <3>1, <4>2, <4>3
    <3> QED BY <2>1, <2>3, <1>3, <3>2, <3>3
  <2> QED BY <2>1, <2>2, <2>3, SeqEqual
<1> QED BY <1>1, <1>3, <1>4 DEF r

-----------------------------------------------------------------------------
(* b became c by taking in n bytes: the vector is as long as before, or it *)
(* was too short and grew by at most n.                                    *)
Grown(b, c, n) ==
  \/ c.size = b.size
  \/ /\ b.size < kCheapPrepend + readableBytes(c)
     /\ c.size <= b.size + n

(* append adds the bytes at the back, growing or compacting as needed.     *)
LEMMA AppendCorrect ==
  ASSUME NEW b, WellFormed(b), NEW data \in Seq(Bytes)
  PROVE  LET a == append(b, data)
         IN  /\ WellFormed(a)
             /\ Content(a) = Content(b) \o data
             /\ readableBytes(a) = readableBytes(b) + Len(data)
             /\ Grown(b, a, Len(data))
<1> DEFINE e == ensureWritableBytes(b, Len(data))
<1> DEFINE a == append(b, data)
<1>1. a = write(e, data)
  BY DEF append
<1>2. Len(data) \in Nat
  OBVIOUS
<1> HIDE DEF e, a
<1>3. /\ WellFormed(e) /\ Content(e) = Content(b)
      /\ readableBytes(e) = readableBytes(b)
      /\ Len(data) <= writableBytes(e)
      /\ \/ e.size = b.size
         \/ /\ b.size < kCheapPrepend + readableBytes(b) + Len(data)
            /\ e.size <= b.size + Len(data)
  BY <1>2, EnsureCorrect DEF e
<1>4. /\ WellFormed(a) /\ Content(a) = Content(e) \o data
      /\ readableBytes(a) = readableBytes(e) + Len(data)
      /\ a.size = e.size
  BY <1>1, <1>3, WriteCorrect
<1>5. readableBytes(b) \in Nat /\ b.size \in Nat
  BY ContentType DEF WellFormed
<1>6. Grown(b, a, Len(data))
  BY <1>2, <1>3, <1>4, <1>5, SizeAssumption DEF Grown
<1> QED BY <1>3, <1>4, <1>6 DEF a

(* So does readFd, whether or not part of the data went through extrabuf.  *)
LEMMA ReadFdCorrect ==
  ASSUME NEW b, WellFormed(b), NEW data \in Seq(Bytes)
  PROVE  LET r == readFd(b, data)
         IN  /\ WellFormed(r)
             /\ Content(r) = Content(b) \o data
             /\ readableBytes(r) = readableBytes(b) + Len(data)
             /\ Grown(b, r, Len(data))
<1> DEFINE r == readFd(b, data)
<1>0. writableBytes(b) \in Nat /\ Len(data) \in Nat
  BY SizeAssumption DEF WellFormed, writableBytes
<1>1. CASE Len(data) <= writableBytes(b)
  BY <1>1, WriteCorrect DEF readFd, Grown
<1>2. CASE ~(Len(data) <= writableBytes(b))
  <2> DEFINE k == writableBytes(b)
             d1 == SubSeq(data, 1, k)
             d2 == SubSeq(data, k + 1, Len(data))
             w == write(b, d1)
  <2>1. r = append(w, d2)
    BY <1>2 DEF readFd
  <2>2. k \in Nat /\ k < Len(data)
    BY <1>0, <1>2
  <2> HIDE DEF k, r, w
  <2>3. /\ d1 \in Seq(Bytes) /\ Len(d1) = k
        /\ d2 \in Seq(Bytes) /\ Len(d2) = Len(data) - k
    BY <2>2
  <2>4. d1 \o d2 = data
    <3>1. SubSeq(data, 1, Len(data)) = data
      BY SubSeqFull
    <3>2. /\ 1 \in 1 .. Len(data) + 1
          /\ k \in 1 - 1 .. Len(data)
          /\ Len(data) \in k .. Len(data)
      BY <1>0, <2>2
    <3>3. d1 \o d2 = SubSeq(data, 1, Len(data))
      BY <3>2, ConcatAdjacentSubSeq, Zenon
    <3> QED BY <3>1, <3>3
  <2> HIDE DEF d1, d2
  <2>5. /\ WellFormed(w) /\ Content(w) = Content(b) \o d1
        /\ readableBytes(w) = readableBytes(b) + k
        /\ w.size = b.size
    BY <2>2, <2>3, WriteCorrect DEF w, k
  <2>6. /\ WellFormed(r) /\ Content(r) = Content(w) \o d2
        /\ readableBytes(r) = readableBytes(w) + (Len(data) - k)
        /\ Grown(w, r, Len(data) - k)
    BY <2>1, <2>3, <2>5, AppendCorrect
  <2>7. Content(r) = Content(b) \o data
    <3>1. Content(b) \in Seq(Bytes) /\ d1 \in Seq(Bytes) /\ d2 \in Seq(Bytes)
      BY <2>3, ContentType
    <3>2. (Content(b) \o d1) \o d2 = Content(b) \o (d1 \o d2)
      BY <3>1, ConcatAssociative
    <3> QED BY <2>4, <2>5, <2>6, <3>2
  <2>8. readableBytes(r) = readableBytes(b) + Len(data)
    <3>1. readableBytes(b) \in Nat
      BY ContentType
    <3> QED BY <1>0, <2>2, <2>5, <2>6, <3>1
  <2>9. Grown(b, r, Len(data))
    <3>1. w.size = b.size /\ b.size \in Nat /\ r.size \in Nat
      BY <2>5, <2>6 DEF WellFormed
    <3>2. r.size = b.size
            \/ (b.size < kCheapPrepend + readableBytes(r)
                 /\ r.size <= b.size + (Len(data) - k))
      BY <2>6, <3>1 DEF Grown
    <3>3. b.size + (Len(data) - k) <= b.size + Len(data)
      BY <1>0, <2>2, <3>1
    <3>4. r.size <= b.size + (Len(data) - k) => r.size <= b.size + Len(data)
      BY <1>0, <2>2, <3>1, <3>3
    <3> QED BY <3>2, <3>4 DEF Grown
  <2> QED BY <2>6, <2>7, <2>8, <2>9 DEF r
<1> QED BY <1>1, <1>2

-----------------------------------------------------------------------------
(* The history is a number, and no smaller than what is readable.          *)
PeakInv == peak \in Nat /\ readableBytes(buf) <= peak

BufferInv == IndicesInOrder /\ PeakInv /\ CapacityBound

(* Any chunk a caller appends is a sequence of bytes.                      *)
LEMMA ChunkType == \A data \in Chunks : data \in Seq(Bytes) /\ Len(data) \in Nat
  BY ByteAssumption

(* Taking in bytes keeps the invariant.                                    *)
LEMMA PutInv ==
  ASSUME BufferInv, NEW b, NEW n \in Nat, WellFormed(b),
         readableBytes(b) = readableBytes(buf) + n, Grown(buf, b, n), Becomes(b)
  PROVE  BufferInv'
<1>1. buf' = b /\ IndicesInOrder'
  BY DEF Becomes, IndicesInOrder
<1>2. readableBytes(buf) \in Nat /\ readableBytes(b) \in Nat
  BY ContentType DEF BufferInv, IndicesInOrder
<1>3. /\ peak \in Nat /\ peak' \in Nat /\ peak' >= peak
      /\ readableBytes(b) <= peak'
  BY <1>2 DEF Becomes, BufferInv, PeakInv
<1>4. PeakInv'
  BY <1>1, <1>3 DEF PeakInv, readableBytes
<1>5. buf.size \in Nat /\ b.size \in Nat
  BY DEF BufferInv, IndicesInOrder, WellFormed
<1>6. \/ b.size <= kCheapPrepend + kInitialSize
      \/ b.size < kCheapPrepend + 2 * peak'
  BY <1>2, <1>3, <1>5, SizeAssumption DEF Grown, BufferInv, CapacityBound
<1>7. CapacityBound'
  BY <1>1, <1>6 DEF CapacityBound
<1> QED BY <1>1, <1>4, <1>7 DEF BufferInv

(* Letting bytes go keeps it.                                              *)
LEMMA TakeInv ==
  ASSUME BufferInv, NEW b, WellFormed(b),
         readableBytes(b) <= readableBytes(buf),
         b.size = buf.size \/ b.size = kCheapPrepend + kInitialSize, Becomes(b)
  PROVE  BufferInv'
<1>1. buf' = b /\ IndicesInOrder'
  BY DEF Becomes, IndicesInOrder
<1>2. readableBytes(buf) \in Nat /\ readableBytes(b) \in Nat
  BY ContentType DEF BufferInv, IndicesInOrder
<1>3. peak \in Nat /\ peak' = peak /\ readableBytes(b) <= peak'
  BY <1>2 DEF Becomes, BufferInv, PeakInv
<1>4. PeakInv'
  BY <1>1, <1>3 DEF PeakInv, readableBytes
<1>5. CapacityBound'
  BY <1>1, <1>3, SizeAssumption DEF BufferInv, CapacityBound
<1> QED BY <1>1, <1>4, <1>5 DEF BufferInv

(* The inductive invariant holds of a new buffer.                          *)
LEMMA InitBufferInv == Init => BufferInv
<1> SUFFICES ASSUME Init PROVE BufferInv
  OBVIOUS
<1>1. buf = NewBuffer /\ peak = 0
  BY DEF Init
<1>2. IndicesInOrder /\ PeakInv
  BY <1>1, NewBufferCorrect DEF IndicesInOrder, PeakInv
<1>3. CapacityBound
  BY <1>1, SizeAssumption DEF CapacityBound, NewBuffer
<1> QED BY <1>2, <1>3 DEF BufferInv

(* Every call on the buffer keeps it.                                      *)
LEMMA NextBufferInv == BufferInv /\ [Next]_vars => BufferInv'
<1> SUFFICES ASSUME BufferInv, [Next]_vars PROVE BufferInv'
  OBVIOUS
<1>0. WellFormed(buf) /\ readableBytes(buf) \in Nat
  BY ContentType DEF BufferInv, IndicesInOrder
<1>1. ASSUME NEW data \in Chunks, AppendChunk(data) PROVE BufferInv'
  BY <1>0, <1>1, ChunkType, AppendCorrect, PutInv DEF AppendChunk
<1>2. ASSUME NEW data \in Chunks, ReadFd(data) PROVE BufferInv'
  BY <1>0, <1>2, ChunkType, ReadFdCorrect, PutInv DEF ReadFd
<1>3. CASE WriteFd \/ UNCHANGED vars
  BY <1>3 DEF WriteFd, vars, BufferInv, IndicesInOrder, PeakInv, CapacityBound
<1>4. ASSUME NEW len \in Nat, Becomes(retrieve(buf, len)) PROVE BufferInv'
  <2> DEFINE r == retrieve(buf, len)
  <2> DEFINE n == IF len < readableBytes(buf) THEN len ELSE readableBytes(buf)
  <2>0. /\ WellFormed(r) /\ r.size = buf.size
        /\ readableBytes(r) = readableBytes(buf) - n
    BY <1>0, RetrieveCorrect
  <2>1. readableBytes(r) <= readableBytes(buf)
    BY <1>0, <2>0
  <2> QED BY <1>4, <2>0, <2>1, TakeInv
<1>5. CASE Swap
  <2>1. NewBuffer.size = kCheapPrepend + kInitialSize
    BY DEF NewBuffer
  <2>2. WellFormed(NewBuffer) /\ readableBytes(NewBuffer) <= readableBytes(buf)
    BY <1>0, NewBufferCorrect
  <2> QED BY <1>5, <2>1, <2>2, TakeInv DEF Swap
<1>6. Lengths \subseteq Nat
  BY SizeAssumption DEF Lengths
<1> QED BY <1>1, <1>2, <1>3, <1>4, <1>5, <1>6
        DEF Next, Retrieve, RetrieveAsString

(***************************************************************************)
(* No method of Buffer puts an index out of order or writes past the end   *)
(* of the vector, for any kCheapPrepend, initial size and extrabuf, and    *)
(* any sequence of calls (Buffer.h:56-140, Buffer.cc:15-60).               *)
(***************************************************************************)
THEOREM BufferIndicesInOrder == Spec => []IndicesInOrder
<1>1. BufferInv => IndicesInOrder
  BY DEF BufferInv
<1> QED BY <1>1, InitBufferInv, NextBufferInv, PTL DEF Spec

(* A buffer's memory stays within twice its peak use (Buffer.h:119-140).   *)
THEOREM BufferCapacityBound == Spec => []CapacityBound
<1>1. BufferInv => CapacityBound
  BY DEF BufferInv
<1> QED BY <1>1, InitBufferInv, NextBufferInv, PTL DEF Spec

(***************************************************************************)
(* A Buffer is a queue of bytes: no byte is lost, duplicated or reordered  *)
(* by growing, compacting, reading through extrabuf, retrieving or         *)
(* swapping.                                                               *)
(***************************************************************************)
THEOREM BufferImplementsByteQueue == Spec => ImplementsByteQueue
<1>1. Init => BQ!BQInit
  BY NewBufferCorrect DEF Init, BQ!BQInit
<1>2. BufferInv /\ [Next]_vars => [BQ!BQNext]_(BQ!bqVars)
  <2> SUFFICES ASSUME BufferInv, [Next]_vars
               PROVE [BQ!BQNext]_(BQ!bqVars)
    OBVIOUS
  <2> DEFINE q == Content(buf)
  <2>0. /\ WellFormed(buf) /\ readableBytes(buf) \in Nat
        /\ q \in Seq(Bytes) /\ Len(q) = readableBytes(buf)
    BY ContentType DEF BufferInv, IndicesInOrder
  <2>8. Lengths \subseteq Nat
    BY SizeAssumption DEF Lengths
  <2>1. ASSUME NEW data \in Chunks, AppendChunk(data) PROVE BQ!BQNext
    <3>1. q' = q \o data /\ result' = << >> /\ call' = <<"put", data>>
      BY <2>0, <2>1, ChunkType, AppendCorrect DEF AppendChunk, Becomes
    <3> QED BY <3>1 DEF BQ!BQNext, BQ!Put
  <2>2. ASSUME NEW data \in Chunks, ReadFd(data) PROVE BQ!BQNext
    <3>1. q' = q \o data /\ result' = << >> /\ call' = <<"put", data>>
      BY <2>0, <2>2, ChunkType, ReadFdCorrect DEF ReadFd, Becomes
    <3> QED BY <3>1 DEF BQ!BQNext, BQ!Put
  <2>3. CASE WriteFd
    <3>1. q' = q /\ result' = q /\ call' = <<"look">>
      BY <2>3 DEF WriteFd
    <3> QED BY <3>1 DEF BQ!BQNext, BQ!Look
  <2>4. ASSUME NEW len \in Lengths, Retrieve(len) PROVE BQ!BQNext
    <3> DEFINE n == IF len < readableBytes(buf) THEN len ELSE readableBytes(buf)
    <3>1. len \in Nat
      BY <2>8
    <3>2. q' = SubSeq(q, n + 1, Len(q))
      BY <2>0, <2>4, <3>1, RetrieveCorrect DEF Retrieve, Becomes
    <3>3. SubSeq(q, Len(q) + 1, Len(q)) = << >>
      BY <2>0
    <3>4. q' = IF len < Len(q) THEN SubSeq(q, len + 1, Len(q)) ELSE << >>
      BY <2>0, <3>2, <3>3
    <3>5. BQ!Drop(len)
      BY <2>4, <3>4 DEF Retrieve, BQ!Drop
    <3> QED BY <3>5 DEF BQ!BQNext
  <2>5. ASSUME NEW len \in Lengths, RetrieveAsString(len) PROVE BQ!BQNext
    <3> DEFINE n == IF len < readableBytes(buf) THEN len ELSE readableBytes(buf)
    <3>1. len \in Nat /\ len <= Len(q) /\ n = len
      BY <2>0, <2>5, <2>8 DEF RetrieveAsString
    <3>2. q' = SubSeq(q, n + 1, Len(q))
      BY <2>0, <2>5, <3>1, RetrieveCorrect DEF RetrieveAsString, Becomes
    <3>3. result' = SubSeq(q, 1, len) /\ call' = <<"take", len>>
      BY <2>5 DEF RetrieveAsString
    <3> QED BY <3>1, <3>2, <3>3 DEF BQ!BQNext, BQ!Take
  <2>6. CASE Swap
    <3>1. q' = << >> /\ result' = q /\ call' = <<"swap">>
      BY <2>6, NewBufferCorrect DEF Swap, Becomes
    <3> QED BY <3>1 DEF BQ!BQNext, BQ!Steal
  <2>7. CASE UNCHANGED vars
    BY <2>7 DEF vars, BQ!bqVars
  <2> QED BY <2>1, <2>2, <2>3, <2>4, <2>5, <2>6, <2>7, <2>8 DEF Next
<1> QED BY <1>1, <1>2, InitBufferInv, NextBufferInv, PTL
        DEF Spec, ImplementsByteQueue, BQ!BQSpec
=============================================================================
