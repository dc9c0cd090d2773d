------------------------- MODULE TcpConnectionProofs -------------------------
(***************************************************************************)
(* Proofs about TcpConnection, for any workers, messages, files and sizes. *)
(***************************************************************************)
EXTENDS TcpConnection, QueueFacts

-----------------------------------------------------------------------------
(* The bytes of a message or file.                                         *)
LEMMA PayloadType ==
  ASSUME NEW m \in Messages \cup Files
  PROVE  /\ Payload(m) \in Seq(Bytes)
         /\ Len(Payload(m)) = IF m \in Files THEN FileLen[m] ELSE Size[m]
         /\ Len(Payload(m)) \in Nat
         /\ \A i \in 1 .. Len(Payload(m)) : Payload(m)[i] = <<m, i>>
<1> DEFINE n == IF m \in Files THEN FileLen[m] ELSE Size[m]
<1>1. n \in Nat BY ConnectionAssumption
<1>2. \A i \in 1 .. n : <<m, i>> \in Bytes BY <1>1 DEF Bytes
<1>3. Payload(m) = [i \in 1 .. n |-> <<m, i>>] BY DEF Payload
<1> HIDE DEF n
<1>4. Payload(m) \in Seq(Bytes) /\ Len(Payload(m)) = n
  BY <1>1, <1>2, <1>3
<1> QED BY <1>1, <1>3, <1>4 DEF n

(* The kinds of functors, and that the first component tells them apart.   *)
Plain == {"connectEstablished", "connectDestroyed", "shutdownInLoop",
          "writeComplete", "highWaterMark"}

(* What is queued is of one of these kinds.                                *)
LEMMA FunctorKinds ==
  /\ \A k \in Plain : <<k>> \in Functor
  /\ \A m \in Messages : <<"sendInLoop", m>> \in Functor
  /\ \A f \in Files : \A i \in 0 .. FileLen[f] :
       <<"sendFileInLoop", f, i>> \in Functor
<1>1. \A k \in Plain : <<k>> \in Functor BY DEF Functor, Plain
<1>2. \A m \in Messages : <<"sendInLoop", m>> \in Functor BY DEF Functor
<1>3. ASSUME NEW f \in Files, NEW i \in 0 .. FileLen[f]
      PROVE  <<"sendFileInLoop", f, i>> \in Functor
  <2>1. <<"sendFileInLoop", f, i>>
          \in {<<"sendFileInLoop", f, j>> : j \in 0 .. FileLen[f]}
    OBVIOUS
  <2>2. {<<"sendFileInLoop", f, j>> : j \in 0 .. FileLen[f]}
          \in {{<<"sendFileInLoop", h, j>> : j \in 0 .. FileLen[h]} :
                 h \in Files}
    BY Zenon
  <2> QED BY <2>1, <2>2, Zenon DEF Functor
<1> QED BY <1>1, <1>2, <1>3, Zenon

(* A functor is of one of these kinds.                                     *)
LEMMA FunctorCases ==
  ASSUME NEW g \in Functor
  PROVE  \/ g[1] \in Plain /\ g = <<g[1]>>
         \/ g[2] \in Messages /\ g = <<"sendInLoop", g[2]>>
         \/ /\ g[2] \in Files /\ g[3] \in 0 .. FileLen[g[2]]
            /\ g = <<"sendFileInLoop", g[2], g[3]>>
<1>1. CASE g \in {<<k>> : k \in Plain}
  BY <1>1
<1>2. CASE g \in {<<"sendInLoop", m>> : m \in Messages}
  BY <1>2
<1>3. CASE \E f \in Files : g \in {<<"sendFileInLoop", f, i>> :
                                      i \in 0 .. FileLen[f]}
  BY <1>3
<1> QED BY <1>1, <1>2, <1>3, Zenon DEF Functor, Plain

(* write(2) fails, or takes a part of what it is given, and not nothing    *)
(* if there is something.                                                  *)
LEMMA WriteResultsType ==
  ASSUME NEW len \in Nat, sndbuf \in Seq(Bytes), NEW n \in WriteResults(len)
  PROVE  /\ n \in Int
         /\ n \in {Fault, WouldBlock} \cup 0 .. len
         /\ n = 0 => len = 0
         /\ (n = Fault) <=> (wrShut \/ peerState = "rst")
BY ConnectionAssumption DEF WriteResults, Fault, WouldBlock

(* What write(2) took and what it did not are the two parts of the data.   *)
LEMMA UnwrittenSplit ==
  ASSUME NEW data \in Seq(Bytes),
         NEW n \in {Fault, WouldBlock} \cup 0 .. Len(data)
  PROVE  /\ SubSeq(data, 1, n) \in Seq(Bytes)
         /\ Unwritten(data, n) \in Seq(Bytes)
         /\ SubSeq(data, 1, n) \o Unwritten(data, n) = data
         /\ Len(SubSeq(data, 1, n)) = BytesSent(n)
         /\ Len(Unwritten(data, n)) = Len(data) - BytesSent(n)
<1>1. CASE n \in 1 .. Len(data)
  <2>1. Unwritten(data, n) = SubSeq(data, n + 1, Len(data))
    BY <1>1 DEF Unwritten
  <2>2. SubSeq(data, 1, n) \o SubSeq(data, n + 1, Len(data))
          = SubSeq(data, 1, Len(data))
    BY <1>1, ConcatAdjacentSubSeq
  <2>3. SubSeq(data, 1, Len(data)) = data BY SubSeqFull
  <2>4. BytesSent(n) = n BY <1>1 DEF BytesSent
  <2>5. /\ SubSeq(data, 1, n) \in Seq(Bytes)
        /\ Len(SubSeq(data, 1, n)) = n
        /\ SubSeq(data, n + 1, Len(data)) \in Seq(Bytes)
        /\ Len(SubSeq(data, n + 1, Len(data))) = Len(data) - n
    BY <1>1
  <2> QED BY <2>1, <2>2, <2>3, <2>4, <2>5
<1>2. CASE n \in {Fault, WouldBlock, 0}
  <2>1. SubSeq(data, 1, n) = << >> BY <1>2 DEF Fault, WouldBlock
  <2>2. Unwritten(data, n) = data
    BY <1>2, SubSeqFull DEF Unwritten, Fault, WouldBlock
  <2> QED BY <1>2, <2>1, <2>2 DEF BytesSent, Fault, WouldBlock
<1> QED BY <1>1, <1>2

-----------------------------------------------------------------------------
(* Is the socket written to without going through outputBuffer_?           *)
Direct == ~isWriting /\ outputBuffer_ = << >>

(* Can write(2) still succeed?                                             *)
Writable == ~wrShut /\ peerState # "rst"

(***************************************************************************)
(* What sendInLoop does (TcpConnection.cc:148-211), as the other proofs    *)
(* use it.  Either nothing happens, because the connection is down or the  *)
(* write fails; or data is accepted, its first part for the kernel, if the *)
(* output was empty, and the rest for outputBuffer_, with an interest in   *)
(* writing.                                                                *)
(***************************************************************************)
SendNothing(q) ==
  /\ pending' = q
  /\ UNCHANGED <<outputBuffer_, chanVars, sndbuf, accepted>>

SentAs(data, q, first, rest, done, high) ==
  /\ data = first \o rest
  /\ sndbuf' = sndbuf \o first
  /\ outputBuffer_' = outputBuffer_ \o rest
  /\ accepted' = accepted \o data
  /\ first # << >> => Direct
  /\ Direct => Writable
  /\ IF rest # << >> /\ ~isWriting THEN enableWriting
                                   ELSE UNCHANGED chanVars
  /\ done \in {<< >>, << <<"writeComplete">> >>}
  /\ high = IF rest # << >> /\ Crosses(Len(outputBuffer_), Len(rest))
              THEN << <<"highWaterMark">> >> ELSE << >>
  /\ pending' = q \o done \o high

SendData(data, q) ==
  \E first \in Seq(Bytes), rest \in Seq(Bytes),
     done \in Seq(Functor), high \in Seq(Functor) :
    SentAs(data, q, first, rest, done, high)

(* sendInLoop does one of the two.                                         *)
LEMMA SendInLoopEffect ==
  ASSUME ConnectionTypeOK, NEW data \in Seq(Bytes), NEW q \in Seq(Functor),
         sendInLoop(data, q)
  PROVE  \/ /\ state_ = "kDisconnected" \/ (Direct /\ ~Writable)
            /\ SendNothing(q)
         \/ state_ # "kDisconnected" /\ SendData(data, q)
<1> USE DEF Fault, WouldBlock
<1>1. CASE state_ = "kDisconnected"
  BY <1>1 DEF sendInLoop, SendNothing
<1>2. CASE state_ # "kDisconnected"
  <2>1. PICK n \in IF Direct THEN WriteResults(Len(data)) ELSE {WouldBlock} :
          LET rest   == Unwritten(data, n)
              queued == n # Fault /\ rest # << >>
              high   == queued /\ Crosses(Len(outputBuffer_), Len(rest))
          IN
          /\ sndbuf' = sndbuf \o SubSeq(data, 1, n)
          /\ outputBuffer_' = IF queued THEN outputBuffer_ \o rest
                                        ELSE outputBuffer_
          /\ IF queued /\ ~isWriting THEN enableWriting
                                     ELSE UNCHANGED chanVars
          /\ pending' = q
               \o (IF n >= 0 /\ n = Len(data) THEN << <<"writeComplete">> >>
                                              ELSE << >>)
               \o (IF high THEN << <<"highWaterMark">> >> ELSE << >>)
          /\ accepted' = IF n = Fault THEN accepted ELSE accepted \o data
          /\ epipe' = (epipe \/ (n = Fault /\ wrShut))
    BY <1>2 DEF sendInLoop, Direct
  <2>2. /\ n \in {Fault, WouldBlock} \cup 0 .. Len(data)
        /\ Direct => ((n = Fault) <=> ~Writable)
        /\ ~Direct => n = WouldBlock
    BY <2>1, WriteResultsType DEF ConnectionTypeOK, Writable
  <2> DEFINE first == SubSeq(data, 1, n)
             rest == Unwritten(data, n)
             done == IF n >= 0 /\ n = Len(data)
                       THEN << <<"writeComplete">> >> ELSE << >>
             high == IF rest # << >> /\ Crosses(Len(outputBuffer_), Len(rest))
                       THEN << <<"highWaterMark">> >> ELSE << >>
  <2>4. /\ first \in Seq(Bytes) /\ rest \in Seq(Bytes)
        /\ first \o rest = data
        /\ Len(first) = BytesSent(n)
    BY <2>2, UnwrittenSplit
  <2>5. done \in Seq(Functor) /\ high \in Seq(Functor)
    <3>1. {<<"writeComplete">>, <<"highWaterMark">>} \subseteq Functor
      BY FunctorKinds DEF Plain
    <3> QED BY <3>1
  <2>6. CASE n = Fault
    <3>1. first = << >> BY <2>6
    <3>2. sndbuf' = sndbuf \o << >>
      <4>1. sndbuf' = sndbuf \o first BY <2>1
      <4> QED BY <3>1, <4>1, Zenon
    <3>3. pending' = q \o << >> \o << >> BY <2>1, <2>6
    <3>4. pending' = q /\ sndbuf' = sndbuf
      BY <3>2, <3>3, ConcatEmptySeq DEF ConnectionTypeOK
    <3>5. UNCHANGED <<outputBuffer_, chanVars, accepted>>
      BY <2>1, <2>6
    <3>6. SendNothing(q)
      BY <3>4, <3>5 DEF SendNothing
    <3> QED BY <2>2, <2>6, <3>6
  <2>7. CASE n # Fault
    <3>1. first # << >> => Direct
      BY <2>2, <2>4 DEF BytesSent
    <3>2. Direct => Writable BY <2>2, <2>7
    <3>3. outputBuffer_' = outputBuffer_ \o rest
      BY <2>1, <2>4, <2>7 DEF ConnectionTypeOK
    <3>4. IF rest # << >> /\ ~isWriting THEN enableWriting
                                        ELSE UNCHANGED chanVars
      BY <2>1, <2>7
    <3>5. pending' = q \o done \o high BY <2>1, <2>7
    <3>6. sndbuf' = sndbuf \o first /\ accepted' = accepted \o data
      BY <2>1, <2>7
    <3> HIDE DEF first, rest
    <3>7. done \in {<< >>, << <<"writeComplete">> >>} BY Zenon
    <3> HIDE DEF done
    <3>8. SentAs(data, q, first, rest, done, high)
      BY <2>4, <3>1, <3>2, <3>3, <3>4, <3>5, <3>6, <3>7, Zenon DEF SentAs
    <3>9. SendData(data, q)
      <4> HIDE DEF high
      <4> QED BY <2>4, <2>5, <3>8, Zenon DEF SendData
    <3> QED BY <1>2, <3>9
  <2> QED BY <2>6, <2>7
<1> QED BY <1>1, <1>2

(* A piece of a file.                                                      *)
Piece(f, offset, n) == SubSeq(Payload(f), offset + 1, offset + n)

(* It consists of bytes of the file.                                       *)
LEMMA PieceType ==
  ASSUME NEW f \in Files, NEW offset \in 0 .. FileLen[f],
         NEW n \in 0 .. FileLen[f] - offset
  PROVE  /\ Piece(f, offset, n) \in Seq(Bytes)
         /\ Len(Piece(f, offset, n)) = n
         /\ \A i \in 1 .. n : Piece(f, offset, n)[i] = <<f, offset + i>>
<1>1. /\ FileLen[f] \in Nat /\ Payload(f) \in Seq(Bytes)
      /\ Len(Payload(f)) = FileLen[f]
      /\ \A i \in 1 .. FileLen[f] : Payload(f)[i] = <<f, i>>
  BY ConnectionAssumption, PayloadType
<1>2. \A i \in offset + 1 .. offset + n : Payload(f)[i] \in Bytes
  BY <1>1
<1>3. /\ Piece(f, offset, n) \in Seq(Bytes)
      /\ Len(Piece(f, offset, n)) = n
      /\ \A i \in 1 .. n : Piece(f, offset, n)[i] = Payload(f)[offset + i]
  BY <1>1, <1>2 DEF Piece
<1>4. \A i \in 1 .. n : offset + i \in 1 .. FileLen[f] BY <1>1
<1> QED BY <1>1, <1>3, <1>4

(***************************************************************************)
(* What sendFileInLoop does (TcpConnection.cc:364-398): some of what is    *)
(* left of the file, perhaps nothing, goes to the kernel, and at most one  *)
(* functor is queued.                                                      *)
(***************************************************************************)
SendPiece(f, offset, q) ==
  \E n \in 0 .. FileLen[f] - offset, more \in Seq(Functor) :
    /\ sndbuf' = sndbuf \o Piece(f, offset, n)
    /\ accepted' = accepted \o Piece(f, offset, n)
    /\ n > 0 => Direct /\ Writable
    /\ more \in {<< >>, << <<"writeComplete">> >>,
                 << <<"sendFileInLoop", f, offset + n>> >>}
    /\ pending' = q \o more

(* sendFileInLoop does so.                                                 *)
LEMMA SendFileInLoopEffect ==
  ASSUME ConnectionTypeOK, NEW f \in Files, NEW offset \in 0 .. FileLen[f],
         NEW q \in Seq(Functor), sendFileInLoop(f, offset, q)
  PROVE  SendPiece(f, offset, q)
<1> USE DEF Fault, WouldBlock
<1>1. FileLen[f] \in Nat BY ConnectionAssumption
<1>2. CASE state_ = "kDisconnecting"
  <2>1. Piece(f, offset, 0) = << >> BY <1>1 DEF Piece
  <2>2. /\ sndbuf = sndbuf \o << >> /\ accepted = accepted \o << >>
        /\ q = q \o << >>
    BY ConcatEmptySeq DEF ConnectionTypeOK
  <2>3. /\ pending' = q
        /\ UNCHANGED <<sndbuf, accepted, epipe>>
    BY <1>2 DEF sendFileInLoop
  <2>4. /\ sndbuf' = sndbuf \o Piece(f, offset, 0)
        /\ accepted' = accepted \o Piece(f, offset, 0)
        /\ pending' = q \o << >>
    BY <2>1, <2>2, <2>3
  <2>5. 0 \in 0 .. FileLen[f] - offset /\ << >> \in Seq(Functor) BY <1>1
  <2>6. SendPiece(f, offset, q)
    <3> SUFFICES
          \E n \in 0 .. FileLen[f] - offset, more \in Seq(Functor) :
            /\ sndbuf' = sndbuf \o Piece(f, offset, n)
            /\ accepted' = accepted \o Piece(f, offset, n)
            /\ n > 0 => Direct /\ Writable
            /\ more \in {<< >>, << <<"writeComplete">> >>,
                         << <<"sendFileInLoop", f, offset + n>> >>}
            /\ pending' = q \o more
      BY DEF SendPiece
    <3> USE <2>5
    <3> WITNESS 0 \in 0 .. FileLen[f] - offset, << >> \in Seq(Functor)
    <3> QED BY <2>4
  <2> QED BY <2>6
<1>3. CASE state_ # "kDisconnecting"
  <2>1. PICK n \in IF Direct THEN SendfileResults(f, offset)
                             ELSE {WouldBlock} :
          LET sent == BytesSent(n)
              piece == SubSeq(Payload(f), offset + 1, offset + sent)
              remaining == Size[f] - offset - sent
          IN
          /\ sndbuf' = sndbuf \o piece
          /\ accepted' = accepted \o piece
          /\ pending' = q \o
               (IF remaining = 0 /\ n >= 0 THEN << <<"writeComplete">> >>
                ELSE IF RetryFile(n) /\ remaining > 0
                  THEN << <<"sendFileInLoop", f, NextOffset(offset, sent)>> >>
                ELSE << >>)
          /\ epipe' = (epipe \/ (n = Fault /\ wrShut))
    BY <1>3 DEF sendFileInLoop, Direct
  <2>2. /\ n \in {Fault, WouldBlock} \cup 0 .. FileLen[f] - offset
        /\ n > 0 => Direct /\ Writable
    <3>1. CASE ~Direct BY <2>1, <3>1
    <3>2. CASE Direct /\ offset = FileLen[f]
      BY <1>1, <2>1, <3>2 DEF SendfileResults
    <3>3. CASE Direct /\ offset # FileLen[f]
      <4>1. FileLen[f] - offset \in Nat BY <1>1
      <4>2. n \in WriteResults(FileLen[f] - offset)
        BY <2>1, <3>3 DEF SendfileResults
      <4>3. sndbuf \in Seq(Bytes) BY DEF ConnectionTypeOK
      <4>4. /\ n \in {Fault, WouldBlock} \cup 0 .. FileLen[f] - offset
            /\ (n = Fault) <=> ~Writable
        BY <4>1, <4>2, <4>3, WriteResultsType DEF Writable
      <4> QED BY <3>3, <4>4
    <3> QED BY <3>1, <3>2, <3>3
  <2> DEFINE sent == BytesSent(n)
             more == IF Size[f] - offset - sent = 0 /\ n >= 0
                       THEN << <<"writeComplete">> >>
                     ELSE IF RetryFile(n) /\ Size[f] - offset - sent > 0
                       THEN << <<"sendFileInLoop", f, offset + sent>> >>
                     ELSE << >>
  <2>3. /\ sent \in 0 .. FileLen[f] - offset
        /\ sent > 0 => Direct /\ Writable
    BY <1>1, <2>2 DEF BytesSent
  <2>4. /\ sndbuf' = sndbuf \o Piece(f, offset, sent)
        /\ accepted' = accepted \o Piece(f, offset, sent)
        /\ pending' = q \o more
    BY <2>1 DEF Piece, NextOffset
  <2>5. offset + sent \in 0 .. FileLen[f] BY <1>1, <2>3
  <2>6. /\ more \in {<< >>, << <<"writeComplete">> >>,
                     << <<"sendFileInLoop", f, offset + sent>> >>}
    BY DEF more
  <2>7. more \in Seq(Functor)
    <3>1. /\ <<"writeComplete">> \in Functor
          /\ <<"sendFileInLoop", f, offset + sent>> \in Functor
      BY <2>5, FunctorKinds DEF Plain
    <3>2. /\ << >> \in Seq(Functor)
          /\ << <<"writeComplete">> >> \in Seq(Functor)
          /\ << <<"sendFileInLoop", f, offset + sent>> >> \in Seq(Functor)
      BY <3>1
    <3> HIDE DEF more, sent
    <3> QED BY <2>6, <3>2
  <2> HIDE DEF more, sent
  <2>8. SendPiece(f, offset, q) BY <2>3, <2>4, <2>6, <2>7 DEF SendPiece
  <2> QED BY <2>8
<1> QED BY <1>2, <1>3

(***************************************************************************)
(* What handleWrite does (TcpConnection.cc:285-320): the first part of the *)
(* output goes to the kernel; if that was all of it, writing is disabled.  *)
(***************************************************************************)
Drained ==
  /\ disableWriting
  /\ pending' = Append(pending, <<"writeComplete">>)
  /\ ShutdownAfterDrain

Drain ==
  \E first, rest \in Seq(Bytes) :
    /\ outputBuffer_ = first \o rest
    /\ outputBuffer_' = rest
    /\ sndbuf' = sndbuf \o first
    /\ first # << >> => isWriting /\ Writable
    /\ IF first # << >> /\ rest = << >>
         THEN Drained ELSE UNCHANGED <<chanVars, pending, wrShut>>

(* handleWrite does so.                                                    *)
LEMMA HandleWriteEffect ==
  ASSUME ConnectionTypeOK, HandleWrite
  PROVE  Drain
<1> USE DEF Fault, WouldBlock
<1>1. CASE ~isWriting
  <2>1. UNCHANGED <<outputBuffer_, chanVars, pending, sndbuf, wrShut>>
    BY <1>1 DEF HandleWrite
  <2>2. /\ outputBuffer_ = << >> \o outputBuffer_ /\ sndbuf = sndbuf \o << >>
        /\ << >> \in Seq(Bytes) /\ outputBuffer_ \in Seq(Bytes)
    BY ConcatEmptySeq DEF ConnectionTypeOK
  <2> QED BY <2>1, <2>2 DEF Drain
<1>2. CASE isWriting
  <2>1. PICK n \in WriteResults(Len(outputBuffer_)) :
             LET rest == Unwritten(outputBuffer_, n) IN
             /\ outputBuffer_' = rest
             /\ sndbuf' = sndbuf \o SubSeq(outputBuffer_, 1, n)
             /\ IF n > 0 /\ rest = << >>
                  THEN Drained ELSE UNCHANGED <<chanVars, pending, wrShut>>
    BY <1>2 DEF HandleWrite, Drained
  <2> DEFINE first == SubSeq(outputBuffer_, 1, n)
             rest == Unwritten(outputBuffer_, n)
  <2>2. /\ outputBuffer_ \in Seq(Bytes)
        /\ n \in {Fault, WouldBlock} \cup 0 .. Len(outputBuffer_)
        /\ (n = Fault) <=> ~Writable
    BY <2>1, WriteResultsType DEF ConnectionTypeOK, Writable
  <2>3. /\ first \in Seq(Bytes) /\ rest \in Seq(Bytes)
        /\ first \o rest = outputBuffer_
        /\ Len(first) = BytesSent(n)
    BY <2>2, UnwrittenSplit
  <2>4. (first # << >>) <=> n > 0
    <3>1. Len(first) = 0 <=> ~(n > 0) BY <2>2, <2>3 DEF BytesSent
    <3> HIDE DEF first
    <3> QED BY <2>3, <3>1
  <2>5. /\ outputBuffer_' = rest
        /\ sndbuf' = sndbuf \o first
        /\ IF n > 0 /\ rest = << >>
             THEN Drained ELSE UNCHANGED <<chanVars, pending, wrShut>>
    BY <2>1
  <2>6. n > 0 => Writable BY <2>2
  <2> HIDE DEF first, rest
  <2> QED BY <1>2, <2>3, <2>4, <2>5, <2>6 DEF Drain
<1> QED BY <1>1, <1>2

(* The functors of a send and of a file at the head of the queue.          *)
LEMMA HeadSend ==
  ASSUME ConnectionTypeOK, NextFunctor("sendInLoop")
  PROVE  /\ Head(pending)[2] \in Messages
         /\ Head(pending) = <<"sendInLoop", Head(pending)[2]>>
         /\ Payload(Head(pending)[2]) \in Seq(Bytes)
         /\ Tail(pending) \in Seq(Functor)
<1>1. /\ pending \in Seq(Functor) /\ pending # << >>
      /\ Head(pending)[1] = "sendInLoop"
  BY DEF NextFunctor, ConnectionTypeOK
<1>2. Head(pending) \in Functor /\ Tail(pending) \in Seq(Functor) BY <1>1
<1>3. /\ Head(pending)[2] \in Messages
      /\ Head(pending) = <<"sendInLoop", Head(pending)[2]>>
  BY <1>1, <1>2, FunctorCases DEF Plain
<1> QED BY <1>2, <1>3, PayloadType

(* A file transfer that is due is one of a file, at an offset inside it.   *)
LEMMA HeadSendFile ==
  ASSUME ConnectionTypeOK, NextFunctor("sendFileInLoop")
  PROVE  /\ Head(pending)[2] \in Files
         /\ Head(pending)[3] \in 0 .. FileLen[Head(pending)[2]]
         /\ Head(pending)
              = <<"sendFileInLoop", Head(pending)[2], Head(pending)[3]>>
         /\ Tail(pending) \in Seq(Functor)
<1>1. /\ pending \in Seq(Functor) /\ pending # << >>
      /\ Head(pending)[1] = "sendFileInLoop"
  BY DEF NextFunctor, ConnectionTypeOK
<1>2. Head(pending) \in Functor /\ Tail(pending) \in Seq(Functor) BY <1>1
<1> QED BY <1>1, <1>2, FunctorCases DEF Plain

-----------------------------------------------------------------------------
(* Type correctness *)

(* The initial state is in the types.                                      *)
LEMMA InitType == Init => ConnectionTypeOK
<1>1. <<"connectEstablished">> \in Functor BY FunctorKinds DEF Plain
<1>2. Init => pending \in Seq(Functor) BY <1>1 DEF Init
<1>3. Init => worker \in [Workers -> Point] BY DEF Init, Point
<1>4. Init => FlagsOK BY Zenon DEF Init, FlagsOK
<1> QED BY <1>2, <1>3, <1>4 DEF Init, ConnectionTypeOK, States

(* The flags stay Boolean.                                                 *)
LEMMA NextFlags ==
  ASSUME FlagsOK, [Next]_vars
  PROVE  FlagsOK'
<1> USE DEF elseVars, chanVars, sockVars, peerVars, histVars
<1>1. CASE LoopStep
  <2>1. HandleWrite => FlagsOK'
    BY Zenon DEF HandleWrite, ShutdownAfterDrain, shutdownInLoop,
       shutdownWrite, FlagsOK
  <2>2. HandleRead => FlagsOK'
    BY Zenon DEF HandleRead, ReadData, ReadError, ReadEnd, FlagsOK
  <2>3. RunSendInLoop => FlagsOK'
    BY Zenon DEF RunSendInLoop, sendInLoop, FlagsOK
  <2>4. RunSendFileInLoop => FlagsOK'
    BY Zenon DEF RunSendFileInLoop, sendFileInLoop, FlagsOK
  <2>5. RunShutdownInLoop => FlagsOK'
    BY Zenon DEF RunShutdownInLoop, shutdownInLoop, shutdownWrite, FlagsOK
  <2>6. HandleEvent \/ HandleClose \/ CloseCallback \/ HandleError => FlagsOK'
    BY Zenon DEF HandleEvent, HandleClose, CloseCallback, HandleError, FlagsOK
  <2>7. ChannelRemove \/ UserReturns \/ connectEstablished => FlagsOK'
    BY Zenon DEF ChannelRemove, UserReturns, connectEstablished, FlagsOK
  <2>8. RunUserCallback \/ connectDestroyed => FlagsOK'
    BY Zenon DEF RunUserCallback, connectDestroyed, FlagsOK
  <2> QED
    BY <1>1, <2>1, <2>2, <2>3, <2>4, <2>5, <2>6, <2>7, <2>8 DEF LoopStep
<1>2. CASE OwnCall
  BY <1>2, Zenon DEF OwnCall, OwnSend, OwnSendFile, OwnShutdown, sendInLoop,
     sendFileInLoop, shutdownInLoop, shutdownWrite, FlagsOK
<1>3. ASSUME NEW w \in Workers, WorkerCall(w) \/ WorkerGoesOn(w)
      PROVE  FlagsOK'
  BY <1>3, Zenon DEF WorkerCall, WorkerGoesOn, WorkerSend, WorkerShutdownTest,
     WorkerQueueSend, WorkerShutdownSet, WorkerQueueShutdown, WorkerRest,
     FlagsOK
<1>4. CASE RemoveConnectionInLoop \/ DestroyServer \/ Destroy
  BY <1>4, Zenon DEF RemoveConnectionInLoop, DestroyServer, Destroy,
     ServerRest, FlagsOK
<1>5. CASE PeerReceives \/ PeerSends \/ PeerCloses \/ PeerResets
  BY <1>5, Zenon DEF PeerReceives, PeerSends, PeerCloses, PeerResets, PeerRest,
     FlagsOK
<1>6. CASE Over \/ UNCHANGED vars
  BY <1>6, Zenon DEF Over, vars, FlagsOK
<1> QED BY <1>1, <1>2, <1>3, <1>4, <1>5, <1>6 DEF Next

(* Every action keeps the types.                                           *)
LEMMA NextType ==
  ASSUME ConnectionTypeOK, [Next]_vars
  PROVE  ConnectionTypeOK'
<1> USE DEF elseVars, chanVars, sockVars, peerVars, histVars
<1>0. FlagsOK' BY NextFlags DEF ConnectionTypeOK
<1> USE <1>0
<1>1. CASE HandleEvent
  <2>1. todo' \in Seq(Chore)
    <3> DEFINE a == IF Hup /\ ~In THEN << "handleClose" >> ELSE << >>
               b == IF soError    THEN << "handleError" >> ELSE << >>
               c == IF In         THEN << "handleRead" >>  ELSE << >>
               d == IF Out        THEN << "handleWrite" >> ELSE << >>
    <3>1. todo' = << "user" >> \o a \o b \o c \o d BY <1>1 DEF HandleEvent
    <3>2. /\ a \in {<< "handleClose" >>, << >>}
          /\ b \in {<< "handleError" >>, << >>}
          /\ c \in {<< "handleRead" >>, << >>}
          /\ d \in {<< "handleWrite" >>, << >>}
      BY Zenon
    <3> HIDE DEF a, b, c, d
    <3>3. << "user" >> \in Seq(Chore) BY DEF Chore
    <3>4. /\ << >> \in Seq(Chore)
          /\ << "handleClose" >> \in Seq(Chore)
          /\ << "handleError" >> \in Seq(Chore)
          /\ << "handleRead" >> \in Seq(Chore)
          /\ << "handleWrite" >> \in Seq(Chore)
      BY DEF Chore
    <3>5. /\ a \in Seq(Chore) /\ b \in Seq(Chore)
          /\ c \in Seq(Chore) /\ d \in Seq(Chore)
      BY <3>2, <3>4, Zenon
    <3> QED BY <3>1, <3>3, <3>5
  <2> QED BY <1>1, <2>1 DEF HandleEvent, ConnectionTypeOK
<1>2. CASE HandleClose
  BY <1>2 DEF HandleClose, Close, disableAll, Update, ConnectionTypeOK, States,
     Chore
<1>3. CASE CloseCallback
  BY <1>3 DEF CloseCallback, removeConnection, ConnectionTypeOK
<1>4. CASE HandleError
  BY <1>4 DEF HandleError, ConnectionTypeOK
<1>5. CASE HandleRead
  <2>1. CASE ReadData
    BY <1>5, <2>1 DEF HandleRead, ReadData, ConnectionTypeOK, Chore
  <2>2. CASE ReadError
    BY <1>5, <2>2 DEF HandleRead, ReadError, ConnectionTypeOK
  <2>3. CASE ReadEnd
    BY <1>5, <2>3 DEF HandleRead, ReadEnd, Close, disableAll, Update,
       ConnectionTypeOK, States, Chore
  <2> QED BY <1>5, <2>1, <2>2, <2>3 DEF HandleRead
<1>6. CASE HandleWrite
  <2>1. PICK first, rest \in Seq(Bytes) :
          /\ outputBuffer_' = rest
          /\ sndbuf' = sndbuf \o first
          /\ Drained \/ UNCHANGED <<chanVars, pending, wrShut>>
    BY <1>6, HandleWriteEffect DEF Drain
  <2>2. <<"writeComplete">> \in Functor BY FunctorKinds DEF Plain
  <2>3. /\ events_' \subseteq {"read", "write"}
        /\ index_' \in {"kNew", "kAdded", "kDeleted"}
        /\ pending' \in Seq(Functor)
    <3>1. CASE Drained
      BY <2>2, <3>1 DEF Drained, disableWriting, Update, ConnectionTypeOK
    <3>2. CASE UNCHANGED <<chanVars, pending, wrShut>>
      BY <3>2 DEF ConnectionTypeOK
    <3> QED BY <2>1, <3>1, <3>2
  <2>4. outputBuffer_' \in Seq(Bytes) /\ sndbuf' \in Seq(Bytes)
    BY <2>1 DEF ConnectionTypeOK
  <2> QED BY <1>6, <2>3, <2>4 DEF HandleWrite, ConnectionTypeOK
<1>7. CASE ChannelRemove
  BY <1>7 DEF ChannelRemove, RemoveChannel, ConnectionTypeOK
<1>8. CASE UserReturns
  BY <1>8 DEF UserReturns, InUser, ConnectionTypeOK
<1>9. CASE connectEstablished
  BY <1>9 DEF connectEstablished, NextFunctor, enableReading, Update,
     ConnectionTypeOK, States, Chore
<1>10. ASSUME NEW data \in Seq(Bytes), NEW q \in Seq(Functor),
              sendInLoop(data, q)
       PROVE  /\ {outputBuffer_', sndbuf', accepted'} \subseteq Seq(Bytes)
              /\ events_' \subseteq {"read", "write"}
              /\ index_' \in {"kNew", "kAdded", "kDeleted"}
              /\ pending' \in Seq(Functor)
  <2>1. SendNothing(q) \/ SendData(data, q)
    BY <1>10, SendInLoopEffect
  <2>2. CASE SendNothing(q)
    BY <2>1, <2>2 DEF SendNothing, ConnectionTypeOK
  <2>3. CASE SendData(data, q)
    <3>1. PICK first \in Seq(Bytes), rest \in Seq(Bytes),
               done \in Seq(Functor), high \in Seq(Functor) :
            SentAs(data, q, first, rest, done, high)
      BY <2>3, Zenon DEF SendData
    <3> USE DEF SentAs
    <3>2. {outputBuffer_', sndbuf', accepted'} \subseteq Seq(Bytes)
      BY <3>1 DEF ConnectionTypeOK
    <3>3. pending' \in Seq(Functor) BY <3>1
    <3> QED BY <2>1, <3>1, <3>2, <3>3 DEF enableWriting, Update,
            ConnectionTypeOK
  <2> QED BY <2>1, <2>2, <2>3
<1>11. ASSUME NEW f \in Files, NEW offset \in 0 .. FileLen[f],
              NEW q \in Seq(Functor), sendFileInLoop(f, offset, q)
       PROVE  /\ {sndbuf', accepted'} \subseteq Seq(Bytes)
              /\ pending' \in Seq(Functor)
  <2>1. SendPiece(f, offset, q)
    BY <1>11, SendFileInLoopEffect
  <2>2. PICK n \in 0 .. FileLen[f] - offset, more \in Seq(Functor) :
          /\ sndbuf' = sndbuf \o Piece(f, offset, n)
          /\ accepted' = accepted \o Piece(f, offset, n)
          /\ pending' = q \o more
    BY <2>1 DEF SendPiece
  <2>3. Piece(f, offset, n) \in Seq(Bytes) BY PieceType
  <2> QED BY <2>1, <2>2, <2>3 DEF ConnectionTypeOK
<1>12. CASE RunSendInLoop
  <2>1. /\ NextFunctor("sendInLoop")
        /\ sendInLoop(Payload(Head(pending)[2]), Tail(pending))
    BY <1>12 DEF RunSendInLoop
  <2> QED BY <1>10, <1>12, <2>1, HeadSend DEF RunSendInLoop, ConnectionTypeOK
<1>13. CASE RunSendFileInLoop
  <2>1. /\ NextFunctor("sendFileInLoop")
        /\ sendFileInLoop(Head(pending)[2], Head(pending)[3], Tail(pending))
    BY <1>13 DEF RunSendFileInLoop
  <2> QED
    BY <1>11, <1>13, <2>1, HeadSendFile DEF RunSendFileInLoop, ConnectionTypeOK
<1>14. CASE RunShutdownInLoop
  BY <1>14 DEF RunShutdownInLoop, NextFunctor, shutdownInLoop, shutdownWrite,
     ConnectionTypeOK
<1>15. CASE RunUserCallback
  BY <1>15 DEF RunUserCallback, NextFunctor, ConnectionTypeOK, Chore
<1>16. CASE connectDestroyed
  <2>1. CASE StillUp
    <3>1. /\ state_' = "kDisconnected" /\ disableAll /\ downs' = downs + 1
          /\ todo' = << "user", "remove" >>
      BY <1>16, <2>1, Zenon DEF connectDestroyed
    <3>2. todo' \in Seq(Chore) BY <3>1 DEF Chore
    <3> QED
      BY <1>16, <3>1, <3>2 DEF connectDestroyed, NextFunctor, disableAll,
         Update, ConnectionTypeOK, States
  <2>2. CASE ~StillUp
    <3>1. RemoveChannel /\ UNCHANGED <<state_, downs, todo>>
      BY <1>16, <2>2, Zenon DEF connectDestroyed
    <3> QED
      BY <1>16, <3>1 DEF connectDestroyed, NextFunctor, RemoveChannel,
         ConnectionTypeOK
  <2> QED BY <2>1, <2>2
<1>17. ASSUME NEW m \in Messages, OwnSend(m) PROVE ConnectionTypeOK'
  <2>1. Payload(m) \in Seq(Bytes) BY PayloadType
  <2>2. pending \in Seq(Functor) BY DEF ConnectionTypeOK
  <2>3. sendInLoop(Payload(m), pending) BY <1>17 DEF OwnSend
  <2> QED BY <1>10, <1>17, <2>1, <2>2, <2>3 DEF OwnSend, ConnectionTypeOK
<1>18. ASSUME NEW f \in Files, OwnSendFile(f) PROVE ConnectionTypeOK'
  <2>1. 0 \in 0 .. FileLen[f] BY ConnectionAssumption
  <2>2. pending \in Seq(Functor) BY DEF ConnectionTypeOK
  <2>3. sendFileInLoop(f, 0, pending) BY <1>18 DEF OwnSendFile
  <2> QED BY <1>11, <1>18, <2>1, <2>2, <2>3 DEF OwnSendFile, ConnectionTypeOK
<1>19. CASE OwnShutdown
  BY <1>19 DEF OwnShutdown, shutdownInLoop, shutdownWrite, ConnectionTypeOK,
     States
<1>20. ASSUME NEW w \in Workers, NEW m \in Messages \cup Files,
              WorkerSend(w, m)
       PROVE  ConnectionTypeOK'
  BY <1>20 DEF WorkerSend, WorkerRest, ConnectionTypeOK, Point
<1>21. ASSUME NEW w \in Workers, WorkerQueueSend(w) PROVE ConnectionTypeOK'
  <2>1. worker[w][1] = "send" /\ worker[w] \in Point
    BY <1>21 DEF WorkerQueueSend, ConnectionTypeOK
  <2>2. worker[w][2] \in Messages \cup Files BY <2>1 DEF Point
  <2>3. pending' \in Seq(Functor)
    <3>1. (IF worker[w][2] \in Files THEN <<"sendFileInLoop", worker[w][2], 0>>
                                     ELSE <<"sendInLoop", worker[w][2]>>)
            \in Functor
      BY <2>2, FunctorKinds, ConnectionAssumption
    <3> QED BY <1>21, <3>1 DEF WorkerQueueSend, ConnectionTypeOK
  <2> QED BY <1>21, <2>3 DEF WorkerQueueSend, WorkerRest, ConnectionTypeOK,
          Point
<1>22. ASSUME NEW w \in Workers,
              WorkerShutdownTest(w) \/ WorkerShutdownSet(w)
       PROVE  ConnectionTypeOK'
  BY <1>22 DEF WorkerShutdownTest, WorkerShutdownSet, WorkerRest,
     ConnectionTypeOK, Point, States
<1>23. ASSUME NEW w \in Workers, WorkerQueueShutdown(w)
       PROVE  ConnectionTypeOK'
  <2>1. <<"shutdownInLoop">> \in Functor BY FunctorKinds DEF Plain
  <2> QED BY <1>23, <2>1 DEF WorkerQueueShutdown, WorkerRest,
             ConnectionTypeOK, Point
<1>24. CASE RemoveConnectionInLoop \/ DestroyServer
  <2>1. <<"connectDestroyed">> \in Functor BY FunctorKinds DEF Plain
  <2>2. CASE RemoveConnectionInLoop
    BY <2>1, <2>2 DEF RemoveConnectionInLoop, ServerRest, ConnectionTypeOK
  <2>3. CASE DestroyServer
    BY <2>1, <2>3 DEF DestroyServer, ServerRest, ConnectionTypeOK
  <2> QED BY <1>24, <2>2, <2>3
<1>25. CASE Destroy
  BY <1>25 DEF Destroy, ConnectionTypeOK
<1>26. CASE PeerReceives
  BY <1>26 DEF PeerReceives, PeerRest, ConnectionTypeOK
<1>27. CASE PeerSends \/ PeerCloses \/ PeerResets
  <2>1. CASE PeerSends BY <2>1 DEF PeerSends, PeerRest, ConnectionTypeOK
  <2>2. CASE PeerCloses BY <2>2 DEF PeerCloses, PeerRest, ConnectionTypeOK
  <2>3. CASE PeerResets BY <2>3 DEF PeerResets, PeerRest, ConnectionTypeOK
  <2> QED BY <1>27, <2>1, <2>2, <2>3
<1>28. CASE UNCHANGED vars
  BY <1>28 DEF vars, ConnectionTypeOK
<1> QED
  BY <1>1, <1>2, <1>3, <1>4, <1>5, <1>6, <1>7, <1>8, <1>9, <1>12, <1>13, <1>14,
     <1>15, <1>16, <1>17, <1>18, <1>19, <1>20, <1>21, <1>22, <1>23, <1>24,
     <1>25, <1>26, <1>27, <1>28
     DEF Next, LoopStep, OwnCall, WorkerCall, WorkerGoesOn, Over

(* The initial state and every step are type correct, hence every state.   *)
(* TcpConnection.cc:117-398.                                               *)
THEOREM ConnectionTypeCorrect == Spec => []ConnectionTypeOK
<1>1. Init => ConnectionTypeOK BY InitType
<1>2. ConnectionTypeOK /\ [Next]_vars => ConnectionTypeOK' BY NextType
<1> QED BY <1>1, <1>2, PTL DEF Spec

-----------------------------------------------------------------------------
(* The byte stream *)

(* Bytes are accepted: the first of them for the kernel, the rest for      *)
(* outputBuffer_.                                                          *)
AcceptAs(first, rest) ==
  /\ sndbuf' = sndbuf \o first
  /\ outputBuffer_' = outputBuffer_ \o rest
  /\ accepted' = accepted \o (first \o rest)
  /\ first # << >> => Direct
  /\ first \o rest # << >> /\ Direct => Writable

Accepts ==
  \E first \in Seq(Bytes), rest \in Seq(Bytes) : AcceptAs(first, rest)

(* Nothing is accepted when nothing changes.                               *)
LEMMA NothingAccepted ==
  ASSUME ConnectionTypeOK, UNCHANGED <<sndbuf, outputBuffer_, accepted>>
  PROVE  AcceptAs(<< >>, << >>)
<1>1. /\ sndbuf \o << >> = sndbuf
      /\ outputBuffer_ \o << >> = outputBuffer_
      /\ accepted \o << >> = accepted
  BY ConcatEmptySeq DEF ConnectionTypeOK
<1>2. << >> \o << >> = << >> OBVIOUS
<1> QED BY <1>1, <1>2 DEF AcceptAs

(* What sendInLoop does to the stream.                                     *)
LEMMA SendAccepts ==
  ASSUME ConnectionTypeOK, NEW data \in Seq(Bytes), NEW q \in Seq(Functor),
         sendInLoop(data, q)
  PROVE  Accepts
<1>1. SendNothing(q) \/ SendData(data, q) BY SendInLoopEffect
<1>2. CASE SendNothing(q)
  <2>1. AcceptAs(<< >>, << >>) BY <1>2, NothingAccepted DEF SendNothing
  <2>2. << >> \in Seq(Bytes) OBVIOUS
  <2> QED BY <2>1, <2>2, Zenon DEF Accepts
<1>3. CASE SendData(data, q)
  <2>1. PICK first \in Seq(Bytes), rest \in Seq(Bytes),
             done \in Seq(Functor), high \in Seq(Functor) :
          SentAs(data, q, first, rest, done, high)
    BY <1>3, Zenon DEF SendData
  <2>2. AcceptAs(first, rest) BY <2>1, Zenon DEF SentAs, AcceptAs
  <2> QED BY <2>2, Zenon DEF Accepts
<1> QED BY <1>1, <1>2, <1>3

(* What sendFileInLoop does to it.                                         *)
LEMMA SendFileAccepts ==
  ASSUME ConnectionTypeOK, NEW f \in Files, NEW offset \in 0 .. FileLen[f],
         NEW q \in Seq(Functor), sendFileInLoop(f, offset, q),
         UNCHANGED outputBuffer_
  PROVE  Accepts
<1>1. SendPiece(f, offset, q) BY SendFileInLoopEffect
<1>2. PICK n \in 0 .. FileLen[f] - offset :
        /\ sndbuf' = sndbuf \o Piece(f, offset, n)
        /\ accepted' = accepted \o Piece(f, offset, n)
        /\ n > 0 => Direct /\ Writable
  BY <1>1 DEF SendPiece
<1> DEFINE first == Piece(f, offset, n)
<1>3. first \in Seq(Bytes) /\ Len(first) = n BY PieceType
<1> HIDE DEF first
<1>4. first \o << >> = first BY <1>3, ConcatEmptySeq
<1>5. outputBuffer_ \o << >> = outputBuffer_
  BY ConcatEmptySeq DEF ConnectionTypeOK
<1>6. first # << >> => n > 0 BY <1>3
<1>7. /\ sndbuf' = sndbuf \o first
      /\ outputBuffer_' = outputBuffer_ \o << >>
      /\ accepted' = accepted \o (first \o << >>)
  BY <1>2, <1>4, <1>5 DEF first
<1>8. AcceptAs(first, << >>)
  BY <1>2, <1>4, <1>6, <1>7 DEF AcceptAs
<1>9. << >> \in Seq(Bytes) OBVIOUS
<1> QED BY <1>3, <1>8, <1>9, Zenon DEF Accepts

(* Concatenation, of runs of bytes.                                        *)
LEMMA Assoc ==
  \A a, b, c \in Seq(Bytes) : (a \o b) \o c = a \o (b \o c)
BY ConcatAssociative

(* Concatenation of queues of functors.                                    *)
LEMMA AssocQueues ==
  \A a, b, c \in Seq(Functor) : (a \o b) \o c = a \o (b \o c)
BY ConcatAssociative

(* The steps that accept bytes, with what they leave alone.                *)
SendStep ==
  \/ RunSendInLoop \/ RunSendFileInLoop
  \/ \E m \in Messages : OwnSend(m)
  \/ \E f \in Files : OwnSendFile(f)

(* Such a step accepts some data, or none, and touches little else.        *)
LEMMA SendStepAccepts ==
  ASSUME ConnectionTypeOK, SendStep
  PROVE  /\ Accepts
         /\ UNCHANGED <<state_, todo, worker, server, destroyed, wrShut,
                        peerVars, ups, downs>>
<1>1. CASE RunSendInLoop
  <2>1. /\ NextFunctor("sendInLoop")
        /\ sendInLoop(Payload(Head(pending)[2]), Tail(pending))
        /\ UNCHANGED <<state_, todo, elseVars, wrShut, peerVars, ups, downs>>
    BY <1>1 DEF RunSendInLoop
  <2> QED BY <2>1, HeadSend, SendAccepts DEF elseVars
<1>2. CASE RunSendFileInLoop
  <2>1. /\ NextFunctor("sendFileInLoop")
        /\ sendFileInLoop(Head(pending)[2], Head(pending)[3], Tail(pending))
        /\ UNCHANGED <<state_, outputBuffer_, todo, elseVars, wrShut, peerVars,
                       ups, downs>>
    BY <1>2 DEF RunSendFileInLoop
  <2> QED BY <2>1, HeadSendFile, SendFileAccepts DEF elseVars
<1>3. ASSUME NEW m \in Messages, OwnSend(m)
      PROVE  /\ Accepts
             /\ UNCHANGED <<state_, todo, worker, server, destroyed, wrShut,
                            peerVars, ups, downs>>
  <2>1. sendInLoop(Payload(m), pending) BY <1>3 DEF OwnSend
  <2>2. Payload(m) \in Seq(Bytes) /\ pending \in Seq(Functor)
    BY PayloadType DEF ConnectionTypeOK
  <2> QED BY <1>3, <2>1, <2>2, SendAccepts DEF OwnSend
<1>4. ASSUME NEW f \in Files, OwnSendFile(f)
      PROVE  /\ Accepts
             /\ UNCHANGED <<state_, todo, worker, server, destroyed, wrShut,
                            peerVars, ups, downs>>
  <2>1. sendFileInLoop(f, 0, pending) /\ UNCHANGED outputBuffer_
    BY <1>4 DEF OwnSendFile
  <2>2. 0 \in 0 .. FileLen[f] /\ pending \in Seq(Functor)
    BY ConnectionAssumption DEF ConnectionTypeOK
  <2> QED BY <1>4, <2>1, <2>2, SendFileAccepts DEF OwnSendFile
<1> QED BY <1>1, <1>2, <1>3, <1>4 DEF SendStep

(* The steps that touch no byte.                                           *)
Quiet ==
  /\ UNCHANGED <<outputBuffer_, sndbuf, accepted, peerData>>
  /\ (peerState' = "rst") <=> (peerState = "rst")

(* Every other step leaves the stream alone.                               *)
LEMMA StreamSteps ==
  ASSUME ConnectionTypeOK, [Next]_vars
  PROVE  Quiet \/ SendStep \/ HandleWrite \/ PeerReceives \/ PeerResets
<1> USE DEF elseVars, chanVars, sockVars, peerVars, histVars, Quiet
<1>1. CASE HandleEvent \/ HandleClose \/ CloseCallback \/ HandleError
  BY <1>1 DEF HandleEvent, HandleClose, CloseCallback, HandleError
<1>2. CASE HandleRead BY <1>2 DEF HandleRead
<1>3. CASE ChannelRemove \/ UserReturns \/ connectEstablished
  BY <1>3 DEF ChannelRemove, UserReturns, connectEstablished
<1>4. CASE RunShutdownInLoop \/ RunUserCallback \/ connectDestroyed
  BY <1>4 DEF RunShutdownInLoop, RunUserCallback, connectDestroyed
<1>5. CASE OwnShutdown BY <1>5 DEF OwnShutdown
<1>6. ASSUME NEW w \in Workers, WorkerCall(w) \/ WorkerGoesOn(w)
      PROVE  Quiet
  BY <1>6 DEF WorkerCall, WorkerGoesOn, WorkerSend, WorkerShutdownTest,
     WorkerQueueSend, WorkerShutdownSet, WorkerQueueShutdown, WorkerRest
<1>7. CASE RemoveConnectionInLoop \/ DestroyServer \/ Destroy
  BY <1>7 DEF RemoveConnectionInLoop, DestroyServer, Destroy, ServerRest
<1>8. CASE PeerSends \/ PeerCloses
  BY <1>8 DEF PeerSends, PeerCloses, PeerRest
<1>9. CASE Over \/ UNCHANGED vars
  BY <1>9 DEF Over, vars
<1>10. CASE OwnCall
  BY <1>5, <1>10 DEF OwnCall, SendStep
<1> QED
  BY <1>1, <1>2, <1>3, <1>4, <1>6, <1>7, <1>8, <1>9, <1>10
     DEF Next, LoopStep, SendStep

(***************************************************************************)
(* The inductive invariant: what the peer got and what is undelivered make *)
(* up what was accepted; a reset empties the kernel's buffer, and from     *)
(* then on what is undelivered is lost.                                    *)
(***************************************************************************)
Undelivered(rest) ==
  /\ accepted = peerData \o rest
  /\ peerState # "rst" => rest = sndbuf \o outputBuffer_

StreamInv ==
  /\ \E rest \in Seq(Bytes) : Undelivered(rest)
  /\ peerState = "rst" => sndbuf = << >>

(* The stream is empty at the start.                                       *)
LEMMA InitStream == Init => StreamInv
<1> SUFFICES ASSUME Init PROVE StreamInv
  OBVIOUS
<1>1. << >> \o << >> = << >> /\ << >> \in Seq(Bytes) OBVIOUS
<1>2. Undelivered(<< >>) BY <1>1 DEF Init, Undelivered
<1> QED BY <1>1, <1>2 DEF Init, StreamInv

(* No step loses, duplicates or reorders a byte of it.                     *)
LEMMA NextStream ==
  ASSUME ConnectionTypeOK, StreamInv, [Next]_vars
  PROVE  StreamInv'
<1>0. PICK left \in Seq(Bytes) : Undelivered(left) BY DEF StreamInv
<1>s. sndbuf \in Seq(Bytes) BY DEF ConnectionTypeOK
<1>o. outputBuffer_ \in Seq(Bytes) BY DEF ConnectionTypeOK
<1>p. peerData \in Seq(Bytes) BY DEF ConnectionTypeOK
<1>a. \A b, c \in Seq(Bytes) : (sndbuf \o b) \o c = sndbuf \o (b \o c)
  BY <1>s, Assoc
<1>1. CASE Quiet
  <2>1. Undelivered(left)' BY <1>0, <1>1 DEF Quiet, Undelivered
  <2> QED BY <1>1, <2>1 DEF Quiet, StreamInv
<1>2. CASE SendStep
  <2>1. Accepts /\ UNCHANGED <<peerState, peerData>>
    BY <1>2, SendStepAccepts DEF peerVars
  <2>2. PICK first \in Seq(Bytes), rest \in Seq(Bytes) : AcceptAs(first, rest)
    BY <2>1, Zenon DEF Accepts
  <2> DEFINE new == left \o (first \o rest)
  <2>3. new \in Seq(Bytes) OBVIOUS
  <2>4. accepted' = peerData' \o new
    <3>1. accepted' = (peerData \o left) \o (first \o rest)
      BY <1>0, <2>2 DEF AcceptAs, Undelivered
    <3>2. first \o rest \in Seq(Bytes) OBVIOUS
    <3>3. (peerData \o left) \o (first \o rest) = peerData \o new
      BY <1>p, <3>2, Assoc
    <3> QED BY <2>1, <3>1, <3>3
  <2>5. CASE peerState = "rst"
    <3>1. first = << >> BY <2>2, <2>5 DEF AcceptAs, Writable
    <3>2. sndbuf' = << >>
      BY <2>2, <2>5, <3>1 DEF AcceptAs, StreamInv
    <3> HIDE DEF new
    <3> QED BY <2>1, <2>3, <2>4, <2>5, <3>2 DEF StreamInv, Undelivered
  <2>6. CASE peerState # "rst"
    <3>1. first = << >> \/ outputBuffer_ = << >>
      BY <2>2 DEF AcceptAs, Direct
    <3>2. new = (sndbuf \o outputBuffer_) \o (first \o rest)
      BY <1>0, <2>6 DEF Undelivered
    <3>3. (sndbuf \o outputBuffer_) \o (first \o rest)
            = (sndbuf \o first) \o (outputBuffer_ \o rest)
      <4>1. CASE first = << >>
        <5>1. sndbuf \o first = sndbuf /\ first \o rest = rest
          BY <1>s, <4>1, ConcatEmptySeq
        <5>2. (sndbuf \o outputBuffer_) \o rest
                = sndbuf \o (outputBuffer_ \o rest)
          BY <1>o, <1>a, Zenon
        <5> QED BY <5>1, <5>2
      <4>2. CASE outputBuffer_ = << >>
        <5>1. sndbuf \o outputBuffer_ = sndbuf /\ outputBuffer_ \o rest = rest
          BY <1>s, <4>2, ConcatEmptySeq
        <5>2. sndbuf \o (first \o rest) = (sndbuf \o first) \o rest
          BY <1>a, Zenon
        <5> QED BY <5>1, <5>2
      <4> QED BY <3>1, <4>1, <4>2
    <3>4. new = sndbuf' \o outputBuffer_'
      BY <2>2, <3>2, <3>3 DEF AcceptAs
    <3> HIDE DEF new
    <3> QED BY <2>1, <2>3, <2>4, <2>6, <3>4 DEF StreamInv, Undelivered
  <2> QED BY <2>5, <2>6
<1>3. CASE HandleWrite
  <2>1. UNCHANGED <<peerState, peerData, accepted>>
    BY <1>3 DEF HandleWrite, peerVars, histVars
  <2>2. PICK first \in Seq(Bytes), rest \in Seq(Bytes) :
          /\ outputBuffer_ = first \o rest
          /\ outputBuffer_' = rest
          /\ sndbuf' = sndbuf \o first
          /\ first # << >> => Writable
    BY <1>3, HandleWriteEffect DEF Drain
  <2>3. sndbuf \o outputBuffer_ = sndbuf' \o outputBuffer_'
    <3>1. (sndbuf \o first) \o rest = sndbuf \o (first \o rest)
      BY <1>s, Assoc
    <3> QED BY <2>2, <3>1
  <2>4. peerState = "rst" => sndbuf' = << >>
    BY <2>2 DEF StreamInv, Writable
  <2>5. Undelivered(left)' BY <1>0, <2>1, <2>3 DEF Undelivered
  <2> QED BY <2>1, <2>4, <2>5 DEF StreamInv
<1>4. CASE PeerReceives
  <2>1. /\ sndbuf # << >>
        /\ peerData' = Append(peerData, Head(sndbuf))
        /\ sndbuf' = Tail(sndbuf)
        /\ UNCHANGED <<peerState, outputBuffer_, accepted>>
    BY <1>4 DEF PeerReceives, PeerRest, histVars
  <2>2. peerState # "rst" BY <2>1 DEF StreamInv
  <2>3. /\ sndbuf = <<Head(sndbuf)>> \o Tail(sndbuf)
        /\ <<Head(sndbuf)>> \in Seq(Bytes) /\ Tail(sndbuf) \in Seq(Bytes)
    BY <1>s, <2>1
  <2> DEFINE new == Tail(sndbuf) \o outputBuffer_
  <2>4. new \in Seq(Bytes) BY <1>o, <2>3
  <2>5. left = <<Head(sndbuf)>> \o new
    BY <1>0, <1>o, <2>2, <2>3, Assoc DEF Undelivered
  <2>6. Append(peerData, Head(sndbuf)) = peerData \o <<Head(sndbuf)>>
    BY <1>p, <2>3, AppendIsConcat
  <2>8. <<Head(sndbuf)>> \in Seq(Bytes) BY <2>3
  <2> HIDE DEF new
  <2>7. accepted' = peerData' \o new
    <3>1. (peerData \o <<Head(sndbuf)>>) \o new
            = peerData \o (<<Head(sndbuf)>> \o new)
      BY <1>p, <2>4, <2>8, Assoc
    <3> QED BY <1>0, <2>1, <2>5, <2>6, <3>1 DEF Undelivered
  <2> QED BY <2>1, <2>2, <2>4, <2>7 DEF StreamInv, Undelivered, new
<1>5. CASE PeerResets
  <2>1. /\ peerState' = "rst" /\ sndbuf' = << >>
        /\ UNCHANGED <<peerData, accepted>>
    BY <1>5 DEF PeerResets, PeerRest, histVars
  <2>2. Undelivered(left)' BY <1>0, <2>1 DEF Undelivered
  <2> QED BY <2>1, <2>2 DEF StreamInv
<1> QED BY <1>1, <1>2, <1>3, <1>4, <1>5, StreamSteps

(* So what the peer has is the beginning of what was accepted.             *)
LEMMA StreamInvImplies ==
  ConnectionTypeOK /\ StreamInv => StreamIntegrity
<1> SUFFICES ASSUME ConnectionTypeOK, StreamInv PROVE StreamIntegrity
  OBVIOUS
<1>1. PICK left \in Seq(Bytes) : Undelivered(left) BY DEF StreamInv
<1>2. /\ sndbuf \in Seq(Bytes) /\ outputBuffer_ \in Seq(Bytes)
      /\ peerData \in Seq(Bytes)
  BY DEF ConnectionTypeOK
<1>3. accepted = peerData \o left BY <1>1 DEF Undelivered
<1>4. peerData = SubSeq(accepted, 1, Len(peerData))
  BY <1>2, <1>3
<1>5. ASSUME peerState # "rst"
      PROVE  peerData \o sndbuf \o outputBuffer_ = accepted
  <2>1. (peerData \o sndbuf) \o outputBuffer_
          = peerData \o (sndbuf \o outputBuffer_)
    BY <1>2, Assoc, Zenon
  <2> QED BY <1>1, <1>5, <2>1 DEF Undelivered
<1> QED BY <1>4, <1>5 DEF StreamIntegrity

(***************************************************************************)
(* No byte is lost, duplicated or overtaken on its way through the direct  *)
(* write of sendInLoop, outputBuffer_ and handleWrite, whatever the kernel *)
(* takes of each write (TcpConnection.cc:148-211, 285-320, 364-398).       *)
(***************************************************************************)
THEOREM StreamCorrect == Spec => []StreamIntegrity
<1> DEFINE IInv == ConnectionTypeOK /\ StreamInv
<1>1. Init => IInv BY InitType, InitStream
<1>2. IInv /\ [Next]_vars => IInv' BY NextType, NextStream
<1>3. IInv => StreamIntegrity BY StreamInvImplies
<1> QED BY <1>1, <1>2, <1>3, PTL DEF Spec

-----------------------------------------------------------------------------
(* The steps that send, and the others *)

(* A step that sends nothing and queues nothing that does.                 *)
OtherStep ==
  /\ UNCHANGED <<accepted, passed>>
  /\ Len(outputBuffer_') <= Len(outputBuffer_)
  /\ \A w \in Workers : \A m \in Messages \cup Files :
       worker'[w] = <<"send", m>> => worker[w] = <<"send", m>>
  /\ \/ UNCHANGED pending
     \/ pending # << >> /\ pending' = Tail(pending)
     \/ \E k \in Plain \ {"highWaterMark"} : pending' = Append(pending, <<k>>)

(* Every step is one of these.                                             *)
LEMMA StepKinds ==
  ASSUME ConnectionTypeOK, [Next]_vars
  PROVE  \/ OtherStep
         \/ RunSendInLoop \/ RunSendFileInLoop
         \/ \E m \in Messages \ passed : OwnSend(m)
         \/ \E f \in Files \ passed : OwnSendFile(f)
         \/ \E w \in Workers :
              \/ WorkerQueueSend(w)
              \/ \E m \in (Messages \cup Files) \ passed : WorkerSend(w, m)
<1> USE DEF elseVars, chanVars, sockVars, peerVars, histVars
<1>t. Len(outputBuffer_) \in Nat /\ worker \in [Workers -> Point]
  BY DEF ConnectionTypeOK
<1>s. ASSUME UNCHANGED <<accepted, passed, outputBuffer_, worker, pending>>
      PROVE  OtherStep
  BY <1>t, <1>s DEF OtherStep
<1>r. ASSUME UNCHANGED <<accepted, passed, outputBuffer_, worker>>,
             pending # << >>, pending' = Tail(pending)
      PROVE  OtherStep
  BY <1>t, <1>r DEF OtherStep
<1>1. CASE HandleEvent \/ HandleClose \/ CloseCallback \/ HandleError
  BY <1>1, <1>s DEF HandleEvent, HandleClose, CloseCallback, HandleError
<1>2. CASE HandleRead BY <1>2, <1>s DEF HandleRead
<1>3. CASE HandleWrite
  <2>1. PICK first, rest \in Seq(Bytes) :
          /\ outputBuffer_ = first \o rest
          /\ outputBuffer_' = rest
          /\ Drained \/ UNCHANGED <<chanVars, pending, wrShut>>
    BY <1>3, HandleWriteEffect DEF Drain
  <2>2. Len(outputBuffer_') <= Len(outputBuffer_) BY <2>1
  <2>3. UNCHANGED <<accepted, passed, worker>> BY <1>3 DEF HandleWrite
  <2>4. CASE Drained
    <3>1. pending' = Append(pending, <<"writeComplete">>)
      BY <2>4 DEF Drained
    <3>2. "writeComplete" \in Plain \ {"highWaterMark"} BY DEF Plain
    <3> QED BY <2>2, <2>3, <3>1, <3>2 DEF OtherStep
  <2>5. CASE UNCHANGED <<chanVars, pending, wrShut>>
    BY <2>2, <2>3, <2>5 DEF OtherStep
  <2> QED BY <2>1, <2>4, <2>5
<1>4. CASE ChannelRemove \/ UserReturns \/ OwnShutdown
  BY <1>4, <1>s DEF ChannelRemove, UserReturns, OwnShutdown
<1>5. CASE connectEstablished \/ RunShutdownInLoop
  BY <1>5, <1>r DEF connectEstablished, RunShutdownInLoop, NextFunctor
<1>6. CASE RunUserCallback \/ connectDestroyed
  BY <1>6, <1>r DEF RunUserCallback, connectDestroyed, NextFunctor
<1>7. ASSUME NEW w \in Workers, WorkerQueueShutdown(w) PROVE OtherStep
  <2>1. /\ UNCHANGED <<accepted, passed, outputBuffer_>>
        /\ worker' = [worker EXCEPT ![w] = <<"idle">>]
        /\ pending' = Append(pending, <<"shutdownInLoop">>)
    BY <1>7 DEF WorkerQueueShutdown, WorkerRest
  <2>2. \A v \in Workers : \A m \in Messages \cup Files :
          worker'[v] = <<"send", m>> => worker[v] = <<"send", m>>
    BY <1>t, <2>1
  <2>3. "shutdownInLoop" \in Plain \ {"highWaterMark"} BY DEF Plain
  <2> QED BY <1>t, <2>1, <2>2, <2>3 DEF OtherStep
<1>8. ASSUME NEW w \in Workers, WorkerShutdownTest(w) \/ WorkerShutdownSet(w)
      PROVE  OtherStep
  <2>1. /\ UNCHANGED <<accepted, passed, outputBuffer_, pending>>
        /\ \/ worker' = [worker EXCEPT ![w] = <<"shutdown">>]
           \/ worker' = [worker EXCEPT ![w] = <<"shutdownSet">>]
    BY <1>8 DEF WorkerShutdownTest, WorkerShutdownSet, WorkerRest
  <2>2. \A v \in Workers : \A m \in Messages \cup Files :
          worker'[v] = <<"send", m>> => worker[v] = <<"send", m>>
    BY <1>t, <2>1
  <2> QED BY <1>t, <2>1, <2>2 DEF OtherStep
<1>9. CASE RemoveConnectionInLoop \/ DestroyServer
  <2>1. /\ UNCHANGED <<accepted, passed, outputBuffer_, worker>>
        /\ pending' = Append(pending, <<"connectDestroyed">>)
    BY <1>9 DEF RemoveConnectionInLoop, DestroyServer, ServerRest
  <2>2. "connectDestroyed" \in Plain \ {"highWaterMark"} BY DEF Plain
  <2> QED BY <1>t, <2>1, <2>2 DEF OtherStep
<1>10. CASE Destroy BY <1>10, <1>s DEF Destroy
<1>11. CASE PeerReceives \/ PeerSends \/ PeerCloses \/ PeerResets
  BY <1>11, <1>s DEF PeerReceives, PeerSends, PeerCloses, PeerResets, PeerRest
<1>12. CASE Over \/ UNCHANGED vars BY <1>12, <1>s DEF Over, vars
<1> QED
  BY <1>1, <1>2, <1>3, <1>4, <1>5, <1>6, <1>7, <1>8, <1>9, <1>10, <1>11, <1>12
     DEF Next, LoopStep, OwnCall, WorkerCall, WorkerGoesOn

(* The functor a worker queues.                                            *)
LEMMA WorkerQueues ==
  ASSUME ConnectionTypeOK, NEW w \in Workers, WorkerQueueSend(w)
  PROVE  LET m == worker[w][2]
             g == IF m \in Files THEN <<"sendFileInLoop", m, 0>>
                                 ELSE <<"sendInLoop", m>>
         IN  /\ m \in Messages \cup Files
             /\ worker[w] = <<"send", m>>
             /\ g \in Functor
             /\ pending' = Append(pending, g)
             /\ worker' = [worker EXCEPT ![w] = <<"idle">>]
             /\ UNCHANGED <<accepted, passed, outputBuffer_>>
<1>1. worker[w][1] = "send" /\ worker[w] \in Point
  BY DEF WorkerQueueSend, ConnectionTypeOK
<1>2. /\ worker[w][2] \in Messages \cup Files
      /\ worker[w] = <<"send", worker[w][2]>>
  BY <1>1 DEF Point
<1>3. (IF worker[w][2] \in Files THEN <<"sendFileInLoop", worker[w][2], 0>>
                                 ELSE <<"sendInLoop", worker[w][2]>>)
        \in Functor
  BY <1>2, FunctorKinds, ConnectionAssumption
<1> QED BY <1>2, <1>3 DEF WorkerQueueSend, WorkerRest, histVars

-----------------------------------------------------------------------------
(* The high-water mark *)

(* How the operations on the queue change the number of reports in it.     *)
LEMMA ReportsQueue ==
  ASSUME NEW q \in Seq(Functor)
  PROVE  /\ Reports(q) \in Nat
         /\ \A r \in Seq(Functor) :
              Reports(r) \in Nat /\ Reports(q \o r) = Reports(q) + Reports(r)
         /\ q # << >> => Reports(Tail(q)) \in Nat
         /\ q # << >> => Reports(Tail(q)) = Reports(q)
              - (IF Head(q) = <<"highWaterMark">> THEN 1 ELSE 0)
         /\ \A g \in Functor : Reports(Append(q, g)) = Reports(q)
              + (IF g = <<"highWaterMark">> THEN 1 ELSE 0)
<1> DEFINE e == <<"highWaterMark">>
<1> HIDE DEF e
<1>1. \A r : Reports(r) = Count(r, e) BY DEF Reports, Count, e
<1>2. \A r \in Seq(Functor) : Reports(r) \in Nat
        /\ Reports(q) \in Nat /\ Reports(q \o r) = Reports(q) + Reports(r)
  BY <1>1, CountConcat
<1>3. ASSUME q # << >>
      PROVE  /\ Reports(Tail(q)) \in Nat
             /\ Reports(Tail(q)) = Reports(q) - (IF Head(q) = e THEN 1 ELSE 0)
  BY <1>1, <1>3, CountTail
<1>4. ASSUME NEW g \in Functor
      PROVE  Reports(Append(q, g)) = Reports(q) + (IF g = e THEN 1 ELSE 0)
  <2>1. Append(q, g) = q \o <<g>> /\ <<g>> \in Seq(Functor)
    BY AppendIsConcat
  <2>2. Reports(<<g>>) = IF g = e THEN 1 ELSE 0 BY <1>1, CountOne
  <2>3. Reports(q \o <<g>>) = Reports(q) + Reports(<<g>>)
    BY <1>2, <2>1, Zenon
  <2> QED BY <2>1, <2>2, <2>3
<1>5. Reports(q) \in Nat BY <1>2
<1> QED BY <1>2, <1>3, <1>4, <1>5 DEF e

(* A step that does not add to the output, with what it may queue.         *)
LEMMA OtherReports ==
  ASSUME ConnectionTypeOK, ConnectionTypeOK',
         Len(outputBuffer_') <= Len(outputBuffer_),
         \/ UNCHANGED pending
         \/ pending # << >> /\ pending' = Tail(pending)
         \/ \E g \in Functor : /\ g # <<"highWaterMark">>
                               /\ pending' = Append(pending, g)
  PROVE  HighWaterReported
<1>1. pending \in Seq(Functor) /\ Reports(pending) \in Nat
  BY ReportsQueue DEF ConnectionTypeOK
<1>2. ~(/\ Len(outputBuffer_) < highWaterMark_
        /\ Len(outputBuffer_') >= highWaterMark_)
  BY ConnectionAssumption DEF ConnectionTypeOK
<1>3. Reports(pending') \in Nat /\ Reports(pending') <= Reports(pending)
  <2>1. CASE UNCHANGED pending BY <1>1, <2>1
  <2>2. CASE pending # << >> /\ pending' = Tail(pending)
    BY <1>1, <2>2, ReportsQueue
  <2>3. ASSUME NEW g \in Functor, g # <<"highWaterMark">>,
               pending' = Append(pending, g)
        PROVE  /\ Reports(pending') \in Nat
               /\ Reports(pending') <= Reports(pending)
    BY <1>1, <2>3, ReportsQueue
  <2> QED BY <2>1, <2>2, <2>3
<1> QED BY <1>1, <1>2, <1>3 DEF HighWaterReported

(* sendInLoop, called directly or run from the head of the queue.          *)
LEMMA SendReports ==
  ASSUME ConnectionTypeOK, NEW data \in Seq(Bytes), NEW q \in Seq(Functor),
         \/ q = pending
         \/ /\ pending # << >> /\ q = Tail(pending)
            /\ Head(pending) # <<"highWaterMark">>,
         sendInLoop(data, q)
  PROVE  HighWaterReported
<1>1. /\ Reports(pending) \in Nat
      /\ Reports(q) = Reports(pending)
  <2>1. pending \in Seq(Functor) /\ Reports(pending) \in Nat
    BY ReportsQueue DEF ConnectionTypeOK
  <2>2. CASE q = pending BY <2>1, <2>2
  <2>3. CASE /\ pending # << >> /\ q = Tail(pending)
             /\ Head(pending) # <<"highWaterMark">>
    <3>1. Reports(Tail(pending)) = Reports(pending) - 0
      BY <2>1, <2>3, ReportsQueue, Zenon
    <3> QED BY <2>1, <2>3, <3>1
  <2> QED BY <2>2, <2>3
<1>2. /\ Len(outputBuffer_) \in Nat /\ outputBuffer_ \in Seq(Bytes)
      /\ highWaterMark_ \in Nat
  BY ConnectionAssumption DEF ConnectionTypeOK
<1>3. CASE SendNothing(q)
  <2>1. pending' = q /\ UNCHANGED outputBuffer_ BY <1>3 DEF SendNothing
  <2> QED BY <1>1, <1>2, <2>1 DEF HighWaterReported
<1>4. CASE SendData(data, q)
  <2>1. PICK first \in Seq(Bytes), rest \in Seq(Bytes),
             done \in Seq(Functor), high \in Seq(Functor) :
          SentAs(data, q, first, rest, done, high)
    BY <1>4, Zenon DEF SendData
  <2>2. /\ outputBuffer_' = outputBuffer_ \o rest
        /\ done \in {<< >>, << <<"writeComplete">> >>}
        /\ high = IF rest # << >> /\ Crosses(Len(outputBuffer_), Len(rest))
                    THEN << <<"highWaterMark">> >> ELSE << >>
        /\ pending' = q \o done \o high
    BY <2>1, Zenon DEF SentAs
  <2>3. /\ Len(outputBuffer_') = Len(outputBuffer_) + Len(rest)
        /\ Len(rest) \in Nat /\ (rest = << >> <=> Len(rest) = 0)
    BY <1>2, <2>2
  <2>4. /\ Reports(<< >>) = 0
        /\ Reports(<< <<"writeComplete">> >>) = 0
        /\ Reports(<< <<"highWaterMark">> >>) = 1
    <3> DEFINE e == <<"highWaterMark">>
               c == <<"writeComplete">>
    <3>1. c # e OBVIOUS
    <3> HIDE DEF c, e
    <3>2. \A r : Reports(r) = Count(r, e) BY DEF Reports, Count, e
    <3>3. Count(<<c>>, e) = 0 /\ Count(<<e>>, e) = 1 BY <3>1, CountOne
    <3>4. Count(<< >>, e) = 0
      <4>1. {k \in DOMAIN << >> : << >>[k] = e} = {} OBVIOUS
      <4> QED BY <4>1, FS_EmptySet DEF Count
    <3> QED BY <3>2, <3>3, <3>4 DEF c, e
  <2>5. Reports(pending') = Reports(q) + Reports(done) + Reports(high)
    <3>1. q \o done \in Seq(Functor) OBVIOUS
    <3>2. Reports((q \o done) \o high) = Reports(q \o done) + Reports(high)
      BY <3>1, ReportsQueue, Zenon
    <3>3. Reports(q \o done) = Reports(q) + Reports(done)
      BY ReportsQueue, Zenon
    <3> QED BY <2>2, <3>2, <3>3
  <2>6. Reports(done) = 0 BY <2>2, <2>4, Zenon
  <2>7. Reports(high)
          = IF rest # << >> /\ Crosses(Len(outputBuffer_), Len(rest))
              THEN 1 ELSE 0
    BY <2>2, <2>4, Zenon
  <2>8. (rest # << >> /\ Crosses(Len(outputBuffer_), Len(rest)))
          <=> /\ Len(outputBuffer_) < highWaterMark_
              /\ Len(outputBuffer_') >= highWaterMark_
    BY <1>2, <2>3 DEF Crosses
  <2>9. Reports(pending') - Reports(pending)
          = IF rest # << >> /\ Crosses(Len(outputBuffer_), Len(rest))
              THEN 1 ELSE 0
    BY <1>1, <2>5, <2>6, <2>7
  <2> QED BY <2>8, <2>9 DEF HighWaterReported
<1> QED BY <1>3, <1>4, SendInLoopEffect

(* sendFileInLoop, likewise.                                               *)
LEMMA SendFileReports ==
  ASSUME ConnectionTypeOK, ConnectionTypeOK', NEW f \in Files,
         NEW offset \in 0 .. FileLen[f], NEW q \in Seq(Functor),
         q = pending \/ (pending # << >> /\ q = Tail(pending)),
         sendFileInLoop(f, offset, q), UNCHANGED outputBuffer_
  PROVE  HighWaterReported
<1>1. PICK n \in 0 .. FileLen[f] - offset, more \in Seq(Functor) :
        /\ more \in {<< >>, << <<"writeComplete">> >>,
                     << <<"sendFileInLoop", f, offset + n>> >>}
        /\ pending' = q \o more
  BY SendFileInLoopEffect DEF SendPiece
<1> DEFINE e == <<"highWaterMark">>
<1>2. Reports(more) = 0
  <2>1. ~Some(more, {e})
    <3>1. CASE more = << >> BY <3>1, EmptyQueue
    <3>2. CASE more = << <<"writeComplete">> >> BY <3>2, OneEntry
    <3>3. CASE more = << <<"sendFileInLoop", f, offset + n>> >>
      BY <3>3, OneEntry
    <3> QED BY <1>1, <3>1, <3>2, <3>3
  <2>2. AtMostOne(more, {e}) BY <2>1 DEF AtMostOne, Some
  <2> HIDE DEF e
  <2>3. Cardinality({k \in DOMAIN more : more[k] = e}) = 0
    BY <2>1, <2>2, CountEntry
  <2> QED BY <2>3 DEF Reports, e
<1>3. pending \in Seq(Functor) /\ Reports(pending) \in Nat
  BY ReportsQueue DEF ConnectionTypeOK
<1>4. Reports(q) \in Nat /\ Reports(q) <= Reports(pending)
  <2>1. CASE q = pending BY <1>3, <2>1
  <2>2. CASE pending # << >> /\ q = Tail(pending)
    <3>1. /\ Reports(Tail(pending)) \in Nat
          /\ Reports(Tail(pending)) = Reports(pending)
               - (IF Head(pending) = e THEN 1 ELSE 0)
      BY <1>3, <2>2, ReportsQueue, Zenon
    <3> HIDE DEF e
    <3> QED BY <1>3, <2>2, <3>1
  <2> QED BY <2>1, <2>2
<1>5. Reports(pending') = Reports(q)
  <2>1. Reports(q \o more) = Reports(q) + Reports(more)
    BY ReportsQueue, Zenon
  <2> QED BY <1>1, <1>2, <1>4, <2>1
<1>6. ~(/\ Len(outputBuffer_) < highWaterMark_
        /\ Len(outputBuffer_') >= highWaterMark_)
  BY ConnectionAssumption DEF ConnectionTypeOK
<1> QED BY <1>3, <1>4, <1>5, <1>6 DEF HighWaterReported

(* Every step queues a report exactly when the output reaches the mark.    *)
LEMMA NextReports ==
  ASSUME ConnectionTypeOK, [Next]_vars
  PROVE  HighWaterReported
<1>0. ConnectionTypeOK' BY NextType
<1>t. pending \in Seq(Functor) /\ Len(outputBuffer_) \in Nat
  BY DEF ConnectionTypeOK
<1>1. CASE OtherStep
  <2>1. ASSUME NEW k \in Plain \ {"highWaterMark"}
        PROVE  <<k>> \in Functor /\ <<k>> # <<"highWaterMark">>
    BY FunctorKinds
  <2> QED BY <1>0, <1>1, <2>1, OtherReports DEF OtherStep
<1>2. CASE RunSendInLoop
  <2>1. /\ NextFunctor("sendInLoop") /\ pending # << >>
        /\ sendInLoop(Payload(Head(pending)[2]), Tail(pending))
    BY <1>2 DEF RunSendInLoop, NextFunctor
  <2>2. Head(pending) # <<"highWaterMark">> BY <2>1 DEF NextFunctor
  <2> QED BY <2>1, <2>2, HeadSend, SendReports
<1>3. CASE RunSendFileInLoop
  <2>1. /\ NextFunctor("sendFileInLoop") /\ pending # << >>
        /\ sendFileInLoop(Head(pending)[2], Head(pending)[3], Tail(pending))
        /\ UNCHANGED outputBuffer_
    BY <1>3 DEF RunSendFileInLoop, NextFunctor
  <2> QED BY <1>0, <2>1, HeadSendFile, SendFileReports
<1>4. ASSUME NEW m \in Messages, OwnSend(m) PROVE HighWaterReported
  BY <1>4, <1>t, PayloadType, SendReports DEF OwnSend
<1>5. ASSUME NEW f \in Files, OwnSendFile(f) PROVE HighWaterReported
  <2>1. 0 \in 0 .. FileLen[f] BY ConnectionAssumption
  <2> QED BY <1>0, <1>t, <1>5, <2>1, SendFileReports DEF OwnSendFile
<1>6. ASSUME NEW w \in Workers, WorkerQueueSend(w) PROVE HighWaterReported
  <2> DEFINE g == IF worker[w][2] \in Files
                    THEN <<"sendFileInLoop", worker[w][2], 0>>
                    ELSE <<"sendInLoop", worker[w][2]>>
  <2>1. g # <<"highWaterMark">> OBVIOUS
  <2>2. g \in Functor /\ pending' = Append(pending, g)
        /\ UNCHANGED outputBuffer_
    BY <1>6, WorkerQueues
  <2> HIDE DEF g
  <2> QED BY <1>0, <1>t, <2>1, <2>2, OtherReports
<1>7. ASSUME NEW w \in Workers, NEW m \in Messages \cup Files,
             WorkerSend(w, m)
      PROVE  HighWaterReported
  BY <1>0, <1>t, <1>7, OtherReports DEF WorkerSend, WorkerRest
<1> QED BY <1>1, <1>2, <1>3, <1>4, <1>5, <1>6, <1>7, StepKinds

(***************************************************************************)
(* highWaterMarkCallback_ is queued once whenever sendInLoop takes the     *)
(* output from below the mark to it or beyond, and at no other time: not   *)
(* by a send above the mark, by a file or by handleWrite                   *)
(* (TcpConnection.cc:195-204).                                             *)
(***************************************************************************)
THEOREM HighWaterCorrect == Spec => HighWaterOnce
<1>1. ConnectionTypeOK /\ [Next]_vars => [HighWaterReported]_vars
  BY NextReports
<1> QED BY <1>1, ConnectionTypeCorrect, PTL DEF Spec, HighWaterOnce

-----------------------------------------------------------------------------
(* Each message and file in order *)

(* A byte of m may be at place k of q, and nowhere else, if the one before *)
(* it has come before.                                                     *)
InPlace(q, k, m, i) ==
  /\ i \in 1 .. Len(Payload(m))
  /\ \A j \in DOMAIN q : q[j] = <<m, i>> => j = k
  /\ i > 1 => \E j \in 1 .. k - 1 : q[j] = <<m, i - 1>>

OnceInOrder(q) == \A k \in DOMAIN q : InPlace(q, k, q[k][1], q[k][2])

(* Of m, q has exactly the first n bytes.                                  *)
Upto(q, m, n) == \A i \in Nat : Some(q, {<<m, i>>}) <=> i \in 1 .. n

(* r is a run of bytes of m, from the one after i on.                      *)
Run(r, m, i) == \A k \in 1 .. Len(r) : r[k] = <<m, i + k>>

(* A run that goes on where q has come to.                                 *)
LEMMA RunExtends ==
  ASSUME NEW q \in Seq(Bytes), NEW r \in Seq(Bytes),
         NEW m \in Messages \cup Files, NEW i \in Nat,
         OnceInOrder(q), Upto(q, m, i), Run(r, m, i),
         i + Len(r) <= Len(Payload(m))
  PROVE  /\ OnceInOrder(q \o r)
         /\ Upto(q \o r, m, i + Len(r))
         /\ \A x \in Messages \cup Files : \A n \in Nat :
              x # m /\ Upto(q, x, n) => Upto(q \o r, x, n)
<1> DEFINE s == q \o r
           a == Len(q)
           b == Len(r)
<1>1. /\ a \in Nat /\ DOMAIN q = 1 .. a
      /\ b \in Nat /\ DOMAIN r = 1 .. b
      /\ DOMAIN s = 1 .. a + b
      /\ \A k \in 1 .. a : s[k] = q[k]
      /\ \A k \in a + 1 .. a + b :
           k - a \in 1 .. b /\ s[k] = r[k - a]
      /\ \A k \in 1 .. b : a + k \in 1 .. a + b /\ s[a + k] = r[k]
  BY ConcatProperties
<1>2. Len(Payload(m)) \in Nat BY PayloadType
<1>3. \A k \in a + 1 .. a + b : s[k] = <<m, i + (k - a)>>
  BY <1>1 DEF Run
<1>4. \A k \in 1 .. a : q[k] \in Bytes /\ q[k] = <<q[k][1], q[k][2]>>
        /\ q[k][2] \in Nat
  BY <1>1 DEF Bytes
<1>5. \A k \in 1 .. a : q[k][1] = m => q[k][2] \in 1 .. i
  <2> SUFFICES ASSUME NEW k \in 1 .. a, q[k][1] = m PROVE q[k][2] \in 1 .. i
    OBVIOUS
  <2>1. k \in DOMAIN q /\ q[k] = <<m, q[k][2]>> /\ q[k][2] \in Nat
    BY <1>1, <1>4
  <2>2. Some(q, {<<m, q[k][2]>>}) BY <2>1, Zenon DEF Some
  <2> QED BY <2>1, <2>2, Zenon DEF Upto
<1>6. \A j \in 1 .. i : \E k \in 1 .. a : q[k] = <<m, j>>
  <2> SUFFICES ASSUME NEW j \in 1 .. i
               PROVE  \E k \in 1 .. a : q[k] = <<m, j>>
    OBVIOUS
  <2>1. Some(q, {<<m, j>>}) BY DEF Upto
  <2> QED BY <1>1, <2>1, Zenon DEF Some
<1> HIDE DEF s, a, b
<1>7. Upto(s, m, i + b)
  <2> SUFFICES ASSUME NEW j \in Nat
               PROVE  Some(s, {<<m, j>>}) <=> j \in 1 .. i + b
    BY DEF Upto
  <2>1. ASSUME NEW k \in DOMAIN s, s[k] = <<m, j>> PROVE j \in 1 .. i + b
    <3>1. CASE k \in 1 .. a
      <4>1. q[k] = <<m, j>> BY <1>1, <2>1, <3>1
      <4>2. q[k][1] = m /\ q[k][2] = j BY <4>1
      <4> QED BY <1>1, <1>5, <3>1, <4>2
    <3>2. CASE k \in a + 1 .. a + b
      <4>1. j = i + (k - a) BY <1>3, <2>1, <3>2
      <4> QED BY <1>1, <3>2, <4>1
    <3> QED BY <1>1, <2>1, <3>1, <3>2
  <2>2. ASSUME j \in 1 .. i PROVE \E k \in DOMAIN s : s[k] = <<m, j>>
    <3>1. PICK k \in 1 .. a : q[k] = <<m, j>> BY <1>6, <2>2
    <3>2. k \in DOMAIN s /\ s[k] = q[k] BY <1>1
    <3> QED BY <3>1, <3>2, Zenon
  <2>3. ASSUME j \in i + 1 .. i + b
        PROVE  \E k \in DOMAIN s : s[k] = <<m, j>>
    <3>1. a + (j - i) \in a + 1 .. a + b /\ a + (j - i) \in DOMAIN s
      BY <1>1, <2>3
    <3>2. i + ((a + (j - i)) - a) = j BY <1>1
    <3> QED BY <1>3, <3>1, <3>2
  <2>4. j \in 1 .. i + b => j \in 1 .. i \/ j \in i + 1 .. i + b BY <1>1
  <2>5. Some(s, {<<m, j>>}) <=> \E k \in DOMAIN s : s[k] = <<m, j>>
    BY Zenon DEF Some
  <2> QED BY <2>1, <2>2, <2>3, <2>4, <2>5
<1>8. ASSUME NEW x \in Messages \cup Files, NEW n \in Nat, x # m,
             Upto(q, x, n)
      PROVE  Upto(s, x, n)
  <2> SUFFICES ASSUME NEW j \in Nat
               PROVE  Some(s, {<<x, j>>}) <=> Some(q, {<<x, j>>})
    BY <1>8 DEF Upto
  <2>1. ASSUME NEW k \in DOMAIN s, s[k] = <<x, j>>
        PROVE  Some(q, {<<x, j>>})
    <3>1. k \in 1 .. a BY <1>1, <1>3, <1>8, <2>1
    <3> QED BY <1>1, <2>1, <3>1 DEF Some
  <2>2. Some(q, {<<x, j>>}) => Some(s, {<<x, j>>}) BY <1>1 DEF Some
  <2> QED BY <2>1, <2>2 DEF Some
<1>9. OnceInOrder(s)
  <2>1. ASSUME NEW k \in 1 .. a
        PROVE  InPlace(s, k, s[k][1], s[k][2])
    <3>1. s[k] = q[k] /\ k \in DOMAIN q BY <1>1
    <3>2. /\ q[k][2] \in 1 .. Len(Payload(q[k][1]))
          /\ \A j \in DOMAIN q : q[j] = <<q[k][1], q[k][2]>> => j = k
          /\ q[k][2] > 1
               => \E j \in 1 .. k - 1 : q[j] = <<q[k][1], q[k][2] - 1>>
      BY <3>1 DEF OnceInOrder, InPlace
    <3>3. ASSUME NEW j \in DOMAIN s, s[j] = <<q[k][1], q[k][2]>>
          PROVE  j = k
      <4>1. CASE j \in 1 .. a BY <1>1, <3>2, <3>3, <4>1
      <4>2. CASE j \in a + 1 .. a + b
        <5>1. q[k][1] = m /\ q[k][2] = i + (j - a) BY <1>3, <3>3, <4>2
        <5>2. i + (j - a) \in 1 .. i BY <1>5, <5>1
        <5> QED BY <1>1, <4>2, <5>2
      <4> QED BY <1>1, <3>3, <4>1, <4>2
    <3>4. \A j \in 1 .. k - 1 : s[j] = q[j] BY <1>1
    <3>5. InPlace(s, k, q[k][1], q[k][2])
      BY <3>2, <3>3, <3>4 DEF InPlace
    <3> QED BY <3>1, <3>5
  <2>2. ASSUME NEW k \in a + 1 .. a + b
        PROVE  InPlace(s, k, s[k][1], s[k][2])
    <3>1. /\ s[k][1] = m /\ s[k][2] = i + (k - a)
          /\ i + (k - a) \in Nat
      BY <1>1, <1>3
    <3>2. i + (k - a) \in 1 .. Len(Payload(m)) BY <1>1, <1>2 DEF b
    <3>3. ASSUME NEW j \in DOMAIN s, s[j] = <<m, i + (k - a)>>
          PROVE  j = k
      <4>1. CASE j \in 1 .. a
        <5>1. q[j] = <<m, i + (k - a)>> BY <1>1, <3>3, <4>1
        <5>2. q[j][1] = m /\ q[j][2] = i + (k - a) BY <5>1
        <5>3. i + (k - a) \in 1 .. i BY <1>5, <4>1, <5>2
        <5> QED BY <1>1, <5>3
      <4>2. CASE j \in a + 1 .. a + b
        <5>1. i + (j - a) = i + (k - a) BY <1>3, <3>3, <4>2
        <5> QED BY <1>1, <4>2, <5>1
      <4> QED BY <1>1, <3>3, <4>1, <4>2
    <3>4. ASSUME i + (k - a) > 1
          PROVE  \E j \in 1 .. k - 1 : s[j] = <<m, (i + (k - a)) - 1>>
      <4>1. CASE k = a + 1
        <5>1. i \in 1 .. i /\ (i + (k - a)) - 1 = i BY <1>1, <3>4, <4>1
        <5>2. PICK j \in 1 .. a : q[j] = <<m, i>> BY <1>6, <5>1
        <5> QED BY <1>1, <4>1, <5>1, <5>2
      <4>2. CASE k # a + 1
        <5>1. /\ k - 1 \in a + 1 .. a + b /\ k - 1 \in 1 .. k - 1
              /\ i + ((k - 1) - a) = (i + (k - a)) - 1
          BY <1>1, <4>2
        <5> QED BY <1>3, <5>1
      <4> QED BY <4>1, <4>2
    <3>5. InPlace(s, k, m, i + (k - a))
      BY <3>2, <3>3, <3>4, Zenon DEF InPlace
    <3> QED BY <3>1, <3>5
  <2>3. \A k \in DOMAIN s : k \in 1 .. a \/ k \in a + 1 .. a + b BY <1>1
  <2> QED BY <2>1, <2>2, <2>3 DEF OnceInOrder
<1> QED BY <1>7, <1>8, <1>9 DEF s, b

(***************************************************************************)
(* Who has a message or file that was passed to send or sendFile: a worker *)
(* that is to queue it, or one functor, and of what it has yet to send     *)
(* nothing has been accepted.  A file is resumed where it has come to.     *)
(***************************************************************************)
Offsets(m) == IF m \in Files THEN 0 .. FileLen[m] ELSE {0}

Entry(m, i) == IF m \in Files THEN <<"sendFileInLoop", m, i>>
                              ELSE <<"sendInLoop", m>>

Entries(m) == {Entry(m, i) : i \in Offsets(m)}

Sending(m) == \E w \in Workers : worker[w] = <<"send", m>>

Owner(m) ==
  /\ AtMostOne(pending, Entries(m))
  /\ \A v, w \in Workers :
       worker[v] = <<"send", m>> /\ worker[w] = <<"send", m>> => v = w
  /\ ~(Some(pending, Entries(m)) /\ Sending(m))
  /\ m \notin passed => ~Some(pending, Entries(m)) /\ ~Sending(m)
  /\ m \notin passed \/ Sending(m) => Upto(accepted, m, 0)
  /\ \A i \in Offsets(m) :
       Some(pending, {Entry(m, i)}) => Upto(accepted, m, i)

OrderInv ==
  /\ OnceInOrder(accepted)
  /\ \A m \in Messages \cup Files : Owner(m)

(* The functors that send are told apart by what they send, and from the   *)
(* others.                                                                 *)
LEMMA EntryKinds ==
  ASSUME NEW m \in Messages \cup Files, NEW i \in Offsets(m)
  PROVE  /\ i \in Nat
         /\ 0 \in Offsets(m)
         /\ Entry(m, i) \in Functor
         /\ Entry(m, i) \in Entries(m)
         /\ \A k \in Plain : Entry(m, i) # <<k>>
         /\ \A x \in Messages \cup Files : \A j \in Offsets(x) :
              Entry(m, i) = Entry(x, j) => m = x /\ i = j
<1>1. i \in Nat /\ 0 \in Offsets(m) BY ConnectionAssumption DEF Offsets
<1>2. Entry(m, i) \in Functor BY FunctorKinds DEF Entry, Offsets
<1>3. Entry(m, i) \in Entries(m) BY DEF Entries
<1>4. \A k \in Plain : Entry(m, i) # <<k>> BY DEF Entry, Plain
<1>5. ASSUME NEW x \in Messages \cup Files, NEW j \in Offsets(x),
             Entry(m, i) = Entry(x, j)
      PROVE  m = x /\ i = j
  <2>1. CASE m \in Files /\ x \in Files BY <1>5, <2>1 DEF Entry
  <2>2. CASE m \notin Files /\ x \notin Files
    BY <1>5, <2>2 DEF Entry, Offsets
  <2>3. CASE m \in Files /\ x \notin Files BY <1>5, <2>3 DEF Entry
  <2>4. CASE m \notin Files /\ x \in Files BY <1>5, <2>4 DEF Entry
  <2> QED BY <2>1, <2>2, <2>3, <2>4
<1> QED BY <1>1, <1>2, <1>3, <1>4, <1>5

(* To have an entry of m is to have one of its entries.                    *)
LEMMA SomeEntry ==
  ASSUME NEW q, NEW m
  PROVE  Some(q, Entries(m)) <=> \E i \in Offsets(m) : Some(q, {Entry(m, i)})
BY DEF Some, Entries

(* A step that does nothing for m.                                         *)
Keeps(m) ==
  /\ AtMostOne(pending, Entries(m)) => AtMostOne(pending', Entries(m))
  /\ \A i \in Offsets(m) :
       Some(pending', {Entry(m, i)}) => Some(pending, {Entry(m, i)})
  /\ \A w \in Workers : worker'[w] = <<"send", m>> => worker[w] = <<"send", m>>
  /\ m \in passed => m \in passed'
  /\ \A n \in Nat : Upto(accepted, m, n) => Upto(accepted', m, n)

(* It leaves m where it was.                                               *)
LEMMA KeepsOwner ==
  ASSUME NEW m \in Messages \cup Files, Owner(m), Keeps(m)
  PROVE  Owner(m)'
<1>1. Some(pending', Entries(m)) => Some(pending, Entries(m))
  BY SomeEntry, Zenon DEF Keeps
<1>2. Sending(m)' => Sending(m) BY Zenon DEF Keeps, Sending
<1>3. AtMostOne(pending', Entries(m)) BY Zenon DEF Keeps, Owner
<1>4. \A v, w \in Workers :
        worker'[v] = <<"send", m>> /\ worker'[w] = <<"send", m>> => v = w
  BY Zenon DEF Keeps, Owner
<1>5. \A i \in Offsets(m) :
        Some(pending', {Entry(m, i)}) => Upto(accepted', m, i)
  <2>1. \A i \in Offsets(m) : i \in Nat BY EntryKinds
  <2> QED BY <2>1, Zenon DEF Keeps, Owner
<1>6. m \notin passed' \/ Sending(m)' => Upto(accepted', m, 0)
  <2>1. Upto(accepted, m, 0) => Upto(accepted', m, 0) BY DEF Keeps
  <2>2. m \in passed => m \in passed' BY DEF Keeps
  <2> QED BY <1>2, <2>1, <2>2 DEF Owner
<1>7. m \in passed => m \in passed' BY DEF Keeps
<1> QED BY <1>1, <1>2, <1>3, <1>4, <1>5, <1>6, <1>7, Zenon DEF Owner

(* A step of the queue that has nothing new of m.                          *)
LEMMA PendingKeeps ==
  ASSUME ConnectionTypeOK, NEW m \in Messages \cup Files,
         NEW q \in Seq(Functor), NEW new \in Seq(Functor),
         q = pending \/ (pending # << >> /\ q = Tail(pending)),
         pending' = q \o new, ~Some(new, Entries(m))
  PROVE  /\ AtMostOne(pending, Entries(m)) => AtMostOne(pending', Entries(m))
         /\ \A i \in Offsets(m) :
              Some(pending', {Entry(m, i)}) => Some(pending, {Entry(m, i)})
<1>1. pending \in Seq(Functor) BY DEF ConnectionTypeOK
<1>2. AtMostOne(pending, Entries(m)) => AtMostOne(q \o new, Entries(m))
  BY <1>1, StepQueue, Zenon
<1>3. ASSUME NEW i \in Offsets(m)
      PROVE  Some(q \o new, {Entry(m, i)}) => Some(pending, {Entry(m, i)})
  <2>1. ~Some(new, {Entry(m, i)}) BY SomeEntry, Zenon
  <2> QED BY <1>1, <2>1, StepQueue, Zenon
<1> QED BY <1>2, <1>3

(* A send of m from the byte after i on: a run of its bytes is accepted,   *)
(* and of what is queued only a functor that goes on from there sends.     *)
SendRun(m, i, q, r, new) ==
  /\ accepted' = accepted \o r
  /\ Run(r, m, i) /\ i + Len(r) <= Len(Payload(m))
  /\ pending' = q \o new
  /\ AtMostOne(new, Entries(m))
  /\ \A x \in Messages \cup Files : \A j \in Offsets(x) :
       Some(new, {Entry(x, j)}) => x = m /\ j = i + Len(r)

SendsFrom(m, i, q) ==
  \E r \in Seq(Bytes), new \in Seq(Functor) : SendRun(m, i, q, r, new)

(* Entries that do not send.                                               *)
LEMMA PlainQueue ==
  ASSUME NEW x \in Messages \cup Files
  PROVE  /\ ~Some(<< >>, Entries(x))
         /\ \A k \in Plain : ~Some(<< <<k>> >>, Entries(x))
<1>1. ~Some(<< >>, Entries(x)) BY EmptyQueue
<1>2. ASSUME NEW k \in Plain PROVE ~Some(<< <<k>> >>, Entries(x))
  <2>1. \A i \in Offsets(x) : Entry(x, i) # <<k>> BY EntryKinds
  <2>2. <<k>> \notin Entries(x) BY <2>1, Zenon DEF Entries
  <2> QED BY <2>2, OneEntry, Zenon
<1> QED BY <1>1, <1>2

(* sendInLoop sends all of the message or nothing.                         *)
LEMMA SendInLoopRun ==
  ASSUME ConnectionTypeOK, NEW m \in Messages, NEW q \in Seq(Functor),
         sendInLoop(Payload(m), q)
  PROVE  SendsFrom(m, 0, q)
<1> DEFINE data == Payload(m)
<1>1. /\ data \in Seq(Bytes) /\ Len(data) \in Nat
      /\ \A i \in 1 .. Len(data) : data[i] = <<m, i>>
  BY PayloadType
<1>2. SendNothing(q) \/ SendData(data, q) BY <1>1, SendInLoopEffect
<1> HIDE DEF data
<1>3. CASE SendNothing(q)
  <2>1. accepted' = accepted \o << >> /\ pending' = q \o << >>
    BY <1>3, ConcatEmptySeq DEF SendNothing, ConnectionTypeOK
  <2>2. Run(<< >>, m, 0) /\ 0 + Len(<< >>) <= Len(Payload(m))
    BY <1>1 DEF Run, data
  <2>3. /\ AtMostOne(<< >>, Entries(m))
        /\ \A x : ~Some(<< >>, x)
    BY EmptyQueue
  <2>4. SendRun(m, 0, q, << >>, << >>)
    BY <2>1, <2>2, <2>3 DEF SendRun
  <2>5. << >> \in Seq(Bytes) /\ << >> \in Seq(Functor) OBVIOUS
  <2> QED BY <2>4, <2>5, Zenon DEF SendsFrom
<1>4. CASE SendData(data, q)
  <2>1. PICK first \in Seq(Bytes), rest \in Seq(Bytes),
             done \in Seq(Functor), high \in Seq(Functor) :
          SentAs(data, q, first, rest, done, high)
    BY <1>4, Zenon DEF SendData
  <2>2. /\ accepted' = accepted \o data
        /\ done \in {<< >>, << <<"writeComplete">> >>}
        /\ high \in {<< >>, << <<"highWaterMark">> >>}
        /\ pending' = q \o done \o high
    BY <2>1, Zenon DEF SentAs
  <2>3. (q \o done) \o high = q \o (done \o high)
    BY AssocQueues, Zenon
  <2>4. done \o high \in Seq(Functor) OBVIOUS
  <2>5. \A x \in Messages \cup Files : ~Some(done \o high, Entries(x))
    <3> SUFFICES ASSUME NEW x \in Messages \cup Files
                 PROVE  ~Some(done \o high, Entries(x))
      OBVIOUS
    <3>1. "writeComplete" \in Plain /\ "highWaterMark" \in Plain BY DEF Plain
    <3>2. ~Some(done, Entries(x)) /\ ~Some(high, Entries(x))
      BY <2>2, <3>1, PlainQueue, Zenon
    <3>3. Some(done \o high, Entries(x))
            <=> Some(done, Entries(x)) \/ Some(high, Entries(x))
      BY ConcatQueue, Zenon
    <3> QED BY <3>2, <3>3
  <2> DEFINE new == done \o high
  <2> HIDE DEF new
  <2>6. \A x \in Messages \cup Files : ~Some(new, Entries(x))
    BY <2>5 DEF new
  <2>7. AtMostOne(new, Entries(m)) BY <2>6 DEF AtMostOne, Some
  <2>8. \A x \in Messages \cup Files : \A j \in Offsets(x) :
          ~Some(new, {Entry(x, j)})
    BY <2>6, SomeEntry, Zenon
  <2>9. Run(data, m, 0) /\ 0 + Len(data) <= Len(Payload(m))
    <3>1. \A k \in 1 .. Len(data) : 0 + k = k OBVIOUS
    <3> QED BY <1>1, <3>1 DEF Run, data
  <2>10. pending' = q \o new BY <2>2, <2>3 DEF new
  <2>11. SendRun(m, 0, q, data, new)
    BY <2>2, <2>7, <2>8, <2>9, <2>10, Zenon DEF SendRun
  <2> QED BY <1>1, <2>4, <2>11, Zenon DEF SendsFrom, new
<1> QED BY <1>2, <1>3, <1>4

(* sendFileInLoop sends a piece of the file.                               *)
LEMMA SendFileInLoopRun ==
  ASSUME ConnectionTypeOK, NEW f \in Files, NEW offset \in 0 .. FileLen[f],
         NEW q \in Seq(Functor), sendFileInLoop(f, offset, q)
  PROVE  SendsFrom(f, offset, q)
<1>1. PICK n \in 0 .. FileLen[f] - offset, more \in Seq(Functor) :
        /\ accepted' = accepted \o Piece(f, offset, n)
        /\ more \in {<< >>, << <<"writeComplete">> >>,
                     << <<"sendFileInLoop", f, offset + n>> >>}
        /\ pending' = q \o more
  BY SendFileInLoopEffect DEF SendPiece
<1> DEFINE r == Piece(f, offset, n)
<1>2. /\ r \in Seq(Bytes) /\ Len(r) = n
      /\ \A i \in 1 .. n : r[i] = <<f, offset + i>>
  BY PieceType
<1>3. FileLen[f] \in Nat /\ Len(Payload(f)) = FileLen[f]
  BY PayloadType, ConnectionAssumption
<1>4. offset + n \in Offsets(f) /\ offset + n <= Len(Payload(f))
  BY <1>3 DEF Offsets
<1>5. <<"sendFileInLoop", f, offset + n>> = Entry(f, offset + n)
  BY DEF Entry
<1> DEFINE g == Entry(f, offset + n)
<1> HIDE DEF r, g
<1>6. Run(r, f, offset) /\ offset + Len(r) <= Len(Payload(f))
  BY <1>2, <1>4 DEF Run
<1>7. /\ AtMostOne(more, Entries(f))
      /\ \A x \in Messages \cup Files : \A j \in Offsets(x) :
           Some(more, {Entry(x, j)}) => x = f /\ j = offset + n
  <2>1. CASE more \in {<< >>, << <<"writeComplete">> >>}
    <3>1. "writeComplete" \in Plain BY DEF Plain
    <3>2. \A x \in Messages \cup Files : ~Some(more, Entries(x))
      BY <2>1, <3>1, PlainQueue, Zenon
    <3>3. AtMostOne(more, Entries(f)) BY <3>2 DEF AtMostOne, Some
    <3> QED BY <3>2, <3>3, SomeEntry, Zenon
  <2>2. CASE more = <<g>>
    <3>1. AtMostOne(more, Entries(f)) BY <2>2, OneEntry
    <3>2. ASSUME NEW x \in Messages \cup Files, NEW j \in Offsets(x),
                 Some(more, {Entry(x, j)})
          PROVE  x = f /\ j = offset + n
      <4>1. g = Entry(x, j) BY <2>2, <3>2, OneEntry
      <4> QED BY <1>4, <4>1, EntryKinds DEF g
    <3> QED BY <3>1, <3>2
  <2> QED BY <1>1, <1>5, <2>1, <2>2 DEF g
<1>8. SendRun(f, offset, q, r, more)
  <2>1. offset + Len(r) = offset + n BY <1>2
  <2> QED BY <1>1, <1>6, <1>7, <2>1 DEF SendRun, r
<1> QED BY <1>2, <1>8, Zenon DEF SendsFrom

(* A send of m by the one who had it.                                      *)
LEMMA SendOwner ==
  ASSUME ConnectionTypeOK, OrderInv, NEW m \in Messages \cup Files,
         NEW i \in Offsets(m), NEW q \in Seq(Functor),
         q = pending \/ (pending # << >> /\ q = Tail(pending)),
         SendsFrom(m, i, q), ~Some(q, Entries(m)), ~Sending(m),
         Upto(accepted, m, i), UNCHANGED worker, passed' = passed \cup {m}
  PROVE  OrderInv'
<1>1. PICK r \in Seq(Bytes), new \in Seq(Functor) : SendRun(m, i, q, r, new)
  BY Zenon DEF SendsFrom
<1>2. /\ accepted' = accepted \o r
      /\ Run(r, m, i) /\ i + Len(r) <= Len(Payload(m))
      /\ pending' = q \o new
      /\ AtMostOne(new, Entries(m))
      /\ \A x \in Messages \cup Files : \A j \in Offsets(x) :
           Some(new, {Entry(x, j)}) => x = m /\ j = i + Len(r)
  BY <1>1, Zenon DEF SendRun
<1>3. accepted \in Seq(Bytes) /\ i \in Nat
  BY EntryKinds DEF ConnectionTypeOK
<1>4. /\ OnceInOrder(accepted')
      /\ Upto(accepted', m, i + Len(r))
      /\ \A x \in Messages \cup Files : \A n \in Nat :
           x # m /\ Upto(accepted, x, n) => Upto(accepted', x, n)
  <2>1. OnceInOrder(accepted) BY DEF OrderInv
  <2>2. /\ OnceInOrder(accepted \o r)
        /\ Upto(accepted \o r, m, i + Len(r))
        /\ \A x \in Messages \cup Files : \A n \in Nat :
             x # m /\ Upto(accepted, x, n) => Upto(accepted \o r, x, n)
    BY <1>2, <1>3, <2>1, RunExtends, Zenon
  <2> QED BY <1>2, <2>2, Zenon
<1>5. ASSUME NEW x \in Messages \cup Files, x # m PROVE Owner(x)'
  <2>1. ~Some(new, Entries(x))
    BY <1>2, <1>5, SomeEntry, Zenon
  <2>2. /\ AtMostOne(pending, Entries(x)) => AtMostOne(pending', Entries(x))
        /\ \A j \in Offsets(x) :
             Some(pending', {Entry(x, j)}) => Some(pending, {Entry(x, j)})
    BY <1>2, <2>1, PendingKeeps, Zenon
  <2>3. Keeps(x) BY <1>4, <1>5, <2>2, Zenon DEF Keeps
  <2>4. Owner(x) BY DEF OrderInv
  <2> QED BY <2>3, <2>4, KeepsOwner
<1>6. Owner(m)'
  <2>1. m \in passed' OBVIOUS
  <2>2. ~Sending(m)' BY Zenon DEF Sending
  <2>3. /\ Some(q \o new, Entries(m))
             <=> Some(q, Entries(m)) \/ Some(new, Entries(m))
        /\ AtMostOne(q, Entries(m)) /\ AtMostOne(new, Entries(m))
             /\ ~(Some(q, Entries(m)) /\ Some(new, Entries(m)))
             => AtMostOne(q \o new, Entries(m))
    BY ConcatQueue, Zenon
  <2>4. AtMostOne(q, Entries(m)) BY DEF AtMostOne, Some
  <2>5. AtMostOne(pending', Entries(m)) BY <1>2, <2>3, <2>4, Zenon
  <2>6. ASSUME NEW j \in Offsets(m), Some(pending', {Entry(m, j)})
        PROVE  Upto(accepted', m, j)
    <3>1. Some(q \o new, {Entry(m, j)})
            <=> Some(q, {Entry(m, j)}) \/ Some(new, {Entry(m, j)})
      BY ConcatQueue, Zenon
    <3>2. ~Some(q, {Entry(m, j)}) BY SomeEntry, Zenon
    <3>3. j = i + Len(r) BY <1>2, <2>6, <3>1, <3>2, Zenon
    <3> QED BY <1>4, <3>3
  <2>7. \A v, w \in Workers :
          worker'[v] = <<"send", m>> /\ worker'[w] = <<"send", m>> => v = w
    BY Zenon DEF Sending
  <2> QED BY <2>1, <2>2, <2>5, <2>6, <2>7, Zenon DEF Owner
<1>7. \A x \in Messages \cup Files : Owner(x)' BY <1>5, <1>6
<1> QED BY <1>4, <1>7, Zenon DEF OrderInv

(* The functor at the head of the queue is the only one to send m.         *)
LEMMA HeadOwner ==
  ASSUME ConnectionTypeOK, OrderInv, NEW m \in Messages \cup Files,
         NEW i \in Offsets(m), pending # << >>, Head(pending) = Entry(m, i)
  PROVE  /\ ~Some(Tail(pending), Entries(m)) /\ ~Sending(m)
         /\ Upto(accepted, m, i) /\ m \in passed
<1>1. pending \in Seq(Functor) BY DEF ConnectionTypeOK
<1>2. Head(pending) \in Entries(m) /\ Head(pending) \in {Entry(m, i)}
  BY EntryKinds
<1>3. Some(pending, Entries(m)) /\ Some(pending, {Entry(m, i)})
  BY <1>1, <1>2, HeadEntry, Zenon
<1>4. AtMostOne(pending, Entries(m)) BY DEF OrderInv, Owner
<1>5. ~Some(Tail(pending), Entries(m))
  BY <1>1, <1>2, <1>4, TailQueue, Zenon
<1>6. Owner(m) BY DEF OrderInv
<1> QED BY <1>3, <1>5, <1>6, Zenon DEF Owner

(* One that was not passed yet is in no one's hands.                       *)
LEMMA NewOwner ==
  ASSUME OrderInv, NEW m \in (Messages \cup Files) \ passed
  PROVE  ~Some(pending, Entries(m)) /\ ~Sending(m) /\ Upto(accepted, m, 0)
<1>1. Owner(m) BY DEF OrderInv
<1> QED BY <1>1 DEF Owner

(* A worker that is to queue m is the only one to have it.                 *)
LEMMA WorkerOwner ==
  ASSUME ConnectionTypeOK, OrderInv, NEW w \in Workers, WorkerQueueSend(w)
  PROVE  OrderInv'
<1>1. PICK m \in Messages \cup Files :
        /\ worker[w] = <<"send", m>>
        /\ Entry(m, 0) \in Functor
        /\ pending' = Append(pending, Entry(m, 0))
        /\ worker' = [worker EXCEPT ![w] = <<"idle">>]
        /\ UNCHANGED <<accepted, passed>>
  BY WorkerQueues DEF Entry
<1> DEFINE g == Entry(m, 0)
<1>2. pending \in Seq(Functor) /\ worker \in [Workers -> Point]
  BY DEF ConnectionTypeOK
<1>3. 0 \in Offsets(m) BY <1>1, ConnectionAssumption DEF Offsets
<1>4. \A x \in Messages \cup Files : \A j \in Offsets(x) :
        g = Entry(x, j) => x = m /\ j = 0
  BY <1>1, <1>3, EntryKinds
<1>5. g \in Entries(m) BY <1>1, <1>3, EntryKinds
<1>q. g \in Functor /\ pending' = Append(pending, g) BY <1>1
<1> HIDE DEF g
<1>6. /\ \A v \in Workers : \A x :
           worker'[v] = <<"send", x>> => worker[v] = <<"send", x>> /\ v # w
  BY <1>1, <1>2
<1>7. \A X : /\ Some(pending', X) <=> Some(pending, X) \/ g \in X
             /\ AtMostOne(pending, X) /\ ~(Some(pending, X) /\ g \in X)
                  => AtMostOne(pending', X)
  BY <1>q, <1>2, AppendQueue
<1>8. ASSUME NEW x \in Messages \cup Files, x # m PROVE Owner(x)'
  <2>1. g \notin Entries(x) BY <1>4, <1>8, Zenon DEF Entries
  <2>2. \A j \in Offsets(x) : g \notin {Entry(x, j)} BY <1>4, <1>8
  <2>3. Keeps(x) BY <1>1, <1>6, <1>7, <2>1, <2>2, Zenon DEF Keeps
  <2>4. Owner(x) BY DEF OrderInv
  <2> QED BY <2>3, <2>4, KeepsOwner
<1>9. Owner(m)'
  <2>1. Owner(m) BY <1>1 DEF OrderInv
  <2>2. Sending(m) BY <1>1, Zenon DEF Sending
  <2>3. ~Some(pending, Entries(m)) /\ m \in passed /\ Upto(accepted, m, 0)
    BY <2>1, <2>2, Zenon DEF Owner
  <2>4. ~Sending(m)'
    <3>1. \A v \in Workers : worker[v] = <<"send", m>> => v = w
      BY <1>1, <2>1, Zenon DEF Owner
    <3> QED BY <1>6, <3>1, Zenon DEF Sending
  <2>5. AtMostOne(pending', Entries(m))
    <3>1. AtMostOne(pending, Entries(m)) BY <2>1, Zenon DEF Owner
    <3> QED BY <1>7, <2>3, <3>1, Zenon
  <2>6. ASSUME NEW j \in Offsets(m), Some(pending', {Entry(m, j)})
        PROVE  Upto(accepted', m, j)
    <3>1. ~Some(pending, {Entry(m, j)}) BY <2>3, SomeEntry, Zenon
    <3>2. g = Entry(m, j) BY <1>7, <2>6, <3>1
    <3>3. j = 0 BY <1>1, <1>4, <3>2
    <3> QED BY <1>1, <2>3, <3>3
  <2>7. \A u, v \in Workers :
          worker'[u] = <<"send", m>> /\ worker'[v] = <<"send", m>> => u = v
    BY <2>4, Zenon DEF Sending
  <2>8. m \in passed' BY <1>1, <2>3
  <2> QED BY <2>4, <2>5, <2>6, <2>7, <2>8, Zenon DEF Owner
<1>10. \A x \in Messages \cup Files : Owner(x)' BY <1>8, <1>9
<1>11. OnceInOrder(accepted') BY <1>1 DEF OrderInv
<1> QED BY <1>10, <1>11, Zenon DEF OrderInv

(* A worker takes a message or file that was not passed yet.               *)
LEMMA TakeOwner ==
  ASSUME ConnectionTypeOK, OrderInv, NEW w \in Workers,
         NEW m \in (Messages \cup Files) \ passed, WorkerSend(w, m)
  PROVE  OrderInv'
<1>1. /\ passed' = passed \cup {m}
      /\ worker' = [worker EXCEPT ![w] = <<"send", m>>]
      /\ UNCHANGED <<pending, accepted>>
  BY DEF WorkerSend, WorkerRest, histVars
<1>2. worker \in [Workers -> Point] BY DEF ConnectionTypeOK
<1>3. /\ worker'[w] = <<"send", m>>
      /\ \A v \in Workers : v # w => worker'[v] = worker[v]
  BY <1>1, <1>2
<1>4. ASSUME NEW x \in Messages \cup Files, x # m PROVE Owner(x)'
  <2>1. \A v \in Workers :
          worker'[v] = <<"send", x>> => worker[v] = <<"send", x>>
    BY <1>3, <1>4
  <2>2. Keeps(x) BY <1>1, <2>1, Zenon DEF Keeps
  <2>3. Owner(x) BY DEF OrderInv
  <2> QED BY <2>2, <2>3, KeepsOwner
<1>5. Owner(m)'
  <2>1. ~Some(pending, Entries(m)) /\ ~Sending(m) /\ Upto(accepted, m, 0)
    BY NewOwner
  <2>2. \A v \in Workers : worker'[v] = <<"send", m>> => v = w
    BY <1>3, <2>1, Zenon DEF Sending
  <2>3. \A j \in Offsets(m) : ~Some(pending', {Entry(m, j)})
    BY <1>1, <2>1, SomeEntry, Zenon
  <2>4. AtMostOne(pending', Entries(m)) BY <1>1, <2>1 DEF AtMostOne, Some
  <2>5. /\ m \in passed' /\ Upto(accepted', m, 0)
        /\ ~Some(pending', Entries(m))
    BY <1>1, <2>1
  <2> QED BY <2>2, <2>3, <2>4, <2>5, Zenon DEF Owner
<1>6. \A x \in Messages \cup Files : Owner(x)' BY <1>4, <1>5
<1>7. OnceInOrder(accepted') BY <1>1 DEF OrderInv
<1> QED BY <1>6, <1>7, Zenon DEF OrderInv

(* At the start nothing was passed.                                        *)
LEMMA InitOrder == Init => OrderInv
<1> SUFFICES ASSUME Init PROVE OrderInv
  OBVIOUS
<1>1. /\ accepted = << >> /\ passed = {}
      /\ pending = << <<"connectEstablished">> >>
      /\ \A w \in Workers : worker[w] = <<"idle">>
  BY DEF Init
<1>2. OnceInOrder(accepted) BY <1>1 DEF OnceInOrder
<1>3. ASSUME NEW m \in Messages \cup Files PROVE Owner(m)
  <2>1. "connectEstablished" \in Plain BY DEF Plain
  <2>2. ~Some(pending, Entries(m)) BY <1>1, <2>1, PlainQueue, Zenon
  <2>3. AtMostOne(pending, Entries(m)) BY <2>2 DEF AtMostOne, Some
  <2>4. \A w \in Workers : worker[w] # <<"send", m>> BY <1>1
  <2>5. ~Sending(m) BY <2>4 DEF Sending
  <2>6. Upto(accepted, m, 0) BY <1>1 DEF Upto, Some
  <2>7. \A i \in Offsets(m) : ~Some(pending, {Entry(m, i)})
    BY <2>2, SomeEntry, Zenon
  <2> QED BY <2>2, <2>3, <2>4, <2>5, <2>6, <2>7, Zenon DEF Owner
<1> QED BY <1>2, <1>3 DEF OrderInv

(* No step sends a byte twice or out of order.                             *)
LEMMA NextOrder ==
  ASSUME ConnectionTypeOK, OrderInv, [Next]_vars
  PROVE  OrderInv'
<1>t. pending \in Seq(Functor) BY DEF ConnectionTypeOK
<1>1. CASE OtherStep
  <2>1. PICK q \in Seq(Functor), new \in Seq(Functor) :
          /\ q = pending \/ (pending # << >> /\ q = Tail(pending))
          /\ new = << >> \/ \E k \in Plain : new = << <<k>> >>
          /\ pending' = q \o new
    <3>1. << >> \in Seq(Functor) OBVIOUS
    <3>2. CASE UNCHANGED pending
      <4>1. pending' = pending \o << >> BY <1>t, <3>2, ConcatEmptySeq
      <4> QED BY <1>t, <3>1, <4>1, Zenon
    <3>3. CASE pending # << >> /\ pending' = Tail(pending)
      <4>1. Tail(pending) \in Seq(Functor) BY <1>t, <3>3
      <4>2. pending' = Tail(pending) \o << >> BY <3>3, <4>1, ConcatEmptySeq
      <4> QED BY <3>1, <3>3, <4>1, <4>2, Zenon
    <3>4. ASSUME NEW k \in Plain, pending' = Append(pending, <<k>>)
          PROVE  \E q \in Seq(Functor), new \in Seq(Functor) :
                   /\ q = pending \/ (pending # << >> /\ q = Tail(pending))
                   /\ new = << >> \/ \E j \in Plain : new = << <<j>> >>
                   /\ pending' = q \o new
      <4>1. <<k>> \in Functor BY FunctorKinds
      <4>2. << <<k>> >> \in Seq(Functor) BY <4>1
      <4>3. pending' = pending \o << <<k>> >>
        BY <1>t, <3>4, <4>1, AppendIsConcat
      <4> QED BY <1>t, <4>2, <4>3, Zenon
    <3> QED BY <1>1, <3>2, <3>3, <3>4 DEF OtherStep
  <2>2. UNCHANGED <<accepted, passed>> BY <1>1 DEF OtherStep
  <2>3. ASSUME NEW m \in Messages \cup Files PROVE Owner(m)'
    <3>1. ~Some(new, Entries(m)) BY <2>1, PlainQueue, Zenon
    <3>2. /\ AtMostOne(pending, Entries(m)) => AtMostOne(pending', Entries(m))
          /\ \A i \in Offsets(m) :
               Some(pending', {Entry(m, i)}) => Some(pending, {Entry(m, i)})
      BY <2>1, <3>1, PendingKeeps, Zenon
    <3>3. \A w \in Workers :
            worker'[w] = <<"send", m>> => worker[w] = <<"send", m>>
      BY <1>1, Zenon DEF OtherStep
    <3>4. Keeps(m) BY <2>2, <3>2, <3>3, Zenon DEF Keeps
    <3>5. Owner(m) BY DEF OrderInv
    <3> QED BY <3>4, <3>5, KeepsOwner
  <2>4. OnceInOrder(accepted') BY <2>2 DEF OrderInv
  <2> QED BY <2>3, <2>4, Zenon DEF OrderInv
<1>2. CASE RunSendInLoop
  <2> DEFINE m == Head(pending)[2]
  <2>1. /\ NextFunctor("sendInLoop") /\ pending # << >>
        /\ sendInLoop(Payload(m), Tail(pending))
        /\ UNCHANGED <<worker, passed>>
    BY <1>2 DEF RunSendInLoop, NextFunctor, elseVars
  <2>2. /\ m \in Messages /\ Head(pending) = <<"sendInLoop", m>>
        /\ Tail(pending) \in Seq(Functor)
    BY <2>1, HeadSend
  <2> HIDE DEF m
  <2>3. Head(pending) = Entry(m, 0) /\ 0 \in Offsets(m)
    BY <2>2, ConnectionAssumption DEF Entry, Offsets
  <2>4. SendsFrom(m, 0, Tail(pending)) BY <2>1, <2>2, SendInLoopRun
  <2>5. /\ ~Some(Tail(pending), Entries(m)) /\ ~Sending(m)
        /\ Upto(accepted, m, 0) /\ m \in passed
    BY <2>1, <2>2, <2>3, HeadOwner
  <2>6. passed' = passed \cup {m} BY <2>1, <2>5
  <2> QED BY <2>1, <2>2, <2>3, <2>4, <2>5, <2>6, SendOwner
<1>3. CASE RunSendFileInLoop
  <2> DEFINE f == Head(pending)[2]
             i == Head(pending)[3]
  <2>1. /\ NextFunctor("sendFileInLoop") /\ pending # << >>
        /\ sendFileInLoop(f, i, Tail(pending))
        /\ UNCHANGED <<worker, passed>>
    BY <1>3 DEF RunSendFileInLoop, NextFunctor, elseVars
  <2>2. /\ f \in Files /\ i \in 0 .. FileLen[f]
        /\ Head(pending) = <<"sendFileInLoop", f, i>>
        /\ Tail(pending) \in Seq(Functor)
    BY <2>1, HeadSendFile
  <2> HIDE DEF f, i
  <2>3. Head(pending) = Entry(f, i) /\ i \in Offsets(f)
    BY <2>2 DEF Entry, Offsets
  <2>4. SendsFrom(f, i, Tail(pending)) BY <2>1, <2>2, SendFileInLoopRun
  <2>5. /\ ~Some(Tail(pending), Entries(f)) /\ ~Sending(f)
        /\ Upto(accepted, f, i) /\ f \in passed
    BY <2>1, <2>2, <2>3, HeadOwner
  <2>6. passed' = passed \cup {f} BY <2>1, <2>5
  <2> QED BY <2>1, <2>2, <2>3, <2>4, <2>5, <2>6, SendOwner
<1>4. ASSUME NEW m \in Messages \ passed, OwnSend(m) PROVE OrderInv'
  <2>1. /\ sendInLoop(Payload(m), pending)
        /\ UNCHANGED worker /\ passed' = passed \cup {m}
    BY <1>4 DEF OwnSend
  <2>2. SendsFrom(m, 0, pending) BY <1>t, <2>1, SendInLoopRun
  <2>3. 0 \in Offsets(m) BY ConnectionAssumption DEF Offsets
  <2>4. ~Some(pending, Entries(m)) /\ ~Sending(m) /\ Upto(accepted, m, 0)
    BY NewOwner
  <2> QED BY <1>t, <2>1, <2>2, <2>3, <2>4, SendOwner
<1>5. ASSUME NEW f \in Files \ passed, OwnSendFile(f) PROVE OrderInv'
  <2>1. /\ sendFileInLoop(f, 0, pending)
        /\ UNCHANGED worker /\ passed' = passed \cup {f}
    BY <1>5 DEF OwnSendFile
  <2>2. 0 \in Offsets(f) /\ 0 \in 0 .. FileLen[f]
    BY ConnectionAssumption DEF Offsets
  <2>3. SendsFrom(f, 0, pending) BY <1>t, <2>1, <2>2, SendFileInLoopRun
  <2>4. ~Some(pending, Entries(f)) /\ ~Sending(f) /\ Upto(accepted, f, 0)
    BY NewOwner
  <2> QED BY <1>t, <2>1, <2>2, <2>3, <2>4, SendOwner
<1> QED BY <1>1, <1>2, <1>3, <1>4, <1>5, StepKinds, WorkerOwner, TakeOwner

(* What is in order has its beginning in order.                            *)
LEMMA OrderInvImplies ==
  ConnectionTypeOK /\ StreamInv /\ OrderInv => EachInOrder
<1> SUFFICES ASSUME ConnectionTypeOK, StreamInv, OrderInv PROVE EachInOrder
  OBVIOUS
<1>1. PICK left \in Seq(Bytes) : accepted = peerData \o left
  BY DEF StreamInv, Undelivered
<1>2. peerData \in Seq(Bytes) BY DEF ConnectionTypeOK
<1>3. /\ Len(peerData) \in Nat /\ DOMAIN peerData = 1 .. Len(peerData)
      /\ DOMAIN peerData \subseteq DOMAIN accepted
      /\ \A k \in DOMAIN peerData : accepted[k] = peerData[k]
  BY <1>1, <1>2
<1> SUFFICES ASSUME NEW k \in DOMAIN peerData
             PROVE  InPlace(peerData, k, peerData[k][1], peerData[k][2])
  BY DEF EachInOrder, InPlace
<1> DEFINE m == peerData[k][1]
           i == peerData[k][2]
<1>4. InPlace(accepted, k, m, i) BY <1>3 DEF OrderInv, OnceInOrder
<1> HIDE DEF m, i
<1>5. \A j \in 1 .. k - 1 : j \in DOMAIN peerData BY <1>3
<1>6. InPlace(peerData, k, m, i) BY <1>3, <1>4, <1>5 DEF InPlace
<1> QED BY <1>6 DEF m, i

(***************************************************************************)
(* Whoever calls send and sendFile, in whatever order their functors run   *)
(* and however often a file is resumed, the peer gets of each message and  *)
(* file its beginning, every byte once and in order (TcpConnection.cc:     *)
(* 148-211, 364-398).                                                      *)
(***************************************************************************)
THEOREM EachInOrderCorrect == Spec => []EachInOrder
<1> DEFINE IInv == ConnectionTypeOK /\ StreamInv /\ OrderInv
<1>1. Init => IInv BY InitType, InitStream, InitOrder
<1>2. IInv /\ [Next]_vars => IInv' BY NextType, NextStream, NextOrder
<1>3. IInv => EachInOrder BY OrderInvImplies
<1> QED BY <1>1, <1>2, <1>3, PTL DEF Spec
=============================================================================
