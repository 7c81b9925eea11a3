-------------------------- MODULE ByteStreamProofs -------------------------
(* The byte stream stays within its buffer and is a queue of bytes, for      *)
(* every set of bytes, every buffer size and every length of a write.       *)
EXTENDS ByteStream, SequenceTheorems, TLAPS

-----------------------------------------------------------------------------
(* What the operations do to a sound stream.                                *)

LEMMA PreparedSound ==
    ASSUME NEW size \in Nat
    PROVE  Sound(Prepared(size))
BY DEF Sound, Prepared, Stream

(* resize keeps the stream sound.                                           *)
LEMMA ResizedSound ==
    ASSUME NEW s, Sound(s), NEW size \in Nat
    PROVE  Sound(Resized(s, size))
<1>1. CASE size = 0 \/ size = s.size
  BY <1>1 DEF Resized
<1>2. CASE size # 0 /\ size # s.size /\ s.size = 0
  BY <1>2, PreparedSound DEF Resized
<1>3. CASE size # 0 /\ size # s.size /\ s.size # 0
  <2> DEFINE kept == AtMost(Length(s), size)
             buf == [i \in 0 .. size - 1 |->
                       IF i < kept THEN s.buf[s.rpos + i] ELSE Junk]
  <2>1. kept \in Nat /\ kept <= size /\ s.rpos + kept <= s.wpos
    BY DEF Sound, AtMost, Length
  <2>2. Resized(s, size) = Stream(buf, size, 0, kept)
    BY <1>3 DEF Resized
  <2> HIDE DEF kept
  <2>3. \A i \in 0 .. kept - 1 : s.buf[s.rpos + i] \in Byte
    <3> TAKE i \in 0 .. kept - 1
    <3>1. s.rpos \in Nat /\ s.wpos \in Nat
      BY DEF Sound
    <3>2. s.rpos + i \in s.rpos .. s.wpos - 1
      BY <2>1, <3>1
    <3> QED  BY <3>2 DEF Sound
  <2>4. buf \in [0 .. size - 1 -> Byte \cup {Junk}]
    BY <2>1, <2>3
  <2>5. \A i \in 0 .. kept - 1 : buf[i] \in Byte
    BY <2>1, <2>3
  <2> HIDE DEF buf
  <2> QED  BY <2>1, <2>2, <2>4, <2>5 DEF Sound, Stream
<1> QED  BY <1>1, <1>2, <1>3

(* write makes the buffer large enough before it copies.                     *)
LEMMA EnlargedSound ==
    ASSUME NEW s, Sound(s), NEW k \in Nat
    PROVE  /\ Sound(Enlarged(s, k))
           /\ Enlarged(s, k).wpos + k <= Enlarged(s, k).size
<1>1. CASE s.wpos + k > s.size
  <2> DEFINE size == s.wpos + k + 1
  <2>1. size \in Nat /\ size # 0 /\ size # s.size
    BY <1>1 DEF Sound
  <2>2. Enlarged(s, k) = Resized(s, size)
    BY <1>1 DEF Enlarged
  <2>3. Resized(s, size).size = size /\ Resized(s, size).wpos <= s.wpos
    BY <2>1 DEF Resized, Prepared, Stream, Sound, Length, AtMost
  <2>4. Sound(Resized(s, size))
    BY <2>1, ResizedSound
  <2>5. Resized(s, size).wpos \in Nat /\ s.wpos \in Nat
    BY <2>4 DEF Sound
  <2> QED  BY <2>2, <2>3, <2>4, <2>5
<1>2. CASE ~(s.wpos + k > s.size)
  BY <1>2 DEF Enlarged, Sound
<1> QED  BY <1>1, <1>2

LEMMA DataFacts ==
    ASSUME NEW data \in Data
    PROVE  /\ Len(data) \in Nat
           /\ data \in [1 .. Len(data) -> Byte]
BY DEF Data

LEMMA WrittenSound ==
    ASSUME NEW s, Sound(s), NEW data \in Data
    PROVE  Sound(Written(s, data))
<1> DEFINE k == Len(data)
           t == Enlarged(s, k)
           buf == [i \in 0 .. t.size - 1 |->
                     IF t.wpos <= i /\ i < t.wpos + k
                     THEN data[i - t.wpos + 1] ELSE t.buf[i]]
<1>1. k \in Nat /\ data \in [1 .. k -> Byte]
  BY DataFacts
<1>2. Sound(t) /\ t.wpos + k <= t.size
  BY <1>1, EnlargedSound
<1>3. Written(s, data) = Stream(buf, t.size, t.rpos, t.wpos + k)
  BY DEF Written
<1> HIDE DEF k, t
<1>4. buf \in [0 .. t.size - 1 -> Byte \cup {Junk}]
  <2>1. t.size \in Nat /\ t.wpos \in Nat
    BY <1>2 DEF Sound
  <2>2. ASSUME NEW i \in 0 .. t.size - 1, t.wpos <= i, i < t.wpos + k
        PROVE  data[i - t.wpos + 1] \in Byte
    <3>1. i - t.wpos + 1 \in 1 .. k
      BY <1>1, <2>1, <2>2
    <3> QED  BY <3>1, <1>1
  <2>3. \A i \in 0 .. t.size - 1 : t.buf[i] \in Byte \cup {Junk}
    BY <1>2 DEF Sound
  <2> QED  BY <2>2, <2>3
<1>5. \A i \in t.rpos .. t.wpos + k - 1 : buf[i] \in Byte
  <2> TAKE i \in t.rpos .. t.wpos + k - 1
  <2>1. t.size \in Nat /\ t.rpos \in Nat /\ t.wpos \in Nat
    BY <1>2 DEF Sound
  <2>2. i \in 0 .. t.size - 1
    BY <1>1, <1>2, <2>1
  <2>3. CASE i < t.wpos
    <3>1. t.buf[i] \in Byte
      BY <2>1, <2>3, <1>2 DEF Sound
    <3> QED  BY <3>1, <2>1, <2>2, <2>3
  <2>4. CASE t.wpos <= i
    <3>1. i - t.wpos + 1 \in 1 .. k
      BY <1>1, <2>1, <2>4
    <3>2. data[i - t.wpos + 1] \in Byte
      BY <3>1, <1>1
    <3> QED  BY <3>2, <1>1, <2>1, <2>2, <2>4
  <2> QED  BY <2>1, <2>3, <2>4
<1> HIDE DEF buf
<1> QED  BY <1>1, <1>2, <1>3, <1>4, <1>5 DEF Sound, Stream

LEMMA ReadCommittedSound ==
    ASSUME NEW s, Sound(s), NEW k \in Nat, k <= Length(s)
    PROVE  Sound(ReadCommitted(s, k))
<1> DEFINE t == Stream(s.buf, s.size, s.rpos + k, s.wpos)
<1>1. Sound(t) /\ Sound(Cleared(t))
  BY DEF Sound, Stream, Length, Cleared
<1> QED  BY <1>1 DEF ReadCommitted

-----------------------------------------------------------------------------
(* THEOREM.  Whatever the order of operations, the positions of the stream   *)
(* stay in order and inside its buffer and every unread byte has been        *)
(* written (byte_stream::write, read, resize, read_commit).                 *)
THEOREM Bounds == Spec => []InBounds
<1>1. Init => InBounds
  BY PreparedSound, BoundAssumption DEF Init, InBounds
<1>2. InBounds /\ [Next]_vars => InBounds'
  <2> SUFFICES ASSUME Sound(stream), [Next]_vars PROVE Sound(stream')
    BY DEF InBounds
  <2>1. ASSUME NEW size \in 0 .. MaxSize, Prepare(size) PROVE Sound(stream')
    BY <2>1, PreparedSound, BoundAssumption DEF Prepare
  <2>2. ASSUME NEW size \in 0 .. MaxSize, Resize(size) PROVE Sound(stream')
    BY <2>2, ResizedSound, BoundAssumption DEF Resize
  <2>3. CASE Clear
    BY <2>3 DEF Clear, Cleared, Stream, Sound
  <2>4. CASE Peek
    BY <2>4 DEF Peek
  <2>5. ASSUME NEW data \in Data, Write(data) PROVE Sound(stream')
    BY <2>5, WrittenSound DEF Write
  <2>6. ASSUME NEW k \in 0 .. MaxWrite, Read(k) PROVE Sound(stream')
    <3>1. /\ AtMost(Length(stream), k) \in Nat
          /\ AtMost(Length(stream), k) <= Length(stream)
      BY BoundAssumption DEF AtMost, Length, Sound
    <3> QED  BY <2>6, <3>1, ReadCommittedSound DEF Read
  <2>7. ASSUME NEW k \in 0 .. MaxWrite, ReadCommit(k) PROVE Sound(stream')
    BY <2>7, ReadCommittedSound, BoundAssumption DEF ReadCommit
  <2>8. CASE UNCHANGED vars
    BY <2>8 DEF vars
  <2> QED  BY <2>1, <2>2, <2>3, <2>4, <2>5, <2>6, <2>7, <2>8 DEF Next
<1> QED  BY <1>1, <1>2, PTL DEF Spec

-----------------------------------------------------------------------------
(* THEOREM.  A drained stream always has half of its buffer to write to      *)
(* (byte_stream::read_commit, resize).                                      *)
THEOREM DrainedRoom == Spec => []DrainedHasRoom
<1>1. Init => DrainedHasRoom
  BY BoundAssumption DEF Init, DrainedHasRoom, Prepared, Stream, Length
<1>2. InBounds /\ DrainedHasRoom /\ [Next]_vars => DrainedHasRoom'
  <2> SUFFICES ASSUME Sound(stream), DrainedHasRoom, [Next]_vars
               PROVE  DrainedHasRoom'
    BY DEF InBounds
  <2>1. ASSUME NEW size \in 0 .. MaxSize, Prepare(size) PROVE DrainedHasRoom'
    BY <2>1, BoundAssumption DEF Prepare, DrainedHasRoom, Prepared, Stream
  <2>2. ASSUME NEW size \in 0 .. MaxSize, Resize(size) PROVE DrainedHasRoom'
    BY <2>2, BoundAssumption
       DEF Resize, Resized, DrainedHasRoom, Prepared, Stream, Length
  <2>3. CASE Clear
    BY <2>3 DEF Clear, Cleared, Stream, DrainedHasRoom, Sound
  <2>4. CASE Peek
    BY <2>4 DEF Peek, DrainedHasRoom
  <2>5. ASSUME NEW data \in Data, Write(data) PROVE DrainedHasRoom'
    <3> DEFINE k == Len(data)  t == Enlarged(stream, k)
    <3>1. k \in Nat
      BY DataFacts
    <3>2. Sound(t)
      BY <3>1, EnlargedSound
    <3>3. /\ stream'.rpos = t.rpos /\ stream'.size = t.size
          /\ stream'.wpos = t.wpos + k
      BY <2>5 DEF Write, Written, Stream
    <3>4. k = 0 => t = stream
      BY DEF Enlarged, Sound
    <3> HIDE DEF k, t
    <3>5. Length(stream') = 0 => k = 0
      BY <3>1, <3>2, <3>3 DEF Length, Sound
    <3> QED  BY <3>3, <3>4, <3>5 DEF DrainedHasRoom, Length, Sound
  <2>6. ASSUME NEW k \in Nat, stream' = ReadCommitted(stream, k)
        PROVE  DrainedHasRoom'
    BY <2>6 DEF ReadCommitted, Cleared, Stream, Length, DrainedHasRoom, Sound
  <2>7. ASSUME NEW k \in 0 .. MaxWrite, Read(k) PROVE DrainedHasRoom'
    <3>1. AtMost(Length(stream), k) \in Nat
      BY BoundAssumption DEF AtMost, Length, Sound
    <3>2. CASE Length(stream) = 0
      BY <2>7, <3>2 DEF Read, DrainedHasRoom
    <3>3. CASE Length(stream) # 0
      BY <2>7, <3>1, <3>3, <2>6 DEF Read
    <3> QED  BY <3>2, <3>3
  <2>8. ASSUME NEW k \in 0 .. MaxWrite, ReadCommit(k) PROVE DrainedHasRoom'
    BY <2>8, <2>6, BoundAssumption DEF ReadCommit
  <2>9. CASE UNCHANGED vars
    BY <2>9 DEF vars, DrainedHasRoom
  <2> QED  BY <2>1, <2>2, <2>3, <2>4, <2>5, <2>7, <2>8, <2>9 DEF Next
<1> QED  BY <1>1, <1>2, Bounds, PTL DEF Spec

-----------------------------------------------------------------------------
(* The queue that a stream stands for, and what the operations do to it.     *)

Queue(s) == Unread(s, Length(s))

LEMMA UnreadIsSeq ==
    ASSUME NEW s, Sound(s), NEW n \in Nat, n <= Length(s)
    PROVE  /\ Unread(s, n) \in Seq(Byte)
           /\ Len(Unread(s, n)) = n
           /\ \A i \in 1 .. n : /\ Unread(s, n)[i] = s.buf[s.rpos + i - 1]
                                /\ s.buf[s.rpos + i - 1] \in Byte
<1>1. s.rpos \in Nat /\ s.wpos \in Nat /\ s.rpos + n <= s.wpos
  BY DEF Sound, Length
<1>2. \A i \in 1 .. n : s.buf[s.rpos + i - 1] \in Byte
  <2> TAKE i \in 1 .. n
  <2>1. s.rpos + i - 1 \in s.rpos .. s.wpos - 1
    BY <1>1
  <2> QED  BY <2>1 DEF Sound
<1>3. Unread(s, n) \in [1 .. n -> Byte]
  BY <1>2 DEF Unread
<1>4. Unread(s, n) \in Seq(Byte) /\ Len(Unread(s, n)) = n
  BY <1>3
<1> QED  BY <1>2, <1>4 DEF Unread

LEMMA QueueIsSeq ==
    ASSUME NEW s, Sound(s)
    PROVE  /\ Length(s) \in Nat
           /\ Queue(s) \in Seq(Byte)
           /\ Len(Queue(s)) = Length(s)
           /\ \A i \in 1 .. Length(s) :
                 /\ Queue(s)[i] = s.buf[s.rpos + i - 1]
                 /\ s.buf[s.rpos + i - 1] \in Byte
<1>1. Length(s) \in Nat
  BY DEF Length, Sound
<1> QED  BY <1>1, UnreadIsSeq DEF Queue

(* The first n unread bytes are the front of the queue.                      *)
LEMMA UnreadIsFront ==
    ASSUME NEW s, Sound(s), NEW n \in Nat, n <= Length(s)
    PROVE  Unread(s, n) = SubSeq(Queue(s), 1, n)
<1> DEFINE q == Queue(s)  u == Unread(s, n)  f == SubSeq(q, 1, n)
<1>1. \A i \in 1 .. n : q[i] \in Byte
  BY QueueIsSeq
<1>2. /\ f \in Seq(Byte) /\ Len(f) = n
      /\ \A i \in 1 .. n : f[i] = q[i]
  BY <1>1, SubSeqProperties
<1>3. u \in Seq(Byte) /\ Len(u) = n /\ \A i \in 1 .. n : u[i] = q[i]
  BY UnreadIsSeq, QueueIsSeq
<1> HIDE DEF q, u, f
<1>4. u = f
  BY <1>2, <1>3, SeqEqual
<1> QED  BY <1>4 DEF q, u, f

(* A stream without unread bytes is the empty queue.                        *)
LEMMA EmptyQueue ==
    ASSUME NEW s, Sound(s), Length(s) = 0
    PROVE  Queue(s) = << >>
<1>1. Queue(s) \in Seq(Byte) /\ Len(Queue(s)) = 0
  BY QueueIsSeq
<1> QED  BY <1>1

(* resize cuts the queue to what the new buffer holds.                      *)
LEMMA ResizedQueue ==
    ASSUME NEW s, Sound(s), NEW size \in Nat
    PROVE  \E k \in 0 .. Length(s) :
              Queue(Resized(s, size)) = SubSeq(Queue(s), 1, k)
<1> DEFINE r == Resized(s, size)
<1>0. Length(s) \in Nat /\ Length(s) <= Length(s)
  BY QueueIsSeq
<1>1. CASE r = s
  <2>1. Queue(s) = SubSeq(Queue(s), 1, Length(s))
    BY <1>0, UnreadIsFront DEF Queue
  <2> QED  BY <1>0, <1>1, <2>1
<1>2. CASE size # 0 /\ size # s.size /\ s.size = 0
  <2>1. r = Prepared(size) /\ Length(r) = 0
    BY <1>2 DEF Resized, Prepared, Stream, Length
  <2>2. Queue(r) = << >>
    BY <2>1, PreparedSound, EmptyQueue
  <2>3. SubSeq(Queue(s), 1, 0) = << >>
    BY SubSeqEmpty
  <2> QED  BY <1>0, <2>2, <2>3
<1>3. CASE size # 0 /\ size # s.size /\ s.size # 0
  <2> DEFINE kept == AtMost(Length(s), size)
  <2>1. kept \in 0 .. Length(s) /\ kept <= size
    BY <1>0 DEF AtMost
  <2>2. /\ r.rpos = 0 /\ r.wpos = kept
        /\ r.buf = [i \in 0 .. size - 1 |->
                      IF i < kept THEN s.buf[s.rpos + i] ELSE Junk]
    BY <1>3 DEF Resized, Stream
  <2>3. Sound(r)
    BY ResizedSound
  <2> HIDE DEF kept, r
  <2>4. Length(r) = kept
    BY <2>1, <2>2, <1>0 DEF Length
  <2>5. ASSUME NEW i \in 1 .. kept
        PROVE  Queue(r)[i] = Unread(s, kept)[i]
    <3>1. Queue(r)[i] = r.buf[i - 1]
      BY <2>2, <2>3, <2>4, QueueIsSeq
    <3>2. Unread(s, kept)[i] = s.buf[s.rpos + i - 1]
      BY DEF Unread
    <3>3. i - 1 \in 0 .. size - 1 /\ i - 1 < kept
      BY <2>1, <1>0
    <3>4. r.buf[i - 1] = s.buf[s.rpos + (i - 1)]
      BY <2>2, <3>3
    <3>5. s.rpos + (i - 1) = s.rpos + i - 1
      BY DEF Sound
    <3> QED  BY <3>1, <3>2, <3>4, <3>5
  <2>6. Queue(r) \in Seq(Byte) /\ Len(Queue(r)) = kept
    BY <2>3, <2>4, QueueIsSeq
  <2>7. Unread(s, kept) \in Seq(Byte) /\ Len(Unread(s, kept)) = kept
    BY <2>1, <1>0, UnreadIsSeq
  <2>8. Queue(r) = Unread(s, kept)
    BY <2>5, <2>6, <2>7, SeqEqual
  <2>9. Unread(s, kept) = SubSeq(Queue(s), 1, kept)
    BY <2>1, <1>0, UnreadIsFront
  <2> QED  BY <2>1, <2>8, <2>9 DEF r
<1>4. size = 0 \/ size = s.size => r = s
  BY DEF Resized
<1> QED  BY <1>1, <1>2, <1>3, <1>4

(* Growing the buffer for a write keeps the queue.                          *)
LEMMA EnlargedQueue ==
    ASSUME NEW s, Sound(s), NEW k \in Nat
    PROVE  Queue(Enlarged(s, k)) = Queue(s)
<1> DEFINE t == Enlarged(s, k)  size == s.wpos + k + 1
<1>1. CASE s.wpos + k > s.size
  <2>1. size \in Nat /\ size # 0 /\ size # s.size /\ Length(s) < size
    BY <1>1 DEF Sound, Length
  <2>2. t = Resized(s, size)
    BY <1>1 DEF Enlarged
  <2>3. Length(t) = Length(s)
    BY <2>1, <2>2 DEF Resized, Prepared, Stream, Length, AtMost, Sound
  <2> HIDE DEF t, size
  <2>4. PICK m \in 0 .. Length(s) : Queue(t) = SubSeq(Queue(s), 1, m)
    BY <2>1, <2>2, ResizedQueue
  <2>5. Length(s) \in Nat /\ Len(Queue(s)) = Length(s)
        /\ Queue(s) \in Seq(Byte)
    BY QueueIsSeq
  <2>6. Len(Queue(t)) = Length(s)
    BY <2>1, <2>2, <2>3, ResizedSound, QueueIsSeq
  <2>7. \A i \in 1 .. m : Queue(s)[i] \in Byte
    BY <2>5, ElementOfSeq
  <2>8. Len(SubSeq(Queue(s), 1, m)) = m
    BY <2>5, <2>7, SubSeqProperties
  <2>9. Queue(t) = SubSeq(Queue(s), 1, Len(Queue(s)))
    BY <2>4, <2>5, <2>6, <2>8
  <2>10. Queue(t) = Queue(s)
    BY <2>9, <2>5, SubSeqFull
  <2> QED  BY <2>10 DEF t
<1>2. CASE ~(s.wpos + k > s.size)
  BY <1>2 DEF Enlarged
<1> QED  BY <1>1, <1>2

(* write appends its data to the queue.                                     *)
LEMMA WrittenQueue ==
    ASSUME NEW s, Sound(s), NEW data \in Data
    PROVE  Queue(Written(s, data)) = Queue(s) \o data
<1> DEFINE k == Len(data)  t == Enlarged(s, k)  w == Written(s, data)
<1>1. k \in Nat /\ data \in [1 .. k -> Byte] /\ data \in Seq(Byte)
  BY DataFacts
<1>2. Sound(t) /\ t.wpos + k <= t.size /\ Queue(t) = Queue(s)
  BY <1>1, EnlargedSound, EnlargedQueue
<1>3. /\ w.rpos = t.rpos /\ w.wpos = t.wpos + k
      /\ w.buf = [i \in 0 .. t.size - 1 |->
                    IF t.wpos <= i /\ i < t.wpos + k
                    THEN data[i - t.wpos + 1] ELSE t.buf[i]]
  BY DEF Written, Stream
<1>4. Sound(w)
  BY WrittenSound
<1> HIDE DEF k, t, w
<1>5. /\ t.rpos \in Nat /\ t.wpos \in Nat /\ t.rpos <= t.wpos
      /\ t.size \in Nat
      /\ Length(t) = t.wpos - t.rpos /\ Length(w) = Length(t) + k
  BY <1>1, <1>2, <1>3 DEF Sound, Length
<1>6. /\ Queue(t) \in Seq(Byte) /\ Len(Queue(t)) = Length(t)
      /\ Queue(w) \in Seq(Byte) /\ Len(Queue(w)) = Length(t) + k
  BY <1>2, <1>4, <1>5, QueueIsSeq
<1>7. ASSUME NEW i \in 1 .. Length(t) + k
      PROVE  Queue(w)[i] = IF i <= Length(t) THEN Queue(t)[i]
                                             ELSE data[i - Length(t)]
  <2> DEFINE j == t.rpos + i - 1
  <2>1. j \in 0 .. t.size - 1 /\ j < t.wpos + k
    BY <1>1, <1>2, <1>5
  <2>2. Queue(w)[i] = w.buf[j]
    <3>1. i \in 1 .. Length(w)
      BY <1>5
    <3>2. Queue(w)[i] = w.buf[w.rpos + i - 1]
      BY <3>1, <1>4, QueueIsSeq
    <3> QED  BY <3>2, <1>3
  <2>3. CASE i <= Length(t)
    <3>1. ~(t.wpos <= j)
      BY <2>3, <1>5
    <3>2. w.buf[j] = t.buf[j]
      BY <2>1, <3>1, <1>3
    <3>3. Queue(t)[i] = t.buf[j]
      BY <2>3, <1>2, <1>5, QueueIsSeq
    <3> QED  BY <2>2, <2>3, <3>2, <3>3
  <2>4. CASE ~(i <= Length(t))
    <3>1. t.wpos <= j /\ j - t.wpos + 1 = i - Length(t)
      BY <2>4, <1>5
    <3>2. w.buf[j] = data[j - t.wpos + 1]
      BY <2>1, <3>1, <1>3
    <3> QED  BY <2>2, <2>4, <3>1, <3>2
  <2> QED  BY <2>3, <2>4
<1>8. /\ Queue(t) \o data \in Seq(Byte)
      /\ Len(Queue(t) \o data) = Length(t) + k
      /\ \A i \in 1 .. Length(t) + k :
            (Queue(t) \o data)[i] = IF i <= Length(t) THEN Queue(t)[i]
                                                      ELSE data[i - Length(t)]
  <2> DEFINE q == Queue(t)
  <2>1. q \in Seq(Byte) /\ Len(q) = Length(t) /\ Len(data) = k
    BY <1>6 DEF k
  <2> HIDE DEF q
  <2>2. /\ q \o data \in Seq(Byte)
        /\ Len(q \o data) = Len(q) + Len(data)
        /\ \A i \in 1 .. Len(q) + Len(data) :
              (q \o data)[i] = IF i <= Len(q) THEN q[i] ELSE data[i - Len(q)]
    BY <1>1, <2>1, ConcatProperties, Zenon
  <2> QED  BY <2>1, <2>2, Zenon DEF q
<1>9. Queue(w) = Queue(t) \o data
  BY <1>6, <1>7, <1>8, SeqEqual
<1> QED  BY <1>2, <1>9 DEF w

(* read_commit takes bytes from the front of the queue.                     *)
LEMMA ReadCommittedQueue ==
    ASSUME NEW s, Sound(s), NEW k \in Nat, k <= Length(s)
    PROVE  Queue(ReadCommitted(s, k)) =
              SubSeq(Queue(s), k + 1, Len(Queue(s)))
<1> DEFINE t == Stream(s.buf, s.size, s.rpos + k, s.wpos)
           r == ReadCommitted(s, k)
           a == SubSeq(Queue(s), k + 1, Len(Queue(s)))
<1>1. /\ Length(s) \in Nat /\ Queue(s) \in Seq(Byte)
      /\ Len(Queue(s)) = Length(s)
      /\ \A i \in 1 .. Length(s) : /\ Queue(s)[i] = s.buf[s.rpos + i - 1]
                                   /\ s.buf[s.rpos + i - 1] \in Byte
  BY QueueIsSeq
<1>2. /\ Length(t) = Length(s) - k /\ Sound(r)
      /\ t.rpos = s.rpos + k /\ t.buf = s.buf
  <2>1. Sound(r)
    BY ReadCommittedSound
  <2>2. Length(t) = Length(s) - k /\ t.rpos = s.rpos + k /\ t.buf = s.buf
    BY DEF Stream, Length, Sound
  <2> QED  BY <2>1, <2>2
<1>3. r = t \/ (Length(t) = 0 /\ Length(r) = 0)
  BY DEF ReadCommitted, Cleared, Stream, Length
<1>4. Length(r) = Length(s) - k
  BY <1>2, <1>3
<1>5. \A i \in k + 1 .. Len(Queue(s)) : Queue(s)[i] \in Byte
  BY <1>1
<1>6. /\ a \in Seq(Byte)
      /\ Len(a) = Length(s) - k
      /\ \A i \in 1 .. Length(s) - k : a[i] = Queue(s)[k + i]
  <2>1. /\ a \in Seq(Byte)
        /\ Len(a) = IF k + 1 <= Len(Queue(s)) THEN Len(Queue(s)) - (k + 1) + 1
                                              ELSE 0
        /\ \A i \in 1 .. Len(Queue(s)) - (k + 1) + 1 :
              a[i] = Queue(s)[(k + 1) + i - 1]
    BY <1>1, <1>5, SubSeqProperties
  <2> HIDE DEF a
  <2> QED  BY <1>1, <2>1
<1>7. /\ Queue(r) \in Seq(Byte) /\ Len(Queue(r)) = Length(s) - k
      /\ \A i \in 1 .. Length(s) - k : Queue(r)[i] = r.buf[r.rpos + i - 1]
  BY <1>2, <1>4, QueueIsSeq
<1>8. s.rpos \in Nat
  BY DEF Sound
<1> HIDE DEF r, t, a
<1>9. ASSUME NEW i \in 1 .. Length(s) - k PROVE Queue(r)[i] = a[i]
  <2>1. r = t
    BY <1>1, <1>2, <1>3
  <2>2. Queue(r)[i] = s.buf[s.rpos + k + i - 1]
    BY <1>2, <1>7, <2>1
  <2>3. k + i \in 1 .. Length(s)
    BY <1>1
  <2>4. Queue(s)[k + i] = s.buf[s.rpos + (k + i) - 1]
    BY <1>1, <2>3
  <2>5. s.rpos + (k + i) - 1 = s.rpos + k + i - 1
    BY <1>8
  <2> QED  BY <1>6, <2>2, <2>4, <2>5
<1>10. Queue(r) = a
  BY <1>6, <1>7, <1>9, SeqEqual
<1> QED  BY <1>10 DEF r, a

-----------------------------------------------------------------------------
(* THEOREM.  The stream is a queue of bytes: every operation does to the     *)
(* unread bytes what Fifo says, and hands out the bytes Fifo says, whatever  *)
(* compaction or growth of the buffer it involves (byte_stream::write, read, *)
(* read_commit, resize, prepare, clear).                                    *)
THEOREM StreamImplementsFifo == Spec => ImplementsFifo
<1>1. Init => F!FifoInit
  <2> SUFFICES ASSUME Init PROVE F!FifoInit
    OBVIOUS
  <2>1. PICK size \in 0 .. MaxSize : stream = Prepared(size)
    BY DEF Init
  <2>2. Sound(stream) /\ Length(stream) = 0
    BY <2>1, PreparedSound, BoundAssumption DEF Prepared, Stream, Length
  <2>3. Queue(stream) = << >>
    BY <2>2, EmptyQueue
  <2> QED  BY <2>3 DEF Init, F!FifoInit, Queue
<1>2. InBounds /\ [Next]_vars => [F!FifoNext]_F!fifoVars
  <2> SUFFICES ASSUME Sound(stream), [Next]_vars
               PROVE  F!FifoNext \/ UNCHANGED F!fifoVars
    BY DEF InBounds
  <2> DEFINE q == Queue(stream)
  <2>0. /\ Length(stream) \in Nat /\ q \in Seq(Byte)
        /\ Len(q) = Length(stream)
    BY QueueIsSeq
  <2>1. ASSUME Sound(stream'), Length(stream') = 0,
               call'.op \in {"prepare", "resize", "clear"}
        PROVE  F!FifoNext
    <3>1. Queue(stream') = << >>
      BY <2>1, EmptyQueue
    <3>2. SubSeq(q, 1, 0) = << >>
      BY SubSeqEmpty
    <3>3. 0 \in 0 .. Len(q)
      BY <2>0
    <3>4. F!Cut(0)
      BY <3>1, <3>2, <2>1 DEF F!Cut, F!Front, Queue
    <3> QED  BY <3>3, <3>4 DEF F!FifoNext, Queue
  <2>2. ASSUME NEW size \in 0 .. MaxSize, Prepare(size) PROVE F!FifoNext
    <3>1. Sound(stream') /\ Length(stream') = 0
      BY <2>2, PreparedSound, BoundAssumption
         DEF Prepare, Prepared, Stream, Length
    <3> QED  BY <2>1, <2>2, <3>1 DEF Prepare, Calls
  <2>3. ASSUME NEW size \in 0 .. MaxSize, Resize(size) PROVE F!FifoNext
    <3>1. size \in Nat
      BY BoundAssumption
    <3>2. PICK k \in 0 .. Length(stream) :
             Queue(Resized(stream, size)) = SubSeq(Queue(stream), 1, k)
      BY <3>1, ResizedQueue
    <3>3. F!Cut(k)
      BY <2>3, <3>2 DEF Resize, Calls, F!Cut, F!Front, Queue
    <3>4. k \in 0 .. Len(q)
      BY <2>0
    <3> QED  BY <3>3, <3>4 DEF F!FifoNext, Queue
  <2>4. CASE Clear
    <3>1. Sound(stream') /\ Length(stream') = 0
      BY <2>4 DEF Clear, Cleared, Stream, Sound, Length
    <3> QED  BY <2>1, <2>4, <3>1 DEF Clear, Calls
  <2>5. CASE Peek
    BY <2>5 DEF Peek, Calls, F!FifoNext, F!Look
  <2>6. ASSUME NEW data \in Data, Write(data) PROVE F!FifoNext
    <3>1. Queue(stream') = Queue(stream) \o data
      BY <2>6, WrittenQueue DEF Write
    <3>2. call'.op = "write" /\ call'.bytes = data
      BY <2>6 DEF Write, Calls
    <3> QED  BY <3>1, <3>2 DEF F!FifoNext, F!Put, Queue
  <2>7. ASSUME NEW k \in 0 .. MaxWrite, Read(k) PROVE F!FifoNext
    <3> DEFINE n == AtMost(Length(stream), k)
    <3>1. n \in Nat /\ n <= Length(stream) /\ n \in 0 .. Len(q)
      BY <2>0, BoundAssumption DEF AtMost
    <3>2. call' = [op |-> "read", bytes |-> SubSeq(q, 1, n)]
      BY <2>7, <3>1, UnreadIsFront DEF Read, Calls
    <3>3. Queue(stream') = SubSeq(q, n + 1, Len(q))
      <4>1. CASE Length(stream) = 0
        <5>1. stream' = stream /\ q = << >>
          BY <2>7, <4>1, EmptyQueue DEF Read
        <5>2. SubSeq(q, n + 1, Len(q)) = << >>
          BY <2>0, <3>1, <4>1, SubSeqEmpty
        <5> QED  BY <5>1, <5>2
      <4>2. CASE Length(stream) # 0
        BY <2>7, <3>1, <4>2, ReadCommittedQueue DEF Read
      <4> QED  BY <4>1, <4>2
    <3>4. F!Get(n)
      BY <3>2, <3>3 DEF F!Get, F!Front, F!After, Queue
    <3> QED  BY <3>1, <3>4 DEF F!FifoNext, Queue
  <2>8. ASSUME NEW k \in 0 .. MaxWrite, ReadCommit(k) PROVE F!FifoNext
    <3>1. k \in Nat /\ k <= Length(stream) /\ k \in 0 .. Len(q)
      BY <2>0, <2>8, BoundAssumption DEF ReadCommit
    <3>2. Queue(stream') = SubSeq(q, k + 1, Len(q))
      BY <2>8, <3>1, ReadCommittedQueue DEF ReadCommit
    <3>3. F!Drop(k)
      BY <2>8, <3>2 DEF ReadCommit, Calls, F!Drop, F!After, Queue
    <3> QED  BY <3>1, <3>3 DEF F!FifoNext, Queue
  <2>9. CASE UNCHANGED vars
    BY <2>9 DEF vars, F!fifoVars, Unread, Length
  <2> QED  BY <2>2, <2>3, <2>4, <2>5, <2>6, <2>7, <2>8, <2>9 DEF Next
<1> QED  BY <1>1, <1>2, Bounds, PTL DEF Spec, ImplementsFifo, F!FifoSpec

=============================================================================
