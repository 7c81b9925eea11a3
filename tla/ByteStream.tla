----------------------------- MODULE ByteStream ----------------------------
(***************************************************************************)
(* byte_stream of tests/dev/p2p_server: a growing buffer with a read and a  *)
(* write position.  Unread bytes lie between the positions; a write that    *)
(* does not fit reallocates and moves them to the front.  Every operation   *)
(* that moves a position holds the object's lock, so each is one step.      *)
(***************************************************************************)
EXTENDS Integers, Sequences

CONSTANTS
    Byte,         \* the values of a byte
    Junk,         \* what a freshly allocated byte holds
    MaxWrite,     \* bound: the longest single write, and the longest read
    MaxSize       \* bound: the largest buffer explored

ASSUME ByteAssumption == Junk \notin Byte
ASSUME BoundAssumption == MaxWrite \in Nat /\ MaxSize \in Nat

VARIABLES
    stream,       \* _stream_buffer, _buffer_size, _read_pos, _write_pos
    call          \* the last operation and the bytes it passed or returned

vars == <<stream, call>>

Stream(buf, size, rpos, wpos) ==
    [buf |-> buf, size |-> size, rpos |-> rpos, wpos |-> wpos]

(* prepare, after cleanup: a buffer of size bytes, none at all if size is 0. *)
(* (The code allocates one byte more and never addresses it.)               *)
Prepared(size) ==
    Stream([i \in 0 .. size - 1 |-> Junk], size, 0, 0)

Length(s) == IF s.wpos > s.rpos THEN s.wpos - s.rpos ELSE 0

AtMost(k, m) == IF k <= m THEN k ELSE m

(* The k bytes at the read position.                                        *)
Unread(s, k) == [i \in 1 .. k |-> s.buf[s.rpos + i - 1]]

(* Slip: resize copies from the start of the old buffer.                    *)
ResizedFromStart(s, size) ==
    IF size = 0 \/ size = s.size THEN s
    ELSE IF s.size = 0 THEN Prepared(size)
    ELSE LET kept == AtMost(Length(s), size) IN
         Stream([i \in 0 .. size - 1 |-> IF i < kept THEN s.buf[i] ELSE Junk],
                size, 0, kept)

(* resize: what is unread moves to the front of a new buffer, and its tail   *)
(* is lost if the new buffer is too short for it.                           *)
Resized(s, size) ==
    IF size = 0 \/ size = s.size THEN s
    ELSE IF s.size = 0 THEN Prepared(size)
    ELSE LET kept == AtMost(Length(s), size) IN
         Stream([i \in 0 .. size - 1 |->
                    IF i < kept THEN s.buf[s.rpos + i] ELSE Junk],
                size, 0, kept)

Cleared(s) == Stream(s.buf, s.size, 0, 0)

(* Slip: read_commit never goes back to the start of the buffer.            *)
NeverCleared(s, k) == Stream(s.buf, s.size, s.rpos + k, s.wpos)

(* read_commit: an empty stream is cleared once it is past half the buffer. *)
ReadCommitted(s, k) ==
    LET t == Stream(s.buf, s.size, s.rpos + k, s.wpos) IN
    IF t.rpos * 2 > t.size /\ Length(t) = 0 THEN Cleared(t) ELSE t

(* Slip: one byte more than the buffer holds is taken to fit.               *)
EnlargedLate(s, k) ==
    IF s.wpos + k > s.size + 1 THEN Resized(s, s.wpos + k + 1) ELSE s

(* The first half of write: room for k more bytes.                          *)
Enlarged(s, k) ==
    IF s.wpos + k > s.size THEN Resized(s, s.wpos + k + 1) ELSE s

(* write: memcpy to the write position of the enlarged buffer, write_commit. *)
Written(s, data) ==
    LET t == Enlarged(s, Len(data)) IN
    Stream([i \in 0 .. t.size - 1 |->
               IF t.wpos <= i /\ i < t.wpos + Len(data)
               THEN data[i - t.wpos + 1] ELSE t.buf[i]],
           t.size, t.rpos, t.wpos + Len(data))

-----------------------------------------------------------------------------
Calls(op, bytes) == call' = [op |-> op, bytes |-> bytes]

(* The constructors: no buffer, or one of a given size.                     *)
Init ==
    /\ \E size \in 0 .. MaxSize : stream = Prepared(size)
    /\ call = [op |-> "new", bytes |-> <<>>]

(* prepare and cleanup (prepare of nothing).                                *)
Prepare(size) == stream' = Prepared(size) /\ Calls("prepare", <<>>)

Resize(size) == stream' = Resized(stream, size) /\ Calls("resize", <<>>)

Clear == stream' = Cleared(stream) /\ Calls("clear", <<>>)

(* write, operator<<: a string is written without its length.               *)
Write(data) ==
    /\ stream' = Written(stream, data)
    /\ stream'.size <= MaxSize
    /\ Calls("write", data)

(* read, operator>>: fewer bytes are copied when fewer are there.           *)
Read(len) ==
    LET n == AtMost(Length(stream), len) IN
    /\ stream' = IF Length(stream) = 0 THEN stream ELSE ReadCommitted(stream, n)
    /\ Calls("read", Unread(stream, n))

(* peek hands out the unread bytes in place; read_commit takes as many of    *)
(* them as its caller has used.                                             *)
Peek == UNCHANGED stream /\ Calls("peek", Unread(stream, Length(stream)))

ReadCommit(k) ==
    /\ k <= Length(stream)
    /\ stream' = ReadCommitted(stream, k)
    /\ Calls("read_commit", <<>>)

Data == UNION {[1 .. k -> Byte] : k \in 0 .. MaxWrite}

Next ==
    \/ \E size \in 0 .. MaxSize : Prepare(size) \/ Resize(size)
    \/ Clear \/ Peek
    \/ \E data \in Data : Write(data)
    \/ \E k \in 0 .. MaxWrite : Read(k) \/ ReadCommit(k)

Spec == Init /\ [][Next]_vars

-----------------------------------------------------------------------------
(* A stream whose positions are in order and inside its buffer, and whose    *)
(* unread bytes have been written.                                          *)
Sound(s) ==
    /\ s.size \in Nat /\ s.rpos \in Nat /\ s.wpos \in Nat
    /\ s.rpos <= s.wpos /\ s.wpos <= s.size
    /\ s.buf \in [0 .. s.size - 1 -> Byte \cup {Junk}]
    /\ \A i \in s.rpos .. s.wpos - 1 : s.buf[i] \in Byte

(* Whatever the order of writes, reads and resizes, no memcpy of theirs      *)
(* leaves the allocation, and no byte of a fresh allocation that was never   *)
(* written is handed out.                                                   *)
InBounds == Sound(stream)

(* A drained stream has at least half of its buffer to write to, however its *)
(* positions got where they are: read_commit goes back to the start when it  *)
(* drains the stream beyond the middle.                                     *)
DrainedHasRoom ==
    Length(stream) = 0 => stream.rpos * 2 <= stream.size

F == INSTANCE Fifo WITH queue <- Unread(stream, Length(stream))

(* Through every growth, compaction and reset of the positions the stream is *)
(* a queue of bytes: reads return what was written, in order and once.      *)
ImplementsFifo == F!FifoSpec

=============================================================================
