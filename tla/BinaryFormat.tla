---------------------------- MODULE BinaryFormat ----------------------------
(***************************************************************************)
(* What binary_reader and binary_writer of bryllite-common/nlohmann/       *)
(* json.hpp share: values, 64-bit numbers and the reading of bytes.        *)
(*                                                                         *)
(* A 64-bit number is its eight bytes, the highest first, so that the      *)
(* casts to smaller types, the network byte order and the two's complement *)
(* are exact; -1 - n is the complement of every byte.                      *)
(***************************************************************************)
EXTENDS Integers, Sequences, SequencesExt

Eof == -1
Byte == 0 .. 255

\* Values; a number keeps its eight bytes, an object maps keys to values.
Null == <<"null">>
Bool(b) == <<"boolean", b>>
Integer(n) == <<"integer", n>>
Unsigned(n) == <<"unsigned", n>>
Float(n) == <<"float", n>>
String(s) == <<"string", s>>
Array(s) == <<"array", s>>
Object(f) == <<"object", f>>

Zeros(k) == [i \in 1 .. k |-> 0]
Ones(k) == [i \in 1 .. k |-> 255]

Word(n) == Zeros(5) \o <<n \div 65536, (n \div 256) % 256, n % 256>>
Complement(n) == [i \in 1 .. 8 |-> 255 - n[i]]
Negative(n) == n[1] >= 128
Low(n, k) == SubSeq(n, 9 - k, 8)

\* static_cast of k bytes from an unsigned and from a signed type.
ZeroExtend(s) == Zeros(8 - Len(s)) \o s
SignExtend(s) == (IF s[1] >= 128 THEN Ones(8 - Len(s)) ELSE Zeros(8 - Len(s))) \o s

\* n <= max of uintK_t, for n >= 0; min <= n <= max of intK_t for signed n.
FitsUnsigned(n, k) == ZeroExtend(Low(n, k)) = n
FitsSigned(n, k) == SignExtend(Low(n, k)) = n

\* A number as a count of things to read; more than any input has is Huge.
Huge == 16777216
Count(n) ==
    IF \E i \in 1 .. 5 : n[i] # 0 THEN Huge ELSE n[6] * 65536 + n[7] * 256 + n[8]

-----------------------------------------------------------------------------
(* Reading: pos bytes of the input are read; a result is a value with the  *)
(* new position, or the number of the exception thrown.                    *)

Ok(v, pos) == [ok |-> TRUE, value |-> v, pos |-> pos]
Error(id) == [ok |-> FALSE, value |-> <<"exception", id>>, pos |-> 0]

get(in, pos) == IF pos < Len(in) THEN in[pos + 1] ELSE Eof


\* The k bytes of a number in the order of the input.
get_number(in, pos, k) ==
    IF pos + k > Len(in) THEN Error(110) ELSE Ok(SubSeq(in, pos + 1, pos + k), pos + k)

get_string(in, pos, len) ==
    IF pos + len > Len(in) THEN Error(110) ELSE Ok(SubSeq(in, pos + 1, pos + len), pos + len)

\* What follows a number that was read, if it was.
Then(r, F(_, _)) == IF r.ok THEN F(r.value, r.pos) ELSE r

\* std::map's insert keeps a member that is there; operator[] replaces it.
Insert(f, k, v) == IF k \in DOMAIN f THEN f ELSE (k :> v) @@ f
Assign(f, k, v) == (k :> v) @@ f

EmptyObject == [k \in {} |-> Null]

expect_eof(r, in, pos) == IF get(in, pos) = Eof THEN r ELSE Error(110)

-----------------------------------------------------------------------------
(* Writing: objects are written in the order of std::map's keys.           *)

RECURSIVE Before(_, _)
Before(a, b) ==
    IF b = <<>> THEN FALSE
    ELSE a = <<>> \/ a[1] < b[1] \/ (a[1] = b[1] /\ Before(Tail(a), Tail(b)))

Members(f) ==
    LET keys == SetToSortSeq(DOMAIN f, Before)
    IN  [i \in 1 .. Len(keys) |-> <<keys[i], f[keys[i]]>>]

\* The same value: a number that is not negative may change its type.
RECURSIVE Same(_, _)
Same(a, b) ==
    CASE a[1] \in {"integer", "unsigned"} ->
           /\ b[1] \in {"integer", "unsigned"} /\ a[2] = b[2]
           /\ a[1] = b[1] \/ ~Negative(a[2])
      [] a[1] = "array" ->
           b[1] = "array" /\ Len(a[2]) = Len(b[2]) /\ \A i \in 1 .. Len(a[2]) : Same(a[2][i], b[2][i])
      [] a[1] = "object" ->
           b[1] = "object" /\ DOMAIN a[2] = DOMAIN b[2] /\ \A k \in DOMAIN a[2] : Same(a[2][k], b[2][k])
      [] OTHER -> a = b

\* A part in single precision is written in double precision.
RECURSIVE Exact(_)
Exact(v) ==
    CASE v[1] = "single" -> FALSE
      [] v[1] = "array"  -> \A i \in 1 .. Len(v[2]) : Exact(v[2][i])
      [] v[1] = "object" -> \A k \in DOMAIN v[2] : Exact(v[2][k])
      [] OTHER           -> TRUE
=============================================================================
