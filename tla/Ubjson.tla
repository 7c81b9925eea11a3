------------------------------- MODULE Ubjson -------------------------------
(***************************************************************************)
(* UBJSON in bryllite-common/nlohmann/json.hpp: binary_writer::write_ubjson *)
(* with its optional counts ('#') and types ('$'), and                     *)
(* binary_reader::parse_ubjson with the no-op bytes ('N') it skips.        *)
(*                                                                         *)
(* Counts that are given as floating-point numbers are not modelled.       *)
(***************************************************************************)
EXTENDS Integers, Sequences, SequencesExt
LOCAL INSTANCE BinaryFormat

\* The markers by name; a byte that is not a marker is a number.
Marker ==
    [Z |-> 90, T |-> 84, F |-> 70, U |-> 85, i |-> 105, I |-> 73, l |-> 108, L |-> 76, d |-> 100, D |-> 68,
     C |-> 67, S |-> 83, N |-> 78, type |-> 36, count |-> 35, open_array |-> 91, close_array |-> 93,
     open_object |-> 123, close_object |-> 125]

\* An exception in the middle of writing, in place of a byte.
Thrown == -2

-----------------------------------------------------------------------------
(* write_ubjson.                                                           *)

\* The type of an unsigned number: 'U' is reached where int8_t is too small.
UnsignedPrefix(n) ==
    CASE FitsUnsigned(n, 1) /\ n[8] <= 127 -> Marker.i
      [] FitsUnsigned(n, 1) /\ n[8] > 127  -> Marker.U
      [] ~FitsUnsigned(n, 1) /\ ~Negative(n) /\ FitsSigned(n, 2) -> Marker.I
      [] ~FitsSigned(n, 2) /\ ~Negative(n) /\ FitsSigned(n, 4) -> Marker.l
      [] OTHER -> Marker.L

IntegerPrefix(n) ==
    CASE FitsSigned(n, 1) -> Marker.i
      [] ~FitsSigned(n, 1) /\ FitsUnsigned(n, 1) -> Marker.U
      [] ~FitsSigned(n, 1) /\ ~FitsUnsigned(n, 1) /\ FitsSigned(n, 2) -> Marker.I
      [] ~FitsSigned(n, 2) /\ FitsSigned(n, 4) -> Marker.l
      [] OTHER -> Marker.L

BytesOf(marker) ==
    CASE marker \in {Marker.i, Marker.U} -> 1 [] marker = Marker.I -> 2 [] marker = Marker.l -> 4 [] marker = Marker.L -> 8

Prefixed(add_prefix, marker, rest) == IF add_prefix THEN <<marker>> \o rest ELSE rest

write_number_unsigned(n, add_prefix) ==
    LET m == UnsignedPrefix(n)
    IN  IF Negative(n) THEN <<Thrown>> ELSE Prefixed(add_prefix, m, Low(n, BytesOf(m)))

write_number_integer(n, add_prefix) ==
    LET m == IntegerPrefix(n) IN Prefixed(add_prefix, m, Low(n, BytesOf(m)))

ubjson_prefix(v) ==
    CASE v[1] = "null"     -> Marker.Z
      [] v[1] = "boolean"  -> IF v[2] THEN Marker.T ELSE Marker.F
      [] v[1] = "integer"  -> IntegerPrefix(v[2])
      [] v[1] = "unsigned" -> UnsignedPrefix(v[2])
      [] v[1] = "float"    -> Marker.D
      [] v[1] = "string"   -> Marker.S
      [] v[1] = "array"    -> Marker.open_array
      [] v[1] = "object"   -> Marker.open_object

write_ubjson_string(s) == write_number_unsigned(Word(Len(s)), TRUE) \o s

\* Whether all elements are written without their type.
SharedType(parts, use_type) ==
    use_type /\ parts # <<>> /\ \A i \in 1 .. Len(parts) : ubjson_prefix(parts[i]) = ubjson_prefix(parts[1])

RECURSIVE write_ubjson(_, _, _, _)

\* Type and count of a container.
WriteHead(parts, use_count, use_type) ==
    (IF SharedType(parts, use_type) THEN <<Marker.type, ubjson_prefix(parts[1])>> ELSE <<>>)
      \o (IF use_count THEN <<Marker.count>> \o write_number_unsigned(Word(Len(parts)), TRUE) ELSE <<>>)

write_ubjson_array(s, use_count, use_type, add_prefix) ==
    Prefixed(add_prefix, Marker.open_array,
        WriteHead(s, use_count, use_type)
          \o FlattenSeq([i \in 1 .. Len(s) |-> write_ubjson(s[i], use_count, use_type, ~SharedType(s, use_type))])
          \o (IF use_count THEN <<>> ELSE <<Marker.close_array>>))

write_ubjson_object(f, use_count, use_type, add_prefix) ==
    LET m     == Members(f)
        parts == [i \in 1 .. Len(m) |-> m[i][2]]
    IN  Prefixed(add_prefix, Marker.open_object,
            WriteHead(parts, use_count, use_type)
              \o FlattenSeq([i \in 1 .. Len(m) |->
                    write_ubjson_string(m[i][1]) \o write_ubjson(parts[i], use_count, use_type, ~SharedType(parts, use_type))])
              \o (IF use_count THEN <<>> ELSE <<Marker.close_object>>))

write_ubjson(v, use_count, use_type, add_prefix) ==
    CASE v[1] \in {"null", "boolean"} -> Prefixed(add_prefix, ubjson_prefix(v), <<>>)
      [] v[1] = "integer"  -> write_number_integer(v[2], add_prefix)
      [] v[1] = "unsigned" -> write_number_unsigned(v[2], add_prefix)
      [] v[1] = "float"    -> Prefixed(add_prefix, Marker.D, v[2])
      [] v[1] = "string"   -> Prefixed(add_prefix, Marker.S, write_ubjson_string(v[2]))
      [] v[1] = "array"    -> write_ubjson_array(v[2], use_count, use_type, add_prefix)
      [] v[1] = "object"   -> write_ubjson_object(v[2], use_count, use_type, add_prefix)

-----------------------------------------------------------------------------
(* parse_ubjson.  pos counts the current byte.                             *)

RECURSIVE get_ignore_noop(_, _), get_ubjson_value(_, _, _), UbjsonElements(_, _, _, _, _), UbjsonPairs(_, _, _, _, _)
RECURSIVE Elements_to_end(_, _, _), Pairs_to_end(_, _, _)

\* The position behind the next byte that is not a no-op.
get_ignore_noop(in, pos) == IF get(in, pos) = Marker.N THEN get_ignore_noop(in, pos + 1) ELSE pos + 1

Current(in, pos) == get(in, pos - 1)

parse_ubjson_internal(in, pos) ==
    LET p == get_ignore_noop(in, pos) IN get_ubjson_value(in, p, Current(in, p))

NumberTypes == {Marker.U, Marker.i, Marker.I, Marker.l, Marker.L}

ReadTyped(in, pos, marker) ==
    Then(get_number(in, pos, BytesOf(marker)),
         LAMBDA s, p : Ok(IF marker = Marker.U THEN Unsigned(ZeroExtend(s)) ELSE Integer(SignExtend(s)), p))

\* A string whose length has the type c; a negative length is none.
get_ubjson_string(in, pos, c) ==
    CASE c = Eof            -> Error(110)
      [] c \in NumberTypes  -> Then(ReadTyped(in, pos, c), LAMBDA n, p :
                                    IF Negative(n[2]) THEN Ok(<<>>, p) ELSE get_string(in, p, Count(n[2])))
      [] OTHER              -> Error(113)

\* A value as a count: numbers and Booleans convert, others are refused.
npos == Ones(8)
SizeOf(v) ==
    CASE v[1] \in {"integer", "unsigned"} -> v[2]
      [] v[1] = "boolean" -> IF v[2] THEN Word(1) ELSE Word(0)

\* The count, or npos, the type, or 0, and the position behind them.
get_ubjson_size_type(in, pos) ==
    LET counted(at, tc) == Then(parse_ubjson_internal(in, at), LAMBDA v, p :
                                IF v[1] \in {"integer", "unsigned", "boolean"} THEN Ok(<<SizeOf(v), tc>>, p) ELSE Error(302))
        p == get_ignore_noop(in, pos)
        c == Current(in, p)
    IN  CASE c = Marker.type ->
               LET q == get_ignore_noop(in, p + 1)
               IN  CASE get(in, p) = Eof -> Error(110)
                     [] get(in, p) # Eof /\ Current(in, q) # Marker.count -> Error(112)
                     [] OTHER -> counted(q, get(in, p))
          [] c = Marker.count -> counted(p, 0)
          [] OTHER -> Ok(<<npos, 0>>, p)

\* More than the containers' max_size().
Excessive(n) == n[1] > 7

UbjsonElements(in, pos, n, tc, sofar) ==
    IF n = 0 THEN Ok(Array(sofar), pos)
    ELSE Then(IF tc = 0 THEN parse_ubjson_internal(in, pos) ELSE get_ubjson_value(in, pos, tc),
              LAMBDA v, p : UbjsonElements(in, p, n - 1, tc, Append(sofar, v)))

Elements_to_end(in, pos, sofar) ==
    IF Current(in, pos) = Marker.close_array THEN Ok(Array(sofar), pos)
    ELSE Then(get_ubjson_value(in, pos, Current(in, pos)),
              LAMBDA v, p : Elements_to_end(in, get_ignore_noop(in, p), Append(sofar, v)))

get_ubjson_array(in, pos) ==
    Then(get_ubjson_size_type(in, pos), LAMBDA st, p :
         CASE st[1] = npos                        -> Elements_to_end(in, p, <<>>)
           [] st[1] # npos /\ Excessive(st[1])    -> Error(408)
           [] ~Excessive(st[1]) /\ st[2] = Marker.N -> Ok(Array(<<>>), p)
           [] OTHER                               -> UbjsonElements(in, p, Count(st[1]), st[2], <<>>))

UbjsonPairs(in, pos, n, tc, sofar) ==
    IF n = 0 THEN Ok(Object(sofar), pos)
    ELSE Then(get_ubjson_string(in, pos + 1, get(in, pos)), LAMBDA k, p :
              Then(IF tc = 0 THEN parse_ubjson_internal(in, p) ELSE get_ubjson_value(in, p, tc),
                   LAMBDA v, q : UbjsonPairs(in, q, n - 1, tc, Insert(sofar, k, v))))

Pairs_to_end(in, pos, sofar) ==
    IF Current(in, pos) = Marker.close_object THEN Ok(Object(sofar), pos)
    ELSE Then(get_ubjson_string(in, pos, Current(in, pos)), LAMBDA k, p :
              Then(parse_ubjson_internal(in, p),
                   LAMBDA v, q : Pairs_to_end(in, get_ignore_noop(in, q), Assign(sofar, k, v))))

get_ubjson_object(in, pos) ==
    Then(get_ubjson_size_type(in, pos), LAMBDA st, p :
         CASE st[1] = npos                     -> Pairs_to_end(in, p, EmptyObject)
           [] st[1] # npos /\ Excessive(st[1]) -> Error(408)
           [] OTHER                            -> UbjsonPairs(in, p, Count(st[1]), st[2], EmptyObject))

get_ubjson_value(in, pos, prefix) ==
    CASE prefix = Eof -> Error(110)
      [] prefix = Marker.T -> Ok(Bool(TRUE), pos)
      [] prefix = Marker.F -> Ok(Bool(FALSE), pos)
      [] prefix = Marker.Z -> Ok(Null, pos)
      [] prefix \in NumberTypes -> ReadTyped(in, pos, prefix)
      [] prefix = Marker.d -> Then(get_number(in, pos, 4), LAMBDA s, p : Ok(<<"single", s>>, p))
      [] prefix = Marker.D -> Then(get_number(in, pos, 8), LAMBDA s, p : Ok(Float(s), p))
      [] prefix = Marker.C -> Then(get_number(in, pos, 1), LAMBDA s, p :
                                   IF s[1] > 127 THEN Error(113) ELSE Ok(String(s), p))
      [] prefix = Marker.S -> Then(get_ubjson_string(in, pos + 1, get(in, pos)), LAMBDA s, p : Ok(String(s), p))
      [] prefix = Marker.open_array -> get_ubjson_array(in, pos)
      [] prefix = Marker.open_object -> get_ubjson_object(in, pos)
      [] OTHER -> Error(112)

\* No-ops may follow the value.
parse_ubjson(in) ==
    LET r == parse_ubjson_internal(in, 0)
    IN  IF r.ok THEN expect_eof(r, in, get_ignore_noop(in, r.pos) - 1) ELSE r

-----------------------------------------------------------------------------
(* The values write_number_with_ubjson_prefix throws on.                   *)

RECURSIVE TooLarge(_)
TooLarge(v) ==
    CASE v[1] = "unsigned" -> Negative(v[2])
      [] v[1] = "array"    -> \E i \in 1 .. Len(v[2]) : TooLarge(v[2][i])
      [] v[1] = "object"   -> \E k \in DOMAIN v[2] : TooLarge(v[2][k])
      [] OTHER             -> FALSE
=============================================================================
