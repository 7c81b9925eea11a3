------------------------------ MODULE MsgPack -------------------------------
(***************************************************************************)
(* MessagePack in bryllite-common/nlohmann/json.hpp:                       *)
(* binary_writer::write_msgpack and binary_reader::parse_msgpack.  Values  *)
(* are written and read back, whole and cut short; other bytes are fed to  *)
(* the reader and what it makes of them is written again.                  *)
(***************************************************************************)
EXTENDS Integers, Sequences, SequencesExt
LOCAL INSTANCE BinaryFormat

-----------------------------------------------------------------------------
(* write_msgpack.                                                          *)

write_msgpack_unsigned(n) ==
    CASE FitsUnsigned(n, 1) /\ n[8] < 128  -> Low(n, 1)
      [] FitsUnsigned(n, 1) /\ n[8] >= 128 -> <<204>> \o Low(n, 1)
      [] FitsUnsigned(n, 2) /\ ~FitsUnsigned(n, 1) -> <<205>> \o Low(n, 2)
      [] FitsUnsigned(n, 4) /\ ~FitsUnsigned(n, 2) -> <<206>> \o Low(n, 4)
      [] OTHER -> <<207>> \o n

WriteNegative(n) ==
    CASE FitsSigned(n, 1) -> IF n[8] >= 224 THEN Low(n, 1) ELSE <<208>> \o Low(n, 1)
      [] FitsSigned(n, 2) /\ ~FitsSigned(n, 1) -> <<209>> \o Low(n, 2)
      [] FitsSigned(n, 4) /\ ~FitsSigned(n, 2) -> <<210>> \o Low(n, 4)
      [] OTHER -> <<211>> \o n

write_msgpack_integer(n) == IF Negative(n) THEN WriteNegative(n) ELSE write_msgpack_unsigned(n)

write_msgpack_string(s) ==
    LET n == Word(Len(s))
    IN  (CASE Len(s) <= 31 -> <<160 + Len(s)>>
           [] Len(s) > 31 /\ FitsUnsigned(n, 1) -> <<217>> \o Low(n, 1)
           [] FitsUnsigned(n, 2) /\ ~FitsUnsigned(n, 1) -> <<218>> \o Low(n, 2)
           [] OTHER -> <<219>> \o Low(n, 4)) \o s

\* The size of an array or object: in the first byte, in two or in four.
Size(n, short, long) ==
    CASE n <= 15 -> <<short + n>>
      [] n > 15 /\ n <= 65535 -> <<long>> \o Low(Word(n), 2)
      [] OTHER -> <<long + 1>> \o Low(Word(n), 4)

RECURSIVE write_msgpack(_)

write_msgpack_array(s) == Size(Len(s), 144, 220) \o FlattenSeq([i \in 1 .. Len(s) |-> write_msgpack(s[i])])

write_msgpack_object(f) ==
    LET m == Members(f)
    IN  Size(Len(m), 128, 222)
          \o FlattenSeq([i \in 1 .. Len(m) |-> write_msgpack_string(m[i][1]) \o write_msgpack(m[i][2])])

write_msgpack(v) ==
    CASE v[1] = "null"     -> <<192>>
      [] v[1] = "boolean"  -> IF v[2] THEN <<195>> ELSE <<194>>
      [] v[1] = "integer"  -> write_msgpack_integer(v[2])
      [] v[1] = "unsigned" -> write_msgpack_unsigned(v[2])
      [] v[1] = "float"    -> <<203>> \o v[2]
      [] v[1] = "string"   -> write_msgpack_string(v[2])
      [] v[1] = "array"    -> write_msgpack_array(v[2])
      [] v[1] = "object"   -> write_msgpack_object(v[2])

-----------------------------------------------------------------------------
(* parse_msgpack.  c is the current byte, pos counts it.                   *)

RECURSIVE parse_msgpack_internal(_, _), get_msgpack_array(_, _, _, _), get_msgpack_object(_, _, _, _)

\* A count in k bytes.
Counted(in, pos, k) ==
    LET r == get_number(in, pos, k) IN IF r.ok THEN Ok(Count(ZeroExtend(r.value)), r.pos) ELSE r

get_msgpack_string(in, pos, c) ==
    LET of(k) == Then(Counted(in, pos, k), LAMBDA n, p : get_string(in, p, n))
    IN  CASE c = Eof            -> Error(110)
          [] c \in 160 .. 191   -> get_string(in, pos, c % 32)
          [] c = 217            -> of(1)
          [] c = 218            -> of(2)
          [] c = 219            -> of(4)
          [] OTHER              -> Error(113)

get_msgpack_array(in, pos, n, sofar) ==
    IF n = 0 THEN Ok(Array(sofar), pos)
    ELSE Then(parse_msgpack_internal(in, pos), LAMBDA v, p : get_msgpack_array(in, p, n - 1, Append(sofar, v)))

get_msgpack_object(in, pos, n, sofar) ==
    IF n = 0 THEN Ok(Object(sofar), pos)
    ELSE Then(get_msgpack_string(in, pos + 1, get(in, pos)),
              LAMBDA k, p : Then(parse_msgpack_internal(in, p),
                                 LAMBDA v, q : get_msgpack_object(in, q, n - 1, Insert(sofar, k, v))))

\* The forms that hold a number or a count in the first byte.
ReadFix(in, pos, c) ==
    CASE c \in 0 .. 127   -> Ok(Unsigned(Word(c)), pos)
      [] c \in 128 .. 143 -> get_msgpack_object(in, pos, c % 16, EmptyObject)
      [] c \in 144 .. 159 -> get_msgpack_array(in, pos, c % 16, <<>>)
      [] c \in 160 .. 191 -> Then(get_msgpack_string(in, pos, c), LAMBDA s, p : Ok(String(s), p))
      [] c \in 224 .. 255 -> Ok(Integer(SignExtend(<<c>>)), pos)

ReadFixed(in, pos, c) ==
    LET of(k, F(_)) == Then(get_number(in, pos, k), LAMBDA s, p : Ok(F(s), p))
        unsigned(s) == Unsigned(ZeroExtend(s))
        signed(s)   == Integer(SignExtend(s))
    IN  CASE c = 202 -> of(4, LAMBDA s : <<"single", s>>)
          [] c = 203 -> of(8, Float)
          [] c \in 204 .. 207 -> of(2 ^ (c - 204), unsigned)
          [] c \in 208 .. 211 -> of(2 ^ (c - 208), signed)

\* Strings, arrays and objects with a count in further bytes.
ReadCounted(in, pos, c) ==
    CASE c \in 217 .. 219 -> Then(get_msgpack_string(in, pos, c), LAMBDA s, p : Ok(String(s), p))
      [] c \in {220, 221} -> Then(Counted(in, pos, IF c = 220 THEN 2 ELSE 4),
                                  LAMBDA n, p : get_msgpack_array(in, p, n, <<>>))
      [] c \in {222, 223} -> Then(Counted(in, pos, IF c = 222 THEN 2 ELSE 4),
                                  LAMBDA n, p : get_msgpack_object(in, p, n, EmptyObject))

parse_msgpack_internal(in, at) ==
    LET c   == get(in, at)
        pos == at + 1
    IN  CASE c = Eof -> Error(110)
          [] c \in (0 .. 191) \cup (224 .. 255) -> ReadFix(in, pos, c)
          [] c = 192 -> Ok(Null, pos)
          [] c \in {194, 195} -> Ok(Bool(c = 195), pos)
          [] c \in 202 .. 211 -> ReadFixed(in, pos, c)
          [] c \in 217 .. 223 -> ReadCounted(in, pos, c)
          [] OTHER -> Error(112)

parse_msgpack(in) ==
    LET r == parse_msgpack_internal(in, 0) IN IF r.ok THEN expect_eof(r, in, r.pos) ELSE r
=============================================================================
