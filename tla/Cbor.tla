-------------------------------- MODULE Cbor --------------------------------
(***************************************************************************)
(* CBOR in bryllite-common/nlohmann/json.hpp: binary_writer::write_cbor    *)
(* and binary_reader::parse_cbor.  Values are written and read back, whole *)
(* and cut short; other bytes are fed to the reader and what it makes of   *)
(* them is written again.                                                  *)
(*                                                                         *)
(* The reader is a table of bytes, the reference decodes a byte into the   *)
(* major type and the additional information of RFC 7049.                  *)
(***************************************************************************)
EXTENDS Integers, Sequences, SequencesExt
LOCAL INSTANCE BinaryFormat

-----------------------------------------------------------------------------
(* write_cbor.                                                             *)

\* The argument of a head whose short form is first and whose one-byte form
\* is second.
Argument(n, first, second) ==
    CASE FitsUnsigned(n, 1) /\ n[8] <= 23 -> <<first + n[8]>>
      [] FitsUnsigned(n, 1) /\ n[8] > 23  -> <<second>> \o Low(n, 1)
      [] FitsUnsigned(n, 2) /\ ~FitsUnsigned(n, 1) -> <<second + 1>> \o Low(n, 2)
      [] FitsUnsigned(n, 4) /\ ~FitsUnsigned(n, 2) -> <<second + 2>> \o Low(n, 4)
      [] OTHER -> <<second + 3>> \o n

write_cbor_unsigned(n) == Argument(n, 0, 24)

write_cbor_integer(n) == IF Negative(n) THEN Argument(Complement(n), 32, 56) ELSE Argument(n, 0, 24)

write_cbor_string(s) == Argument(Word(Len(s)), 96, 120) \o s

RECURSIVE write_cbor(_)

write_cbor_array(s) ==
    Argument(Word(Len(s)), 128, 152) \o FlattenSeq([i \in 1 .. Len(s) |-> write_cbor(s[i])])

write_cbor_object(f) ==
    LET m == Members(f)
    IN  Argument(Word(Len(m)), 160, 184)
          \o FlattenSeq([i \in 1 .. Len(m) |-> write_cbor_string(m[i][1]) \o write_cbor(m[i][2])])

write_cbor(v) ==
    CASE v[1] = "null"     -> <<246>>
      [] v[1] = "boolean"  -> IF v[2] THEN <<245>> ELSE <<244>>
      [] v[1] = "integer"  -> write_cbor_integer(v[2])
      [] v[1] = "unsigned" -> write_cbor_unsigned(v[2])
      [] v[1] = "float"    -> <<251>> \o v[2]
      [] v[1] = "string"   -> write_cbor_string(v[2])
      [] v[1] = "array"    -> write_cbor_array(v[2])
      [] v[1] = "object"   -> write_cbor_object(v[2])

-----------------------------------------------------------------------------
(* parse_cbor.  c is the current byte, pos counts it.                      *)

RECURSIVE parse_cbor_internal(_, _), ReadItem(_, _, _), get_cbor_string(_, _, _)
RECURSIVE Chunks(_, _, _), CborElements(_, _, _, _), CborPairs(_, _, _, _), Elements_to_break(_, _, _), Pairs_to_break(_, _, _)

\* Bytes of the number that follows c, counted from the one-byte form.
Width(c, second) == CASE c = second -> 1 [] c = second + 1 -> 2 [] c = second + 2 -> 4 [] c = second + 3 -> 8

\* A length: in c itself, or in the number behind it.
Length(in, pos, c, first) ==
    IF c < first + 24 THEN Ok(c - first, pos)
    ELSE LET r == get_number(in, pos, Width(c, first + 24))
         IN  IF r.ok THEN Ok(Count(ZeroExtend(r.value)), r.pos) ELSE r

ReadInteger(in, pos, c) ==
    LET following(second, F(_)) ==
            Then(get_number(in, pos, Width(c, second)), LAMBDA s, p : Ok(F(ZeroExtend(s)), p))
    IN  CASE c \in 0 .. 23   -> Ok(Unsigned(Word(c)), pos)
          [] c \in 24 .. 27  -> following(24, Unsigned)
          [] c \in 32 .. 55  -> Ok(Integer(Complement(Word(c - 32))), pos)
          [] c \in 56 .. 59  -> following(56, LAMBDA n : Integer(Complement(n)))

Chunks(in, pos, sofar) ==
    LET c == get(in, pos)
    IN  IF c = 255 THEN Ok(sofar, pos + 1)
        ELSE Then(get_cbor_string(in, pos + 1, c), LAMBDA s, p : Chunks(in, p, sofar \o s))

get_cbor_string(in, pos, c) ==
    CASE c = Eof                      -> Error(110)
      [] c \in 96 .. 123              -> Then(Length(in, pos, c, 96), LAMBDA n, p : get_string(in, p, n))
      [] c = 127                      -> Chunks(in, pos, <<>>)
      [] OTHER                        -> Error(113)

CborElements(in, pos, n, sofar) ==
    IF n = 0 THEN Ok(Array(sofar), pos)
    ELSE Then(parse_cbor_internal(in, pos), LAMBDA v, p : CborElements(in, p, n - 1, Append(sofar, v)))

\* The break byte is looked for before every element.
Elements_to_break(in, pos, sofar) ==
    LET c == get(in, pos)
    IN  IF c = 255 THEN Ok(Array(sofar), pos + 1)
        ELSE Then(ReadItem(in, pos + 1, c), LAMBDA v, p : Elements_to_break(in, p, Append(sofar, v)))

CborPairs(in, pos, n, sofar) ==
    IF n = 0 THEN Ok(Object(sofar), pos)
    ELSE Then(get_cbor_string(in, pos + 1, get(in, pos)),
              LAMBDA k, p : Then(parse_cbor_internal(in, p),
                                 LAMBDA v, q : CborPairs(in, q, n - 1, Insert(sofar, k, v))))

Pairs_to_break(in, pos, sofar) ==
    LET c == get(in, pos)
    IN  IF c = 255 THEN Ok(Object(sofar), pos + 1)
        ELSE Then(get_cbor_string(in, pos + 1, c),
                  LAMBDA k, p : Then(parse_cbor_internal(in, p),
                                     LAMBDA v, q : Pairs_to_break(in, q, Assign(sofar, k, v))))

ReadContainer(in, pos, c) ==
    CASE c \in 128 .. 155 -> Then(Length(in, pos, c, 128), LAMBDA n, p : CborElements(in, p, n, <<>>))
      [] c = 159          -> Elements_to_break(in, pos, <<>>)
      [] c \in 160 .. 187 -> Then(Length(in, pos, c, 160), LAMBDA n, p : CborPairs(in, p, n, EmptyObject))
      [] c = 191          -> Pairs_to_break(in, pos, EmptyObject)

\* Half precision: sign, mantissa and exponent of mantissa * 2^exponent.
HalfFloat(s) ==
    LET half == s[1] * 256 + s[2]
        exp  == (half \div 1024) % 32
        mant == half % 1024
        sign == IF half >= 32768 THEN -1 ELSE 1
    IN  CASE exp = 0  -> <<"half", sign, mant, -24>>
          [] exp = 31 -> <<"half", sign, IF mant = 0 THEN "infinity" ELSE "nan", 0>>
          [] OTHER    -> <<"half", sign, mant + 1024, exp - 25>>

ReadSimple(in, pos, c) ==
    CASE c = 244 -> Ok(Bool(FALSE), pos)
      [] c = 245 -> Ok(Bool(TRUE), pos)
      [] c = 246 -> Ok(Null, pos)
      [] c = 249 -> Then(get_number(in, pos, 2), LAMBDA s, p : Ok(HalfFloat(s), p))
      [] c = 250 -> Then(get_number(in, pos, 4), LAMBDA s, p : Ok(<<"single", s>>, p))
      [] c = 251 -> Then(get_number(in, pos, 8), LAMBDA s, p : Ok(Float(s), p))

ReadItem(in, pos, c) ==
    CASE c = Eof                                     -> Error(110)
      [] c \in (0 .. 27) \cup (32 .. 59)             -> ReadInteger(in, pos, c)
      [] c \in (96 .. 123) \cup {127}                ->
           Then(get_cbor_string(in, pos, c), LAMBDA s, p : Ok(String(s), p))
      [] c \in (128 .. 155) \cup (159 .. 187) \cup {191} -> ReadContainer(in, pos, c)
      [] c \in {244, 245, 246, 249, 250, 251}        -> ReadSimple(in, pos, c)
      [] OTHER                                       -> Error(112)

parse_cbor_internal(in, pos) == ReadItem(in, pos + 1, get(in, pos))

parse_cbor(in) ==
    LET r == parse_cbor_internal(in, 0) IN IF r.ok THEN expect_eof(r, in, r.pos) ELSE r

-----------------------------------------------------------------------------
(* RFC 7049: the initial byte is a major type and additional information.  *)

RECURSIVE RfcItem(_, _), RfcSeq(_, _, _), RfcBreak(_, _, _)

\* Items up to a count, or up to the break byte, as a sequence.
RfcSeq(in, pos, n) ==
    IF n = 0 THEN Ok(<<>>, pos)
    ELSE Then(RfcItem(in, pos), LAMBDA v, p : Then(RfcSeq(in, p, n - 1), LAMBDA s, q : Ok(<<v>> \o s, q)))

RfcBreak(in, pos, s) ==
    IF get(in, pos) = 255 THEN Ok(s, pos + 1)
    ELSE Then(RfcItem(in, pos), LAMBDA v, p : RfcBreak(in, p, Append(s, v)))

AllStrings(s) == \A i \in 1 .. Len(s) : s[i][1] = "string"

\* An object from keys and values in turn: the first of equal keys in a map
\* of known length, the last of them in one with a break (the RFC leaves it
\* open).
RfcMap(s, p, first) ==
    LET n == Len(s) \div 2
        keys == {s[2 * i - 1] : i \in 1 .. n}
        at(k) == {i \in 1 .. n : s[2 * i - 1] = k}
        pick(k) == CHOOSE i \in at(k) : \A j \in at(k) : IF first THEN i <= j ELSE i >= j
    IN  IF Len(s) % 2 = 1 \/ ~AllStrings([i \in 1 .. n |-> s[2 * i - 1]]) THEN Error(0)
        ELSE Ok(Object([k \in {key[2] : key \in keys} |-> s[2 * pick(String(k))]]), p)

RfcItem(in, pos) ==
    LET b     == get(in, pos)
        major == b \div 32
        info  == b % 32
        arg   == IF info < 24 THEN Ok(Word(info), pos + 1)
                 ELSE Then(get_number(in, pos + 1, 2 ^ (info - 24)), LAMBDA s, p : Ok(ZeroExtend(s), p))
        break == info = 31
    IN  CASE b = Eof \/ info \in 28 .. 30 \/ major \in {2, 6} -> Error(0)
          [] b # Eof /\ major = 0 /\ info < 28 -> Then(arg, LAMBDA n, p : Ok(Unsigned(n), p))
          [] b # Eof /\ major = 1 /\ info < 28 -> Then(arg, LAMBDA n, p : Ok(Integer(Complement(n)), p))
          [] b # Eof /\ major = 3 /\ info < 28 ->
               Then(arg, LAMBDA n, p : Then(get_string(in, p, Count(n)), LAMBDA s, q : Ok(String(s), q)))
          [] b # Eof /\ major = 3 /\ break ->       \* chunks in chunks are read too
               Then(RfcBreak(in, pos + 1, <<>>), LAMBDA s, p :
                    IF AllStrings(s) THEN Ok(String(FlattenSeq([i \in 1 .. Len(s) |-> s[i][2]])), p) ELSE Error(0))
          [] b # Eof /\ major = 4 /\ info < 28 ->
               Then(arg, LAMBDA n, p : Then(RfcSeq(in, p, Count(n)), LAMBDA s, q : Ok(Array(s), q)))
          [] b # Eof /\ major = 4 /\ break -> Then(RfcBreak(in, pos + 1, <<>>), LAMBDA s, p : Ok(Array(s), p))
          [] b # Eof /\ major = 5 /\ info < 28 ->
               Then(arg, LAMBDA n, p : Then(RfcSeq(in, p, 2 * Count(n)), LAMBDA s, q : RfcMap(s, q, TRUE)))
          [] b # Eof /\ major = 5 /\ break -> Then(RfcBreak(in, pos + 1, <<>>), LAMBDA s, p : RfcMap(s, p, FALSE))
          [] b # Eof /\ major = 7 /\ info \in {20, 21} -> Ok(Bool(info = 21), pos + 1)
          [] b # Eof /\ major = 7 /\ info = 22 -> Ok(Null, pos + 1)
          [] b # Eof /\ major = 7 /\ info = 25 -> Then(get_number(in, pos + 1, 2), LAMBDA s, p : Ok(HalfFloat(s), p))
          [] b # Eof /\ major = 7 /\ info = 26 -> Then(get_number(in, pos + 1, 4), LAMBDA s, p : Ok(<<"single", s>>, p))
          [] b # Eof /\ major = 7 /\ info = 27 -> Then(get_number(in, pos + 1, 8), LAMBDA s, p : Ok(Float(s), p))
          [] OTHER -> Error(0)
=============================================================================
