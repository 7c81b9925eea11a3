---------------------------- MODULE StrEncodings ----------------------------
(***************************************************************************)
(* The number parsers of src/bryllite-core/utilstrencodings.{hpp,cpp}      *)
(* (ParsePrechecks, ParseInt32/64, ParseUInt32/64, SplitHostPort and       *)
(* ParseFixedPoint) and two text helpers: FormatParagraph, which breaks    *)
(* text at a width, and TimingResistantEqual.                              *)
(*                                                                         *)
(* The limits are scaled: Digits stands for the 18 decimal digits of an    *)
(* amount, IntMax, LongMax and PortMax for the ranges of int32_t, of       *)
(* strtol's result and of a port.  size_t is unsigned: width - indented    *)
(* wraps around when the indentation is wider than the line.               *)
(*                                                                         *)
(* The text that a caller hands to a function grows by a character at a    *)
(* time, so that every text over the alphabet of a kind up to a length is  *)
(* a state.  Characters are their codes.                                   *)
(***************************************************************************)
EXTENDS Integers, Sequences, SequencesExt

CONSTANTS
    Alphabets,      \* the characters (or bytes) of each kind of text
    MaxLen,         \* bound: length of a text, by kind
    MaxRun          \* bound: length of a text of one repeated character, by kind

ASSUME TextAssumption ==
    /\ \A k \in DOMAIN Alphabets : Alphabets[k] \subseteq 0..255
    /\ MaxLen \in [DOMAIN Alphabets -> Nat]
    /\ MaxRun \in [DOMAIN Alphabets -> Nat]

VARIABLES kind, text

textVars == <<kind, text>>

TextInit(kinds) == kind \in kinds /\ text = <<>>

Extend ==
    \E c \in Alphabets[kind] :
        /\ \/ Len(text) < MaxLen[kind]
           \/ Len(text) < MaxRun[kind] /\ \A i \in 1..Len(text) : text[i] = c
        /\ text' = Append(text, c)
        /\ UNCHANGED kind

-----------------------------------------------------------------------------
IsSpace(c) == c \in {32} \cup 9..13

\* The character at position i (from 1); a C string ends with a zero.
At(s, i) == IF i \in 1..Len(s) THEN s[i] ELSE 0

\* How many elements of s, from a position on, satisfy P one after the other.
Span(s, from, P(_)) ==
    CHOOSE n \in 0..(Len(s) + 1 - from) :
        /\ \A i \in from..(from + n - 1) : P(s[i])
        /\ from + n <= Len(s) => ~P(s[from + n])

-----------------------------------------------------------------------------
CONSTANTS
    Digits, IntMax, LongMax, PortMax,
    decimals,           \* the argument of ParseFixedPoint
    Widths, Indents     \* the arguments of FormatParagraph

ASSUME ParseAssumption ==
    /\ Digits \in Nat /\ decimals \in Nat
    /\ IntMax \in Nat /\ LongMax \in Nat /\ IntMax <= LongMax
    /\ PortMax \in 1..IntMax
    /\ Widths \subseteq Nat \ {0} /\ Indents \subseteq Nat

IsDigit(c) == c \in 48..57

\* Number of digits of s from position i on.
Run(s, i) == IF i > Len(s) THEN 0 ELSE Span(s, i, IsDigit)

DecimalValue(s) ==
    LET value[i \in 0..Len(s)] == IF i = 0 THEN 0 ELSE 10 * value[i - 1] + s[i] - 48
    IN  value[Len(s)]

ParsePrechecks(s) ==
    /\ s # <<>>
    /\ ~IsSpace(s[1]) /\ ~IsSpace(s[Len(s)])
    /\ \A i \in 1..Len(s) : s[i] # 0

\* strtol on the C string of s: the value saturates (and sets errno) outside
\* min..max; end is the number of characters consumed, 0 if there is no number.
strtol(s, min, max) ==
    LET begin == 1 + Span(s, 1, IsSpace)
        sign  == IF At(s, begin) = 45 THEN -1 ELSE 1
        read(from, n) ==
            LET v == sign * DecimalValue(SubSeq(s, from, from + n - 1))
            IN  [end |-> IF n = 0 THEN 0 ELSE from + n - 1,
                 value |-> IF n = 0 THEN 0 ELSE IF v < min THEN min ELSE IF v > max THEN max ELSE v,
                 errno |-> n > 0 /\ (v < min \/ v > max)]
        number(from) == read(from, Run(s, from))
    IN  number(IF At(s, begin) \in {43, 45} THEN begin + 1 ELSE begin)

\* The end of the C string: *endp == 0.
AtEnd(s, end) == At(s, end + 1) = 0

\* ParseInt32 (and, with wider limits, ParseInt64).
ParseInt32(s) ==
    LET checked(r) ==
            [ok |-> /\ ParsePrechecks(s)
                    /\ AtEnd(s, r.end)
                    /\ ~r.errno
                    /\ r.value >= -IntMax - 1 /\ r.value <= IntMax,
             out |-> r.value]
    IN  checked(strtol(s, -LongMax - 1, LongMax))

\* ParseUInt32 (and ParseUInt64): strtoul takes a sign and negates modulo its
\* range, so negative numbers are turned away first.
ParseUInt32(s) ==
    LET checked(r, n) ==
            [ok |-> /\ ParsePrechecks(s)
                    /\ At(s, 1) # 45
                    /\ AtEnd(s, r.end)
                    /\ ~r.errno
                    /\ n <= 2 * IntMax + 1,
             out |-> n]
        negated(r) == checked(r, r.value % (2 * LongMax + 2))
    IN  negated(strtol(s, -2 * LongMax - 1, 2 * LongMax + 1))

NoPort == -1

Unbracketed(s) ==
    IF s # <<>> /\ s[1] = 91 /\ s[Len(s)] = 93 THEN SubSeq(s, 2, Len(s) - 1) ELSE s

\* colon is the position of the last colon, 0 if there is none.
Separates(s, colon) ==
    /\ colon > 0
    /\ \/ colon = 1
       \/ s[1] = 91 /\ s[colon - 1] = 93
       \/ \A i \in 1..(colon - 1) : s[i] # 58

SplitHostPort(s) ==
    LET colons == {i \in 1..Len(s) : s[i] = 58}
        colon  == IF colons = {} THEN 0 ELSE CHOOSE i \in colons : \A j \in colons : j <= i
        n      == ParseInt32(SubSeq(s, colon + 1, Len(s)))
    IN  IF Separates(s, colon) /\ n.ok /\ n.out > 0 /\ n.out <= PortMax
        THEN [host |-> Unbracketed(SubSeq(s, 1, colon - 1)), port |-> n.out]
        ELSE [host |-> Unbracketed(s), port |-> NoPort]

-----------------------------------------------------------------------------
UPPER_BOUND == 10^Digits - 1

\* Zeros are counted and multiplied in only when another digit follows them.
ProcessMantissaDigit(st, c) ==
    IF ~st.ok THEN st
    ELSE IF c = 48 THEN [st EXCEPT !.tzeros = @ + 1]
    ELSE LET grow[i \in 0..(st.tzeros + 1)] ==
                IF i = 0 THEN st.mantissa
                ELSE IF grow[i - 1] = -1 \/ grow[i - 1] > UPPER_BOUND \div 10 THEN -1
                ELSE grow[i - 1] * 10
             m == grow[st.tzeros + 1]
         IN  IF m = -1 THEN [st EXCEPT !.ok = FALSE]
             ELSE [ok |-> TRUE, mantissa |-> m + c - 48, tzeros |-> 0]

Rejected == [ok |-> FALSE, amount |-> 0]

\* The end of ParseFixedPoint: mantissa * 10^(exponent + decimals) within bounds.
\* (The sign is put on at the end; the code's bounds are symmetric.)
Scale(m, exponent, negative) ==
    LET e == exponent + decimals
        up[i \in 0..(IF e < 0 THEN 0 ELSE e)] ==
            IF i = 0 THEN m.mantissa
            ELSE IF up[i - 1] = -1 \/ up[i - 1] > UPPER_BOUND \div 10 THEN -1
            ELSE up[i - 1] * 10
    IN  IF e < 0 \/ e >= Digits \/ up[e] = -1 \/ up[e] > UPPER_BOUND THEN Rejected
        ELSE [ok |-> TRUE, amount |-> IF negative THEN -up[e] ELSE up[e]]

\* The fraction of val that begins at a position, with its point: its digits
\* and where it ends; ok unless there is a point alone.
Fraction(val, from) ==
    LET there == At(val, from) = 46
        len   == IF there THEN Run(val, from + 1) ELSE 0
        end   == IF there THEN from + len ELSE from - 1
    IN  [ok |-> there => len > 0, digits |-> SubSeq(val, end - len + 1, end), end |-> end]

\* The exponent from a position on, which has to be the end of val.
Exponent(val, from) ==
    LET there == At(val, from) \in {69, 101}
        sign  == IF there /\ At(val, from + 1) \in {43, 45} THEN 1 ELSE 0
        len   == IF there THEN Run(val, from + 1 + sign) ELSE 0
        end   == IF there THEN from + sign + len ELSE from - 1
    IN  [ok |-> (there => len > 0) /\ end = Len(val),
         negative |-> sign = 1 /\ At(val, from + 1) = 45,
         digits |-> SubSeq(val, end - len + 1, end)]

\* The parts of a number.
Layout(val) ==
    LET from == IF At(val, 1) = 45 THEN 2 ELSE 1
        len  == IF At(val, from) = 48 THEN 1 ELSE Run(val, from)
        parts(frac, exp) ==
            [ok |-> len > 0 /\ frac.ok /\ exp.ok,
             negative |-> from = 2,
             int  |-> SubSeq(val, from, from + len - 1),
             frac |-> frac.digits,
             expNegative |-> exp.negative,
             exp  |-> exp.digits]
        behind(frac) == parts(frac, Exponent(val, frac.end + 1))
    IN  behind(Fraction(val, from + len))

\* The digits of the mantissa; a single leading 0 is passed over.
Mantissa(parts) ==
    FoldLeft(ProcessMantissaDigit, [ok |-> TRUE, mantissa |-> 0, tzeros |-> 0],
             IF parts.int = <<48>> THEN parts.frac ELSE parts.int \o parts.frac)

\* The digits of the exponent: -1 once one above UPPER_BOUND / 10 gets another.
ExponentValue(parts) ==
    LET step(e, c) == IF e = -1 \/ e > UPPER_BOUND \div 10 THEN -1 ELSE e * 10 + c - 48
    IN  FoldLeft(step, 0, parts.exp)

ParseFixedPoint(val) ==
    LET amount(parts, m, exponent) ==
            IF ~parts.ok \/ ~m.ok \/ exponent = -1 THEN Rejected
            ELSE Scale(m, (IF parts.expNegative THEN -exponent ELSE exponent)
                          - Len(parts.frac) + m.tzeros, parts.negative)
        parsed(parts) == amount(parts, Mantissa(parts), ExponentValue(parts))
    IN  parsed(Layout(val))

-----------------------------------------------------------------------------
\* s is [sign] digit+, and its value.
Plain(s) ==
    LET from == IF At(s, 1) \in {43, 45} THEN 2 ELSE 1
    IN  Len(s) >= from /\ \A i \in from..Len(s) : IsDigit(s[i])
PlainValue(s) ==
    CASE s[1] = 45 -> -DecimalValue(Tail(s)) [] s[1] = 43 -> DecimalValue(Tail(s)) [] OTHER -> DecimalValue(s)

(* Strict parsing: a string is accepted exactly if all of it, an embedded zero and
   spaces included, is one number in the range of the result, whatever range
   strtol has; then *out is that number. *)
StrictIntegers ==
    kind = "int" =>
        LET fits == Plain(text) /\ PlainValue(text) \in (-IntMax - 1)..IntMax
            ufits == Plain(text) /\ text[1] # 45 /\ PlainValue(text) \in 0..(2 * IntMax + 1)
        IN  /\ ParseInt32(text).ok <=> fits
            /\ fits => ParseInt32(text).out = PlainValue(text)
            /\ ParseUInt32(text).ok <=> ufits
            /\ ufits => ParseUInt32(text).out = PlainValue(text)

\* host:port as a user would write it back.
Decimal(n) == IF n < 10 THEN <<48 + n>> ELSE <<48 + (n \div 10), 48 + (n % 10)>>
Join(host, port) ==
    (IF \E i \in 1..Len(host) : host[i] \in {58, 91, 93} THEN <<91>> \o host \o <<93>> ELSE host)
    \o <<58>> \o Decimal(port)

(* A split that found a port can be written back and splits the same way, and an
   unbracketed host with several colons never loses its last group to a port. *)
SplitIsStable ==
    kind = "host" =>
        LET r == SplitHostPort(text)
            colons == {i \in 1..Len(text) : text[i] = 58}
        IN  /\ r.port # NoPort => SplitHostPort(Join(r.host, r.port)) = r
            /\ (\E i, j \in colons : i # j) /\ text[1] # 91 => r = [host |-> text, port |-> NoPort]

\* The exact amount of a well-formed number: NotRepresentable if it is no integer
\* multiple of 10^-decimals or too large.
NotRepresentable == 10^Digits
ExactAmount(val) ==
    LET exact(m, e, s) ==
            CASE m = 0 -> 0
              [] m # 0 /\ e >= Digits -> NotRepresentable
              [] m # 0 /\ e \in 0..(Digits - 1) ->
                    IF m > UPPER_BOUND \/ m * 10^e > UPPER_BOUND THEN NotRepresentable ELSE s * m * 10^e
              [] m # 0 /\ e < 0 ->
                    IF -e > MaxLen["fixed"] \/ m % 10^(-e) # 0 \/ m \div 10^(-e) > UPPER_BOUND
                    THEN NotRepresentable ELSE s * (m \div 10^(-e))
        sign(negative) == IF negative THEN -1 ELSE 1
        of(parts) ==
            exact(DecimalValue(parts.int \o parts.frac),
                  sign(parts.expNegative) * DecimalValue(parts.exp) - Len(parts.frac) + decimals,
                  sign(parts.negative))
    IN  of(Layout(val))

(* ParseFixedPoint never rounds and never overflows: an accepted string is a number
   in JSON syntax and the result is exactly its amount; a number other than zero
   is rejected only if no amount represents it. *)
FixedPointExact ==
    kind = "fixed" =>
        LET r == ParseFixedPoint(text)
        IN  /\ r.ok => Layout(text).ok /\ r.amount = ExactAmount(text)
            /\ Layout(text).ok /\ ExactAmount(text) \notin {0, NotRepresentable} => r.ok

-----------------------------------------------------------------------------
(* FormatParagraph and TimingResistantEqual.                               *)

Space == 32
NewLine == 10

\* find_first_of and find_last_of over a set of characters; 0 is npos.
FirstOf(s, set, from) ==
    LET at == {i \in from..Len(s) : s[i] \in set}
    IN  IF at = {} THEN 0 ELSE CHOOSE i \in at : \A j \in at : i <= j
LastOf(s, set, upto) ==
    LET at == {i \in 1..Len(s) : i <= upto /\ s[i] \in set}
    IN  IF at = {} THEN 0 ELSE CHOOSE i \in at : \A j \in at : j <= i

\* More than any length: what a negative size_t becomes.
Huge == 1000000
Minus(n, m) == IF n >= m THEN n - m ELSE Huge

Blanks(n) == [i \in 1..n |-> Space]

\* Slip: the columns of the indentation are not counted.
BreakUncounted(in, ptr, width, indented) == LastOf(in, {Space, NewLine}, ptr + width)

\* The last place to break that still fits.
BreakAt(in, ptr, width, indented) == LastOf(in, {Space, NewLine}, ptr + Minus(width, indented))

\* One turn of the loop: the text from ptr on, on a line where `indented' columns
\* are taken.  The rest is formatted by the turns that follow.
FormatParagraph(in, width, indent) ==
    LET turn[ptr \in 1..(Len(in) + 2), indented \in {0, indent}] ==
            LET found     == FirstOf(in, {NewLine}, ptr)
                lineend   == IF found = 0 THEN Len(in) + 1 ELSE found
                rem_width == Minus(width, indented)
                last      == BreakAt(in, ptr, width, indented)
                finalspace == IF last = 0 \/ last < ptr
                              THEN FirstOf(in, {Space, NewLine}, ptr) ELSE last
                nextIndent == IF in[finalspace] = NewLine THEN 0
                              ELSE IF indent > 0 THEN indent ELSE indented
            IN  CASE ptr > Len(in) -> <<>>
                  [] ptr <= Len(in) /\ lineend - ptr <= rem_width ->
                        SubSeq(in, ptr, IF lineend > Len(in) THEN Len(in) ELSE lineend)
                        \o turn[lineend + 1, 0]
                  [] ptr <= Len(in) /\ lineend - ptr > rem_width /\ finalspace = 0 ->
                        SubSeq(in, ptr, Len(in))
                  [] OTHER ->
                        SubSeq(in, ptr, finalspace - 1) \o <<NewLine>>
                        \o (IF in[finalspace] = NewLine THEN <<>> ELSE Blanks(indent))
                        \o turn[finalspace + 1, nextIndent]
    IN  turn[1, 0]

\* The accumulator stays zero: the lengths agree and so does every character.
TimingResistantEqual(s1, s2) ==
    IF s2 = <<>> THEN s1 = <<>>
    ELSE /\ Len(s1) = Len(s2)
         /\ \A i \in 1..Len(s1) : s1[i] = s2[((i - 1) % Len(s2)) + 1]

-----------------------------------------------------------------------------
\* The pieces of s between characters of a set, empty pieces left out.
WordsOf(s, set) ==
    LET cut[i \in 0..Len(s)] ==
            IF i = 0 THEN <<<<>>>>
            ELSE IF s[i] \in set THEN Append(cut[i - 1], <<>>)
            ELSE [cut[i - 1] EXCEPT ![Len(cut[i - 1])] = Append(@, s[i])]
    IN  SelectSeq(cut[Len(s)], LAMBDA w : w # <<>>)

(* Formatting moves words to other lines but keeps all of them whole and in order,
   also when the indentation is wider than the line and the remaining width wraps
   around. *)
WordsKept ==
    kind = "paragraph" => \A width \in Widths, indent \in Indents :
        WordsOf(FormatParagraph(text, width, indent), {Space, NewLine})
            = WordsOf(text, {Space, NewLine})

(* A line longer than the width holds a single word that is too long for it, as
   long as the indentation leaves room. *)
LinesFit ==
    kind = "paragraph" => \A width \in Widths, indent \in Indents :
        LET lines == WordsOf(FormatParagraph(text, width, indent), {NewLine})
        IN  indent < width => \A k \in 1..Len(lines) :
                Len(lines[k]) > width => Len(WordsOf(lines[k], {Space})) = 1

(* TimingResistantEqual is equality, for strings of any two lengths, although the
   loop runs over the first one only. *)
EqualIsEqual ==
    kind = "paragraph" => \A k \in 0..Len(text) :
        LET s1 == SubSeq(text, 1, k)
            s2 == SubSeq(text, k + 1, Len(text))
        IN  TimingResistantEqual(s1, s2) <=> s1 = s2

-----------------------------------------------------------------------------
(***************************************************************************)
(* Base 64 and base 32 text of src/bryllite-core/utilstrencodings.{hpp,cpp}*)
(* on top of ConvertBits, which regroups bits with a small accumulator.    *)
(***************************************************************************)

\* The inner while loop: values leave the accumulator from the top.
Flush(acc, bits, tobits) ==
    LET n == bits \div tobits
    IN  [i \in 1..n |-> (acc \div 2^(bits - i * tobits)) % 2^tobits]

\* One turn of the outer loop.  The mask max_acc keeps the bits still needed.
ConvertStep(st, v, frombits, tobits) ==
    LET acc  == (st.acc * 2^frombits + v) % 2^(frombits + tobits - 1)
        bits == st.bits + frombits
    IN  [acc |-> acc, bits |-> bits % tobits, out |-> st.out \o Flush(acc, bits, tobits)]

\* ConvertBits<frombits, tobits, pad> over vals.
ConvertBits(frombits, tobits, pad, vals) ==
    LET step(st, v) == IF st.bits < 0 THEN st ELSE ConvertStep(st, v, frombits, tobits)
        end  == FoldLeft(step, [acc |-> 0, bits |-> 0, out |-> <<>>], vals)
        rest == (end.acc * 2^(tobits - end.bits)) % 2^tobits
    IN  IF pad
        THEN [ok |-> TRUE, out |-> IF end.bits > 0 THEN Append(end.out, rest) ELSE end.out]
        ELSE [ok |-> end.bits < frombits /\ rest = 0, out |-> end.out]

-----------------------------------------------------------------------------
pbase64(v) == CASE v < 26 -> 65 + v [] v \in 26..51 -> 71 + v [] v \in 52..61 -> v - 4
                [] v = 62 -> 43 [] v = 63 -> 47

decode64_table(c) ==
    CASE c \in 65..90 -> c - 65 [] c \in 97..122 -> c - 71 [] c \in 48..57 -> c + 4
      [] c = 43 -> 62 [] c = 47 -> 63 [] OTHER -> -1

pbase32(v) == IF v < 26 THEN 97 + v ELSE 24 + v

decode32_table(c) ==
    CASE c \in 65..90 -> c - 65 [] c \in 97..122 -> c - 97 [] c \in 50..55 -> c - 24
      [] OTHER -> -1

\* '=' up to a multiple of block characters.
PadWith(s, block) == s \o [i \in 1..((block - (Len(s) % block)) % block) |-> 61]

EncodeBase64(vch) ==
    LET c == ConvertBits(8, 6, TRUE, vch).out
    IN  PadWith([i \in 1..Len(c) |-> pbase64(c[i])], 4)

EncodeBase32(vch) ==
    LET c == ConvertBits(8, 5, TRUE, vch).out
    IN  PadWith([i \in 1..Len(c) |-> pbase32(c[i])], 8)

\* The condition on p - e and p - q.
PaddingRight(total, pads, block) == total % block = 0 /\ pads < block

\* The two decoders differ in the table and in the bits of a character.
Decode(str, table(_), bits, block) ==
    LET digits == CHOOSE n \in 0..Len(str) :
                    /\ \A i \in 1..n : table(str[i]) # -1
                    /\ n < Len(str) => table(str[n + 1]) = -1
        conv == ConvertBits(bits, 8, FALSE, [i \in 1..digits |-> table(str[i])])
    IN  [valid |-> /\ conv.ok
                   /\ \A i \in (digits + 1)..Len(str) : str[i] = 61
                   /\ PaddingRight(Len(str), Len(str) - digits, block),
         ret |-> conv.out]

DecodeBase64(str) == Decode(str, decode64_table, 6, 4)

DecodeBase32(str) == Decode(str, decode32_table, 5, 8)

-----------------------------------------------------------------------------
(* Decoding gives back the bytes that were encoded and calls the text valid. *)
BytesSurvive ==
    kind = "bytes64" =>
        /\ DecodeBase64(EncodeBase64(text)) = [valid |-> TRUE, ret |-> text]
        /\ DecodeBase32(EncodeBase32(text)) = [valid |-> TRUE, ret |-> text]

LowerCase(str) == [i \in 1..Len(str) |-> IF str[i] \in 65..90 THEN str[i] + 32 ELSE str[i]]

(* A text is valid only if it is the one encoding of the bytes it gives: the right
   padding, and no bits set that belong to no byte (base 32 up to case). *)
ValidIsCanonical ==
    /\ kind = "base64" /\ DecodeBase64(text).valid => EncodeBase64(DecodeBase64(text).ret) = text
    /\ kind = "base32" /\ DecodeBase32(text).valid
        => EncodeBase32(DecodeBase32(text).ret) = LowerCase(text)

-----------------------------------------------------------------------------
(***************************************************************************)
(* Hexadecimal text: HexStr, ParseHex, IsHex and IsHexNumber of            *)
(* src/bryllite-core/utilstrencodings.{hpp,cpp}, and the blobs base_blob   *)
(* of uint256.{hpp,cpp}, which are read and printed in hexadecimal with    *)
(* the bytes in reverse order.  The width of a blob is a constant (20, 32, *)
(* 33 or 64 bytes in the code).                                            *)
(***************************************************************************)

CONSTANT WIDTH          \* bytes of a blob

ASSUME WidthAssumption == WIDTH \in Nat \ {0}

HexDigit(c) ==
    CASE c \in 48..57  -> c - 48
      [] c \in 65..70  -> c - 55
      [] c \in 97..102 -> c - 87
      [] OTHER -> -1

hexmap(v) == IF v < 10 THEN 48 + v ELSE 87 + v

HexStr(vch, fSpaces) ==
    FlattenSeq([i \in 1..Len(vch) |->
        (IF fSpaces /\ i > 1 THEN <<32>> ELSE <<>>)
        \o <<hexmap(vch[i] \div 16), hexmap(vch[i] % 16)>>])

IsHex(str) ==
    /\ \A i \in 1..Len(str) : HexDigit(str[i]) >= 0
    /\ Len(str) > 0 /\ Len(str) % 2 = 0

Prefixed(str) == Len(str) > 2 /\ str[1] = 48 /\ str[2] = 120

IsHexNumber(str) ==
    LET start == IF Prefixed(str) THEN 2 ELSE 0
    IN  /\ \A i \in (start + 1)..Len(str) : HexDigit(str[i]) >= 0
        /\ Len(str) > start

\* ParseHex reads a byte after any spaces, as long as two digits follow.
ParseHex(str) ==
    LET read[i \in 1..(Len(str) + 1)] ==
            LET j  == i + Span(str, i, IsSpace)
                c1 == HexDigit(At(str, j))
                c2 == HexDigit(At(str, j + 1))
            IN  IF c1 = -1 \/ c2 = -1 THEN <<>> ELSE <<16 * c1 + c2>> \o read[j + 2]
    IN  read[1]

-----------------------------------------------------------------------------
GetHex(data) == HexStr(Reverse(data), FALSE)

\* SetHex: spaces, an optional 0x, then digits, of which the last 2 * WIDTH are
\* kept, the last one in the low half of data[0].
SetHex(str) ==
    LET isDigit(c) == HexDigit(c) # -1
        begin == 1 + Span(str, 1, IsSpace)
        psz   == IF At(str, begin) = 48 /\ At(str, begin + 1) \in {88, 120}
                 THEN begin + 2 ELSE begin
        n     == Span(str, psz, isDigit)
        digit(k) == IF k < n THEN HexDigit(str[psz + n - 1 - k]) ELSE 0
    IN  [i \in 1..WIDTH |-> digit(2*i - 2) + 16 * digit(2*i - 1)] \o <<>>

\* memcmp(data, other.data): the first difference decides.
Compare(d1, d2) ==
    LET differ == {i \in 1..WIDTH : d1[i] # d2[i]}
    IN  IF differ = {} THEN 0
        ELSE LET first == CHOOSE i \in differ : \A j \in differ : i <= j
             IN  IF d1[first] < d2[first] THEN -1 ELSE 1

IsNull(data) == \A i \in 1..WIDTH : data[i] = 0

\* The two overloads of sha256() that return a blob, for a digest (external):
\* the one for strings goes through text, the one for byte ranges copies.
sha256_of_string(digest) == SetHex(HexStr(digest, FALSE))
sha256_of_bytes(digest)  == digest

-----------------------------------------------------------------------------
\* The string's digits as a number in base 256, lowest byte first, and back.
HexNumeral(digits) ==
    LET value[i \in 0..Len(digits)] ==
            IF i = 0 THEN 0 ELSE 16 * value[i - 1] + HexDigit(digits[i])
    IN  value[Len(digits)]

BlobValue(data) ==
    LET value[i \in 0..WIDTH] ==
            IF i = 0 THEN 0 ELSE 256 * value[i - 1] + data[WIDTH + 1 - i]
    IN  value[WIDTH]

LowerHex(digits) == [i \in 1..Len(digits) |-> hexmap(HexDigit(digits[i]))]

(* IsHex is what makes a string safe to parse: ParseHex then reads all of it, and
   printing the bytes gives the string back in lower case. *)
HexIsParsed == kind = "hex" /\ IsHex(text) => HexStr(ParseHex(text), FALSE) = LowerHex(text)

(* A number accepted by IsHexNumber is the value that SetHex stores, modulo the
   width of the blob, whether or not it has a prefix and whatever the parity of
   its digits. *)
NumberIsStored ==
    kind = "hex" /\ IsHexNumber(text) =>
        BlobValue(SetHex(text))
        = HexNumeral(IF Prefixed(text) THEN SubSeq(text, 3, Len(text)) ELSE text) % 256^WIDTH

(* Printing a blob and reading it back is the identity, and so is printing bytes
   with spaces and parsing them. *)
BlobRoundTrip == kind = "hex" =>
    LET data == SetHex(text)
    IN  /\ SetHex(GetHex(data)) = data
        /\ ParseHex(HexStr(data, TRUE)) = data
        /\ (IsNull(data) <=> BlobValue(data) = 0)

(* operator< orders blobs by their first byte, the last one of the printed form:
   it is the numeric order of the reversed bytes, and two blobs are equal exactly
   when they print alike. *)
OrderOfReversed == kind = "hex" =>
    LET data == SetHex(text)
    IN  \A other \in {Reverse(data), [data EXCEPT ![1] = (@ + 1) % 256]} :
            /\ (Compare(data, other) < 0) <=> (BlobValue(Reverse(data)) < BlobValue(Reverse(other)))
            /\ (Compare(data, other) = 0) <=> (GetHex(data) = GetHex(other))

(* The blob returned for a string has the bytes of the digest in reverse order of
   the blob returned for the same bytes. *)
OverloadsReversed == kind = "hex" =>
    LET digest == SetHex(text)
    IN  sha256_of_string(digest) = Reverse(sha256_of_bytes(digest))
=============================================================================
