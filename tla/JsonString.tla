----------------------------- MODULE JsonString -----------------------------
(***************************************************************************)
(* lexer::scan_string of bryllite-common/nlohmann/json.hpp: the bytes      *)
(* behind an opening quote are read one at a time, checked to be UTF-8,    *)
(* unescaped and collected in token_buffer.  One action reads one byte;    *)
(* the state keeps what the scanner's nested switch statements and loops   *)
(* know at that point.                                                     *)
(*                                                                         *)
(* The reference is the definition of UTF-8 by bit patterns and values,    *)
(* and of the escapes by the code points they stand for.                   *)
(***************************************************************************)
EXTENDS Integers, Sequences

CONSTANTS
    Bytes,          \* per kind of input: the bytes it is made of
    Openers,        \* those of them that may begin a character
    MaxInput,       \* bound: length of the input
    MaxBuffer       \* bound: length of the token when a character begins

ASSUME BytesAssumption ==
    \A k \in DOMAIN Bytes : Openers[k] \subseteq Bytes[k] /\ Bytes[k] \subseteq 0 .. 255
                           /\ MaxInput[k] \in Nat /\ MaxBuffer[k] \in Nat

VARIABLES
    source,         \* the kind of input
    input,          \* bytes read so far
    mode,           \* where in scan_string: see Modes
    ranges,         \* ranges that next_byte_in_range has yet to check
    digits,         \* hex digits get_codepoint has yet to read
    codepoint,      \* the value it has so far
    codepoint1,     \* a high surrogate that waits for its low one, or 0
    buffer          \* token_buffer

stringVars == <<source, input, mode, ranges, digits, codepoint, codepoint1, buffer>>

Quote == 34
Backslash == 92
LowerU == 117

-----------------------------------------------------------------------------
(* The switch on a first byte: the ranges its followers must be in.        *)

Follow == <<128, 191>>

ByteRanges(b) ==
    CASE b \in 32 .. 127             -> <<>>
      [] b \in 194 .. 223            -> <<Follow>>
      [] b = 224                     -> <<<<160, 191>>, Follow>>
      [] b \in (225 .. 239) \ {237}  -> <<Follow, Follow>>
      [] b = 237                     -> <<<<128, 159>>, Follow>>
      [] b = 240                     -> <<<<144, 191>>, Follow, Follow>>
      [] b \in 241 .. 243            -> <<Follow, Follow, Follow>>
      [] b = 244                     -> <<<<128, 143>>, Follow, Follow>>

\* Slip: the last plane is left out.
IllFormedPlane(b) == b < 32 \/ b \in 128 .. 193 \/ b > 243

\* Control characters, 80..C1 and F5..FF begin nothing.
IllFormed(b) == b < 32 \/ b \in 128 .. 193 \/ b > 244

Unescaped ==
    [b \in {34, 92, 47, 98, 102, 110, 114, 116} |->
        CASE b = 98 -> 8 [] b = 102 -> 12 [] b = 110 -> 10 [] b = 114 -> 13
          [] b = 116 -> 9 [] OTHER -> b]

HexValue(b) ==
    CASE b \in 48 .. 57  -> b - 48
      [] b \in 65 .. 70  -> b - 55
      [] b \in 97 .. 102 -> b - 87
      [] OTHER           -> -1

\* Translation of a code point into bytes.
Encoded(cp) ==
    CASE cp < 128                  -> <<cp>>
      [] cp >= 128 /\ cp <= 2047   -> <<192 + (cp \div 64), 128 + (cp % 64)>>
      [] cp > 2047 /\ cp <= 65535  -> <<224 + (cp \div 4096), 128 + ((cp \div 64) % 64), 128 + (cp % 64)>>
      [] cp > 65535                -> <<240 + (cp \div 262144), 128 + ((cp \div 4096) % 64),
                                        128 + ((cp \div 64) % 64), 128 + (cp % 64)>>

\* ( codepoint1 << 10 ) + codepoint2 - 0x35FDC00
Combined(high, low) == high * 1024 + low - 56613888

-----------------------------------------------------------------------------

StringInit(sources) ==
    /\ source \in sources
    /\ input = <<>>
    /\ mode = "chars"
    /\ ranges = <<>>
    /\ digits = 0
    /\ codepoint = 0
    /\ codepoint1 = 0
    /\ buffer = <<>>

Reject == mode' = "error" /\ UNCHANGED <<ranges, digits, codepoint, codepoint1, buffer>>

ScanFirst(b) ==
    /\ mode = "chars"
    /\ \/ b = Quote /\ mode' = "closed" /\ UNCHANGED <<ranges, digits, codepoint, codepoint1, buffer>>
       \/ b = Backslash /\ mode' = "escape" /\ UNCHANGED <<ranges, digits, codepoint, codepoint1, buffer>>
       \/ IllFormed(b) /\ Reject
       \/ /\ ~IllFormed(b) /\ b \notin {Quote, Backslash}
          /\ ranges' = ByteRanges(b)
          /\ mode' = IF ranges' = <<>> THEN "chars" ELSE "bytes"
          /\ buffer' = Append(buffer, b)
          /\ UNCHANGED <<digits, codepoint, codepoint1>>

NextByteInRange(b) ==
    /\ mode = "bytes"
    /\ IF Head(ranges)[1] <= b /\ b <= Head(ranges)[2]
       THEN /\ buffer' = Append(buffer, b)
            /\ ranges' = Tail(ranges)
            /\ mode' = IF ranges' = <<>> THEN "chars" ELSE "bytes"
            /\ UNCHANGED <<digits, codepoint, codepoint1>>
       ELSE Reject

ScanEscape(b) ==
    /\ mode = "escape"
    /\ \/ /\ b \in DOMAIN Unescaped
          /\ buffer' = Append(buffer, Unescaped[b])
          /\ mode' = "chars"
          /\ UNCHANGED <<ranges, digits, codepoint, codepoint1>>
       \/ /\ b = LowerU
          /\ mode' = "hex" /\ digits' = 4 /\ codepoint' = 0 /\ codepoint1' = 0
          /\ UNCHANGED <<ranges, buffer>>
       \/ b \notin DOMAIN Unescaped \cup {LowerU} /\ Reject

\* A code point is complete: a high surrogate waits for its low one, a low
\* one needs it, and whatever else must not follow one.
CodepointRead(cp) ==
    IF codepoint1 = 0
    THEN CASE cp \in 55296 .. 56319 ->
                mode' = "second" /\ codepoint1' = cp /\ UNCHANGED <<ranges, buffer>>
           [] cp \in 56320 .. 57343 ->
                mode' = "error" /\ UNCHANGED <<ranges, codepoint1, buffer>>
           [] OTHER ->
                mode' = "chars" /\ buffer' = buffer \o Encoded(cp) /\ UNCHANGED <<ranges, codepoint1>>
    ELSE IF cp \in 56320 .. 57343
         THEN /\ mode' = "chars" /\ codepoint1' = 0
              /\ buffer' = buffer \o Encoded(Combined(codepoint1, cp))
              /\ UNCHANGED ranges
         ELSE mode' = "error" /\ UNCHANGED <<ranges, codepoint1, buffer>>

GetCodepoint(b) ==
    /\ mode = "hex"
    /\ IF HexValue(b) = -1 THEN Reject
       ELSE /\ codepoint' = codepoint * 16 + HexValue(b)
            /\ digits' = digits - 1
            /\ IF digits > 1
               THEN UNCHANGED <<mode, ranges, codepoint1, buffer>>
               ELSE CodepointRead(codepoint')

SecondEscape(b) ==
    /\ mode \in {"second", "second_u"}
    /\ CASE mode = "second" /\ b = Backslash ->
              mode' = "second_u" /\ UNCHANGED <<ranges, digits, codepoint, codepoint1, buffer>>
         [] mode = "second_u" /\ b = LowerU ->
              mode' = "hex" /\ digits' = 4 /\ codepoint' = 0 /\ UNCHANGED <<ranges, codepoint1, buffer>>
         [] OTHER -> Reject

(* End of the input in the string: "missing closing quote".                *)
EndOfInput ==
    /\ mode \notin {"closed", "error"}
    /\ Reject
    /\ UNCHANGED <<source, input>>

ReadByte(b) ==
    \/ ScanFirst(b) \/ NextByteInRange(b) \/ ScanEscape(b)
    \/ GetCodepoint(b) \/ SecondEscape(b)

StringNext ==
    \/ /\ Len(input) < MaxInput[source]
       /\ mode = "chars" => Len(buffer) < MaxBuffer[source]
       /\ \E b \in IF mode = "chars" THEN Openers[source] ELSE Bytes[source] :
             ReadByte(b) /\ input' = Append(input, b)
       /\ UNCHANGED source
    \/ EndOfInput

-----------------------------------------------------------------------------
(* The reference.  Text is [ok, cps]: whether the bytes from position k on *)
(* are complete characters and escapes, and the code points they give.     *)

ScalarValue(v) == v \in 0 .. 1114111 /\ v \notin 55296 .. 57343

\* The bytes of s from k on that one character's bit pattern asks for.
Units(b) == CASE b < 128 -> 1 [] b \div 32 = 6 -> 2 [] b \div 16 = 14 -> 3
              [] b \div 8 = 30 -> 4 [] OTHER -> 0
Continues(s, k, n) == k + n - 1 <= Len(s) /\ \A j \in k + 1 .. k + n - 1 : s[j] \div 64 = 2
ValueAt(s, k, n) ==
    CASE n = 1 -> s[k]
      [] n = 2 -> (s[k] % 32) * 64 + (s[k + 1] % 64)
      [] n = 3 -> (s[k] % 16) * 4096 + (s[k + 1] % 64) * 64 + (s[k + 2] % 64)
      [] n = 4 -> (s[k] % 8) * 262144 + (s[k + 1] % 64) * 4096 + (s[k + 2] % 64) * 64 + (s[k + 3] % 64)
Shortest(v) == CASE v < 128 -> 1 [] v \in 128 .. 2047 -> 2 [] v \in 2048 .. 65535 -> 3 [] OTHER -> 4
Utf8At(s, k) ==
    LET n == Units(s[k])
        v == ValueAt(s, k, n)
    IN  IF n > 0 /\ Continues(s, k, n) /\ Shortest(v) = n /\ ScalarValue(v)
        THEN [n |-> n, cp |-> v] ELSE [n |-> 0, cp |-> 0]

HexAt(s, k) ==      \* the value of \uXXXX at k, or -1
    IF k + 5 <= Len(s) /\ s[k] = Backslash /\ s[k + 1] = LowerU
       /\ \A j \in k + 2 .. k + 5 : HexValue(s[j]) >= 0
    THEN HexValue(s[k + 2]) * 4096 + HexValue(s[k + 3]) * 256 + HexValue(s[k + 4]) * 16 + HexValue(s[k + 5])
    ELSE -1

EscapeAt(s, k) ==
    LET h == HexAt(s, k)
        l == HexAt(s, k + 6)
    IN  CASE k < Len(s) /\ s[k + 1] \in DOMAIN Unescaped -> [n |-> 2, cp |-> Unescaped[s[k + 1]]]
          [] h >= 0 /\ ScalarValue(h)                    -> [n |-> 6, cp |-> h]
          [] h \in 55296 .. 56319 /\ l \in 56320 .. 57343 ->
                [n |-> 12, cp |-> 65536 + (h - 55296) * 1024 + (l - 56320)]
          [] OTHER                                       -> [n |-> 0, cp |-> 0]

CharAt(s, k) ==
    CASE s[k] = Backslash           -> EscapeAt(s, k)
      [] s[k] < 32 \/ s[k] = Quote  -> [n |-> 0, cp |-> 0]
      [] OTHER                      -> Utf8At(s, k)

RECURSIVE TextFrom(_, _)
TextFrom(s, k) ==
    IF k > Len(s) THEN [ok |-> TRUE, cps |-> <<>>]
    ELSE LET ch == CharAt(s, k)
         IN  IF ch.n = 0 THEN [ok |-> FALSE, cps |-> <<>>]
             ELSE LET more == TextFrom(s, k + ch.n)
                  IN  [more EXCEPT !.cps = <<ch.cp>> \o more.cps]

RECURSIVE CodePoints(_, _)
CodePoints(s, k) ==
    IF k > Len(s) THEN <<>>
    ELSE LET ch == Utf8At(s, k)
         IN  IF ch.n = 0 THEN <<-1>> ELSE <<ch.cp>> \o CodePoints(s, k + ch.n)

TextOf(s) == TextFrom(s, 1)

(* scan_string stands between two characters exactly when what it has read *)
(* is well-formed text, and closes it at the first unescaped quote: no     *)
(* overlong form, no surrogate and no value above 10FFFF gets through, and *)
(* nothing well-formed is refused.                                         *)
AcceptsWellFormed ==
    LET body == IF mode = "closed" THEN SubSeq(input, 1, Len(input) - 1) ELSE input
    IN  /\ mode \in {"chars", "closed"} => TextOf(body).ok
        /\ mode \in {"bytes", "escape", "hex", "second", "second_u"} => ~TextOf(body).ok

\* Bytes that complete any character which has begun as it may.
Endings ==
    {<<>>} \cup {SubSeq(<<b, 128, 128>>, 1, n) : b \in {128, 144, 160}, n \in 1 .. 3}

(* Nothing that could have become well-formed text is refused.             *)
RefusesIllFormed ==
    [][mode' = "error" /\ input' # input => \A e \in Endings : ~TextOf(input' \o e).ok]_stringVars

(* The token is the UTF-8 encoding of the code points the text stands for, *)
(* those of escaped surrogate pairs included.                              *)
DecodesText ==
    mode = "chars" => CodePoints(buffer, 1) = TextOf(input).cps
=============================================================================
