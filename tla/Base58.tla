------------------------------- MODULE Base58 -------------------------------
(***************************************************************************)
(* src/bryllite-core/base58.cpp: the conversion between bytes and base 58  *)
(* strings by repeated multiplication in a buffer whose size is estimated  *)
(* from the length of the text, and the checked form that addresses use.  *)
(***************************************************************************)
EXTENDS StrEncodings

\* pszBase58: the digits and letters without 0, I, O and l.
pszBase58 ==
    [i \in 1..9 |-> 48 + i] \o [i \in 1..8 |-> 64 + i] \o [i \in 1..5 |-> 73 + i]
    \o [i \in 1..11 |-> 79 + i] \o [i \in 1..11 |-> 96 + i] \o [i \in 1..14 |-> 108 + i]

mapBase58(c) ==
    CASE c \in 49..57  -> c - 49
      [] c \in 65..72  -> c - 56
      [] c \in 74..78  -> c - 57
      [] c \in 80..90  -> c - 58
      [] c \in 97..107 -> c - 64
      [] c \in 109..122 -> c - 65
      [] OTHER -> -1

\* The inner loop: digits (lowest first) times mult plus carry, in base base.
\* It runs while a carry or a digit written earlier is left and the buffer has
\* room.  A buffer is its digits, how many are in use, and the carry left over.
MulAdd(buf, mult, base, add) ==
    LET size == Len(buf.digits)
        carry[i \in 0..size] ==
            IF i = 0 THEN add ELSE (carry[i - 1] + mult * buf.digits[i]) \div base
        runs(i) == i < size /\ (carry[i] # 0 \/ i < buf.length)
        stop == CHOOSE i \in 0..size : ~runs(i) /\ \A j \in 0..(i - 1) : runs(j)
    IN  [digits |-> [i \in 1..size |->
                        IF i <= stop THEN (carry[i - 1] + mult * buf.digits[i]) % base
                                     ELSE buf.digits[i]] \o <<>>,
         length |-> stop,
         carry  |-> IF buf.carry # 0 THEN buf.carry ELSE carry[stop]]

EmptyBuffer(size) == [digits |-> [i \in 1..size |-> 0] \o <<>>, length |-> 0, carry |-> 0]

\* The digits in use, most significant first, without leading zeros.
Significant(buf) ==
    LET used == Reverse(SubSeq(buf.digits, 1, buf.length))
        zeros == CHOOSE n \in 0..Len(used) :
                    /\ \A i \in 1..n : used[i] = 0
                    /\ n < Len(used) => used[n + 1] # 0
    IN  SubSeq(used, zeros + 1, Len(used))

Drop(s, n) == SubSeq(s, n + 1, Len(s))

\* Slip: the estimate is not rounded up.
EncodeSizeShort(n) == (n * 138) \div 100
EncodeSize(n) == (n * 138) \div 100 + 1

EncodeBuffer(vch) ==
    LET isZero(b) == b = 0
        rest == Drop(vch, Span(vch, 1, isZero))
        step(buf, b) == IF buf.length < 0 THEN buf ELSE MulAdd(buf, 256, 58, b)
    IN  FoldLeft(step, EmptyBuffer(EncodeSize(Len(rest))), rest)

EncodeBase58(vch) ==
    LET isZero(b) == b = 0
        digits == Significant(EncodeBuffer(vch))
    IN  [i \in 1..Span(vch, 1, isZero) |-> 49]
        \o [i \in 1..Len(digits) |-> pszBase58[digits[i] + 1]]

DecodeSize(n) == (n * 733) \div 1000 + 1

\* The buffer after the characters up to the first space or invalid one.
DecodeBuffer(psz) ==
    LET isDigit(c) == mapBase58(c) # -1
        step(buf, c) == IF buf.length < 0 THEN buf ELSE MulAdd(buf, 58, 256, mapBase58(c))
    IN  FoldLeft(step, EmptyBuffer(DecodeSize(Len(psz))), SubSeq(psz, 1, Span(psz, 1, isDigit)))

Failed == [ok |-> FALSE, vch |-> <<>>]

DecodeBase58(str) ==
    LET isOne(c)   == c = 49
        isDigit(c) == mapBase58(c) # -1
        psz    == Drop(str, Span(str, 1, IsSpace))
        zeroes == Span(psz, 1, isOne)
        rest   == Drop(psz, zeroes)
        tail   == Drop(rest, Span(rest, 1, isDigit))
    IN  IF Drop(tail, Span(tail, 1, IsSpace)) # <<>> THEN Failed
        ELSE [ok |-> TRUE,
              vch |-> [i \in 1..zeroes |-> 0] \o Significant(DecodeBuffer(rest))]

\* The first four bytes of sha256s(sha256s(.)), for which any function of the
\* bytes serves here.
Checksum(vch) ==
    LET mix(acc, b) == (acc * 31 + b + 7) % 65521
        sum == FoldLeft(mix, Len(vch), vch)
    IN  <<sum % 256, sum \div 256, (sum * 3 + 1) % 256, Len(vch) % 256>>

\* encode_base58_check(prefix, str), with str given by the bytes it spells.
encode_base58_check(prefix, bytes) ==
    LET s == <<prefix>> \o bytes IN EncodeBase58(s \o Checksum(s))

\* decode_base58_check: the checksum stays at the end of vchOut.
decode_base58_check(str) ==
    LET d == DecodeBase58(str)
        n == Len(d.vch)
    IN  IF ~d.ok \/ n < 4 THEN Failed
        ELSE IF SubSeq(d.vch, n - 3, n) # Checksum(SubSeq(d.vch, 1, n - 4)) THEN Failed ELSE d

-----------------------------------------------------------------------------
Trimmed(str) ==
    LET isDigit(c) == ~IsSpace(c)
        psz == Drop(str, Span(str, 1, IsSpace))
    IN  SubSeq(psz, 1, Span(psz, 1, isDigit))

(* The estimated buffer sizes suffice: no carry is left when the inner loop ends
   (the two `assert(carry == 0)'), for arbitrary short inputs and for long runs of
   the largest digit. *)
BufferSuffices ==
    /\ kind = "bytes58" => EncodeBuffer(text).carry = 0
    /\ kind = "base58" => DecodeBuffer(text).carry = 0

(* Decoding gives back the bytes that were encoded, leading zero bytes included. *)
BytesRoundTrip ==
    kind = "bytes58" => DecodeBase58(EncodeBase58(text)) = [ok |-> TRUE, vch |-> text]

(* A string is accepted only if it is one base 58 word between spaces, and then
   it is the encoding of what was decoded: no two words give the same bytes. *)
StringRoundTrip ==
    kind = "base58" =>
        LET d == DecodeBase58(text)
        IN  d.ok => /\ EncodeBase58(d.vch) = Trimmed(text)
                    /\ Len(Trimmed(text)) = Len(SelectSeq(text, LAMBDA c : ~IsSpace(c)))

(* What encode_base58_check wrote, decode_base58_check accepts; it returns the
   prefix and the payload followed by the four bytes of the checksum. *)
CheckRoundTrip ==
    kind = "bytes58" /\ text # <<>> =>
        LET payload == Drop(text, 1)
        IN  decode_base58_check(encode_base58_check(text[1], payload))
            = [ok |-> TRUE, vch |-> text \o Checksum(text)]
=============================================================================
