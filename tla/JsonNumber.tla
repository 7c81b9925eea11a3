----------------------------- MODULE JsonNumber -----------------------------
(***************************************************************************)
(* lexer::scan_number of bryllite-common/nlohmann/json.hpp: the automaton  *)
(* made of labels and gotos that reads a number, the return of the one     *)
(* character it reads too many, and the conversion that tries integers     *)
(* first and falls back to floating point.                                 *)
(*                                                                         *)
(* The reference is the grammar of RFC 7159, section 6, which the source   *)
(* cites, and the decimal value of the text.                               *)
(***************************************************************************)
EXTENDS Integers, Sequences

CONSTANTS
    Digits,         \* digits that occur in the input
    MaxNumber,      \* bound: characters read
    DecimalPoint,   \* the locale's decimal point
    UllMax,         \* largest unsigned long long; long long is half of it
    UnsignedSize,   \* values of number_unsigned_t, half of them non-negative
                    \* ones of number_integer_t
    NonDigits       \* further characters of the input, Eof included

ASSUME LimitAssumption ==
    /\ Digits \subseteq 0 .. 9 /\ MaxNumber \in Nat
    /\ UllMax % 2 = 1 /\ UnsignedSize % 2 = 0 /\ UnsignedSize <= UllMax + 1

VARIABLES
    read,           \* characters read so far, the first one included
    label,          \* the label reached
    token_buffer,
    number_type,
    token,          \* what scan_number returned, or "none"
    value           \* value_unsigned or value_integer

numberVars == <<read, label, token_buffer, number_type, token, value>>

\* Digits are numbers of characters, everything else is named by a string.
Digit(d) == <<"digit", d>>
Chr(c) == <<"char", c>>
Eof == Chr("eof")

Chars == {Digit(d) : d \in Digits} \cup {Chr(c) : c \in NonDigits}

IsDigit(c) == c[1] = "digit"
IsExponent(c) == c \in {Chr("e"), Chr("E")}

-----------------------------------------------------------------------------
(* The automaton: the label that follows a label on a character.           *)

AfterInit(c) ==
    CASE c = Chr("-")  -> "minus"
      [] c = Digit(0)  -> "zero"
      [] OTHER         -> "any1"

AfterMinus(c) ==
    CASE c = Digit(0)  -> "zero"
      [] IsDigit(c)    -> "any1"
      [] OTHER         -> "error"

AfterZero(c) ==
    CASE c = Chr(".")  -> "decimal1"
      [] IsExponent(c) -> "exponent"
      [] OTHER         -> "done"

AfterAny1(c) ==
    CASE IsDigit(c)    -> "any1"
      [] c = Chr(".")  -> "decimal1"
      [] IsExponent(c) -> "exponent"
      [] OTHER         -> "done"

AfterDecimal1(c) == IF IsDigit(c) THEN "decimal2" ELSE "error"

AfterDecimal2(c) ==
    CASE IsDigit(c)    -> "decimal2"
      [] IsExponent(c) -> "exponent"
      [] OTHER         -> "done"

AfterExponent(c) ==
    CASE c \in {Chr("+"), Chr("-")} -> "sign"
      [] IsDigit(c)                 -> "any2"
      [] OTHER                      -> "error"

AfterSign(c) == IF IsDigit(c) THEN "any2" ELSE "error"

AfterAny2(c) == IF IsDigit(c) THEN "any2" ELSE "done"

After(l, c) ==
    CASE l = "init"     -> AfterInit(c)
      [] l = "minus"    -> AfterMinus(c)
      [] l = "zero"     -> AfterZero(c)
      [] l = "any1"     -> AfterAny1(c)
      [] l = "decimal1" -> AfterDecimal1(c)
      [] l = "decimal2" -> AfterDecimal2(c)
      [] l = "exponent" -> AfterExponent(c)
      [] l = "sign"     -> AfterSign(c)
      [] l = "any2"     -> AfterAny2(c)

\* number_type is set at the labels minus, decimal1 and exponent.
TypeAt(l, t) ==
    CASE l = "minus"                     -> "integer"
      [] l \in {"decimal1", "exponent"}  -> "float"
      [] OTHER                           -> t

\* What the scanner keeps of a character: the locale's point for a point.
Added(c) == IF c = Chr(".") THEN Chr(DecimalPoint) ELSE c

NumberInit ==
    /\ read = <<>> /\ label = "init" /\ token_buffer = <<>>
    /\ number_type = "unsigned" /\ token = "none" /\ value = 0

\* get() and the switch behind the current label.
Step(c) ==
    /\ token = "none" /\ label # "done" /\ Len(read) < MaxNumber
    /\ label = "init" => c = Chr("-") \/ IsDigit(c)
    /\ LET l == After(label, c)
       IN  /\ label' = l
           /\ read' = Append(read, c)
           /\ token_buffer' = IF l \in {"done", "error"} THEN token_buffer
                              ELSE Append(token_buffer, Added(c))
           /\ number_type' = TypeAt(l, number_type)
           /\ token' = IF l = "error" THEN "parse_error" ELSE "none"
    /\ UNCHANGED value

-----------------------------------------------------------------------------
(* strtoull and strtoll: the value, or a range error.                      *)

RECURSIVE Magnitude(_)
Magnitude(s) ==
    IF s = <<>> THEN 0
    ELSE 10 * Magnitude(SubSeq(s, 1, Len(s) - 1)) + s[Len(s)][2]

Negative(s) == s[1] = Chr("-")
Decimal(s) == IF Negative(s) THEN -Magnitude(Tail(s)) ELSE Magnitude(s)

\* static_cast to the library's integer types.
ToUnsigned(x) == x % UnsignedSize
ToInteger(x) == ((x + UnsignedSize \div 2) % UnsignedSize) - UnsignedSize \div 2

\* strtoull and strtoll report values they cannot hold in errno.
InRange(x) ==
    IF number_type = "unsigned" THEN x <= UllMax
    ELSE x \in -((UllMax + 1) \div 2) .. UllMax \div 2

Convert ==
    IF number_type = "float" THEN [token |-> "float", value |-> 0]
    ELSE LET x == Decimal(token_buffer)
             y == IF number_type = "unsigned" THEN ToUnsigned(x) ELSE ToInteger(x)
         IN  IF InRange(x) /\ y = x
               THEN [token |-> number_type, value |-> y]
               ELSE [token |-> "float", value |-> 0]

\* unget(), except at the end of the input, and the conversion.
Done ==
    /\ label = "done" /\ token = "none"
    /\ token' = Convert.token
    /\ value' = Convert.value
    /\ read' = IF read[Len(read)] = Eof THEN read ELSE SubSeq(read, 1, Len(read) - 1)
    /\ UNCHANGED <<label, token_buffer, number_type>>

NumberNext == (\E c \in Chars : Step(c)) \/ Done

-----------------------------------------------------------------------------
(* RFC 7159: number = [ minus ] int [ frac ] [ exp ].                      *)

AllDigits(s) == s # <<>> /\ \A i \in 1 .. Len(s) : IsDigit(s[i])
IsInt(s) == AllDigits(s) /\ (s[1] = Digit(0) => Len(s) = 1)
IsFrac(s) == s = <<>> \/ (s[1] = Chr(".") /\ AllDigits(Tail(s)))
IsExp(s) ==
    \/ s = <<>>
    \/ /\ IsExponent(s[1])
       /\ \/ AllDigits(Tail(s))
          \/ Len(s) > 1 /\ s[2] \in {Chr("+"), Chr("-")} /\ AllDigits(SubSeq(s, 3, Len(s)))

Unsigned(s) ==
    \E i \in 0 .. Len(s) : \E j \in i .. Len(s) :
        /\ IsInt(SubSeq(s, 1, i)) /\ IsFrac(SubSeq(s, i + 1, j)) /\ IsExp(SubSeq(s, j + 1, Len(s)))

Number(s) == s # <<>> /\ (IF Negative(s) THEN Unsigned(Tail(s)) ELSE Unsigned(s))

\* Some number begins with s: one digit completes every beginning.
NumberViable(s) == Number(s) \/ Number(Append(s, Digit(0)))

NumberText == IF read # <<>> /\ read[Len(read)] = Eof THEN SubSeq(read, 1, Len(read) - 1) ELSE read

(* The scanner takes the longest number the input begins with and leaves   *)
(* everything behind it, and it reports an error exactly where no number   *)
(* can go on: a character given back too often or not at all, or a missing *)
(* transition, shows here.                                                 *)
LongestNumber ==
    /\ token \notin {"none", "parse_error"} => Number(NumberText)
    /\ label = "done" /\ token = "none" => Number(SubSeq(read, 1, Len(read) - 1)) /\ ~NumberViable(read)
    /\ token = "parse_error" =>
         LET s == SubSeq(read, 1, Len(read) - 1)
         IN  NumberViable(s) /\ ~Number(s) /\ ~NumberViable(read)
    /\ label \notin {"init", "done", "error"} => NumberViable(read)

(* An integer keeps its value, whatever the widths of the C types and of   *)
(* the library's types; a text becomes floating point only if it is not an *)
(* integer or does not fit.                                                *)
IntegersExact ==
    token \notin {"none", "parse_error"} =>
        LET integer == IF Negative(NumberText) THEN IsInt(Tail(NumberText)) ELSE IsInt(NumberText)
            fits    == IF Negative(NumberText) THEN Decimal(NumberText) >= -(UnsignedSize \div 2)
                                         ELSE Decimal(NumberText) < UnsignedSize
        IN  IF integer /\ fits
              THEN token # "float" /\ value = Decimal(NumberText)
              ELSE token = "float"

(* The text kept for the C library differs from the input in the decimal   *)
(* point alone, which is the locale's, so that strtod reads all of it (the *)
(* assertion endptr == data + size).                                       *)
BufferReadable ==
    token = "float" =>
        /\ Len(token_buffer) = Len(NumberText)
        /\ \A i \in 1 .. Len(NumberText) : IF NumberText[i] = Chr(".") THEN token_buffer[i] = Chr(DecimalPoint)
                                                           ELSE token_buffer[i] = NumberText[i]
=============================================================================
