----------------------------- MODULE TinyFormat -----------------------------
(***************************************************************************)
(* bryllite-core/tinyformat.hpp: printf on C++ streams.  A format string   *)
(* is a sequence of one-character strings, an argument a record of its     *)
(* kind ("int" or "str") and its value, and the stream the state that the  *)
(* format string sets.  Errors are thrown, as this copy is configured.     *)
(***************************************************************************)
EXTENDS Integers, Sequences, SequencesExt

Digit == <<"0", "1", "2", "3", "4", "5", "6", "7", "8", "9", "a", "b", "c", "d", "e", "f">>
Decimals == {Digit[k] : k \in 1 .. 10}
ValueOf(ch) == (CHOOSE k \in 1 .. 10 : Digit[k] = ch) - 1

Times(ch, n) == [k \in 1 .. n |-> ch]
Peek(fmt, c) == IF c <= Len(fmt) THEN fmt[c] ELSE "\\0"

Reset == [width |-> 0, precision |-> 6, fill |-> " ", adjust |-> "none", base |-> "none",
          showbase |-> FALSE, showpos |-> FALSE, boolalpha |-> FALSE]

-----------------------------------------------------------------------------
(* The inserters of std::ostream, as far as the state above decides.       *)

RECURSIVE Numeral(_, _)
Numeral(n, base) ==
    IF n < base THEN <<Digit[n + 1]>>
    ELSE Append(Numeral(n \div base, base), Digit[(n % base) + 1])

\* Padded to the width: head is what an internal padding is put behind.
Padded(st, head, rest) ==
    LET room == st.width - Len(head) - Len(rest)
        pad == IF room > 0 THEN Times(st.fill, room) ELSE <<>>
    IN  CASE st.adjust = "left"     -> head \o rest \o pad
          [] st.adjust = "internal" -> head \o pad \o rest
          [] OTHER                  -> pad \o head \o rest

InsertInt(st, n) ==
    IF st.base = "hex"
    THEN Padded(st, IF st.showbase /\ n # 0 THEN <<"0", "x">> ELSE <<>>, Numeral(n, 16))
    ELSE Padded(st, IF n < 0 THEN <<"-">> ELSE IF st.showpos THEN <<"+">> ELSE <<>>,
                Numeral(IF n < 0 THEN -n ELSE n, 10))

InsertString(st, s) == Padded(st, <<>>, s)

Insert(st, arg) ==
    IF arg.kind = "int" THEN InsertInt(st, arg.value) ELSE InsertString(st, arg.value)

-----------------------------------------------------------------------------

\* formatTruncated writes at most ntrunc characters of the value, unpadded.
formatTruncated(arg, ntrunc) ==
    LET s == Insert([Reset EXCEPT !.precision = 6], arg)
    IN  SubSeq(s, 1, IF ntrunc < Len(s) THEN ntrunc ELSE Len(s))

\* %c prints the character of an integer, here named by its code.
CharOf(n) == <<"char">>

formatValue(st, conv, ntrunc, arg) ==
    CASE arg.kind = "int" /\ conv = "c" -> Padded(st, <<>>, CharOf(arg.value))
      [] ntrunc >= 0                    -> formatTruncated(arg, ntrunc)
      [] OTHER                          -> Insert(st, arg)

\* As atoi: the number and the position behind its last digit.
RECURSIVE ParseInt(_, _, _)
ParseInt(fmt, c, i) ==
    IF Peek(fmt, c) \in Decimals THEN ParseInt(fmt, c + 1, 10 * i + ValueOf(Peek(fmt, c)))
    ELSE [value |-> i, at |-> c]
parseIntAndAdvance(fmt, c) == ParseInt(fmt, c, 0)

\* Text up to the next conversion; a pair of % is one of them.
RECURSIVE Literal(_, _)
Literal(fmt, c) ==
    CASE Peek(fmt, c) = "\\0" -> [out |-> <<>>, at |-> c]
      [] Peek(fmt, c) = "%" /\ Peek(fmt, c + 1) # "%" -> [out |-> <<>>, at |-> c]
      [] OTHER -> LET more == Literal(fmt, IF Peek(fmt, c) = "%" THEN c + 2 ELSE c + 1)
                  IN  [more EXCEPT !.out = <<Peek(fmt, c)>> \o more.out]
printFormatStringLiteral(fmt, c) == Literal(fmt, c)

-----------------------------------------------------------------------------
(* streamStateFromFormat, in its five parts.  The parse state p holds the  *)
(* position c, the stream st, spacePad, ntrunc, widthSet, precisionSet,    *)
(* widthExtra, the next argument index and ok, which an error that is      *)
(* thrown clears: the parts behind it then leave the state alone.          *)

Fail(p) == [p EXCEPT !.ok = FALSE]
LeftAligned(st) == [st EXCEPT !.fill = " ", !.adjust = "left"]

\* 1) One flag: 0 gives way to -, and a space to +.
OneFlag(p, ch) ==
    CASE ch = "#" -> [p EXCEPT !.st.showbase = TRUE]
      [] ch = "0" -> IF p.st.adjust = "left" THEN p
                     ELSE [p EXCEPT !.st.fill = "0", !.st.adjust = "internal"]
      [] ch = "-" -> [p EXCEPT !.st = LeftAligned(p.st)]
      [] ch = " " -> [p EXCEPT !.spacePad = @ \/ ~p.st.showpos]
      [] ch = "+" -> [p EXCEPT !.st.showpos = TRUE, !.spacePad = FALSE, !.widthExtra = 1]

RECURSIVE Flags(_, _)
Flags(fmt, p) ==
    IF Peek(fmt, p.c) \in {"#", "0", "-", " ", "+"}
    THEN Flags(fmt, [OneFlag(p, Peek(fmt, p.c)) EXCEPT !.c = p.c + 1])
    ELSE p

\* 2) The width, and a variable one, which may follow it.
DigitWidth(fmt, p) ==
    IF Peek(fmt, p.c) \in Decimals
    THEN LET n == parseIntAndAdvance(fmt, p.c)
         IN  [p EXCEPT !.widthSet = TRUE, !.st.width = n.value, !.c = n.at]
    ELSE p
StarWidth(fmt, p, args) ==
    CASE Peek(fmt, p.c) # "*" -> p
      [] Peek(fmt, p.c) = "*" /\ (p.arg > Len(args) \/ args[p.arg].kind # "int") -> Fail(p)
      [] OTHER ->
            LET w == args[p.arg].value
                st == IF w < 0 THEN LeftAligned(p.st) ELSE p.st
            IN  [p EXCEPT !.widthSet = TRUE, !.arg = p.arg + 1, !.c = p.c + 1,
                          !.st = [st EXCEPT !.width = IF w < 0 THEN -w ELSE w]]

\* 3) The precision: a variable one, a number, or nothing for 0.
Precision(fmt, p, args) ==
    LET d == p.c + 1
        Set(value, at, arg) ==
            [p EXCEPT !.st.precision = value, !.precisionSet = TRUE, !.c = at, !.arg = arg]
    IN  CASE ~p.ok \/ Peek(fmt, p.c) # "." -> p
          [] p.ok /\ Peek(fmt, p.c) = "." /\ Peek(fmt, d) = "*" ->
                IF p.arg > Len(args) \/ args[p.arg].kind # "int" THEN Fail(p)
                ELSE Set(args[p.arg].value, d + 1, p.arg + 1)
          [] p.ok /\ Peek(fmt, p.c) = "." /\ Peek(fmt, d) = "-" ->
                Set(0, parseIntAndAdvance(fmt, d + 1).at, p.arg)
          [] OTHER -> Set(parseIntAndAdvance(fmt, d).value, parseIntAndAdvance(fmt, d).at, p.arg)

\* 4) Length modifiers are skipped.
RECURSIVE Length(_, _)
Length(fmt, p) ==
    IF p.ok /\ Peek(fmt, p.c) \in {"l", "h", "L", "j", "z", "t"}
    THEN Length(fmt, [p EXCEPT !.c = p.c + 1]) ELSE p

\* 5) The conversion.  A precision of an integer without width stands in for
\* the width, with one more column where the sign is always shown.
Conversion(fmt, p) ==
    LET conv == Peek(fmt, p.c)
        based == CASE conv \in {"u", "d", "i"} -> [p.st EXCEPT !.base = "dec"]
                   [] conv \in {"x", "p"}      -> [p.st EXCEPT !.base = "hex"]
                   [] conv = "s"               -> [p.st EXCEPT !.boolalpha = TRUE]
                   [] OTHER                    -> p.st
        digits == conv \in {"u", "d", "i", "x", "p"} /\ p.precisionSet /\ ~p.widthSet
        st == IF digits
              THEN [based EXCEPT !.width = based.precision + p.widthExtra,
                                 !.adjust = "internal", !.fill = "0"]
              ELSE based
    IN  IF ~p.ok \/ conv \in {"a", "A", "n", "\\0"} THEN Fail(p)
        ELSE [p EXCEPT !.st = st, !.c = p.c + 1,
                       !.ntrunc = IF conv = "s" /\ p.precisionSet THEN based.precision ELSE @]

\* Slip: the width of the last conversion is not reset.
streamStateKept(fmt, c, args, arg, old) ==
    LET start == [c |-> c + 1, st |-> [Reset EXCEPT !.width = old.width, !.adjust = old.adjust],
                  spacePad |-> FALSE, ntrunc |-> -1,
                  widthSet |-> FALSE, precisionSet |-> FALSE, widthExtra |-> 0,
                  arg |-> arg, ok |-> TRUE]
        width == StarWidth(fmt, DigitWidth(fmt, Flags(fmt, start)), args)
    IN  IF Peek(fmt, c) # "%" THEN Fail(start)
        ELSE Conversion(fmt, Length(fmt, Precision(fmt, width, args)))

(* `old' is the state the last conversion left behind in the stream: every *)
(* part of it is reset.                                                    *)
streamStateFromFormat(fmt, c, args, arg, old) ==
    LET start == [c |-> c + 1, st |-> Reset, spacePad |-> FALSE, ntrunc |-> -1,
                  widthSet |-> FALSE, precisionSet |-> FALSE, widthExtra |-> 0,
                  arg |-> arg, ok |-> TRUE]
        width == StarWidth(fmt, DigitWidth(fmt, Flags(fmt, start)), args)
    IN  IF Peek(fmt, c) # "%" THEN Fail(start)
        ELSE Conversion(fmt, Length(fmt, Precision(fmt, width, args)))

-----------------------------------------------------------------------------

\* One argument: a space-padded number is printed with its plus sign, which
\* then becomes a space.
FormatArg(p, conv, arg) ==
    IF ~p.spacePad THEN formatValue(p.st, conv, p.ntrunc, arg)
    ELSE LET tmp == formatValue([p.st EXCEPT !.showpos = TRUE], conv, p.ntrunc, arg)
         IN  InsertString(p.st, [k \in DOMAIN tmp |-> IF tmp[k] = "+" THEN " " ELSE tmp[k]])

Thrown == [ok |-> FALSE, out |-> <<>>]

\* The text behind the last conversion.
Finish(fmt, lit, out) ==
    IF lit.at <= Len(fmt) THEN Thrown ELSE [ok |-> TRUE, out |-> out \o lit.out]

RECURSIVE FormatFrom(_, _, _, _, _, _)
FormatFrom(fmt, c, args, arg, st, out) ==
    LET lit == printFormatStringLiteral(fmt, c)
        p == streamStateFromFormat(fmt, lit.at, args, arg, st)
    IN  IF arg > Len(args) THEN Finish(fmt, lit, out)
        ELSE IF ~p.ok \/ p.arg > Len(args) THEN Thrown
        ELSE FormatFrom(fmt, p.c, args, p.arg + 1, p.st,
                        out \o lit.out \o FormatArg(p, Peek(fmt, p.c - 1), args[p.arg]))

(* formatImpl: one turn per argument, each with the text before it.        *)
formatImpl(fmt, args) == FormatFrom(fmt, 1, args, 1, Reset, <<>>)

-----------------------------------------------------------------------------
(* Format strings put together from conversions, against what C99's printf *)
(* prints for them.  The first conversion is any mix of flags, width and   *)
(* precision, the next ones are from a short list, with text between them. *)
CONSTANTS
    FlagChars,      \* flags used
    MaxFlags,       \* bound: flags in one conversion
    MaxParts        \* bound: conversions in one format

Num(n) == [kind |-> "int", value |-> n]
Txt(s) == [kind |-> "str", value |-> s]

None == [text |-> <<>>, args |-> <<>>, value |-> 0]
Fixed(n) == [text |-> Numeral(n, 10), args |-> <<>>, value |-> n]
Star(n) == [text |-> <<"*">>, args |-> <<Num(n)>>, value |-> n]

Conv(flags, width, prec, conv, arg) ==
    [flags |-> flags, width |-> width, prec |-> prec, conv |-> conv, arg |-> arg]

FlagSeqs == UNION {[1 .. n -> FlagChars] : n \in 0 .. MaxFlags}
WidthsUsed == {None, Fixed(3), Star(3), Star(-3)}
PrecsUsed == {None, Fixed(0), Fixed(1), Fixed(2), Star(2)}

Numbers == {Conv(f, w, p, c, Num(n)) :
               f \in FlagSeqs, w \in WidthsUsed, p \in PrecsUsed, c \in {<<"d">>, <<"l", "x">>},
               n \in {0, 5, 12}}
Negatives == {Conv(f, w, p, <<"d">>, Num(-5)) : f \in FlagSeqs, w \in WidthsUsed, p \in PrecsUsed}
Texts == {Conv(f, w, p, <<"s">>, Txt(s)) :
             f \in {<<>>, <<"-">>}, w \in WidthsUsed, p \in PrecsUsed,
             s \in {<<>>, <<"a">>, <<"a", "+", "b">>}}
Others == {Conv(<<>>, w, None, c, Num(7)) : w \in WidthsUsed, c \in {<<"n">>, <<"A">>}}
Followers ==
    {Conv(<<>>, None, None, <<"d">>, Num(1)), Conv(<<>>, None, None, <<"s">>, Txt(<<"z">>)),
     Conv(<<>>, Star(2), None, <<"d">>, Num(8))}

VARIABLES parts, surplus      \* conversions; arguments too many or too few
formatVars == <<parts, surplus>>

Conversions == Numbers \cup Negatives \cup Texts \cup Others

FormatInit(formats) == parts \in formats /\ surplus = 0
AddPart ==
    /\ Len(parts) < MaxParts /\ surplus = 0
    /\ \E c \in Followers : parts' = Append(parts, c)
    /\ UNCHANGED surplus
Miscount == surplus = 0 /\ surplus' \in {-1, 1} /\ UNCHANGED parts
FormatNext == AddPart \/ Miscount

Precision0(c) == IF c.prec = None THEN <<>> ELSE <<".">> \o c.prec.text
Text(c) == <<"%">> \o c.flags \o c.width.text \o Precision0(c) \o c.conv
Arguments(c) == c.width.args \o c.prec.args \o <<c.arg>>

\* Text with a pair of % stands before each conversion.
Lead == <<"q", "%", "%">>
FormatOf(cs) == FlattenSeq([k \in DOMAIN cs |-> Lead \o Text(cs[k])])
ArgumentsOf(cs) == FlattenSeq([k \in DOMAIN cs |-> Arguments(cs[k])])

Supported(c) == c.conv \notin {<<"n">>, <<"A">>}
Has(c, flag) == \E k \in DOMAIN c.flags : c.flags[k] = flag

(* What C99 says of one conversion.                                        *)
C99(c) ==
    LET left == Has(c, "-") \/ c.width.value < 0
        width == IF c.width.value < 0 THEN -c.width.value ELSE c.width.value
        Fit(head, body, zeros) ==
            LET room == width - Len(head) - Len(body)
                pad(ch) == IF room > 0 THEN Times(ch, room) ELSE <<>>
            IN  CASE left             -> head \o body \o pad(" ")
                  [] ~left /\ zeros   -> head \o pad("0") \o body
                  [] ~left /\ ~zeros  -> pad(" ") \o head \o body
        n == c.arg.value
        hex == c.conv = <<"l", "x">>
        digits == Numeral(IF n < 0 THEN -n ELSE n, IF hex THEN 16 ELSE 10)
        least == IF c.prec = None THEN 1 ELSE c.prec.value
        numeral == IF least = 0 /\ n = 0 THEN <<>>
                   ELSE IF Len(digits) < least THEN Times("0", least - Len(digits)) \o digits
                   ELSE digits
        sign == CASE hex            -> IF Has(c, "#") /\ n # 0 THEN <<"0", "x">> ELSE <<>>
                  [] ~hex /\ n < 0  -> <<"-">>
                  [] ~hex /\ n >= 0 -> IF Has(c, "+") THEN <<"+">>
                                       ELSE IF Has(c, " ") THEN <<" ">> ELSE <<>>
        cut == IF c.prec = None \/ c.prec.value > Len(c.arg.value) THEN c.arg.value
               ELSE SubSeq(c.arg.value, 1, c.prec.value)
    IN  IF c.arg.kind = "str" THEN Fit(<<>>, cut, FALSE)
        ELSE Fit(sign, numeral, Has(c, "0") /\ c.prec = None)

Printed(cs) == formatImpl(FormatOf(cs), ArgumentsOf(cs))

(* Exactly the right number of arguments, variable widths and precisions   *)
(* included, is accepted; the unsupported conversions never are.           *)
ArgumentsCounted ==
    LET args == ArgumentsOf(parts)
        given == CASE surplus = 0  -> args
                   [] surplus = 1  -> Append(args, Num(1))
                   [] surplus = -1 -> SubSeq(args, 1, Len(args) - 1)
    IN  formatImpl(FormatOf(parts), given).ok <=> surplus = 0 /\ \A k \in DOMAIN parts : Supported(parts[k])

(* An integer without precision is printed as C99 prints it, for every     *)
(* mix and order of flags and for widths given either way; so is a string  *)
(* with a width or a precision.                                            *)
PrintsAsC99 ==
    \A k \in DOMAIN parts :
       LET c == parts[k]
       IN  Supported(c) /\ (c.prec = None \/ (c.arg.kind = "str" /\ c.width = None))
              => Printed(<<c>>).out = <<"q", "%">> \o C99(c)

(* What a conversion prints does not depend on those before it: no width,  *)
(* alignment, truncation or padding is left behind in the stream.          *)
Compositional ==
    surplus = 0 /\ (\A k \in DOMAIN parts : Supported(parts[k])) =>
       Printed(parts).out = FlattenSeq([k \in DOMAIN parts |-> Printed(<<parts[k]>>).out])
=============================================================================
