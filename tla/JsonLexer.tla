----------------------------- MODULE JsonLexer ------------------------------
(***************************************************************************)
(* The input adapters and lexer::scan of bryllite-common/nlohmann/json.hpp *)
(* with the position and the text they keep for error messages.  The same  *)
(* text is read through every kind of adapter the library offers, side by  *)
(* side.                                                                   *)
(*                                                                         *)
(* The characters of a number are read by the automaton of JsonNumber; a   *)
(* string's bytes are checked in JsonString, and only those that occur     *)
(* here (the three of the byte order mark, ASCII) are told apart.          *)
(***************************************************************************)
EXTENDS Integers, Sequences, FiniteSets, JsonNumber

CONSTANTS
    Fragments,      \* pieces of text the input is made of
    MaxFragments    \* bound: number of pieces

VARIABLES
    data,           \* the characters handed to the adapters
    lexer,          \* per kind of adapter: cursor, current, chars_read, ...
    scanned         \* per kind of adapter: the tokens scanned

lexerVars == <<data, lexer, scanned>>

Nul == Chr("nul")
Bom == <<Chr("EF"), Chr("BB"), Chr("BF")>>

\* stream: an istream; buffer: pointer and length, or a container;
\* c_string: a pointer alone; array: an array with its final null.
Kinds == {"stream", "buffer", "c_string", "array"}

-----------------------------------------------------------------------------
(* The adapters.                                                           *)

\* What a kind of adapter is given of a text: a pointer alone is measured
\* with strlen.
Content(kind, text) ==
    CASE kind = "c_string" ->
           LET nuls == {i \in 1 .. Len(text) : text[i] = Nul}
           IN  IF nuls = {} THEN text ELSE SubSeq(text, 1, (CHOOSE i \in nuls : \A j \in nuls : i <= j) - 1)
      [] kind = "array" -> Append(text, Nul)
      [] OTHER -> text

At(text, cursor) == IF cursor < Len(text) THEN text[cursor + 1] ELSE Eof
Bumped(text, cursor) == IF cursor < Len(text) THEN cursor + 1 ELSE cursor

\* The constructor for streams reads up to three characters and gives back
\* what is not a complete byte order mark.
StreamStart(text) ==
    LET undo(k) == IF At(text, k) = Eof THEN k ELSE Bumped(text, k) - 1    \* is.unget()
    IN  IF At(text, 0) # Bom[1] THEN undo(0)
        ELSE IF At(text, 1) # Bom[2] THEN undo(1) - 1                       \* putback(EF)
        ELSE IF At(text, 2) # Bom[3] THEN undo(2) - 2                       \* putback(BB), (EF)
        ELSE 3

BufferStart(text) == IF Len(text) >= 3 /\ SubSeq(text, 1, 3) = Bom THEN 3 ELSE 0

Start(kind, text) == IF kind = "stream" THEN StreamStart(text) ELSE BufferStart(text)

-----------------------------------------------------------------------------
(* get, unget and reset on the state x of a lexer over a text.             *)

get(text, x) ==
    LET c == At(text, x.cursor)
    IN  [x EXCEPT !.chars_read = @ + 1,
                  !.current = c,
                  !.cursor = Bumped(text, @),
                  !.token_string = IF c = Eof THEN @ ELSE Append(@, c)]


unget_character(cursor) == IF cursor > 0 THEN cursor - 1 ELSE cursor

unget(x) ==
    IF x.current = Eof THEN [x EXCEPT !.chars_read = @ - 1]
    ELSE [x EXCEPT !.chars_read = @ - 1, !.cursor = unget_character(@),
                   !.token_string = SubSeq(@, 1, Len(@) - 1)]

reset(x) == [x EXCEPT !.token_string = <<x.current>>]

\* A scanning function returns the token and the lexer it leaves.
Result(type, text, x) == [type |-> type, text |-> text, lexer |-> x]

RECURSIVE scan_literal(_, _, _, _)
scan_literal(text, x, rest, type) ==
    IF rest = <<>> THEN Result(type, <<>>, x)
    ELSE LET y == get(text, x)
         IN  IF y.current # rest[1] THEN Result("parse_error", <<>>, y)
             ELSE scan_literal(text, y, Tail(rest), type)

RECURSIVE NumberFrom(_, _, _, _)
NumberFrom(text, x, at, digits) ==
    LET y    == get(text, x)
        next == After(at, y.current)
    IN  CASE next = "done"  -> Result("number", digits, unget(y))
          [] next = "error" -> Result("parse_error", <<>>, y)
          [] OTHER          -> NumberFrom(text, y, next, Append(digits, y.current))

scan_number(text, x) ==
    NumberFrom(text, reset(x), AfterInit(x.current), <<x.current>>)

\* follow is the number of bytes that must follow a first byte EF.
RECURSIVE StringFrom(_, _, _, _)
StringFrom(text, x, buffer, follow) ==
    LET y == get(text, x)
        c == y.current
    IN  CASE follow > 0 /\ c \in {Bom[2], Bom[3]} -> StringFrom(text, y, Append(buffer, c), follow - 1)
          [] follow = 0 /\ c = Chr("\"")  -> Result("string", buffer, y)
          [] follow = 0 /\ c = Bom[1]     -> StringFrom(text, y, Append(buffer, c), 2)
          [] follow > 0 \/ c \in {Eof, Nul, Bom[2], Bom[3]} -> Result("parse_error", <<>>, y)
          [] OTHER                        -> StringFrom(text, y, Append(buffer, c), 0)

scan_string(text, x) == StringFrom(text, reset(x), <<>>, 0)

RECURSIVE SkipSpace(_, _)
SkipSpace(text, x) ==
    LET y == get(text, x) IN IF y.current = Chr(" ") THEN SkipSpace(text, y) ELSE y

Structural ==
    [c \in {Chr("["), Chr("]"), Chr("{"), Chr("}"), Chr(":"), Chr(",")} |->
        CASE c = Chr("[") -> "begin_array"    [] c = Chr("]") -> "end_array"
          [] c = Chr("{") -> "begin_object"   [] c = Chr("}") -> "end_object"
          [] c = Chr(":") -> "name_separator" [] c = Chr(",") -> "value_separator"]

Word(w) == [i \in 1 .. Len(w) |-> Chr(w[i])]
True == Word(<<"r", "u", "e">>)
False == Word(<<"a", "l", "s", "e">>)
Null == Word(<<"u", "l", "l">>)

scan(text, x) ==
    LET y == SkipSpace(text, x)
        c == y.current
    IN  CASE c \in DOMAIN Structural  -> Result(Structural[c], <<>>, y)
          [] c = Chr("t")             -> scan_literal(text, y, True, "literal_true")
          [] c = Chr("f")             -> scan_literal(text, y, False, "literal_false")
          [] c = Chr("n")             -> scan_literal(text, y, Null, "literal_null")
          [] c = Chr("\"")            -> scan_string(text, y)
          [] c = Chr("-") \/ IsDigit(c) -> scan_number(text, y)
          [] c \in {Eof, Nul}         -> Result("end_of_input", <<>>, y)
          [] OTHER                    -> Result("parse_error", <<>>, y)

-----------------------------------------------------------------------------

RECURSIVE Texts(_)
Texts(n) == IF n = 0 THEN {<<>>} ELSE Texts(n - 1) \cup {t \o f : t \in Texts(n - 1), f \in Fragments}

Fresh(kind, text) ==
    [cursor |-> Start(kind, Content(kind, text)), current |-> Eof, chars_read |-> 0, token_string |-> <<>>]

LexerInit(texts) ==
    /\ data \in texts
    /\ lexer = [k \in Kinds |-> Fresh(k, data)]
    /\ scanned = [k \in Kinds |-> <<>>]

\* The parser asks for tokens until the input ends or an error is met.
Ended(s) == s # <<>> /\ s[Len(s)].type \in {"end_of_input", "parse_error"}

Scan(k) ==
    /\ ~Ended(scanned[k])
    /\ \A j \in Kinds : Len(scanned[j]) >= Len(scanned[k])    \* bound: side by side
    /\ LET r == scan(Content(k, data), lexer[k])
       IN  /\ lexer' = [lexer EXCEPT ![k] = r.lexer]
           /\ scanned' = [scanned EXCEPT ![k] =
                Append(@, [type |-> r.type, text |-> r.text, position |-> r.lexer.chars_read])]
    /\ UNCHANGED data

LexerNext == \E k \in Kinds : Scan(k)

-----------------------------------------------------------------------------

(* The kind of input does not matter: the same text gives the same tokens  *)
(* at the same positions through a stream, a buffer, a C string and an     *)
(* array, with and without a byte order mark, a beginning of one, or a     *)
(* null in the middle.                                                     *)
AdaptersAgree ==
    \A j, k \in Kinds : \A i \in 1 .. Len(scanned[j]) : i <= Len(scanned[k]) => scanned[j][i] = scanned[k][i]

(* What the lexer keeps for its messages is what it has read: token_string *)
(* is the end of the text consumed, and the position counts the characters *)
(* behind the byte order mark, the end of the input at most once.          *)
TextAccounted ==
    \A k \in Kinds :
        LET x    == lexer[k]
            text == Content(k, data)
            n    == Len(x.token_string)
            taken == x.cursor - BufferStart(text)
        IN  /\ n <= taken /\ SubSeq(text, x.cursor - n + 1, x.cursor) = x.token_string
            /\ x.chars_read \in {taken, taken + 1}
            /\ x.chars_read = taken + 1 => x.cursor = Len(text) /\ Ended(scanned[k])
=============================================================================
