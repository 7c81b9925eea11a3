----------------------------- MODULE JsonPointer -----------------------------
(***************************************************************************)
(* nlohmann::json_pointer (json.hpp): the text of a pointer, its           *)
(* reference tokens, the ways in which basic_json resolves them, and       *)
(* flatten / unflatten.                                                    *)
(*                                                                         *)
(* A pointer is the sequence of its tokens, a token a text.                *)
(***************************************************************************)
EXTENDS JsonValue

(***************************************************************************)
(* The text of a pointer.                                                  *)
(***************************************************************************)

\* Where f starts in s (s.find(f)), 0 for npos.
Find(s, f) ==
    LET starts == {i \in 1 .. Len(s) : i + Len(f) - 1 <= Len(s) /\ SubSeq(s, i, i + Len(f) - 1) = f}
    IN  IF starts = {} THEN 0 ELSE CHOOSE i \in starts : \A other \in starts : i <= other

RECURSIVE replace_substring(_, _, _)

\* The search goes on behind the replacement: what was put in is not read again.
replace_substring(s, f, t) ==
    LET pos == Find(s, f) IN
    IF pos = 0 THEN s
    ELSE SubSeq(s, 1, pos - 1) \o t \o replace_substring(SubSeq(s, pos + Len(f), Len(s)), f, t)

escape(s) == replace_substring(replace_substring(s, <<"~">>, <<"~", "0">>), <<"/">>, <<"~", "1">>)

unescape(s) == replace_substring(replace_substring(s, <<"~", "1">>, <<"/">>), <<"~", "0">>, <<"~">>)

\* The check of split for one raw token: every ~ is followed by 0 or 1.
Escaped(token) ==
    \A pos \in DOMAIN token :
        token[pos] = "~" => pos # Len(token) /\ token[pos + 1] \in {"0", "1"}

RECURSIVE RawTokens(_)

\* The pieces between the slashes of what follows the first one.
RawTokens(rest) ==
    LET slash == Find(rest, <<"/">>) IN
    IF slash = 0 THEN <<rest>>
    ELSE <<SubSeq(rest, 1, slash - 1)>> \o RawTokens(SubSeq(rest, slash + 1, Len(rest)))

\* The check of every raw token, then the tokens.
Unescaped(raw) ==
    IF \E i \in DOMAIN raw : ~Escaped(raw[i]) THEN [tokens |-> <<>>, error |-> "parse_error.108"]
    ELSE [tokens |-> [i \in DOMAIN raw |-> unescape(raw[i])] \o <<>>, error |-> "none"]

\* json_pointer(reference_string).
split(text) ==
    IF text = <<>> THEN [tokens |-> <<>>, error |-> "none"]
    ELSE IF Head(text) # "/" THEN [tokens |-> <<>>, error |-> "parse_error.107"]
    ELSE Unescaped(RawTokens(Tail(text)))

to_string(tokens) == FoldLeft(LAMBDA text, token : text \o <<"/">> \o escape(token), <<>>, tokens)

(***************************************************************************)
(* Array indices.                                                          *)
(***************************************************************************)

RECURSIVE Decimal(_)

\* std::to_string of an index.
Decimal(n) == IF n < 10 THEN <<DigitChars[n + 1]>> ELSE Decimal(n \div 10) \o <<DigitChars[(n % 10) + 1]>>

IsDigit(c) == c \in Range(DigitChars)

\* The number of digits that s begins with.
DigitRun(s) ==
    CHOOSE n \in 0 .. Len(s) :
        (\A i \in 1 .. n : IsDigit(s[i])) /\ (n < Len(s) => ~IsDigit(s[n + 1]))

\* std::stoi behind the sign: the longest run of digits, and it is an error to
\* find none; array_index then refuses what follows the number.
Stoi(sign, body) ==
    [value |-> sign * FoldLeft(LAMBDA n, c : 10 * n + CharCode[c] - CharCode["0"], 0,
                               SubSeq(body, 1, DigitRun(body))),
     error |-> IF DigitRun(body) = 0 THEN "std::invalid_argument"
               ELSE IF DigitRun(body) # Len(body) THEN "out_of_range.404"
               ELSE "none"]

Signed(token) == token # <<>> /\ Head(token) \in {"+", "-"}

array_index(token) ==
    Stoi(IF Signed(token) /\ Head(token) = "-" THEN -1 ELSE 1,
         IF Signed(token) THEN Tail(token) ELSE token)

\* The accesses catch stoi's exception and throw one of their own.
Caught(error) == IF error = "std::invalid_argument" THEN "parse_error.109" ELSE error

LeadingZero(token) == Len(token) > 1 /\ Head(token) = "0"

(***************************************************************************)
(* One step of each way to resolve a token.                                *)
(***************************************************************************)

\* An element of an array, found with one of the accesses by index.
Indexed(j, index, Found(_, _)) ==
    IF index.error # "none" THEN Throw(j, Caught(index.error)) ELSE Found(j, index.value)

\* get_and_create, used by unflatten: only "0" starts an array.
StepCreate(j, token) ==
    CASE is_null(j) -> IF token = <<"0">> THEN subscript_index(j, 0) ELSE subscript_key(j, token)
      [] is_object(j) -> subscript_key(j, token)
      [] is_array(j) -> Indexed(j, array_index(token), subscript_index)
      [] OTHER -> Throw(j, "type_error.313")


\* get_unchecked makes a container of null: an array for a number (the empty
\* token is one) and for "-", else an object.
Opened(j, token) ==
    IF ~is_null(j) THEN j
    ELSE IF token = <<"-">> \/ \A i \in DOMAIN token : IsDigit(token[i]) THEN EmptyArray ELSE EmptyObject

ByIndex(j, token, Found(_, _)) ==
    IF LeadingZero(token) THEN Throw(j, "parse_error.106") ELSE Indexed(j, array_index(token), Found)

\* get_unchecked, behind the non-const operator[](json_pointer).
StepInto(made, token) ==
    CASE is_object(made) -> subscript_key(made, token)
      [] is_array(made) -> IF token = <<"-">> THEN subscript_index(made, Len(made[2]))
                           ELSE ByIndex(made, token, subscript_index)
      [] OTHER -> Throw(made, "out_of_range.404")
StepUnchecked(j, token) == StepInto(Opened(j, token), token)

\* get_checked, behind the non-const at(json_pointer).
StepChecked(j, token) ==
    CASE is_object(j) -> at_key(j, token)
      [] is_array(j) -> IF token = <<"-">> THEN Throw(j, "out_of_range.402")
                        ELSE ByIndex(j, token, at_index)
      [] OTHER -> Throw(j, "out_of_range.404")

\* get_checked const, behind the const at(json_pointer) and value(); it is a
\* copy of the other one.
StepCheckedConst(j, token) == StepChecked(j, token)

\* get_unchecked const, behind the const operator[](json_pointer).
StepConst(j, token) ==
    CASE is_object(j) -> const_subscript_key(j, token)
      [] is_array(j) -> IF token = <<"-">> THEN Throw(j, "out_of_range.402")
                        ELSE ByIndex(j, token, const_subscript_index)
      [] OTHER -> Throw(j, "out_of_range.404")

Step(way, j, token) ==
    CASE way = "create"    -> StepCreate(j, token)
      [] way = "unchecked" -> StepUnchecked(j, token)
      [] way = "checked"   -> StepChecked(j, token)
      [] way = "checked const" -> StepCheckedConst(j, token)
      [] way = "const"     -> StepConst(j, token)

RECURSIVE Resolve(_, _, _)

\* What the rest of the tokens found below an element, seen from the whole.
Behind(step, rest) ==
    [doc   |-> SetElement(step.doc, step.place, rest.doc),
     path  |-> <<step.place>> \o rest.path,
     error |-> rest.error]

Follow(way, step, tokens) ==
    IF step.error # "none" THEN [doc |-> step.doc, path |-> <<>>, error |-> step.error]
    ELSE Behind(step, Resolve(way, Element(step.doc, step.place), tokens))

\* The loop over the reference tokens.  doc is the whole value as the loop
\* leaves it, also when a later token throws; path leads to the result.
Resolve(way, j, tokens) ==
    IF tokens = <<>> THEN [doc |-> j, path |-> <<>>, error |-> "none"]
    ELSE Follow(way, Step(way, j, Head(tokens)), Tail(tokens))

RECURSIVE ValueAt(_, _)

\* The value a resolved path refers to.
ValueAt(j, path) == IF path = <<>> THEN j ELSE ValueAt(Element(j, Head(path)), Tail(path))

RECURSIVE Assign(_, _, _)

\* The document after an assignment to the reference a path stands for.
Assign(j, path, v) ==
    IF path = <<>> THEN v
    ELSE SetElement(j, Head(path), Assign(Element(j, Head(path)), Tail(path), v))

(***************************************************************************)
(* flatten and unflatten.                                                  *)
(***************************************************************************)

RECURSIVE Flattened(_, _)

Flattened(reference, value) ==
    CASE is_primitive(value) \/ size(value) = 0 ->
             reference :> (IF is_primitive(value) THEN value ELSE Null)
      [] is_array(value) ->
             FoldLeft(LAMBDA flat, i : Flattened(reference \o <<"/">> \o Decimal(i - 1), value[2][i]) @@ flat,
                      <<>>, [i \in 1 .. Len(value[2]) |-> i])
      [] is_object(value) ->
             FoldLeft(LAMBDA flat, key : Flattened(reference \o <<"/">> \o escape(key), value[2][key]) @@ flat,
                      <<>>, InOrder(Keys(value)))

flatten(j) == <<"object", Flattened(<<>>, j)>>

\* One member of the flat object, assigned to the place its key creates.
PutAt(result, here, value) ==
    IF here.error # "none" THEN [result EXCEPT !.error = here.error]
    ELSE [result EXCEPT !.doc = Assign(here.doc, here.path, value)]

PutBelow(result, ptr, value) ==
    IF ptr.error # "none" THEN [result EXCEPT !.error = ptr.error]
    ELSE PutAt(result, Resolve("create", result.doc, ptr.tokens), value)

Unflattened(result, key, value) ==
    IF result.error # "none" THEN result
    ELSE IF is_structured(value) THEN [result EXCEPT !.error = "type_error.315"]
    ELSE PutBelow(result, split(key), value)

unflatten(j) ==
    IF ~is_object(j) THEN [doc |-> Null, error |-> "type_error.314"]
    ELSE FoldLeft(LAMBDA result, key : Unflattened(result, key, j[2][key]),
                  [doc |-> Null, error |-> "none"], InOrder(Keys(j)))

==============================================================================
