------------------------------ MODULE JsonValue ------------------------------
(***************************************************************************)
(* The values of nlohmann::basic_json, the element accesses that its       *)
(* pointers and patches are made of, and its comparisons (json.hpp, class  *)
(* basic_json).                                                            *)
(*                                                                         *)
(* A value is a tagged tuple: <<"null">>, <<"boolean", b>>,                *)
(* <<"number_integer", n>>, <<"number_unsigned", n>>, <<"number_float",    *)
(* n>>, <<"string", text>>, <<"array", elements>> and <<"object",          *)
(* members>>, where text is a sequence of characters, elements a sequence  *)
(* of values and members a function from texts to values.                  *)
(*                                                                         *)
(* The C++ accessors return references; here an access is a record: the    *)
(* container after the access (an unchecked one may have grown it), the    *)
(* place of the element in it, and the exception, "none" when there is     *)
(* none.  "undefined" stands for an access the code only asserts to be in  *)
(* range.                                                                  *)
(***************************************************************************)
EXTENDS Integers, SequencesExt

CONSTANTS
    IntBits,     \* the width of number_integer_t and number_unsigned_t
    Mantissa     \* the digits of number_float_t

ASSUME NumberAssumption == IntBits \in Nat \ {0} /\ Mantissa \in Nat \ {0}

\* The characters that occur in the models, in the order of their codes.
Collation == <<"+", "-", "/", "0", "1", "2", "3", "4", "5", "6", "7", "8", "9", "a", "b", "~">>

DigitChars == SubSeq(Collation, 4, 13)

CharCode == [c \in Range(Collation) |-> CHOOSE i \in DOMAIN Collation : Collation[i] = c]

\* std::string's operator<, the order of the keys of an object_t (std::map).
TextLess(s, t) ==
    \E i \in 1 .. Len(t) :
        /\ \A k \in 1 .. i - 1 : k <= Len(s) /\ s[k] = t[k]
        /\ i > Len(s) \/ CharCode[s[i]] < CharCode[t[i]]

\* The first key in the iteration order of an object.
FirstKey(S) == CHOOSE k \in S : \A other \in S \ {k} : TextLess(k, other)

RECURSIVE InOrder(_)

\* The keys of an object in its iteration order.
InOrder(S) == IF S = {} THEN <<>> ELSE LET k == FirstKey(S) IN <<k>> \o InOrder(S \ {k})

Null == <<"null">>

EmptyArray == <<"array", <<>>>>

EmptyObject == <<"object", <<>>>>

is_null(j) == j[1] = "null"

is_array(j) == j[1] = "array"

is_object(j) == j[1] = "object"

is_string(j) == j[1] = "string"

is_structured(j) == is_array(j) \/ is_object(j)

is_primitive(j) == ~is_structured(j)

Keys(j) == DOMAIN j[2]

size(j) == CASE is_null(j)   -> 0
             [] is_array(j)  -> Len(j[2])
             [] is_object(j) -> Cardinality(Keys(j))
             [] OTHER        -> 1

\* The element of a container at a place: an index from 0, or a key.
Element(j, place) == IF is_array(j) THEN j[2][place + 1] ELSE j[2][place]

SetElement(j, place, v) ==
    IF is_array(j) THEN <<"array", [j[2] EXCEPT ![place + 1] = v]>>
                   ELSE <<"object", (place :> v) @@ j[2]>>

Access(j, place) == [doc |-> j, place |-> place, error |-> "none"]

Throw(j, error) == [doc |-> j, place |-> 0, error |-> error]

\* A negative int cast to size_type is larger than any array.
Beyond(j, idx) == idx < 0 \/ idx >= Len(j[2])

at_index(j, idx) ==
    IF ~is_array(j) THEN Throw(j, "type_error.304")
    ELSE IF Beyond(j, idx) THEN Throw(j, "out_of_range.401")
    ELSE Access(j, idx)

at_key(j, key) ==
    IF ~is_object(j) THEN Throw(j, "type_error.304")
    ELSE IF key \notin Keys(j) THEN Throw(j, "out_of_range.403")
    ELSE Access(j, key)

\* The non-const operator[] of an index: null becomes an array, which is
\* filled with nulls up to the index.
subscript_index(j, idx) ==
    LET array == IF is_null(j) THEN EmptyArray ELSE j IN
    IF ~is_array(array) THEN Throw(array, "type_error.305")
    ELSE IF idx < 0 THEN Throw(array, "std::length_error")
    ELSE IF idx < Len(array[2]) THEN Access(array, idx)
    ELSE Access(<<"array", array[2] \o [i \in 1 .. idx + 1 - Len(array[2]) |-> Null]>>, idx)

\* The non-const operator[] of a key: null becomes an object, in which a
\* missing key is created with null.
subscript_key(j, key) ==
    LET object == IF is_null(j) THEN EmptyObject ELSE j IN
    IF ~is_object(object) THEN Throw(object, "type_error.305")
    ELSE Access(IF key \in Keys(object) THEN object ELSE SetElement(object, key, Null), key)

const_subscript_index(j, idx) ==
    IF ~is_array(j) THEN Throw(j, "type_error.305")
    ELSE IF Beyond(j, idx) THEN Throw(j, "undefined")
    ELSE Access(j, idx)

const_subscript_key(j, key) ==
    IF ~is_object(j) THEN Throw(j, "type_error.305")
    ELSE IF key \notin Keys(j) THEN Throw(j, "undefined")
    ELSE Access(j, key)

\* push_back(val): null becomes an array.
push_back(j, v) ==
    IF ~(is_null(j) \/ is_array(j)) THEN Throw(j, "type_error.308")
    ELSE LET array == IF is_null(j) THEN EmptyArray ELSE j
         IN  Access(<<"array", Append(array[2], v)>>, Len(array[2]))

\* insert(begin() + idx, val), for an index up to the size.
insert(j, idx, v) ==
    IF ~is_array(j) THEN Throw(j, "type_error.309")
    ELSE Access(<<"array", InsertAt(j[2], idx + 1, v)>>, idx)

erase_key(j, key) ==
    IF ~is_object(j) THEN Throw(j, "type_error.307")
    ELSE Access(<<"object", [k \in Keys(j) \ {key} |-> j[2][k]]>>, key)

erase_index(j, idx) ==
    IF ~is_array(j) THEN Throw(j, "type_error.307")
    ELSE IF Beyond(j, idx) THEN Throw(j, "out_of_range.401")
    ELSE Access(<<"array", RemoveAt(j[2], idx + 1)>>, idx)

(***************************************************************************)
(* The comparison operators.  Numbers keep their kinds: a comparison of    *)
(* two kinds converts one of them, and both conversions can lose value.    *)
(* Beyond the values above there are <<"nan">>, the number_float that is   *)
(* not a number, and <<"discarded">>.                                      *)
(***************************************************************************)

type(j) == IF j[1] = "nan" THEN "number_float" ELSE j[1]

\* static_cast<number_integer_t> of an unsigned number.
ToInteger(n) == IF n >= 2 ^ (IntBits - 1) THEN n - 2 ^ IntBits ELSE n

Magnitude(n) == IF n < 0 THEN -n ELSE n

\* static_cast<number_float_t> of an integer: to the nearest number of
\* Mantissa digits, to the even one of two.
ToFloat(n) ==
    LET ulp  == 2 ^ (CHOOSE e \in 0 .. IntBits :
                        /\ Magnitude(n) < 2 ^ (Mantissa + e)
                        /\ e > 0 => Magnitude(n) >= 2 ^ (Mantissa + e - 1))
        low  == Magnitude(n) \div ulp
        rest == 2 * (Magnitude(n) % ulp)
        near == IF rest > ulp \/ (rest = ulp /\ low % 2 = 1) THEN low + 1 ELSE low
    IN  IF n < 0 THEN -(near * ulp) ELSE near * ulp

\* The number as it is compared with one of the other kind.
Converted(j, other) ==
    CASE type(other) = "number_float" /\ j[1] \in {"number_integer", "number_unsigned"} -> ToFloat(j[2])
      [] type(other) = "number_integer" /\ j[1] = "number_unsigned" -> ToInteger(j[2])
      [] OTHER -> j[2]

is_number(j) == type(j) \in {"number_integer", "number_unsigned", "number_float"}

NotANumber(l, r) == "nan" \in {l[1], r[1]}

RECURSIVE Equal(_, _)

\* operator==.
Equal(l, r) ==
    CASE is_number(l) /\ is_number(r) -> ~NotANumber(l, r) /\ Converted(l, r) = Converted(r, l)
      [] type(l) # type(r) -> FALSE
      [] is_array(l) -> Len(l[2]) = Len(r[2]) /\ \A i \in DOMAIN l[2] : Equal(l[2][i], r[2][i])
      [] is_object(l) -> Keys(l) = Keys(r) /\ \A k \in Keys(l) : Equal(l[2][k], r[2][k])
      [] is_null(l) -> TRUE
      [] l[1] = "discarded" -> FALSE
      [] OTHER -> l[2] = r[2]

\* The rank of a type, as in Python; discarded has none.
Order == [t \in {"null"} |-> 0] @@ [t \in {"boolean"} |-> 1]
         @@ [t \in {"number_integer", "number_unsigned", "number_float"} |-> 2]
         @@ [t \in {"object"} |-> 3] @@ [t \in {"array"} |-> 4] @@ [t \in {"string"} |-> 5]

TypeLess(s, t) == s \in DOMAIN Order /\ t \in DOMAIN Order /\ Order[s] < Order[t]

\* Slip: the comparison of two kinds of numbers is not strict.
NumberNotMore(l, r) ==
    ~NotANumber(l, r) /\ IF l[1] = r[1] THEN l[2] < r[2] ELSE Converted(l, r) <= Converted(r, l)

\* operator< of two numbers, converted first when their kinds differ.
NumberLess(l, r) == ~NotANumber(l, r) /\ Converted(l, r) < Converted(r, l)

RECURSIVE Less(_, _)

RECURSIVE ArrayLess(_, _)

\* std::lexicographical_compare of two sequences of values.
ArrayLess(l, r) ==
    IF l = <<>> \/ r = <<>> THEN l = <<>> /\ r # <<>>
    ELSE \/ Less(Head(l), Head(r))
         \/ ~Less(Head(r), Head(l)) /\ ArrayLess(Tail(l), Tail(r))

RECURSIVE MembersLess(_, _, _, _)

\* The same for the members of two objects: pairs of a key and a value.
MembersLess(l, r, lkeys, rkeys) ==
    IF lkeys = <<>> \/ rkeys = <<>> THEN lkeys = <<>> /\ rkeys # <<>>
    ELSE LET lk == Head(lkeys)
             rk == Head(rkeys)
         IN  \/ TextLess(lk, rk)
             \/ lk = rk /\ Less(l[2][lk], r[2][rk])
             \/ lk = rk /\ ~Less(r[2][rk], l[2][lk]) /\ MembersLess(l, r, Tail(lkeys), Tail(rkeys))

\* operator<.
Less(l, r) ==
    CASE is_number(l) /\ is_number(r) -> NumberLess(l, r)
      [] type(l) # type(r) -> TypeLess(type(l), type(r))
      [] is_array(l) -> ArrayLess(l[2], r[2])
      [] is_object(l) -> MembersLess(l, r, InOrder(Keys(l)), InOrder(Keys(r)))
      [] l[1] = "string" -> TextLess(l[2], r[2])
      [] l[1] = "boolean" -> ~l[2] /\ r[2]
      [] OTHER -> FALSE

\* operator<=, > and >= are made of operator<.
LessEqual(l, r) == ~Less(r, l)

Greater(l, r) == ~LessEqual(l, r)

GreaterEqual(l, r) == ~Less(l, r)

==============================================================================
