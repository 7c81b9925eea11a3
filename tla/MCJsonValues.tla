---------------------------- MODULE MCJsonValues -----------------------------
(***************************************************************************)
(* The values of the JSON library: pointers, patches, comparisons and      *)
(* iterators.  One part moves in a behaviour, the others rest in an        *)
(* initial state.                                                          *)
(***************************************************************************)
EXTENDS PointerAccess, JsonPatch, JsonIterator

CONSTANTS
    Chars,          \* the characters of the reference strings
    MaxText,        \* the length of the longest one
    Inputs,         \* the values compared
    p, q            \* the program's iterator variables

VARIABLES
    part,           \* the part that moves
    written,        \* a reference string
    pointer,        \* json_pointer(written): its tokens, or the exception
    x, y, z         \* the last three values of a stream

pointerVars == <<written, pointer>>
orderVars == <<x, y, z>>
vars == <<part, pointerVars, orderVars, accessVars, patchVars, iteratorVars>>

Parts == {"pointer", "order", "access", "patch", "iterator"}

\* The initial values S for the part that moves, v for a part at rest.
When(name, S, v) == IF part = name THEN S ELSE {v}

\* A reference string grows character by character, and each is read.
Construct ==
    /\ Len(written) < MaxText
    /\ \E c \in Chars : written' = Append(written, c) /\ pointer' = split(written')

\* What an ordered container, std::sort, std::find or std::unique compare.
Compare == x' = y /\ y' = z /\ z' \in Inputs

Init ==
    /\ part \in Parts
    /\ written = <<>> /\ pointer = split(<<>>)
    /\ x = Null /\ y = Null /\ z = Null
    /\ AccessInit(When("access", AccessDocuments, Null))
    /\ PatchInit(When("patch", PatchDocuments, Null), part = "patch")
    /\ IteratorInit(When("iterator", Start, [n \in Names |-> <<"null">>]))

Next ==
    \/ /\ part = "pointer" /\ Construct
       /\ UNCHANGED <<part, orderVars, accessVars, patchVars, iteratorVars>>
    \/ /\ part = "order" /\ Compare
       /\ UNCHANGED <<part, pointerVars, accessVars, patchVars, iteratorVars>>
    \/ /\ part = "access" /\ AccessNext
       /\ UNCHANGED <<part, pointerVars, orderVars, patchVars, iteratorVars>>
    \/ /\ part = "patch" /\ PatchNext
       /\ UNCHANGED <<part, pointerVars, orderVars, accessVars, iteratorVars>>
    \/ /\ part = "iterator" /\ IteratorNext
       /\ UNCHANGED <<part, pointerVars, orderVars, accessVars, patchVars>>

Spec == Init /\ [][Next]_vars

(***************************************************************************)
(* Pointers and their strings                                              *)
(***************************************************************************)

\* RFC 6901: an unescaped character, or an escaped one.
WellFormed ==
    /\ written # <<>> => written[1] = "/"
    /\ \A i \in DOMAIN written :
           written[i] = "~" => i < Len(written) /\ written[i + 1] \in {"0", "1"}

\* The constructor takes exactly the texts of the grammar, and to_string
\* gives back the text it was built from; the pointer is also the one that
\* its own string builds, as the invariant in to_string's comment says
\* (ptr == json_pointer(ptr.to_string())).
StringIsPointer ==
    /\ pointer.error = "none" <=> WellFormed
    /\ pointer.error = "none" =>
           to_string(pointer.tokens) = written /\ split(to_string(pointer.tokens)) = pointer

\* Tokens are arbitrary texts: any sequence of two texts that this one is cut
\* into is a pointer, and its string builds it again.
TokensSurvive ==
    \A i \in 0 .. Len(written) :
        LET tokens == <<SubSeq(written, 1, i), SubSeq(written, i + 1, Len(written))>>
        IN  split(to_string(tokens)) = [tokens |-> tokens, error |-> "none"]

(***************************************************************************)
(* Comparisons                                                             *)
(***************************************************************************)

RECURSIVE NumbersIn(_)

\* The numbers in a value.
NumbersIn(j) ==
    CASE is_array(j) -> UNION {NumbersIn(j[2][i]) : i \in DOMAIN j[2]}
      [] is_object(j) -> UNION {NumbersIn(j[2][k]) : k \in Keys(j)}
      [] is_number(j) \/ j[1] = "discarded" -> {j}
      [] OTHER -> {}

\* A value none of whose numbers is changed by a conversion.
Exact(j) ==
    \A n \in NumbersIn(j) :
        n[1] \notin {"nan", "discarded"} /\ ToFloat(n[2]) = n[2] /\ n[2] < 2 ^ (IntBits - 1)

Equivalent(l, r) == ~Less(l, r) /\ ~Less(r, l)

\* On values whose numbers all three kinds can hold, operator< is a strict
\* weak order, and its equivalence is operator==, across the kinds of numbers
\* and inside arrays and objects: the precondition of every ordered container
\* and of sort.
StrictWeakOrder ==
    Exact(x) /\ Exact(y) /\ Exact(z) =>
        /\ Less(x, y) /\ Less(y, z) => Less(x, z)
        /\ Equivalent(x, y) /\ Equivalent(y, z) => Equivalent(x, z)
        /\ Equivalent(x, y) <=> Equal(x, y)

\* For all values, with NaN, discarded values and conversions that lose
\* value: operator== is symmetric, operator< asymmetric, and no two values
\* are both equal and ordered.
NeverBoth ==
    /\ Equal(x, y) = Equal(y, x)
    /\ ~(Less(x, y) /\ Less(y, x))
    /\ Equal(x, y) => ~Less(x, y) /\ LessEqual(x, y) /\ GreaterEqual(x, y) /\ ~Greater(x, y)

(***************************************************************************)
(* The values of the constants                                             *)
(***************************************************************************)

\* The program's iterator variables differ in nothing but their names.
SlotsSymmetry == Permutations(Slots)

One == <<"number_unsigned", 1>>
OneFloat == <<"number_float", 1>>
Two == <<"number_integer", 2>>
Arr(s) == <<"array", s>>
Obj(m) == <<"object", m>>
Str(t) == <<"string", t>>
A == <<"a">>
B == <<"b">>
Esc == <<"~", "/">>

\* Tokens that are indices (one and two digits, with a leading zero, a sign,
\* none at all), "-" and keys, one of which has to be escaped.
MCTokens == {<<>>, <<"0">>, <<"1", "0">>, <<"0", "1">>, <<"-">>, <<"-", "1">>, A, Esc}

MCAccessDocuments ==
    {Null, One, Arr(<<One, Null, Obj(A :> One)>>),
     Obj((A :> Arr(<<One>>)) @@ (Esc :> One) @@ (B :> Null)), Obj((<<"-">> :> One) @@ (<<"1">> :> One))}

MCValues == {<<"boolean", TRUE>>}

\* 4-bit integers and a float of 2 digits, so that conversions that are exact,
\* that round and that wrap all occur.
MCInputs ==
    {Null, <<"discarded">>, <<"nan">>, <<"boolean", FALSE>>, <<"boolean", TRUE>>}
    \cup {<<"number_integer", n>> : n \in {-8, -1, 1, 5, 6}}
    \cup {<<"number_unsigned", n>> : n \in {1, 5, 8, 15}}
    \cup {<<"number_float", n>> : n \in {-1, 1, 6, 16}}
    \cup {Str(<<>>), Str(A), Str(<<"a", "b">>), Arr(<<>>), Arr(<<Two>>), Arr(<<One, Null>>),
          Arr(<<<<"number_float", 6>>>>), Arr(<<<<"nan">>>>), Arr(<<Arr(<<>>)>>), EmptyObject,
          Obj(A :> Two), Obj(A :> <<"number_float", 6>>), Obj(B :> One), Obj((A :> One) @@ (B :> Null))}

\* Arrays of up to four elements, nested objects, keys that need escapes and
\* keys that look like indices, numbers that are equal across kinds.
MCPatchDocuments ==
    {Null, One, OneFloat, EmptyArray,
     Arr(<<One, Two, Null>>), Arr(<<Two, One, Two, One>>),
     Arr(<<Arr(<<Two, One>>), OneFloat, Obj(A :> One)>>),
     Obj((A :> Arr(<<One, Two>>)) @@ (B :> Two)),
     Obj((A :> Obj((Esc :> One) @@ (B :> Null))) @@ (<<"0">> :> Two)),
     Obj((Esc :> Obj(A :> EmptyArray)) @@ (B :> OneFloat))}

\* To a place, beyond one, below a primitive value and nowhere.
MCPaths ==
    {<<>>, <<"/", "a">>, <<"/", "0">>, <<"/", "1">>, <<"/", "-">>, <<"/", "0", "1">>,
     <<"/", "~", "0", "~", "1">>, <<"/", "a", "/", "0">>, <<"/", "0", "/", "0">>,
     <<"/", "a", "/", "b">>, <<"/", "2", "/", "a">>, <<"/", "a", "/", "b", "/", "a">>}

MCSources ==
    {<<>>, <<"/", "a">>, <<"/", "0">>, <<"/", "0", "/", "0">>, <<"/", "a", "/", "b">>}

MCPatches ==
    {OpAdd(path, Arr(<<Two>>)) : path \in MCPaths}
    \cup {OpRemove(path) : path \in MCPaths}
    \cup {OpReplace(path, Two) : path \in MCPaths}
    \cup {Obj([op |-> Str(<<op>>), path |-> Str(path), from |-> Str(from)]) :
              op \in {"move", "copy"}, path \in MCPaths, from \in MCSources}
    \cup {Obj([op |-> Str(<<"test">>), path |-> Str(path), value |-> OneFloat]) : path \in MCPaths}
    \cup {One,                                                           \* no object
          Obj([path |-> Str(A)]),                                        \* no operation
          Obj([op |-> Str(<<"other">>), path |-> Str(<<>>)]),            \* an unknown one
          Obj([op |-> One, path |-> Str(<<>>)]),                         \* not a string
          Obj([op |-> Str(<<"test">>), path |-> Str(<<>>)]),             \* no value
          Obj([op |-> Str(<<"move">>), path |-> Str(<<>>)]),             \* no source
          Obj([op |-> Str(<<"remove">>), path |-> Str(A)]),              \* no slash
          Obj([op |-> Str(<<"remove">>), path |-> Str(<<"/", "~">>)])}   \* no escape

MCMerges ==
    {Null, One, Arr(<<Null>>), EmptyObject, Obj(A :> Null), Obj((A :> Obj(B :> Null)) @@ (B :> One)),
     Obj(A :> Obj(A :> Obj(B :> One))), Obj((Esc :> Arr(<<One, Null>>)) @@ (<<"0">> :> Null))}

\* Each type beside an array, and two objects, with up to two elements.
MCStart ==
    {[j |-> v, k |-> <<"array", <<3>>>>] :
         v \in {<<"null">>, <<"primitive", 1>>, <<"array", <<1, 2>>>>, <<"object", <<1, 2>>>>}}
    \cup {[j |-> <<"object", <<1, 2>>>>, k |-> <<"object", 2 :> 3>>]}

(***************************************************************************)
(* The properties checked                                                  *)
(***************************************************************************)


\* operator< is an order that operator== agrees with, as far as the numbers
\* can be converted, and never contradicts it beyond.
OrderSound == StrictWeakOrder /\ NeverBoth

\* patch does what RFC 6902 says, operation by operation, diff makes a patch
\* that leads from one document to the other, merge_patch follows RFC 7396.
PatchesMeetRfc == AppliesRfc /\ DiffReaches /\ MergeMeetsRfc
==============================================================================
