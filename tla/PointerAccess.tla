---------------------------- MODULE PointerAccess ----------------------------
(***************************************************************************)
(* A JSON document reached through JSON pointers: assignments to           *)
(* operator[](json_pointer), which creates what is missing, and to         *)
(* at(json_pointer), which does not; the const accesses, value() and       *)
(* flatten / unflatten, evaluated on every document so reached.            *)
(***************************************************************************)
EXTENDS JsonPointer

CONSTANTS
    Tokens,           \* the reference tokens of the pointers
    MaxTokens,        \* bound: the length of the longest pointer
    AccessDocuments,  \* the documents to begin with
    Values,           \* the values assigned
    MaxAccesses       \* bound: the number of assignments

VARIABLES
    doc,         \* the document
    target,      \* the pointer of the last assignment
    accessError, \* its exception
    accessSteps

accessVars == <<doc, target, accessError, accessSteps>>

Pointers == UNION {[1 .. n -> Tokens] : n \in 0 .. MaxTokens}

AccessInit(documents) == doc \in documents /\ target = <<>> /\ accessError = "none" /\ accessSteps = 0

\* doc[ptr] = v: when a token throws, what was created before it stays.
Subscript(ptr, v) ==
    \E here \in {Resolve("unchecked", doc, ptr)} :
        /\ doc' = IF here.error = "none" THEN Assign(here.doc, here.path, v) ELSE here.doc
        /\ accessError' = here.error

\* doc.at(ptr) = v.
At(ptr, v) ==
    \E here \in {Resolve("checked", doc, ptr)} :
        /\ doc' = IF here.error = "none" THEN Assign(doc, here.path, v) ELSE doc
        /\ accessError' = here.error

AccessNext ==
    /\ accessSteps < MaxAccesses
    /\ accessSteps' = accessSteps + 1
    /\ \E ptr \in Pointers, v \in Values : target' = ptr /\ (Subscript(ptr, v) \/ At(ptr, v))

\* value(ptr, default_value) of an object: out_of_range is answered with the
\* default, a malformed index is not.
value(j, ptr, default) ==
    LET here == Resolve("checked const", j, ptr) IN
    IF ~is_object(j) THEN [value |-> Null, error |-> "type_error.306"]
    ELSE IF here.error = "none" THEN [value |-> ValueAt(j, here.path), error |-> "none"]
    ELSE IF here.error \in {"out_of_range.401", "out_of_range.402", "out_of_range.403", "out_of_range.404"}
         THEN [value |-> default, error |-> "none"]
    ELSE [value |-> Null, error |-> here.error]

(***************************************************************************)
(* Reference definitions                                                   *)
(***************************************************************************)

RECURSIVE Places(_)

\* Every path of a document.
Places(j) ==
    {<<>>} \cup
    IF is_array(j)
    THEN UNION {{<<i - 1>> \o rest : rest \in Places(j[2][i])} : i \in DOMAIN j[2]}
    ELSE IF is_object(j)
    THEN UNION {{<<k>> \o rest : rest \in Places(j[2][k])} : k \in Keys(j)}
    ELSE {}

\* The values of a document, itself included.
PartsOf(j) == {ValueAt(j, path) : path \in Places(j)}

\* The canonical token of a place.
TokenOf(j, place) == IF is_array(j) THEN Decimal(place) ELSE place

RECURSIVE PointerTo(_, _)

PointerTo(j, path) ==
    IF path = <<>> THEN <<>>
    ELSE <<TokenOf(j, Head(path))>> \o PointerTo(Element(j, Head(path)), Tail(path))

EmptyParts == \E piece \in PartsOf(doc) : is_structured(piece) /\ size(piece) = 0

ZeroKeys == \E piece \in PartsOf(doc) : is_object(piece) /\ <<"0">> \in Keys(piece)

(***************************************************************************)
(* Properties                                                              *)
(***************************************************************************)

\* The four ways to resolve a pointer agree: what at() finds, the const and
\* the creating operator[] find at the same place, the latter without
\* changing the document, and value() returns it; what at() refuses the
\* const operator[] does not find either, and value() then gives its default
\* or refuses it too.  Every place has a pointer that all of them resolve.
AccessesAgree ==
    /\ \A ptr \in Pointers :
           LET checked   == Resolve("checked", doc, ptr)
               const     == Resolve("const", doc, ptr)
               unchecked == Resolve("unchecked", doc, ptr)
               default   == <<"string", <<"b">>>>
           IN  /\ (checked.error = "none") = (const.error = "none")
               /\ checked.error = "none" =>
                      /\ const.path = checked.path
                      /\ unchecked = [doc |-> doc, path |-> checked.path, error |-> "none"]
               /\ is_object(doc) /\ value(doc, ptr, default).error = "none" =>
                      value(doc, ptr, default).value =
                          IF checked.error = "none" THEN ValueAt(doc, checked.path) ELSE default
    /\ \A path \in Places(doc) :
           Resolve("checked", doc, PointerTo(doc, path)).path = path

\* Whether one path goes through the other.
Through(path, other) == IsPrefix(path, other) \/ IsPrefix(other, path)

\* An assignment through a pointer changes no other value: every primitive
\* value that was there, except nulls, which an access may turn into
\* containers, is still there with the same pointer, unless the assignment
\* succeeded and its target is on the way.  A refused access destroys none.
OthersKept ==
    [][\A path \in Places(doc) :
           LET piece == ValueAt(doc, path)
               ptr  == PointerTo(doc, path)
           IN  is_primitive(piece) /\ ~is_null(piece)
               /\ (accessError' = "none" =>
                      ~Through(path, Resolve("unchecked", doc, target').path)) =>
                   /\ path \in Places(doc')
                   /\ ValueAt(doc', path) = piece
                   /\ PointerTo(doc', path) = ptr]_accessVars

\* A document with no empty container and no key "0" is restored by
\* unflatten from what flatten made of it.
FlattenRestores ==
    ~EmptyParts /\ ~ZeroKeys => unflatten(flatten(doc)) = [doc |-> doc, error |-> "none"]

==============================================================================
