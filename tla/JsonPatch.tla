------------------------------ MODULE JsonPatch ------------------------------
(***************************************************************************)
(* JSON Patch (RFC 6902), diff and JSON Merge Patch (RFC 7396) of          *)
(* nlohmann::basic_json (json.hpp).                                        *)
(*                                                                         *)
(* A member of a patch is <<"object", members>>, with members a function   *)
(* from some of "op", "path", "from" and "value" to values; a path is a    *)
(* string whose text is a pointer, an operation's name a text of one       *)
(* symbol.  The name "other" stands for every text that is no operation.   *)
(***************************************************************************)
EXTENDS JsonPointer

CONSTANTS
    PatchDocuments,   \* the values patches are applied to, and the targets of diff
    Patches,          \* the members of patches
    Merges,           \* the values merged
    MaxMembers        \* bound: the number of members a patch has

VARIABLES
    result,       \* patch(): the working copy
    patchError,   \* the exception that ended it
    patchSteps

patchVars == <<result, patchError, patchSteps>>

Done(doc) == [doc |-> doc, error |-> "none"]

Failed(doc, e) == [doc |-> doc, error |-> e]

(***************************************************************************)
(* The operations of patch().                                              *)
(***************************************************************************)

\* What operation_add does once it has the parent.
InsertInto(parent, index, v) ==
    IF index.error # "none" THEN Failed(parent, index.error)
    ELSE IF index.value < 0 \/ index.value > size(parent) THEN Failed(parent, "out_of_range.401")
    ELSE Done(insert(parent, index.value, v).doc)

AddTo(parent, last, v) ==
    CASE is_null(parent) \/ is_object(parent) -> Done(SetElement(subscript_key(parent, last).doc, last, v))
      [] is_array(parent) -> IF last = <<"-">> THEN Done(push_back(parent, v).doc)
                             ELSE InsertInto(parent, array_index(last), v)
      [] OTHER -> Failed(parent, "assertion")

\* The document doc with a changed element at a path, or the exception.
Stored(doc, path, changed) ==
    IF changed.error # "none" THEN Failed(doc, changed.error) ELSE Done(Assign(doc, path, changed.doc))

AddBelow(parent, last, v) ==
    IF parent.error # "none" THEN Failed(parent.doc, parent.error)
    ELSE Stored(parent.doc, parent.path, AddTo(ValueAt(parent.doc, parent.path), last, v))

AddUnder(doc, top, ptr, v) ==
    IF top.error # "none" THEN Failed(doc, top.error)
    ELSE AddBelow(Resolve("unchecked", doc, Front(ptr)), Last(ptr), v)

\* ptr.top() is looked up first, unless it is all of ptr.
operation_add(doc, ptr, v) ==
    IF ptr = <<>> THEN Done(v)
    ELSE AddUnder(doc, Resolve("checked", doc, IF Len(ptr) > 1 THEN <<Head(ptr)>> ELSE <<>>), ptr, v)

\* A parent that is neither an object nor an array is left as it is.
EraseFrom(parent, index) ==
    IF index.error # "none" THEN Failed(parent, index.error)
    ELSE Failed(erase_index(parent, index.value).doc, erase_index(parent, index.value).error)

RemoveFrom(parent, last) ==
    CASE is_object(parent) ->
             IF last \in Keys(parent) THEN Done(erase_key(parent, last).doc)
                                      ELSE Failed(parent, "out_of_range.403")
      [] is_array(parent) -> EraseFrom(parent, array_index(last))
      [] OTHER -> Done(parent)

RemoveBelow(doc, parent, last) ==
    IF parent.error # "none" THEN Failed(doc, parent.error)
    ELSE Stored(doc, parent.path, RemoveFrom(ValueAt(doc, parent.path), last))

operation_remove(doc, ptr) ==
    IF ptr = <<>> THEN Failed(doc, "out_of_range.405")
    ELSE RemoveBelow(doc, Resolve("checked", doc, Front(ptr)), Last(ptr))

ReplaceHere(doc, here, v) ==
    IF here.error = "none" THEN Done(Assign(doc, here.path, v)) ELSE Failed(doc, here.error)
replace(doc, ptr, v) == ReplaceHere(doc, Resolve("checked", doc, ptr), v)

CopyFrom(doc, here, ptr) ==
    IF here.error # "none" THEN Failed(doc, here.error)
    ELSE operation_add(doc, ptr, ValueAt(doc, here.path))
copy(doc, from, ptr) == CopyFrom(doc, Resolve("checked", doc, from), ptr)

AddBack(less, ptr, v) == IF less.error # "none" THEN less ELSE operation_add(less.doc, ptr, v)
MoveFrom(doc, here, from, ptr) ==
    IF here.error # "none" THEN Failed(doc, here.error)
    ELSE AddBack(operation_remove(doc, from), ptr, ValueAt(doc, here.path))
move(doc, from, ptr) == MoveFrom(doc, Resolve("checked", doc, from), from, ptr)

\* test catches the library's out_of_range, and no other exception.
TestAt(doc, here, v) ==
    IF here.error = "none" /\ Equal(ValueAt(doc, here.path), v) THEN Done(doc)
    ELSE IF here.error \in {"parse_error.106", "parse_error.109"} THEN Failed(doc, here.error)
    ELSE Failed(doc, "other_error.501")
test(doc, ptr, v) == TestAt(doc, Resolve("checked", doc, ptr), v)

(***************************************************************************)
(* One member of a patch.                                                  *)
(***************************************************************************)

\* get_value's checks of the members an operation needs.
Missing(val, strings, others) ==
    \/ \E m \in strings : m \notin Keys(val) \/ ~is_string(val[2][m])
    \/ \E m \in others : m \notin Keys(val)

PtrOf(val, m) == split(val[2][m][2])
OpOf(val) == val[2]["op"][2]
TokensOf(val, m) == PtrOf(val, m).tokens
ValueOf(val) == val[2]["value"]

\* What an operation needs beyond its name and its path.
Incomplete(val) ==
    IF \/ OpOf(val) = <<"other">>
       \/ OpOf(val) \in {<<"add">>, <<"replace">>, <<"test">>} /\ Missing(val, {}, {"value"})
       \/ OpOf(val) \in {<<"move">>, <<"copy">>} /\ Missing(val, {"from"}, {})
    THEN "parse_error.105"
    ELSE IF OpOf(val) \in {<<"move">>, <<"copy">>} THEN PtrOf(val, "from").error
    ELSE "none"

Malformed(val) ==
    IF ~is_object(val) THEN "parse_error.104"
    ELSE IF Missing(val, {"op", "path"}, {}) THEN "parse_error.105"
    ELSE IF PtrOf(val, "path").error # "none" THEN PtrOf(val, "path").error
    ELSE Incomplete(val)

\* The order in which replace and test look for the place and ask for the
\* value is the compiler's; the model asks for the value first.
Perform(doc, op, ptr, from, v) ==
    CASE op = <<"add">>     -> operation_add(doc, ptr, v)
      [] op = <<"remove">>  -> operation_remove(doc, ptr)
      [] op = <<"replace">> -> replace(doc, ptr, v)
      [] op = <<"move">>    -> move(doc, from, ptr)
      [] op = <<"copy">>    -> copy(doc, from, ptr)
      [] op = <<"test">>    -> test(doc, ptr, v)

Member(doc, val) ==
    IF Malformed(val) # "none" THEN Failed(doc, Malformed(val))
    ELSE Perform(doc, OpOf(val), TokensOf(val, "path"), TokensOf(val, "from"), ValueOf(val))

RECURSIVE patch(_, _)

\* patch() as a function, for the patches diff makes.
PatchRest(first, members) == IF first.error # "none" THEN first ELSE patch(first.doc, members)
patch(doc, members) ==
    IF members = <<>> THEN Done(doc) ELSE PatchRest(Member(doc, Head(members)), Tail(members))

(***************************************************************************)
(* diff and merge_patch.                                                   *)
(***************************************************************************)

OpAdd(path, v) ==
    <<"object", [op |-> <<"string", <<"add">>>>, path |-> <<"string", path>>, value |-> v]>>

OpReplace(path, v) ==
    <<"object", [op |-> <<"string", <<"replace">>>>, path |-> <<"string", path>>, value |-> v]>>

OpRemove(path) == <<"object", [op |-> <<"string", <<"remove">>>>, path |-> <<"string", path>>]>>

IndexPath(path, i) == path \o <<"/">> \o Decimal(i)

KeyPath(path, key) == path \o <<"/">> \o escape(key)

\* Slip: the rest of a longer source is removed from the front.
RemoveUpwards(path, from, to) == [n \in 1 .. to - from |-> OpRemove(IndexPath(path, from + n - 1))]

\* The elements from .. to - 1 of a longer source, the last one first.
RemoveRest(path, from, to) == [n \in 1 .. to - from |-> OpRemove(IndexPath(path, to - n))]

RECURSIVE diff(_, _, _)

diff(source, target, path) ==
    IF Equal(source, target) THEN <<>>
    ELSE IF type(source) # type(target) \/ is_primitive(source) THEN <<OpReplace(path, target)>>
    ELSE IF is_array(source)
    THEN LET n      == Len(source[2])
             m      == Len(target[2])
             common == IF n < m THEN n ELSE m
             Both(done, i) == done \o diff(source[2][i], target[2][i], IndexPath(path, i - 1))
         IN  FoldLeft(Both, <<>>, [i \in 1 .. common |-> i])
             \o (IF n > common THEN RemoveRest(path, common, n) ELSE <<>>)
             \o (IF m > common THEN [i \in 1 .. m - common |->
                                        OpAdd(IndexPath(path, common + i - 1), target[2][common + i])]
                               ELSE <<>>)
    ELSE LET First(done, key) ==
                 done \o (IF key \in Keys(target) THEN diff(source[2][key], target[2][key], KeyPath(path, key))
                                                  ELSE <<OpRemove(KeyPath(path, key))>>)
             Second(done, key) == Append(done, OpAdd(KeyPath(path, key), target[2][key]))
         IN  FoldLeft(Second, FoldLeft(First, <<>>, InOrder(Keys(source))),
                      InOrder(Keys(target) \ Keys(source)))

RECURSIVE merge_patch(_, _)

\* One member of a merge patch whose value is null.
MergeMember(doc, key, v) == erase_key(doc, key).doc

merge_patch(doc, p) ==
    IF ~is_object(p) THEN p
    ELSE FoldLeft(LAMBDA d, key :
                      IF is_null(p[2][key]) THEN MergeMember(d, key, p[2][key])
                      ELSE LET here == subscript_key(d, key)
                           IN  SetElement(here.doc, key, merge_patch(Element(here.doc, key), p[2][key])),
                  IF is_object(doc) THEN doc ELSE EmptyObject, InOrder(Keys(p)))

(***************************************************************************)
(* The application of a patch, member by member.                           *)
(***************************************************************************)

\* patch() is called on a document, or not at all.
PatchInit(documents, called) ==
    /\ result \in documents
    /\ patchError = IF called THEN "none" ELSE "not called"
    /\ patchSteps = 0

\* The well-formed members, and those with an operation.
WellFormedMembers == {val \in Patches : Malformed(val) = "none"}

Of(op) == {val \in WellFormedMembers : OpOf(val) = op}

Going == patchError = "none" /\ patchSteps < MaxMembers

Apply(done) == patchSteps' = patchSteps + 1 /\ result' = done.doc /\ patchError' = done.error

AddMember ==
    Going /\ \E val \in Of(<<"add">>) : Apply(operation_add(result, TokensOf(val, "path"), ValueOf(val)))

RemoveMember ==
    Going /\ \E val \in Of(<<"remove">>) : Apply(operation_remove(result, TokensOf(val, "path")))

ReplaceMember ==
    Going /\ \E val \in Of(<<"replace">>) : Apply(replace(result, TokensOf(val, "path"), ValueOf(val)))

MoveMember ==
    Going /\ \E val \in Of(<<"move">>) :
        Apply(move(result, TokensOf(val, "from"), TokensOf(val, "path")))

CopyMember ==
    Going /\ \E val \in Of(<<"copy">>) :
        Apply(copy(result, TokensOf(val, "from"), TokensOf(val, "path")))

TestMember ==
    Going /\ \E val \in Of(<<"test">>) : Apply(test(result, TokensOf(val, "path"), ValueOf(val)))

Refuse ==
    Going /\ \E val \in Patches \ WellFormedMembers : Apply(Failed(result, Malformed(val)))

PatchNext == AddMember \/ RemoveMember \/ ReplaceMember \/ MoveMember \/ CopyMember \/ TestMember \/ Refuse

(***************************************************************************)
(* The reference: RFC 6902, section 4, on the places of a document.        *)
(***************************************************************************)

Located(doc, ptr) == Resolve("checked", doc, ptr).error = "none"

Get(doc, ptr) == ValueAt(doc, Resolve("checked", doc, ptr).path)

\* The index of RFC 6901 a token is, or -1.
Canonical(token) ==
    IF token # <<>> /\ (\A i \in DOMAIN token : IsDigit(token[i])) /\ ~LeadingZero(token)
    THEN array_index(token).value ELSE -1

\* The target of an add: the root, a member of an existing object, or a
\* position up to the end of an existing array.
CanAdd(doc, ptr) ==
    \/ ptr = <<>>
    \/ /\ Located(doc, Front(ptr))
       /\ \E parent \in {Get(doc, Front(ptr))} :
          \/ is_object(parent)
          \/ is_array(parent) /\ (Last(ptr) = <<"-">> \/ Canonical(Last(ptr)) \in 0 .. Len(parent[2]))

Grown(parent, last, at, v) ==
    IF is_object(parent) THEN SetElement(parent, last, v)
    ELSE <<"array", [i \in 1 .. Len(parent[2]) + 1 |->
             IF i <= at THEN parent[2][i] ELSE IF i = at + 1 THEN v ELSE parent[2][i - 1]] \o <<>>>>

GrownAt(doc, path, last, v) ==
    Assign(doc, path,
           Grown(ValueAt(doc, path), last,
                 IF last = <<"-">> THEN Len(ValueAt(doc, path)[2]) ELSE Canonical(last), v))

RfcAdd(doc, ptr, v) ==
    IF ptr = <<>> THEN v ELSE GrownAt(doc, Resolve("checked", doc, Front(ptr)).path, Last(ptr), v)

Shrunk(parent, last, at) ==
    IF is_object(parent) THEN <<"object", [k \in Keys(parent) \ {last} |-> parent[2][k]]>>
    ELSE <<"array", [i \in 1 .. Len(parent[2]) - 1 |->
             IF i <= at THEN parent[2][i] ELSE parent[2][i + 1]] \o <<>>>>

ShrunkAt(doc, path, last) == Assign(doc, path, Shrunk(ValueAt(doc, path), last, Canonical(last)))

RfcRemove(doc, ptr) == ShrunkAt(doc, Resolve("checked", doc, Front(ptr)).path, Last(ptr))

RfcMove(less, ptr, v) == IF CanAdd(less, ptr) THEN RfcAdd(less, ptr, v) ELSE <<"refused">>

\* The document the RFC prescribes, or <<"refused">>.
RfcPerform(doc, op, ptr, from, v) ==
    CASE op = <<"add">> /\ CanAdd(doc, ptr) -> RfcAdd(doc, ptr, v)
      [] op = <<"remove">> /\ ptr # <<>> /\ Located(doc, ptr) -> RfcRemove(doc, ptr)
      [] op = <<"replace">> /\ Located(doc, ptr) -> Assign(doc, Resolve("checked", doc, ptr).path, v)
      [] op = <<"copy">> /\ Located(doc, from) /\ CanAdd(doc, ptr) -> RfcAdd(doc, ptr, Get(doc, from))
      [] op = <<"move">> /\ from # <<>> /\ Located(doc, from) /\ ~IsStrictPrefix(from, ptr) ->
             RfcMove(RfcRemove(doc, from), ptr, Get(doc, from))
      [] op = <<"test">> /\ Located(doc, ptr) /\ Equal(Get(doc, ptr), v) -> doc
      [] OTHER -> <<"refused">>

Rfc(doc, val) == RfcPerform(doc, OpOf(val), TokensOf(val, "path"), TokensOf(val, "from"), ValueOf(val))

RECURSIVE RfcMerge(_, _)

\* RFC 7396, section 2, as the members of the result.
RfcMerge(doc, p) ==
    IF ~is_object(p) THEN p
    ELSE LET old  == IF is_object(doc) THEN doc[2] ELSE <<>>
             gone == {k \in Keys(p) : is_null(p[2][k])}
         IN  <<"object", [k \in (DOMAIN old \cup Keys(p)) \ gone |->
                  IF k \notin Keys(p) THEN old[k]
                  ELSE RfcMerge(IF k \in DOMAIN old THEN old[k] ELSE Null, p[2][k])]>>

(***************************************************************************)
(* Properties                                                              *)
(***************************************************************************)

\* Every operation that RFC 6902 defines on the document patch() has reached
\* is carried out as it prescribes: with escaped paths, moves inside one
\* array whose indices shift, copies into themselves, and the root.
AppliesRfc ==
    patchError = "none" => \A val \in WellFormedMembers :
        \A prescribed \in {Rfc(result, val)} \ {<<"refused">>} : Member(result, val) = Done(prescribed)

\* diff's invariant, source.patch(diff(source, target)) == target, for every
\* document a patch can reach as the source, under operator==.
DiffReaches ==
    patchError = "none" => \A target \in PatchDocuments :
        \A patched \in {patch(result, diff(result, target, <<>>))} :
            patched.error = "none" /\ Equal(patched.doc, target)

\* merge_patch computes the algorithm of RFC 7396 in place, and a second
\* application of the same patch changes nothing.
MergeMeetsRfc ==
    patchError = "none" => \A p \in Merges :
        LET merged == merge_patch(result, p)
        IN  merged = RfcMerge(result, p) /\ merge_patch(merged, p) = merged

==============================================================================
