---------------------------- MODULE JsonIterator -----------------------------
(***************************************************************************)
(* Values of nlohmann::basic_json, the operations that change their        *)
(* elements, and the iterators into them (json.hpp: iter_impl,             *)
(* primitive_iterator_t, and erase, insert, update, push_back, emplace,    *)
(* clear and swap of basic_json).                                          *)
(*                                                                         *)
(* An element is its identity (an address): what it holds is left out.  A  *)
(* value is <<"null">>, <<"primitive", element>>, <<"array", sequence of   *)
(* elements>> or <<"object", function from keys to elements>>; keys are    *)
(* numbers.  An iterator has m_object, and the position in the one of its  *)
(* three internal iterators that m_object's type had it use: an index, a   *)
(* key (EndKey at the end), or the number of a primitive_iterator_t.       *)
(*                                                                         *)
(* "within" and "live" follow the standard library: the value in whose     *)
(* storage the internal iterator is, and whether it is still valid there;  *)
(* elem is the element it was made for.  A program may use an iterator     *)
(* only while it is live and its type is still m_object's: anything else   *)
(* is undefined behaviour, and is not taken.                               *)
(***************************************************************************)
EXTENDS Integers, SequencesExt

CONSTANTS
    Names,        \* the values
    Slots,        \* the program's iterator variables
    MaxKey,       \* keys are 1 .. MaxKey
    MaxElement,   \* the number of elements ever made
    Start         \* the values at the start

VARIABLES
    val,          \* the values
    it,           \* the iterators
    next          \* the next new element

iteratorVars == <<val, it, next>>

EndKey == MaxKey + 1

None == 0         \* elem of an iterator at the end

KindOf(v) == IF v[1] \in {"array", "object"} THEN v[1] ELSE "primitive"

\* A value of distinct elements, out of E.
HoldsElements(v, E) ==
    \/ v = <<"null">>
    \/ v = <<"primitive", v[2]>> /\ v[2] \in E
    \/ v = <<"array", v[2]>> /\ v[2] \in Seq(E) /\ IsInjective(v[2])
    \/ /\ v = <<"object", v[2]>> /\ DOMAIN v[2] \subseteq 1 .. MaxKey
       /\ (\A k \in DOMAIN v[2] : v[2][k] \in E) /\ IsInjective(v[2])

ASSUME IteratorAssumption ==
    /\ Names # {} /\ MaxKey \in Nat
    /\ \A start \in Start :
          DOMAIN start = Names /\ \A n \in Names : HoldsElements(start[n], 1 .. 3)

(***************************************************************************)
(* Reference: the elements of a value, in the order of iteration.          *)
(***************************************************************************)

\* The key of K that i - 1 others come before.
KeyAt(K, i) == CHOOSE k \in K : Cardinality({j \in K : j < k}) = i - 1

ElementsOf(v) ==
    CASE v[1] = "array"     -> v[2]
      [] v[1] = "primitive" -> <<v[2]>>
      [] v[1] = "null"      -> <<>>
      [] v[1] = "object"    -> [i \in 1 .. Cardinality(DOMAIN v[2]) |-> v[2][KeyAt(DOMAIN v[2], i)]]

\* The element after e (the first one for None), and before it (the last).
After(v, e) ==
    LET s == ElementsOf(v)
        i == IF e = None THEN 0 ELSE CHOOSE p \in DOMAIN s : s[p] = e
    IN  IF i = Len(s) THEN None ELSE s[i + 1]

Before(v, e) ==
    LET s == ElementsOf(v)
        i == IF e = None THEN Len(s) + 1 ELSE CHOOSE p \in DOMAIN s : s[p] = e
    IN  IF i = 1 THEN None ELSE s[i - 1]

(***************************************************************************)
(* iter_impl                                                               *)
(***************************************************************************)

\* The least of some keys, EndKey of none (std::map's order).
LeastKey(S) == CHOOSE k \in S \cup {EndKey} : \A other \in S : k <= other

GreatestKey(S) == CHOOSE k \in S : \A other \in S : other <= k

\* set_begin: null is empty, so its begin is its end.
BeginOf(v) == CASE v[1] = "object" -> LeastKey(DOMAIN v[2])
                [] v[1] = "array" -> 0
                [] v[1] = "null" -> 1
                [] OTHER -> 0

\* set_end.
EndOf(v) == CASE v[1] = "object" -> EndKey
              [] v[1] = "array" -> Len(v[2])
              [] OTHER -> 1

\* operator*.
Deref(v, at) ==
    CASE v[1] = "object" -> v[2][at]
      [] v[1] = "array" -> v[2][at + 1]
      [] v[1] = "primitive" /\ at = 0 -> v[2]
      [] OTHER -> None   \* invalid_iterator.214

\* operator++ and operator--.
Incremented(v, at) == IF v[1] = "object" THEN LeastKey({k \in DOMAIN v[2] : k > at}) ELSE at + 1

Decremented(v, at) == IF v[1] = "object" THEN GreatestKey({k \in DOMAIN v[2] : k < at}) ELSE at - 1

Iterator(n, v, at, e) ==
    [object |-> n, within |-> n, kind |-> KindOf(v), at |-> at, live |-> TRUE, elem |-> e]

\* A program may use the iterator: it is valid, in the storage of the value
\* that m_object names, and its internal iterator is the one of its type.
Usable(i) == i.live /\ i.object = i.within /\ i.kind = KindOf(val[i.object])

\* An iterator that is no longer valid, or was never set.
Dead == [object |-> CHOOSE n \in Names : TRUE, within |-> CHOOSE n \in Names : TRUE,
         kind |-> "primitive", at |-> 0, live |-> FALSE, elem |-> None]

\* Those within n that the condition names are no longer valid.
Invalidate(n, Gone(_)) ==
    [s \in Slots |-> IF it[s].within = n /\ Gone(it[s]) THEN Dead ELSE it[s]]

Always(i) == TRUE

Fresh == next <= MaxElement

\* An exception, by its name, before anything was changed.
Fails(e) == e \in STRING /\ UNCHANGED iteratorVars

(***************************************************************************)
(* Moving the iterators.                                                   *)
(***************************************************************************)

Begin(s, n) ==
    /\ it' = [it EXCEPT ![s] = Iterator(n, val[n], BeginOf(val[n]), After(val[n], None))]
    /\ UNCHANGED <<val, next>>

End(s, n) ==
    /\ it' = [it EXCEPT ![s] = Iterator(n, val[n], EndOf(val[n]), None)]
    /\ UNCHANGED <<val, next>>

Increment(s) ==
    LET v == val[it[s].object] IN
    /\ Usable(it[s]) /\ it[s].elem # None
    /\ it' = [it EXCEPT ![s].at = Incremented(v, @), ![s].elem = After(v, @)]
    /\ UNCHANGED <<val, next>>

Decrement(s) ==
    LET v == val[it[s].object] IN
    /\ Usable(it[s]) /\ Before(v, it[s].elem) # None
    /\ it' = [it EXCEPT ![s].at = Decremented(v, @), ![s].elem = Before(v, @)]
    /\ UNCHANGED <<val, next>>

\* operator+=(2): not for the iterators of objects.
Advance(s) ==
    LET v == val[it[s].object] IN
    /\ Usable(it[s])
    /\ IF v[1] = "object" THEN Fails("invalid_iterator.209")
       ELSE /\ it[s].elem # None /\ After(v, it[s].elem) # None
            /\ it' = [it EXCEPT ![s].at = @ + 2, ![s].elem = After(v, After(v, @))]
            /\ UNCHANGED <<val, next>>

(***************************************************************************)
(* erase                                                                   *)
(***************************************************************************)

\* What follows an erased range in an array moves: std::vector invalidates
\* the iterators from the first erased element on; std::map those of the
\* erased elements alone.
EraseElements(n, s, keep, at, e, Gone(_)) ==
    /\ val' = [val EXCEPT ![n] = keep]
    /\ it' = [Invalidate(n, Gone) EXCEPT ![s] = Iterator(n, keep, at, e)]
    /\ UNCHANGED next

\* erase(pos); the result is stored in the same variable.
Erase(n, s) ==
    LET v == val[n]
        i == it[s]
    IN  /\ Usable(i)
        /\ IF i.object # n THEN Fails("invalid_iterator.202")
           ELSE CASE v[1] = "null" -> Fails("type_error.307")
                  [] v[1] = "primitive" ->
                         IF i.at # 0 THEN Fails("invalid_iterator.205")
                         ELSE EraseElements(n, s, <<"null">>, 1, None, LAMBDA j : j.at = 0)
                  [] v[1] = "object" ->
                         /\ i.elem # None
                         /\ EraseElements(n, s, <<"object", [k \in DOMAIN v[2] \ {i.at} |-> v[2][k]]>>,
                                          Incremented(v, i.at), After(v, i.elem), LAMBDA j : j.at = i.at)
                  [] v[1] = "array" ->
                         /\ i.elem # None
                         /\ EraseElements(n, s, <<"array", RemoveAt(v[2], i.at + 1)>>,
                                          i.at, After(v, i.elem), LAMBDA j : j.at >= i.at)

\* erase(first, last).
EraseRange(n, s, t) ==
    LET v == val[n]
        i == it[s]
        j == it[t]
    IN  /\ Usable(i) /\ Usable(j)
        /\ IF i.object # n \/ j.object # n THEN Fails("invalid_iterator.203")
           ELSE CASE v[1] = "null" -> Fails("type_error.307")
                  [] v[1] = "primitive" ->
                         IF i.at # 0 \/ j.at # 1 THEN Fails("invalid_iterator.204")
                         ELSE EraseElements(n, s, <<"null">>, 1, None, LAMBDA x : x.at = 0)
                  [] v[1] = "object" ->
                         /\ i.at <= j.at
                         /\ EraseElements(n, s, <<"object", [k \in {k \in DOMAIN v[2] : k < i.at \/ k >= j.at} |-> v[2][k]]>>,
                                          j.at, j.elem, LAMBDA x : x.at >= i.at /\ x.at < j.at)
                  [] v[1] = "array" ->
                         /\ i.at <= j.at
                         /\ EraseElements(n, s, <<"array", SubSeq(v[2], 1, i.at) \o SubSeq(v[2], j.at + 1, Len(v[2]))>>,
                                          i.at, j.elem, LAMBDA x : x.at >= i.at)

(***************************************************************************)
(* insert, push_back, emplace                                              *)
(***************************************************************************)

\* Slip: the result refers to the element behind the inserted ones.
InsertAfterAll(n, s, count) ==
    LET v   == val[n]
        i   == it[s]
        new == [x \in 1 .. count |-> next + x - 1]
    IN  /\ next + count - 1 <= MaxElement
        /\ val' = [val EXCEPT ![n] = <<"array", SubSeq(v[2], 1, i.at) \o new \o SubSeq(v[2], i.at + 1, Len(v[2]))>>]
        /\ it' = [Invalidate(n, Always) EXCEPT ![s] =
                     Iterator(n, v, i.at + count, IF count = 0 THEN i.elem ELSE next)]
        /\ next' = next + count

\* std::vector::insert of some new elements: all its iterators may become
\* invalid; the result refers to the first new one, or to pos for none.
InsertElements(n, s, count) ==
    LET v   == val[n]
        i   == it[s]
        new == [x \in 1 .. count |-> next + x - 1]
    IN  /\ next + count - 1 <= MaxElement
        /\ val' = [val EXCEPT ![n] = <<"array", SubSeq(v[2], 1, i.at) \o new \o SubSeq(v[2], i.at + 1, Len(v[2]))>>]
        /\ it' = [Invalidate(n, Always) EXCEPT ![s] =
                     Iterator(n, v, i.at, IF count = 0 THEN i.elem ELSE next)]
        /\ next' = next + count

\* insert(pos, val), insert(pos, cnt, val) and insert(pos, ilist).
Insert(n, s, count) ==
    /\ Usable(it[s])
    /\ IF val[n][1] # "array" THEN Fails("type_error.309")
       ELSE IF it[s].object # n THEN Fails("invalid_iterator.202")
       ELSE InsertElements(n, s, count)

\* insert(pos, first, last), with first and last the iterators s and t and
\* pos the begin of n: the range is of another value, whose type the code
\* does not look at; a program passes the iterators of an array.
InsertRange(n, s, t) ==
    /\ Usable(it[s]) /\ Usable(it[t])
    /\ IF val[n][1] # "array" THEN Fails("type_error.309")
       ELSE IF it[s].object # it[t].object THEN Fails("invalid_iterator.210")
       ELSE IF it[s].object = n THEN Fails("invalid_iterator.211")
       ELSE /\ it[s].kind = "array" /\ it[s].at <= it[t].at
            /\ LET count == it[t].at - it[s].at
                   new   == [x \in 1 .. count |-> next + x - 1]
               IN  /\ next + count - 1 <= MaxElement
                   /\ val' = [val EXCEPT ![n] = <<"array", new \o val[n][2]>>]
                   /\ it' = Invalidate(n, Always)
                   /\ next' = next + count

\* The object n after the members of another: where a key is there already,
\* insert keeps its value and operator[] assigns to it, and either way the
\* element is the old one.
Merged(v, new) ==
    <<"object", [k \in DOMAIN v[2] \cup new |->
        IF k \in DOMAIN v[2] THEN v[2][k] ELSE next + Cardinality({x \in new \ DOMAIN v[2] : x < k})]>>

MergeInto(n, v, new) ==
    LET made == Cardinality(new \ DOMAIN v[2]) IN
    /\ next + made - 1 <= MaxElement
    /\ val' = [val EXCEPT ![n] = Merged(v, new)]
    /\ it' = IF val[n][1] = "null" THEN Invalidate(n, Always) ELSE it
    /\ next' = next + made

Between(i, j) == {k \in DOMAIN val[i.object][2] : k >= i.at /\ k < j.at}

\* insert(first, last), of members.
InsertMembers(n, s, t) ==
    /\ Usable(it[s]) /\ Usable(it[t])
    /\ IF val[n][1] # "object" THEN Fails("type_error.309")
       ELSE IF it[s].object # it[t].object THEN Fails("invalid_iterator.210")
       ELSE IF val[it[s].object][1] # "object" THEN Fails("invalid_iterator.202")
       ELSE it[s].at <= it[t].at /\ MergeInto(n, val[n], Between(it[s], it[t]))

Emptied(v) == IF v[1] = "null" THEN <<"object", <<>>>> ELSE v

\* update's failures come after null was made an object, which stays.
FailsEmptied(n, e) ==
    /\ val' = [val EXCEPT ![n] = Emptied(@)]
    /\ it' = IF val[n][1] = "null" THEN Invalidate(n, Always) ELSE it
    /\ e \in STRING /\ UNCHANGED next

\* update(j).
Update(n, other) ==
    LET v == Emptied(val[n])
        j == IF other = n THEN v ELSE val[other]
    IN  IF v[1] # "object" \/ j[1] # "object" THEN FailsEmptied(n, "type_error.312")
        ELSE MergeInto(n, v, DOMAIN j[2])

\* update(first, last).
UpdateRange(n, s, t) ==
    LET v == Emptied(val[n]) IN
    /\ Usable(it[s]) /\ Usable(it[t])
    /\ val[n][1] = "null" => it[s].object # n /\ it[t].object # n
    /\ IF v[1] # "object" THEN FailsEmptied(n, "type_error.312")
       ELSE IF it[s].object # it[t].object THEN FailsEmptied(n, "invalid_iterator.210")
       ELSE IF val[it[s].object][1] # "object" THEN FailsEmptied(n, "invalid_iterator.202")
       ELSE it[s].at <= it[t].at /\ MergeInto(n, v, Between(it[s], it[t]))

\* push_back(val), operator+= and emplace_back, whose exception is type_error.311.
PushBack(n) ==
    LET old == IF val[n][1] = "null" THEN <<>> ELSE val[n][2] IN
    /\ Fresh
    /\ IF val[n][1] \notin {"null", "array"} THEN Fails("type_error.308")
       ELSE /\ val' = [val EXCEPT ![n] = <<"array", Append(old, next)>>]
            /\ it' = Invalidate(n, Always)
            /\ next' = next + 1

\* push_back(pair).
PushMember(n, key) ==
    IF val[n][1] \notin {"null", "object"} THEN Fails("type_error.308")
    ELSE MergeInto(n, Emptied(val[n]), {key})

\* emplace: as push_back of a pair, with an iterator to the member.
Emplace(n, s, key) ==
    LET v    == Emptied(val[n])
        made == Merged(v, {key})
    IN  IF v[1] # "object" THEN Fails("type_error.311")
        ELSE /\ key \in DOMAIN v[2] \/ Fresh
             /\ val' = [val EXCEPT ![n] = made]
             /\ it' = [(IF val[n][1] = "null" THEN Invalidate(n, Always) ELSE it)
                          EXCEPT ![s] = Iterator(n, made, key, made[2][key])]
             /\ next' = IF key \in DOMAIN v[2] THEN next ELSE next + 1

\* A primitive value is reset, and stays.
Clear(n) ==
    /\ val' = [val EXCEPT ![n] = IF @[1] \in {"array", "object"} THEN <<@[1], <<>>>> ELSE @]
    /\ it' = Invalidate(n, LAMBDA i : i.kind = "array" \/ (i.kind = "object" /\ i.elem # None))
    /\ UNCHANGED next

\* The contents change places; the iterators stay with the contents, and
\* m_object with the values.  An iterator past the end is invalidated.
Swap(n, other) ==
    /\ n # other
    /\ val' = [val EXCEPT ![n] = val[other], ![other] = val[n]]
    /\ it' = [s \in Slots |->
                IF it[s].within \notin {n, other} THEN it[s]
                ELSE IF it[s].elem = None THEN Dead
                ELSE [it[s] EXCEPT !.within = IF @ = n THEN other ELSE n]]
    /\ UNCHANGED next

IteratorInit(values) ==
    /\ val \in values
    /\ it = [s \in Slots |-> Dead]
    /\ next = 4

IteratorNext ==
    \E n, other \in Names, s, t \in Slots :
        \/ Begin(s, n) \/ End(s, n) \/ Increment(s) \/ Decrement(s) \/ Advance(s)
        \/ Erase(n, s) \/ EraseRange(n, s, t)
        \/ \E count \in 0 .. 2 : Insert(n, s, count)
        \/ InsertRange(n, s, t) \/ InsertMembers(n, s, t)
        \/ Update(n, other) \/ UpdateRange(n, s, t)
        \/ PushBack(n)
        \/ \E key \in 1 .. MaxKey : PushMember(n, key) \/ Emplace(n, s, key)
        \/ Clear(n) \/ Swap(n, other)

IteratorSpec == IteratorInit(Start) /\ [][IteratorNext]_iteratorVars

(***************************************************************************)
(* Properties                                                              *)
(***************************************************************************)

\* An iterator that may be used is at the element it was made for, through
\* every erase, insert, update and swap since: the result of erase at the
\* element that followed, that of insert at the first new one, and one made
\* earlier still at its own; one without an element is at the end.
RefersToElement ==
    \A s \in Slots : Usable(it[s]) =>
        LET v == val[it[s].object] IN
        IF it[s].elem = None THEN it[s].at = EndOf(v)
        ELSE it[s].at # EndOf(v) /\ Deref(v, it[s].at) = it[s].elem

\* Where an iterator from begin() is after some increments, and one from
\* end() after some decrements.
Forward(v) ==
    LET at[i \in 0 .. Len(ElementsOf(v))] ==
            IF i = 0 THEN BeginOf(v) ELSE Incremented(v, at[i - 1])
    IN  at

Backward(v) ==
    LET at[i \in 0 .. Len(ElementsOf(v))] ==
            IF i = 0 THEN EndOf(v) ELSE Decremented(v, at[i - 1])
    IN  at

\* A loop from begin() to end() over the value, of whatever type, meets its
\* elements once each and in order; one from rbegin() to rend() meets them
\* the other way; null has none.
Traverses(v, s, to, fro) ==
    /\ to[Len(s)] = EndOf(v) /\ fro[Len(s)] = BeginOf(v)
    /\ \A i \in 1 .. Len(s) :
          /\ to[i - 1] # EndOf(v) /\ Deref(v, to[i - 1]) = s[i]
          /\ fro[i - 1] # BeginOf(v) /\ Deref(v, fro[i]) = s[Len(s) + 1 - i]

TraversalComplete ==
    \A n \in Names :
        Traverses(val[n], ElementsOf(val[n]), Forward(val[n]), Backward(val[n]))

\* An iterator that the standard library leaves valid refers to the element
\* it was made for, whatever was erased, inserted or swapped meanwhile, and
\* a loop from begin to end, either way, meets every element once.
IteratorsSound == RefersToElement /\ TraversalComplete

==============================================================================
