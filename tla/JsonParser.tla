----------------------------- MODULE JsonParser -----------------------------
(***************************************************************************)
(* parser::parse and parser::accept of bryllite-common/nlohmann/json.hpp.  *)
(* The recursion of parse_internal is a stack of frames; one action reads  *)
(* one token and does everything the code does before it reads the next,   *)
(* calls of the user's callback included.  The acceptor, a second          *)
(* recursive function over the same grammar, reads the same tokens.        *)
(*                                                                         *)
(* The callback is a policy: a set of things it answers "false" to.        *)
(***************************************************************************)
EXTENDS Integers, Sequences, FiniteSets, SequencesExt

CONSTANTS
    Keys,           \* strings that occur in the input
    Policies,       \* sets of what a callback rejects
    MaxTokens       \* bound: tokens read

VARIABLES
    tokens,         \* tokens read so far
    callback,       \* whether there is a callback ...
    rejects,        \* ... and what it rejects
    strict, allow_exceptions,
    stack,          \* one frame per container that is being parsed
    pc,             \* what the next token is wanted for
    depth,
    events,         \* calls of the callback: event, depth, containers open
    result,         \* the value parsed
    accept          \* the acceptor: its stack of containers and its pc

parserVars == <<tokens, callback, rejects, strict, allow_exceptions, stack, pc, depth, events, result, accept>>

Scalars == Keys \cup {"null", "number"}
Tokens == Scalars \cup {"[", "]", "{", "}", ":", ",", "infinite", "error", "eof"}

Discarded == <<"discarded">>
Scalar(t) == <<"scalar", t>>
Array(s) == <<"array", s>>
Object(f) == <<"object", f>>
Empty(kind) == IF kind = "array" THEN Array(<<>>) ELSE Object([k \in {} |-> <<>>])

\* What a policy names: an event, for a key the key, for a value its kind or,
\* if it is a scalar, its text.
Named(event, value) ==
    IF event \in {"key", "value"} THEN <<event, value>> ELSE <<event>>

KindOf(v) == IF v[1] = "scalar" THEN v[2] ELSE v[1]

-----------------------------------------------------------------------------
(* Frames: whether the container is kept, the value built so far, and in   *)
(* an object the current key and whether it is kept.                       *)

Top == [kind |-> "top", keep |-> TRUE, value |-> Discarded, key |-> "", keep_tag |-> TRUE]
Frame(kind, keep) ==
    [kind |-> kind, keep |-> keep, value |-> IF keep THEN Empty(kind) ELSE Discarded,
     key |-> "", keep_tag |-> FALSE]

Call(event, d) == [event |-> event, depth |-> d, open |-> Len(stack) - 1]

\* Slip: a member that was discarded is stored all the same.
StoreDiscarded(frame, v) ==
    CASE frame.kind = "top"    -> [frame EXCEPT !.value = v]
      [] frame.kind = "array"  -> IF ~frame.keep THEN frame
                                  ELSE [frame EXCEPT !.value = Array(Append(@[2], v))]
      [] frame.kind = "object" ->
           IF ~frame.keep \/ v = Discarded \/ frame.key \in DOMAIN frame.value[2] THEN frame
           ELSE [frame EXCEPT !.value = Object((frame.key :> v) @@ @[2])]

\* What a container does with a value: emplace keeps an earlier member.
Store(frame, v) ==
    CASE frame.kind = "top"    -> [frame EXCEPT !.value = v]
      [] frame.kind = "array"  -> IF ~frame.keep \/ v = Discarded THEN frame
                                  ELSE [frame EXCEPT !.value = Array(Append(@[2], v))]
      [] frame.kind = "object" ->
           IF ~(frame.keep /\ frame.keep_tag) \/ v = Discarded \/ frame.key \in DOMAIN frame.value[2]
             THEN frame
             ELSE [frame EXCEPT !.value = Object((frame.key :> v) @@ @[2])]

\* The end of parse_internal: the callback sees the value, which then goes to
\* the frame below.  d and calls are the depth and the calls made before.
Return(below, keep, v, d, calls) ==
    LET asked == keep /\ callback
        kept  == IF asked /\ Named("value", KindOf(v)) \in rejects THEN Discarded ELSE v
    IN  /\ depth' = d
        /\ events' = events \o calls \o
              (IF asked THEN <<[event |-> "value", depth |-> d, open |-> Len(below) - 1]>> ELSE <<>>)
        /\ stack' = [below EXCEPT ![Len(below)] = Store(@, kept)]
        /\ pc' = IF Len(below) = 1 THEN "end" ELSE "next"

\* A closing bracket.  For an empty array, and only for that, the callback
\* is asked whether or not the array is kept.
Close(kind, empty) ==
    LET f     == Last(stack)
        asked == callback /\ (f.keep \/ (kind = "array" /\ empty))
        d     == IF asked THEN depth - 1 ELSE depth
        event == IF kind = "array" THEN "array_end" ELSE "object_end"
        v     == IF asked /\ Named(event, "") \in rejects THEN Discarded ELSE f.value
    IN  Return(SubSeq(stack, 1, Len(stack) - 1), f.keep, v, d,
               IF asked THEN <<[event |-> event, depth |-> d, open |-> Len(stack) - 2]>> ELSE <<>>)

\* An opening bracket: the callback is asked if the container around is kept.
Open(kind) ==
    LET keep  == Last(stack).keep
        asked == keep /\ callback
        event == IF kind = "array" THEN "array_start" ELSE "object_start"
        kept  == keep /\ ~(asked /\ Named(event, "") \in rejects)
    IN  /\ depth' = IF asked THEN depth + 1 ELSE depth
        /\ events' = IF asked THEN Append(events, Call(event, depth)) ELSE events
        /\ stack' = Append(stack, Frame(kind, kept))
        /\ pc' = IF kind = "array" THEN "element" ELSE "member"

\* expect() fails: an exception, or a discarded result.
Fail ==
    /\ pc' = "failed" /\ result' = IF allow_exceptions THEN <<"thrown">> ELSE Discarded
    /\ UNCHANGED <<stack, depth, events>>

\* A value that is not finite: without exceptions the callback still sees it.
FailInfinite ==
    /\ pc' = "failed" /\ result' = IF allow_exceptions THEN <<"thrown">> ELSE Discarded
    /\ events' = IF ~allow_exceptions /\ Last(stack).keep /\ callback
                   THEN Append(events, Call("value", depth)) ELSE events
    /\ UNCHANGED <<stack, depth>>

\* The switch of parse_internal.
Value(t) ==
    CASE t = "["       -> Open("array") /\ UNCHANGED result
      [] t = "{"       -> Open("object") /\ UNCHANGED result
      [] t \in Scalars -> Return(stack, Last(stack).keep, Scalar(t), depth, <<>>) /\ UNCHANGED result
      [] t = "infinite" -> FailInfinite
      [] OTHER         -> Fail

\* A key, and the callback's answer to it.
Key(t) ==
    IF t \notin Keys THEN Fail
    ELSE LET keep  == Last(stack).keep
             asked == keep /\ callback
         IN  /\ stack' = [stack EXCEPT ![Len(stack)].key = t,
                                       ![Len(stack)].keep_tag = keep /\ ~(asked /\ Named("key", t) \in rejects)]
             /\ events' = IF asked THEN Append(events, Call("key", depth)) ELSE events
             /\ pc' = "separator"
             /\ UNCHANGED <<depth, result>>

\* Behind a member or an element.
Following(t) ==
    LET kind == Last(stack).kind
    IN  CASE t = ","  -> pc' = (IF kind = "array" THEN "value" ELSE "key")
                           /\ UNCHANGED <<stack, depth, events, result>>
          [] t = (IF kind = "array" THEN "]" ELSE "}") -> Close(kind, FALSE) /\ UNCHANGED result
          [] OTHER    -> Fail

\* parse(): a strict parser wants the end of the input; a value that was
\* discarded by the callback becomes null.
Finished == IF stack[1].value = Discarded THEN Scalar("null") ELSE stack[1].value

ParseToken(t) ==
    CASE pc = "value"     -> Value(t)
      [] pc = "element"   -> IF t = "]" THEN Close("array", TRUE) /\ UNCHANGED result ELSE Value(t)
      [] pc = "member"    -> IF t = "}" THEN Close("object", TRUE) /\ UNCHANGED result ELSE Key(t)
      [] pc = "key"       -> Key(t)
      [] pc = "separator" -> IF t # ":" THEN Fail
                             ELSE pc' = "value" /\ UNCHANGED <<stack, depth, events, result>>
      [] pc = "next"      -> Following(t)
      [] pc = "end"       -> IF t # "eof" THEN Fail
                             ELSE pc' = "done" /\ result' = Finished /\ UNCHANGED <<stack, depth, events>>

-----------------------------------------------------------------------------
(* accept_internal: the state behind a token.                              *)

Accepting(s, p) == [stack |-> s, pc |-> p]
Rejected == Accepting(<<>>, "failed")
Accepted(s) == Accepting(s, IF s = <<>> THEN "end" ELSE "next")

AcceptValue(s, t) ==
    CASE t = "["       -> Accepting(Append(s, "array"), "element")
      [] t = "{"       -> Accepting(Append(s, "object"), "member")
      [] t \in Scalars -> Accepted(s)
      [] OTHER         -> Rejected

AcceptKey(s, t) == IF t \in Keys THEN Accepting(s, "separator") ELSE Rejected

AcceptFollowing(s, t) ==
    CASE t = ","  -> Accepting(s, IF Last(s) = "array" THEN "value" ELSE "key")
      [] t = (IF Last(s) = "array" THEN "]" ELSE "}") -> Accepted(SubSeq(s, 1, Len(s) - 1))
      [] OTHER    -> Rejected

AcceptToken(a, t) ==
    CASE a.pc = "value"     -> AcceptValue(a.stack, t)
      [] a.pc = "element"   -> IF t = "]" THEN Accepted(SubSeq(a.stack, 1, Len(a.stack) - 1))
                               ELSE AcceptValue(a.stack, t)
      [] a.pc = "member"    -> IF t = "}" THEN Accepted(SubSeq(a.stack, 1, Len(a.stack) - 1))
                               ELSE AcceptKey(a.stack, t)
      [] a.pc = "key"       -> AcceptKey(a.stack, t)
      [] a.pc = "separator" -> IF t = ":" THEN Accepting(a.stack, "value") ELSE Rejected
      [] a.pc = "next"      -> AcceptFollowing(a.stack, t)
      [] a.pc = "end"       -> IF t = "eof" THEN Accepting(<<>>, "done") ELSE Rejected
      [] OTHER              -> a

-----------------------------------------------------------------------------

ParserInit(callbacks, policies, stricts) ==
    /\ tokens = <<>> /\ stack = <<Top>> /\ pc = "value" /\ depth = 0 /\ events = <<>>
    /\ result = Discarded /\ accept = Accepting(<<>>, "value")
    /\ callback \in callbacks /\ rejects \in policies /\ (~callback => rejects = {})
    /\ strict \in stricts /\ allow_exceptions = strict       \* bound: two of the four

Running == pc \notin {"done", "failed"}

GetToken(t) ==
    /\ Running /\ Len(tokens) < MaxTokens
    /\ pc = "end" => strict
    /\ tokens' = Append(tokens, t)
    /\ accept' = AcceptToken(accept, t)
    /\ ParseToken(t)
    /\ UNCHANGED <<callback, rejects, strict, allow_exceptions>>

\* Without strict the input may go on behind the value.
Finish ==
    /\ pc = "end" /\ ~strict
    /\ pc' = "done" /\ result' = Finished
    /\ accept' = [accept EXCEPT !.pc = IF @ = "end" THEN "done" ELSE @]
    /\ UNCHANGED <<tokens, callback, rejects, strict, allow_exceptions, stack, depth, events>>

ParserNext == (\E t \in Tokens : GetToken(t)) \/ Finish

-----------------------------------------------------------------------------
(* The grammar of RFC 7159 on whole token sequences: the tree of a text,   *)
(* or None.  A container's text is cut at its outermost commas.            *)

None == <<"none">>

Level(s, k) ==
    Cardinality({i \in 1 .. k : s[i] \in {"[", "{"}}) - Cardinality({i \in 1 .. k : s[i] \in {"]", "}"}})

Pieces(s) ==
    LET cuts == SetToSortSeq({i \in 1 .. Len(s) : s[i] = "," /\ Level(s, i) = 0} \cup {0, Len(s) + 1}, <)
    IN  [i \in 1 .. Len(cuts) - 1 |-> SubSeq(s, cuts[i] + 1, cuts[i + 1] - 1)]

RECURSIVE Tree(_)
Tree(s) ==
    LET inner == SubSeq(s, 2, Len(s) - 1)
        ps    == IF inner = <<>> THEN <<>> ELSE Pieces(inner)
        Member(p) == Len(p) > 2 /\ p[1] \in Keys /\ p[2] = ":"
        Part(p) == IF s[1] = "[" THEN Tree(p) ELSE IF Member(p) THEN Tree(SubSeq(p, 3, Len(p))) ELSE None
        parts == [i \in 1 .. Len(ps) |-> Part(ps[i])]
    IN  CASE Len(s) = 1 -> IF s[1] \in Scalars THEN Scalar(s[1]) ELSE None
          [] Len(s) > 1 /\ <<s[1], s[Len(s)]>> \in {<<"[", "]">>, <<"{", "}">>} ->
               IF \E i \in 1 .. Len(ps) : parts[i] = None THEN None
               ELSE IF s[1] = "[" THEN Array(parts)
               ELSE <<"members", [i \in 1 .. Len(ps) |-> <<ps[i][1], parts[i]>>]>>
          [] OTHER -> None

\* A text that can be completed: by a value, a name or both, and brackets.
RECURSIVE Closers(_, _)
Closers(s, open) ==
    IF s = <<>> THEN open
    ELSE CASE s[1] = "[" -> Closers(Tail(s), <<"]">> \o open)
           [] s[1] = "{" -> Closers(Tail(s), <<"}">> \o open)
           [] s[1] \in {"]", "}"} /\ open # <<>> -> Closers(Tail(s), Tail(open))
           [] OTHER -> Closers(Tail(s), open)

Completions == {<<>>, <<"null">>, <<":", "null">>, <<CHOOSE k \in Keys : TRUE, ":", "null">>}

Viable(s) == \E c \in Completions : Tree(s \o c \o Closers(s, <<>>)) # None

\* What a policy leaves of a tree.
RECURSIVE Kept(_)
Kept(tree) ==
    LET event(e) == callback /\ Named(e, "") \in rejects
        value(v) == IF callback /\ Named("value", KindOf(v)) \in rejects THEN Discarded ELSE v
    IN  CASE tree[1] = "scalar" -> value(tree)
          [] tree[1] = "array" ->
               IF event("array_start") \/ event("array_end") THEN Discarded
               ELSE value(Array(SelectSeq([i \in 1 .. Len(tree[2]) |-> Kept(tree[2][i])],
                                          LAMBDA v : v # Discarded)))
          [] tree[1] = "members" ->
               LET m     == tree[2]
                   vals  == [i \in 1 .. Len(m) |-> Kept(m[i][2])]
                   alive == {i \in 1 .. Len(m) : vals[i] # Discarded
                                 /\ ~(callback /\ Named("key", m[i][1]) \in rejects)}
                   first(k) == CHOOSE i \in alive : m[i][1] = k /\ \A j \in alive : m[j][1] = k => i <= j
               IN  IF event("object_start") \/ event("object_end") THEN Discarded
                   ELSE value(Object([k \in {m[i][1] : i \in alive} |-> vals[first(k)]]))

ReadTokens == IF strict THEN SubSeq(tokens, 1, Len(tokens) - 1) ELSE tokens

(* parse takes exactly the JSON texts, and refuses a text at the first     *)
(* token no JSON text can have there.                                      *)
TakesGrammar ==
    /\ pc = "done" => Tree(ReadTokens) # None
    /\ pc = "failed" => ~Viable(tokens)
    /\ Running /\ tokens # <<>> => Viable(tokens)

(* accept and parse are separate functions over the same grammar and agree *)
(* on every text, whatever the callback does.                              *)
AcceptAgrees == accept.pc = pc /\ (Running => Len(accept.stack) = Len(stack) - 1)

(* The value is what the text says, less what the callback rejected: a     *)
(* rejected start, key, value or end takes its whole subtree away and      *)
(* nothing else, of equal keys the first one kept wins, and a rejected     *)
(* text is null.                                                           *)
ResultFiltered ==
    pc = "done" => result = LET v == Kept(Tree(ReadTokens)) IN IF v = Discarded THEN Scalar("null") ELSE v

(* As long as no start of a container is rejected, the callback is told    *)
(* the number of containers around, and depth returns to zero.             *)
DepthUnrejected ==
    Named("array_start", "") \notin rejects /\ Named("object_start", "") \notin rejects =>
        /\ \A i \in 1 .. Len(events) : events[i].depth = events[i].open
        /\ pc = "done" => depth = 0
=============================================================================
