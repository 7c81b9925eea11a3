------------------------------ MODULE MCJsonIo ------------------------------
(***************************************************************************)
(* Reading JSON text, its strings, numbers, tokens and grammar, and        *)
(* writing and reading the binary formats.  One part moves in a behaviour, *)
(* the others rest in an initial state.                                    *)
(***************************************************************************)
EXTENDS JsonString, JsonLexer, JsonParser, JsonBinary, FiniteSetsExt

VARIABLE part

vars == <<part, stringVars, numberVars, lexerVars, parserVars, binaryVars>>

Parts == {"string", "number", "lexer", "parser", "binary"}

\* The initial values S for the part that moves, x for a part at rest.
When(p, S, x) == IF part = p THEN S ELSE {x}

Init ==
    /\ part \in Parts
    /\ StringInit(When("string", DOMAIN Bytes, "utf8"))
    /\ NumberInit
    /\ LexerInit(When("lexer", Texts(MaxFragments), <<>>))
    /\ ParserInit(When("parser", BOOLEAN, FALSE), When("parser", Policies, {}),
                  When("parser", BOOLEAN, TRUE))
    /\ BinaryInit(When("binary", Starts, AtRest))

Next ==
    \/ /\ part = "string" /\ StringNext
       /\ UNCHANGED <<part, numberVars, lexerVars, parserVars, binaryVars>>
    \/ /\ part = "number" /\ NumberNext
       /\ UNCHANGED <<part, stringVars, lexerVars, parserVars, binaryVars>>
    \/ /\ part = "lexer" /\ LexerNext
       /\ UNCHANGED <<part, stringVars, numberVars, parserVars, binaryVars>>
    \/ /\ part = "parser" /\ ParserNext
       /\ UNCHANGED <<part, stringVars, numberVars, lexerVars, binaryVars>>
    \/ /\ part = "binary" /\ BinaryNext
       /\ UNCHANGED <<part, stringVars, numberVars, lexerVars, parserVars>>

Spec == Init /\ [][Next]_vars

-----------------------------------------------------------------------------
(* The values of the constants.  The bytes of "utf8" are the edges of the  *)
(* ranges scan_string tells apart, those of "escape" write \u escapes on   *)
(* both sides of the surrogates.                                           *)
MCBytes ==
    [utf8   |-> {31, 32, 34, 92, 110, 127, 128, 143, 144, 159, 160, 191, 192, 193, 194, 223,
                 224, 225, 236, 237, 238, 239, 240, 241, 243, 244, 245, 255},
     escape |-> {92, 117, 48, 55, 56, 66, 99, 100, 102}]
MCOpeners == [utf8 |-> MCBytes.utf8, escape |-> {92, 55}]
MCMaxInput == [utf8 |-> 5, escape |-> 13]
MCMaxBuffer == [utf8 |-> 5, escape |-> 1]

\* Whole and broken tokens, a null, white space, the byte order mark and its
\* beginnings.
MCFragments ==
    {Bom, <<Bom[1]>>, SubSeq(Bom, 1, 2), <<Nul>>, <<Chr(" ")>>, <<Chr("[")>>, <<Chr("}")>>, <<Chr(",")>>,
     <<Digit(1)>>, <<Chr("-")>>, <<Chr("."), Digit(0)>>, <<Chr("t")>> \o True, <<Chr("f")>> \o False,
     <<Chr("n"), Chr("u")>>, <<Chr("l"), Chr("l")>>, <<Chr("\"")>>, <<Chr("\""), Chr("x"), Chr("\"")>>}

Rejections ==
    {Named(e, "") : e \in {"object_start", "array_start", "object_end", "array_end"}}
        \cup {Named("key", "a"), Named("value", "number"), Named("value", "array")}

\* Callbacks of at most two rejections.
MCPolicies == UNION {kSubset(n, Rejections) : n \in 0 .. 2}

-----------------------------------------------------------------------------
(* The properties checked.                                                 *)

(* scan_string accepts what is UTF-8, refuses at the first byte from which *)
(* it cannot become UTF-8 any more, and its token is the text with the     *)
(* escapes, surrogate pairs included, resolved.                            *)
StringsExact == [](AcceptsWellFormed /\ DecodesText) /\ RefusesIllFormed


(* Parser and acceptor take exactly the grammar; the result is the value   *)
(* without what the callback rejected, and the depths it is given are the  *)
(* nesting.                                                                *)
ParsesGrammar == TakesGrammar /\ AcceptAgrees /\ ResultFiltered /\ DepthUnrejected

=============================================================================
