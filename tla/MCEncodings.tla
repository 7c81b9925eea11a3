---------------------------- MODULE MCEncodings ----------------------------
(***************************************************************************)
(* The hashes, text encodings and text helpers of src/bryllite-core.  One  *)
(* part moves in a behaviour, the others rest in an initial state.         *)
(***************************************************************************)
EXTENDS Sha256, Ripemd160, Base58, StrEncodings, TinyFormat

VARIABLE part

vars == <<part, shaVars, lengthVars, ripemdVars, textVars, formatVars>>

Parts == {"sha256", "length", "ripemd160", "text", "format"}

\* The initial values S for the part that moves, x for a part at rest.
When(p, S, x) == IF part = p THEN S ELSE {x}

Init ==
    /\ part \in Parts
    /\ ShaInit
    /\ LengthInit
    /\ RipemdInit(When("ripemd160", 0..MaxLength, 0))
    /\ TextInit(When("text", DOMAIN Alphabets, "none"))
    /\ FormatInit(When("format", {<<c>> : c \in Conversions}, <<>>))

Next ==
    \/ /\ part = "sha256" /\ ShaNext
       /\ UNCHANGED <<part, lengthVars, ripemdVars, textVars, formatVars>>
    \/ /\ part = "length" /\ \E n \in LongPieces : ProcessLong(n)
       /\ UNCHANGED <<part, shaVars, ripemdVars, textVars, formatVars>>
    \/ /\ part = "ripemd160" /\ RipemdNext
       /\ UNCHANGED <<part, shaVars, lengthVars, textVars, formatVars>>
    \/ /\ part = "text" /\ Extend
       /\ UNCHANGED <<part, shaVars, lengthVars, ripemdVars, formatVars>>
    \/ /\ part = "format" /\ FormatNext
       /\ UNCHANGED <<part, shaVars, lengthVars, ripemdVars, textVars>>

Spec == Init /\ [][Next]_vars

-----------------------------------------------------------------------------
(* The values of the constants: characters at the edges of the classes and *)
(* ranges that each function tells apart.                                  *)
MCAlphabets ==
    [base58    |-> {32, 48, 49, 50, 122},
     bytes58   |-> {0, 1, 57, 58, 255},
     hex       |-> {32, 48, 49, 70, 97, 103, 120},
     base64    |-> {65, 81, 61, 63},
     base32    |-> {65, 113, 61},
     bytes64   |-> {0, 1, 129, 255},
     int       |-> {0, 32, 43, 45, 49, 57},
     host      |-> {48, 49, 58, 91, 93, 104},
     fixed     |-> {43, 45, 46, 48, 57, 101},
     paragraph |-> {10, 32, 97, 98}]

MCMaxLen ==
    [base58 |-> 5, bytes58 |-> 5, hex |-> 5, base64 |-> 8, base32 |-> 8, bytes64 |-> 6,
     int |-> 6, host |-> 6, fixed |-> 6, paragraph |-> 7]

\* Long runs of the smallest and the largest digit, for the buffer estimates.
MCMaxRun == [k \in DOMAIN MCAlphabets |-> IF k \in {"base58", "bytes58"} THEN 30 ELSE 0]

-----------------------------------------------------------------------------
(* The properties checked.                                                 *)

(* Both hashes compress the padded message, however process() was fed and  *)
(* wherever the message ends in a block, count its length without a lost   *)
(* carry, and give the digests of their standards.                         *)
HashesRight ==
    /\ AbsorbsPaddedMessage /\ MarkerFits /\ DigestRight /\ LengthCounted /\ BitLengthWritten
    /\ CompressesPaddedMessage /\ RipemdDigestRight

(* What base 58, hexadecimal, base 64 and base 32 write is read back, with *)
(* leading zeros and in buffers that suffice, and what they accept is the  *)
(* text they write; numbers and blobs are stored and ordered as they are   *)
(* printed, in reverse.                                                    *)
EncodingsInvert ==
    /\ BufferSuffices /\ BytesRoundTrip /\ StringRoundTrip /\ CheckRoundTrip
    /\ HexIsParsed /\ NumberIsStored /\ BlobRoundTrip /\ OrderOfReversed /\ OverloadsReversed
    /\ BytesSurvive /\ ValidIsCanonical

(* The readers of integers, host:port and fixed point take what their      *)
(* grammars say, with its value, and a formatted paragraph keeps its words *)
(* within its lines.                                                       *)
TextsParsed ==
    /\ StrictIntegers /\ SplitIsStable /\ FixedPointExact
    /\ WordsKept /\ LinesFit /\ EqualIsEqual

(* A format takes exactly its arguments and prints each as C99 does,       *)
(* independently of the conversions before it.                             *)
PrintsLikeC == ArgumentsCounted /\ PrintsAsC99 /\ Compositional
=============================================================================
