----------------------------- MODULE JsonBinary -----------------------------
(***************************************************************************)
(* The binary formats of the JSON library.  A value is written in one of   *)
(* them (basic_json::to_cbor, to_msgpack, to_ubjson) and the bytes, whole  *)
(* or cut short, are read back; other bytes are fed to the reader          *)
(* (from_cbor, ...) and what it makes of them is written again.            *)
(***************************************************************************)
EXTENDS Cbor, MsgPack, Ubjson
LOCAL INSTANCE BinaryFormat

CONSTANTS
    Values,         \* per format: values that are written
    Seeds,          \* beginnings of what is fed to the reader, each with the
                    \* bound on the number of bytes that follow
    FedBytes        \* bytes that may follow them

VARIABLES
    format,         \* "cbor", "msgpack" or "ubjson"
    flags,          \* use_count and use_type
    item,           \* the value to be written
    bytes,          \* what the reader is given
    room,           \* bytes that may still be fed
    origin,         \* where the bytes come from
    outcome         \* what the reader returned, once it has

binaryVars == <<format, flags, item, bytes, room, origin, outcome>>

Unwritten == <<"none">>
Formats == {"cbor", "msgpack", "ubjson"}
Plain == <<FALSE, FALSE>>
Flags(f) == IF f = "ubjson" THEN {Plain, <<TRUE, FALSE>>, <<TRUE, TRUE>>} ELSE {Plain}

Written(f, v, use) ==
    CASE f = "cbor"    -> write_cbor(v)
      [] f = "msgpack" -> write_msgpack(v)
      [] f = "ubjson"  -> write_ubjson(v, use[1], use[2], TRUE)

Parsed(f, in) ==
    CASE f = "cbor"    -> parse_cbor(in)
      [] f = "msgpack" -> parse_msgpack(in)
      [] f = "ubjson"  -> parse_ubjson(in)

\* Something to write, or something to feed to the reader.
Starts ==
    UNION {{[format |-> f, flags |-> u, item |-> v, bytes |-> <<>>, room |-> 0, origin |-> "value"]
               : u \in Flags(f), v \in Values[f]} : f \in Formats}
      \cup UNION {{[format |-> f, flags |-> Plain, item |-> Unwritten, bytes |-> s[1], room |-> s[2],
                     origin |-> "input"] : s \in Seeds[f]} : f \in Formats}

AtRest == [format |-> "cbor", flags |-> Plain, item |-> Unwritten, bytes |-> <<>>, room |-> 0,
           origin |-> "input"]

BinaryInit(starts) ==
    /\ \E s \in starts :
          /\ format = s.format /\ flags = s.flags /\ item = s.item
          /\ bytes = s.bytes /\ room = s.room /\ origin = s.origin
    /\ outcome = <<>>

Write ==
    /\ origin = "value" /\ bytes = <<>>
    /\ bytes' = Written(format, item, flags)
    /\ UNCHANGED <<format, flags, item, room, origin, outcome>>

\* The writer of UBJSON has thrown an exception.
Refused == \E i \in 1 .. Len(bytes) : bytes[i] = Thrown

\* The connection or the file ends early.
Cut(k) ==
    /\ origin = "value" /\ outcome = <<>> /\ k < Len(bytes) /\ ~Refused
    /\ bytes' = SubSeq(bytes, 1, k) /\ origin' = "cut"
    /\ UNCHANGED <<format, flags, item, room, outcome>>

Feed(b) ==
    /\ origin = "input" /\ outcome = <<>> /\ room > 0
    /\ bytes' = Append(bytes, b) /\ room' = room - 1
    /\ UNCHANGED <<format, flags, item, origin, outcome>>

Read ==
    /\ outcome = <<>> /\ ~Refused /\ (origin = "value" => bytes # <<>>)
    /\ outcome' = <<Parsed(format, bytes)>>
    /\ UNCHANGED <<format, flags, item, bytes, room, origin>>

BinaryNext ==
    Write \/ (\E k \in 0 .. 24 : Cut(k)) \/ (\E b \in FedBytes[format] : Feed(b)) \/ Read

-----------------------------------------------------------------------------

WasRead(o) == origin = o /\ outcome # <<>>

(* A value that is written is read back, in every format and with every    *)
(* option, whatever the sizes of its numbers and lengths: at the edges of  *)
(* every short form and every width.  Only the writer of UBJSON refuses    *)
(* values, exactly those with a number above the largest int64_t.          *)
RoundTrip ==
    /\ origin = "value" /\ bytes # <<>> => (Refused <=> format = "ubjson" /\ TooLarge(item))
    /\ WasRead("value") => outcome[1].ok /\ Same(item, outcome[1].value)

(* Bytes that end early are never taken for a value.                       *)
CutIsRefused == WasRead("cut") => ~outcome[1].ok

(* The CBOR reader takes the inputs RFC 7049 gives a JSON meaning, with    *)
(* that meaning, and refuses all others; indefinite lengths, lengths       *)
(* longer than needed and bytes left over included.                        *)
ReadsRfc ==
    WasRead("input") /\ format = "cbor" =>
        LET r == RfcItem(bytes, 0)
        IN  IF r.ok /\ r.pos = Len(bytes) THEN outcome[1].ok /\ outcome[1].value = r.value
                                          ELSE ~outcome[1].ok

(* Whatever form of MessagePack a value was read from, the writer's form   *)
(* stands for the same value and is not longer: the writer never misses a  *)
(* shorter form that the reader knows.                                     *)
ShortestForm ==
    WasRead("input") /\ format = "msgpack" /\ outcome[1].ok /\ Exact(outcome[1].value) =>
        LET v == outcome[1].value
            w == write_msgpack(v)
            r == parse_msgpack(w)
        IN  r.ok /\ Same(v, r.value) /\ Len(w) <= Len(bytes)

(* Whatever form of UBJSON a value was read from, with no-ops, with a      *)
(* count, with a type: all three forms the writer knows stand for the same *)
(* value.                                                                  *)
FormsAgree ==
    WasRead("input") /\ format = "ubjson" /\ outcome[1].ok /\ Exact(outcome[1].value) =>
        \A use \in Flags("ubjson") :
            LET r == parse_ubjson(write_ubjson(outcome[1].value, use[1], use[2], TRUE))
            IN  r.ok /\ Same(outcome[1].value, r.value)

-----------------------------------------------------------------------------
(* The values of the constants: numbers at both sides of every edge of the *)
(* short forms and widths, with either type; strings, arrays and objects   *)
(* at the edges of the short forms and of one byte; containers of equal    *)
(* and of different types.                                                 *)

Magnitudes ==
    {Word(n) : n \in {0, 1, 22, 23, 24, 25, 30, 31, 32, 33, 126, 127, 128, 129, 255, 256,
                      32767, 32768, 65535, 65536}}
      \cup {Zeros(4) \o <<127, 255, 255, 255>>, Zeros(4) \o <<128, 0, 0, 0>>, Zeros(4) \o Ones(4),
            Zeros(3) \o <<1>> \o Zeros(4), <<127>> \o Ones(7)}
BothSigns == Magnitudes \cup {Complement(m) : m \in Magnitudes}

Numbers ==
    {Unsigned(n) : n \in Magnitudes \cup {<<128>> \o Zeros(7), Ones(8)}}
      \cup {Integer(n) : n \in BothSigns}

Small ==
    {Null, Bool(TRUE), Unsigned(Word(128)), Integer(Complement(Word(32))), String(<<97>>),
     Float(<<64>> \o Zeros(7))}
SmallTyped ==
    Small \cup {Bool(FALSE), Unsigned(Ones(8)), Integer(Word(127)), Array(<<>>), Array(<<Null>>),
                Object(<<97>> :> Null)}

Repeat(v, n) == [i \in 1 .. n |-> v]

Containers ==
    {String(Repeat(255, n)) : n \in {0, 1, 23, 24, 30, 31, 32, 127, 128, 255, 256}}
      \cup {Array(Repeat(Null, n)) : n \in {0, 1, 15, 16, 17, 23, 24}}
      \cup {Object([k \in {<<i>> : i \in 1 .. n} |-> Bool(FALSE)]) : n \in 0 .. 3}
      \cup {Array(<<a, b>>) : a, b \in Small}
      \cup {Object((<<98>> :> a) @@ (<<97, 98>> :> b)) : a, b \in Small}
      \cup {Array(<<Array(<<>>), Object(<<>> :> a)>>) : a \in Small}

TypedContainers ==
    {Array(<<a, b, a>>) : a, b \in SmallTyped}
      \cup {Array(<<a, a, b>>) : a, b \in SmallTyped}
      \cup {Object((<<98>> :> a) @@ (<<97, 98>> :> b)) : a, b \in SmallTyped}
      \cup {Array(<<Array(<<a>>), Array(<<a, b>>)>>) : a, b \in SmallTyped}

MCValues ==
    [f \in Formats |-> Numbers \cup Containers \cup (IF f = "ubjson" THEN TypedContainers ELSE {})]

MCFedBytes ==
    [cbor    |-> {0, 23, 24, 25, 28, 32, 55, 56, 57, 64, 96, 97, 120, 127, 128, 129, 152, 159, 160,
                  161, 184, 191, 192, 244, 246, 249, 252, 255},
     msgpack |-> {0, 1, 127, 128, 129, 144, 145, 160, 161, 192, 193, 194, 204, 205, 208, 209, 217,
                  218, 220, 222, 224, 255},
     ubjson  |-> {Marker[m] : m \in {"Z", "T", "U", "i", "C", "S", "N", "type", "count", "open_array",
                                     "close_array", "open_object", "close_object"}}
                   \cup {0, 1, 2, 255}]

CborSeeds ==
    {<<c>> \o n : c \in {27, 59}, n \in BothSigns}
      \cup {<<155>> \o Zeros(8), <<155>> \o Ones(8), <<187>> \o Ones(8), <<123>> \o Ones(8),
            <<250, 1, 2, 3, 4>>, <<251>> \o Word(1), <<249, 123, 255>>, <<249, 252, 1>>, <<249, 124, 0>>,
            <<161, 97, 1, 2, 3>>, <<162, 97, 1, 2, 97, 1, 3>>, <<191, 97, 1, 2, 97, 1, 3, 255>>,
            <<191, 127, 97, 1, 97, 2, 255, 2, 255>>, <<162, 97, 1, 2, 96, 3>>,
            <<159, 159, 255, 191, 255, 255>>}

MsgPackSeeds ==
    {<<c>> \o n : c \in {207, 211}, n \in BothSigns}
      \cup {<<c>> \o Low(n, 4) : c \in {206, 210}, n \in BothSigns}
      \cup {<<191>> \o Repeat(97, 31), <<217, 31>> \o Repeat(97, 31), <<218, 0, 32>> \o Repeat(97, 32),
            <<219, 0, 0, 0, 1, 97>>, <<219>> \o Ones(4), <<221, 0, 0, 0, 1, 192>>, <<221>> \o Ones(4),
            <<223, 0, 0, 0, 1, 161, 97, 192>>, <<223>> \o Ones(4), <<222, 0, 1, 217, 1, 97, 205, 0, 1>>,
            <<130, 161, 97, 1, 161, 97, 2>>, <<202, 1, 2, 3, 4>>, <<203>> \o Word(1)}

\* Beginnings of counted and typed containers.
UbjsonSeeds ==
    LET array == <<Marker.open_array>>
        object == <<Marker.open_object>>
        typed(m) == <<Marker.type, m, Marker.count, Marker.i>>
    IN  {array, array \o <<Marker.count, Marker.N>>, array \o <<Marker.type, Marker.i>>,
         object \o typed(Marker.Z), array \o <<Marker.count, Marker.U>>, object \o <<Marker.i, 1, 97>>,
         array \o typed(Marker.open_array) \o <<1>>, object \o typed(Marker.N), array \o typed(Marker.N),
         array \o <<Marker.count, Marker.L, 8>> \o Zeros(7), object \o <<Marker.count, Marker.L>> \o Ones(8),
         <<Marker.d, 1, 2>>, object \o <<Marker.count, Marker.L>> \o Zeros(7),
         array \o <<Marker.count, Marker.L>> \o Ones(8)}

MCSeeds ==
    [cbor    |-> {<< <<>>, 4>>} \cup (CborSeeds \X {0}),
     msgpack |-> {<< <<>>, 4>>} \cup (MsgPackSeeds \X {0}),
     ubjson  |-> ({<<>>} \cup UbjsonSeeds) \X {3}]
=============================================================================
