------------------------------ MODULE Codec ------------------------------
(***************************************************************************)
(* What becomes of a value in a payload: base64 (src/bytes.ts) and the two *)
(* serializers (src/serializer.ts).  A text of JSON is a value of the JSON *)
(* types.                                                                  *)
(***************************************************************************)
EXTENDS Encoding

-----------------------------------------------------------------------------
(* Base64 *)

ToBase64(bytes) ==
  LET Groups == (Len(bytes) + 2) \div 3
      Byte(i) == IF i <= Len(bytes) THEN bytes[i] ELSE 0
      Chunk(g) == Byte(3 * g - 2) * 65536 + Byte(3 * g - 1) * 256 + Byte(3 * g)
      Digit(g, d) == (Chunk(g) \div (64 ^ (3 - d))) % 64
      Used(g) == Min({3, Len(bytes) - 3 * (g - 1)}) + 1
  IN FlattenSeq([g \in 1 .. Groups |-> [d \in 1 .. Used(g) |-> Digit(g, d - 1)]])

(* Six bits at a time; a byte leaves as soon as there are eight. *)
FromBase64(digits) ==
  LET Take(state, digit) ==
        LET buffer == (state.buffer * 64 + digit) % (2 ^ 14)
            bits == state.bits + 6
        IN IF bits >= 8
             THEN [buffer |-> buffer, bits |-> bits - 8,
                   out |-> Append(state.out, (buffer \div (2 ^ (bits - 8))) % 256)]
             ELSE [buffer |-> buffer, bits |-> bits, out |-> state.out]
  IN FoldLeft(Take, [buffer |-> 0, bits |-> 0, out |-> <<>>], digits).out

-----------------------------------------------------------------------------
(* The typed JSON serializer *)

Reserved == Text(<<"~rsc">>)
V == Text(<<"v">>)
F == Text(<<"f">>)
Proto == Text(<<"__proto__">>)
String(run) == <<"string", Text(<<run>>)>>
Letters(digits) ==
  <<"string", Text([i \in 1 .. Len(digits) |-> ToString(digits[i])])>>
Lookup(string) ==
  [i \in 1 .. Len(string[2]) |-> CHOOSE n \in 0 .. 63 : ToString(n) = string[2][i][2]]

Tagged(tag, properties) ==
  <<"object", {<<Reserved, String(tag)>>} \union properties>>

(* What serializePlainObject looks at. *)
Kept(properties) == {p \in Defined(properties) : p[1] # Reserved}

RECURSIVE Serializable(_), ToJsonSafe(_), Revivable(_), FromJsonSafe(_)

Serializable(value) ==
  /\ value[1] \notin {"symbol", "function", "instance", "cycle"}
  /\ IF value[1] = "object" THEN \A p \in Kept(value[2]) : Serializable(p[2])
     ELSE \A element \in Elements(value) : Serializable(element)

(* JSON has no word for these. *)
SafeNumber(number) ==
  IF number \in {"NaN", "Infinity", "-Infinity", "-0"}
    THEN Tagged("number", {<<V, String(number)>>})
    ELSE <<"number", number>>

(* An assignment to __proto__ does not make a property. *)
ToJsonSafe(value) ==
  LET x == value[2]
      Safe(items) == [i \in 1 .. Len(items) |-> ToJsonSafe(items[i])]
      Array(items) == <<V, <<"array", items>>>>
  IN CASE value[1] = "undefined" -> Tagged("undefined", {})
       [] value[1] = "number" -> SafeNumber(x)
       [] value[1] = "bigint" -> Tagged("bigint", {<<V, String(x)>>})
       [] value[1] = "date" ->
            Tagged("date", {<<V, IF x = "invalid" THEN <<"null", "">> ELSE String(x)>>})
       [] value[1] = "url" -> Tagged("url", {<<V, <<"string", x>>>>})
       [] value[1] = "regexp" -> Tagged("regexp", {<<V, String(x[1])>>, <<F, String(x[2])>>})
       [] value[1] \in {"bytes", "buffer"} ->
            Tagged("bytes", {<<V, Letters(ToBase64(x))>>})
       [] value[1] = "map" ->
            Tagged("map", {Array([i \in 1 .. Len(x) |-> <<"array", Safe(x[i])>>])})
       [] value[1] = "set" -> Tagged("set", {Array(Safe(x))})
       [] value[1] = "error" -> Tagged("error", {<<V, String(x)>>})
       [] value[1] = "array" -> <<"array", Safe(x)>>
       [] value[1] = "object" ->
            <<"object", {<<p[1], ToJsonSafe(p[2])>> : p \in {q \in Kept(x) : q[1] # Proto}}>>
       [] OTHER -> value

IsTagged(json) ==
  json[1] = "object" /\ \E p \in json[2] : p[1] = Reserved /\ p[2][1] = "string"

TagOf(json) == Property(json[2], Reserved)[2][1][2]

KnownTags == {"undefined", "number", "bigint", "date", "url", "regexp",
              "bytes", "map", "set", "error"}

(* An unknown tag fails. *)
Revivable(json) ==
  IF IsTagged(json) THEN TagOf(json) \in KnownTags
  ELSE \A element \in Elements(json) : Revivable(element)

FromJsonSafe(json) ==
  LET v == Property(json[2], V)[2]
      Revived(items) == [i \in 1 .. Len(items) |-> FromJsonSafe(items[i])]
      tag == TagOf(json)
  IN IF IsTagged(json)
     THEN CASE tag = "undefined" -> Undefined
            [] tag = "number" -> <<"number", v[1][2]>>
            [] tag = "bigint" -> <<"bigint", v[1][2]>>
            [] tag = "date" ->
                 <<"date", IF Property(json[2], V)[1] = "null" THEN "invalid" ELSE v[1][2]>>
            [] tag = "url" -> <<"url", v>>
            [] tag = "regexp" -> <<"regexp", <<v[1][2], Property(json[2], F)[2][1][2]>>>>
            [] tag = "bytes" -> <<"bytes", FromBase64(Lookup(Property(json[2], V)))>>
            [] tag = "map" -> <<"map", [i \in 1 .. Len(v) |-> Revived(v[i][2])]>>
            [] tag = "set" -> <<"set", Revived(v)>>
            [] tag = "error" -> <<"error", v[1][2]>>
     ELSE CASE json[1] = "array" -> <<"array", Revived(json[2])>>
            [] json[1] = "object" ->
                 <<"object", {<<p[1], FromJsonSafe(p[2])>> : p \in {q \in json[2] : q[1] # Proto}}>>
            [] OTHER -> json

-----------------------------------------------------------------------------
(* The strict serializer: JSON.stringify and JSON.parse.                   *)

Opaque == {"undefined", "function", "symbol"}

RECURSIVE Stringifies(_), Stringify(_)

Stringifies(value) ==
  /\ value[1] \notin {"bigint", "cycle"}
  /\ value[1] \in {"array", "object"} =>
       \A element \in Elements(value) : Stringifies(element)

(* A map, a set, a regexp, an error and a buffer have no properties. *)
Stringify(value) ==
  LET x == value[2]
  IN CASE value[1] = "number" ->
            IF x \in {"NaN", "Infinity", "-Infinity"} THEN <<"null", "">>
            ELSE <<"number", IF x = "-0" THEN "0" ELSE x>>
       [] value[1] \in Opaque -> <<"null", "">>
       [] value[1] = "date" -> IF x = "invalid" THEN <<"null", "">> ELSE String(x)
       [] value[1] = "url" -> <<"string", x>>
       [] value[1] = "bytes" ->
            <<"object", {<<Text(<<ToString(i - 1)>>), <<"number", ToString(x[i])>>>>
                           : i \in 1 .. Len(x)}>>
       [] value[1] \in {"map", "set", "regexp", "error", "buffer", "instance"} ->
            <<"object", {}>>
       [] value[1] = "array" -> <<"array", [i \in 1 .. Len(x) |-> Stringify(x[i])]>>
       [] value[1] = "object" ->
            <<"object", {<<p[1], Stringify(p[2])>> : p \in {q \in x : q[2][1] \notin Opaque}}>>
       [] OTHER -> value

-----------------------------------------------------------------------------
(* What Payloads needs of the serializers *)

SerializesBy(serializer, value) ==
  IF serializer = "json" THEN Serializable(value)
  ELSE value[1] \notin Opaque /\ Stringifies(value)

SerializedBy(serializer, value) ==
  IF serializer = "json" THEN ToJsonSafe(value) ELSE Stringify(value)

ParsesBy(serializer, json) == serializer = "json" => Revivable(json)

ParsedBy(serializer, json) ==
  IF serializer = "json" THEN FromJsonSafe(json) ELSE json

RECURSIVE Lossless(_)

(* What the typed serializer should keep of a value: all but undefined     *)
(* properties, two names of properties and the kind of a buffer.           *)
Lossless(value) ==
  LET x == value[2]
      All(items) == [i \in 1 .. Len(items) |-> Lossless(items[i])]
  IN CASE value[1] = "buffer" -> <<"bytes", x>>
       [] value[1] \in {"array", "set"} -> <<value[1], All(x)>>
       [] value[1] = "map" -> <<"map", [i \in 1 .. Len(x) |-> All(x[i])]>>
       [] value[1] = "object" ->
            <<"object", {<<p[1], Lossless(p[2])>> :
                           p \in {q \in Defined(x) : q[1] \notin {Reserved, Proto}}}>>
       [] OTHER -> value

RECURSIVE PlainJson(_)

PlainJson(value) ==
  /\ value[1] \in {"null", "boolean", "number", "string", "array", "object"}
  /\ value[1] = "number" => value[2] \notin {"-0", "NaN", "Infinity", "-Infinity"}
  /\ value[1] = "object" => \A p \in value[2] : p[2] # Undefined
  /\ \A element \in Elements(value) : PlainJson(element)

(* What a serializer promises to keep of a value (serializer.ts:9, 312).   *)
PromisedBy(serializer, value, got) ==
  IF serializer = "json" THEN got = Lossless(value)
  ELSE PlainJson(value) => got = value
=============================================================================
