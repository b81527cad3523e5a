------------------------------ MODULE Encoding ------------------------------
(***************************************************************************)
(* The canonical encoding of arguments and scopes                          *)
(* (src/stable-stringify.ts), and what the keys made of it should tell     *)
(* apart.                                                                  *)
(***************************************************************************)
EXTENDS Keys

CONSTANTS Names,         \* the names of properties, in sorted order
          MaxDepth,      \* 32
          MaxInlineBytes \* 256

ASSUME EncodingAssumption == {MaxDepth, MaxInlineBytes} \subseteq Nat

Joined(texts, separator) ==
  FlattenSeq([i \in 1 .. Len(texts) |->
                IF i = 1 THEN texts[i] ELSE Text(<<separator>>) \o texts[i]])

-----------------------------------------------------------------------------
(* Values: <<type, content>>.  The content of an object is the set of its  *)
(* properties <<name, value>>; that of a circular reference is how far up  *)
(* the container is that it refers to.                                     *)

Undefined == <<"undefined", "">>

Defined(properties) == {p \in properties : p[2] # Undefined}
Property(properties, name) == (CHOOSE p \in properties : p[1] = name)[2]

Elements(value) ==
  CASE value[1] \in {"array", "set"} -> ToSet(value[2])
    [] value[1] = "map" -> UNION {ToSet(pair) : pair \in ToSet(value[2])}
    [] value[1] = "object" -> {p[2] : p \in Defined(value[2])}
    [] OTHER -> {}

RECURSIVE Keyable(_, _)

(* The values that can be encoded; the others throw. *)
Keyable(value, depth) ==
  /\ depth <= MaxDepth
  /\ value[1] \notin {"symbol", "function", "error", "instance"}
  /\ \A element \in Elements(value) : Keyable(element, depth + 1)

-----------------------------------------------------------------------------
(* The encoding *)

Digits == <<"0", "1", "2", "3", "4", "5", "6", "7",
            "8", "9", "a", "b", "c", "d", "e", "f">>

ToHex(bytes) ==
  FlattenSeq([i \in 1 .. Len(bytes) |->
                Text(<<Digits[(bytes[i] \div 16) + 1],
                       Digits[(bytes[i] % 16) + 1]>>)])

BinaryRepr(bytes) ==
  IF Len(bytes) > MaxInlineBytes
    THEN Text(<<"*", ToString(Len(bytes)), ":">>) \o Hash(ToHex(bytes))
    ELSE ToHex(bytes)

Enclosed(type, size, open, items, separator, close) ==
  Text(<<type, ":", ToString(size), open>>) \o Joined(items, separator)
    \o Text(<<close>>)

RECURSIVE Encode(_)

(* A number is written as it is named here: -0, NaN and the infinities are *)
(* numbers of their own.  Equal items of a set or map are encoded once,    *)
(* with the size in front: this tells the same values apart.               *)
Encode(value) ==
  LET x == value[2]
      Entry(pair) == Encode(pair[1]) \o Text(<<"=">>) \o Encode(pair[2])
      Prop(name) == name \o Text(<<"=">>) \o Encode(Property(x, name))
      Present == SelectSeq(Names, LAMBDA name : name \in {p[1] : p \in Defined(x)})
  IN CASE value[1] = "undefined" -> Text(<<"u">>)
       [] value[1] = "null" -> Text(<<"n">>)
       [] value[1] = "boolean" -> Text(<<IF x THEN "b1" ELSE "b0">>)
       [] value[1] = "number" -> Text(<<"d", ":", x>>)
       [] value[1] = "bigint" -> Text(<<"i", ":", x>>)
       [] value[1] = "string" -> Text(<<"s", ":", ToString(Len(x)), ":">>) \o x
       [] value[1] = "cycle" -> Text(<<"c", ":", ToString(x)>>)
       [] value[1] = "date" -> Text(<<"D", ":", x>>)
       [] value[1] = "url" -> Text(<<"U", ":">>) \o x
       [] value[1] = "regexp" -> Text(<<"R", ":", x[1], "/", x[2]>>)
       [] value[1] \in {"bytes", "buffer"} -> Text(<<"B", ":">>) \o BinaryRepr(x)
       [] value[1] = "map" ->
            Enclosed("M", Len(x), "{", SetToSeq({Entry(p) : p \in ToSet(x)}), ";", "}")
       [] value[1] = "set" ->
            Enclosed("S", Len(x), "{", SetToSeq({Encode(e) : e \in ToSet(x)}), ";", "}")
       [] value[1] = "array" ->
            Enclosed("A", Len(x), "[", [i \in 1 .. Len(x) |-> Encode(x[i])], ",", "]")
       [] value[1] = "object" ->
            Enclosed("O", Len(Present), "{",
                     [i \in 1 .. Len(Present) |-> Prop(Present[i])], ";", "}")

(* Arguments and scopes are lists. *)
EncodeList(items) == Encode(<<"array", items>>)

(* The calls that get a key; the others throw. *)
HasKey(call) ==
  /\ Keyable(<<"array", call.scope>>, 0)
  /\ Named(call.of.key) \/ Keyable(<<"array", call.args>>, 0)

-----------------------------------------------------------------------------
(* What a key should tell apart *)

RECURSIVE Alike(_, _), Ambiguous(_)

(* The same arguments for a function: but for the order of maps and sets,  *)
(* undefined properties and the kind of buffer that holds bytes.           *)
Alike(v, w) ==
  LET Binary == {"bytes", "buffer"}
      Matched(S, T, Like(_, _)) == /\ \A s \in S : \E t \in T : Like(s, t)
                                   /\ \A t \in T : \E s \in S : Like(s, t)
      AlikePairs(p, q) == Alike(p[1], q[1]) /\ Alike(p[2], q[2])
  IN \/ v = w
     \/ v[1] \in Binary /\ w[1] \in Binary /\ v[2] = w[2]
     \/ /\ v[1] = w[1]
        /\ CASE v[1] = "array" -> /\ Len(v[2]) = Len(w[2])
                                  /\ \A i \in 1 .. Len(v[2]) : Alike(v[2][i], w[2][i])
             [] v[1] = "set" -> /\ Len(v[2]) = Len(w[2])
                                /\ Matched(ToSet(v[2]), ToSet(w[2]), Alike)
             [] v[1] = "map" -> /\ Len(v[2]) = Len(w[2])
                                /\ Matched(ToSet(v[2]), ToSet(w[2]), AlikePairs)
             [] v[1] = "object" ->
                  LET V == Defined(v[2])
                      W == Defined(w[2])
                  IN /\ {p[1] : p \in V} = {p[1] : p \in W}
                     /\ \A p \in V : Alike(p[2], Property(W, p[1]))
             [] OTHER -> FALSE

(* A name of a property that reads like a property and the beginning of    *)
(* its value, a URL that reads like one and what follows it: both are      *)
(* encoded without their length.                                           *)
Ambiguous(value) ==
  \/ /\ value[1] = "object"
     /\ \E p \in Defined(value[2]) : <<"run", "=">> \in ToSet(p[1])
  \/ /\ value[1] = "url"
     /\ \E mark \in {",", ";", "=", "]", "}"} : <<"run", mark>> \in ToSet(value[2])
  \/ \E element \in Elements(value) : Ambiguous(element)

SameFunction(f, g) ==
  IF Named(f.key) THEN Named(g.key) /\ Label(f) = Label(g) /\ f.key = g.key
  ELSE ~Named(g.key) /\ Identity(f) = Identity(g)

SameCall(c, d) ==
  /\ c.of.namespace = d.of.namespace
  /\ c.of.version = d.of.version
  /\ SameFunction(c.of, d.of)
  /\ Alike(<<"array", c.scope>>, <<"array", d.scope>>)
  /\ ~Named(c.of.key) => Alike(<<"array", c.args>>, <<"array", d.args>>)

(* What keys are known not to tell apart: explicit keys that differ only   *)
(* in a colon for a dash, in unsafe characters of the label or in where    *)
(* the label ends, and ambiguous arguments.                                *)
Confusable(c, d) ==
  \/ /\ Named(c.of.key) /\ Named(d.of.key)
     /\ Segment(c.of, Custom(c)) = Segment(d.of, Custom(d))
  \/ Ambiguous(<<"array", c.args>>) \/ Ambiguous(<<"array", d.args>>)

SameOrConfusable(c, d) == SameCall(c, d) \/ Confusable(c, d)
=============================================================================
