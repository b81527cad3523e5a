----------------------------- MODULE MCPayloads -----------------------------
(* Payloads: pairs of calls that could share a key, values of every type,  *)
(* and processes with different setups over a storage that fails.          *)
EXTENDS Payloads, Codec

CONSTANTS p1, p2

MCProcesses == {p1, p2}
T(run) == Text(<<run>>)
Both(x) == [p \in MCProcesses |-> x]
Pair(x, y) == [p \in MCProcesses |-> IF p = p1 THEN x ELSE y]

Str(run) == <<"string", T(run)>>
Num(n) == <<"number", n>>
Arr(items) == <<"array", items>>
Obj(properties) == <<"object", properties>>

A == T("a")
B == T("b")
Joint == Text(<<"a", "=", "d", ":", "1", ";", "b">>)
Odd == Text(<<"a", "=", "s", ":", "4", ":">>)

MCNames == <<Proto, A, Joint, Odd, B, T("c"), Text(<<"b", "=", "d", ":", "2", ";", "c">>), Reserved>>

Atoms ==
  {Undefined, <<"null", "">>, <<"boolean", TRUE>>, <<"bigint", "1">>, <<"date", "invalid">>,
   <<"date", "2024">>, <<"url", T("h")>>, <<"regexp", <<"a", "g">>>>, <<"error", "e">>,
   <<"bytes", <<1>>>>, <<"buffer", <<1>>>>, <<"function", "">>, <<"symbol", "">>,
   <<"instance", "">>, <<"cycle", 1>>, Str("a"), Str("1")}
  \union {Num(n) : n \in {"0", "-0", "1", "NaN", "Infinity", "-Infinity"}}

Bytes == {<<"bytes", b>> : b \in {<<>>, <<255>>, <<0, 128>>, <<255, 0, 7>>, <<1, 2, 3, 254>>}}

Containers ==
  UNION {{Arr(<<a>>), Arr(<<Str("a"), a>>), Obj({<<A, a>>}), Obj({<<A, a>>, <<Reserved, a>>}),
          Obj({<<B, Num("1")>>, <<Proto, a>>}), <<"set", <<a>>>>, <<"map", <<<<Str("a"), a>>>>>>,
          <<"map", <<<<a, Arr(<<a>>)>>>>>>, Obj({<<A, Obj({<<B, a>>})>>})} : a \in Atoms}
  \union {Arr(<<>>), Obj({}), <<"set", <<>>>>, <<"map", <<>>>>}

MCOversized == {Str("1")}

-----------------------------------------------------------------------------
Plain == [fn |-> T("get"), name |-> <<>>, mode |-> "auto", source |-> T("s"),
          namespace |-> "n", version |-> "1", key |-> <<>>]

Unkeyed ==
  {Plain, [Plain EXCEPT !.source = T("r")], [Plain EXCEPT !.name = T("get")],
   [Plain EXCEPT !.name = Text(<<"get", "|">>)], [Plain EXCEPT !.mode = "source"],
   [Plain EXCEPT !.mode = "name"], [Plain EXCEPT !.namespace = "m"],
   [Plain EXCEPT !.version = "2"], [Plain EXCEPT !.fn = Text(<<" ", "-">>)]}

Keyed ==
  {[Plain EXCEPT !.name = name, !.key = custom] :
     name \in {<<>>, Text(<<"get", "-", "a">>), Text(<<"get", ":", " ", "a", ":">>),
               Text(<<"kv">>)},
     custom \in {T("a"), Text(<<"a", "-", "b">>), Text(<<"a", ":", "b">>), T("b"),
              Text(<<"a", ":", "b", ":", "a", ":", "b">>),
              Text(<<"a", ":", "b", ":", "a", ":", "c">>)}}

FunctionCalls ==
  {[of |-> f, scope |-> scope, args |-> <<Num("1")>>] :
     f \in Unkeyed \union Keyed, scope \in {<<>>, <<Str("a")>>}}

ScopeCalls ==
  {[of |-> Plain, scope |-> scope, args |-> <<>>] :
     scope \in {<<>>, <<Str("a")>>, <<Str("1")>>, <<Num("1")>>, <<Str("a"), Str("1")>>,
                <<Str("1"), Str("a")>>, <<Undefined>>}}

Args ==
  {<<>>, <<Undefined>>, <<Str("a"), Str("b")>>, <<Arr(<<Str("a")>>), Str("b")>>,
   <<<<"string", Text(<<"a", ",", "s", ":", "1", ":", "b">>)>>>>,
   <<Obj({<<A, Undefined>>})>>, <<Obj({<<A, Num("1")>>, <<B, Num("2")>>})>>,
   <<Obj({<<A, Num("1")>>, <<Text(<<"b", "=", "d", ":", "2", ";", "c">>), Num("3")>>})>>,
   <<Obj({<<Joint, Num("2")>>, <<T("c"), Num("3")>>})>>,
   <<Obj({<<A, <<"string", Text(<<"=", "d", ":", "5">>)>>>>})>>, <<Obj({<<Odd, Num("5")>>})>>,
   <<<<"url", Text(<<"h", ",", "U", ":", "g">>)>>, <<"url", T("g")>>>>,
   <<<<"url", T("h")>>, <<"url", Text(<<"g", ",", "U", ":", "g">>)>>>>,
   <<<<"set", <<Num("1"), Num("2")>>>>>>, <<<<"set", <<Num("2"), Num("1")>>>>>>,
   <<<<"map", <<<<Num("1"), Num("2")>>>>>>>>,
   <<<<"bytes", <<1, 2, 3>>>>>>, <<<<"buffer", <<1, 2, 3>>>>>>, <<<<"bytes", <<1, 2, 4>>>>>>}
  \union {<<a>> : a \in Atoms} \union {<<Arr(<<a>>)>> : a \in Atoms}

ArgsCalls == {[of |-> Plain, scope |-> <<>>, args |-> args] : args \in Args}

(* Pairs of calls that get a key. *)
Sharers(calls) ==
  LET keyed == {c \in calls : HasKey(c)}
  IN {Pair(c, d) : c \in keyed, d \in keyed}

Call == [of |-> Plain, scope |-> <<>>, args |-> <<>>]

(* A serializer of the application's own, as strict as json-strict, that   *)
(* states no name.                                                         *)
MCNameOf(serializer) == IF serializer = "unnamed" THEN None ELSE serializer

Setups(streams) == [serializer : {"json", "json-strict"}, compression : {"none", "gzip"},
                    streams : streams]
Json == [serializer |-> "json", compression |-> "none", streams |-> TRUE]
Unnamed == [Json EXCEPT !.serializer = "unnamed"]
Deflated == [Json EXCEPT !.compression = "deflate"]
Backward == [Json EXCEPT !.compression = "gzip", !.streams = FALSE]

(* Two calls, each made once. *)
KeyScenarios ==
  [data : {Num("1")}, wire : {"object"}, failOpen : {TRUE}, ttl : {0}, staleTtl : {0},
   faults : {0}, uses : {Both(1)}, setup : {Both(Json)},
   call : UNION {Sharers(calls) : calls \in {FunctionCalls, ScopeCalls, ArgsCalls}}]

(* Every value, written and read. *)
ValueScenarios ==
  [data : Atoms \union Bytes \union Containers, wire : {"string"}, failOpen : {TRUE},
   ttl : {0}, staleTtl : {0}, faults : {0}, uses : {Both(1)},
   setup : {Both(s) : s \in Setups({TRUE})}, call : {Both(Call)}]

(* Two setups, with faults. *)
SetupScenarios ==
  LET pairs == [MCProcesses -> {Unnamed, Deflated, Backward} \union Setups({TRUE})]
      Under(wires, failOpen, ttl, staleTtl) ==
        [data : {Num("-0"), Str("1"), Obj({<<Reserved, Str("x")>>})}, wire : wires,
         failOpen : {failOpen}, ttl : {ttl}, staleTtl : {staleTtl}, faults : {1},
         uses : {Pair(2, 1)}, setup : pairs, call : {Both(Call)}]
  IN Under({"object", "string"}, TRUE, 0, 0) \union Under({"binary"}, FALSE, 0, 0)
       \union Under({"string"}, TRUE, 1, 1) \union Under({"object"}, TRUE, 1, 0)

MCLists ==
  {list \in UNION {{c.scope, c.args} : c \in FunctionCalls \union ScopeCalls \union ArgsCalls} :
     Keyable(<<"array", list>>, 0)}

MCScenarios == KeyScenarios \union ValueScenarios \union SetupScenarios
=============================================================================
