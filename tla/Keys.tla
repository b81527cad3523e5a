-------------------------------- MODULE Keys --------------------------------
(***************************************************************************)
(* The storage key of a call: the identity of its function                 *)
(* (src/cache-function.ts) and the layout of keys (src/keys.ts), around an *)
(* encoding of arguments and scopes, which Encoding defines.               *)
(*                                                                         *)
(* Whether two calls may share a key depends on where one part of a text   *)
(* ends and the next begins.  A text is therefore a sequence of tokens: a  *)
(* token is a run of characters that nothing splits, or a hash, which is   *)
(* taken to be injective and stands for what was hashed.                   *)
(***************************************************************************)
EXTENDS OrderedSets

CONSTANTS Unsafe,       \* characters a label may not contain
          MaxLabel,     \* 40
          MaxKeyLength, \* maxKeyLength
          Lists,        \* lists of arguments, and scopes, that can be encoded
          StableStringify(_)

Text(runs) == [i \in 1 .. Len(runs) |-> <<"run", runs[i]>>]
Hash(text) == <<<<"hash", text>>>>
IsText(text) == text \in Seq(ToSet(text))

(* A list is encoded as an array is: A:<length>[...].                      *)
ASSUME KeysAssumption ==
  /\ {MaxLabel, MaxKeyLength} \subseteq Nat
  /\ \A list \in Lists : LET text == StableStringify(list)
                         IN IsText(text) /\ text # <<>> /\ text[1] = <<"run", "A">>

-----------------------------------------------------------------------------
(* A function is [fn (its own name), name (the option; empty: none), mode  *)
(* (keyIdentity), source, namespace, version, key (the key option; empty:  *)
(* none)]; a call is [of, scope, args].                                    *)

Named(text) == text # <<>>

Label(f) == IF Named(f.name) THEN f.name ELSE f.fn

Identity(f) ==
  IF f.mode = "name" \/ (f.mode = "auto" /\ Named(f.name))
    THEN Text(<<"name", ":">>) \o Label(f)
    ELSE Text(<<"src", ":">>) \o f.fn \o Text(<<":">>) \o Hash(f.source)

(* A run of unsafe characters becomes a dash; none is left at the ends. *)
SanitizeLabel(label) ==
  LET Bad(i) == label[i][2] \in Unsafe
      dashed == [i \in DOMAIN label |-> IF Bad(i) THEN <<"run", "-">> ELSE label[i]]
      Solid(i) == dashed[i][2] # "-"
      kept == {i \in DOMAIN label :
                 /\ \E j \in 1 .. i : Solid(j)
                 /\ \E j \in i .. Len(label) : Solid(j)
                 /\ Bad(i) => ~Bad(i - 1)}
      sanitized == Picked(dashed, kept)
  IN IF kept = {} THEN Text(<<"fn">>)
     ELSE IF Len(sanitized) <= MaxLabel THEN sanitized
     ELSE SubSeq(sanitized, 1, MaxLabel)

KeyBase(f) ==
  Text(<<"rsc-cache", ":", "v1", ":", f.namespace, ":">>) \o Hash(Text(<<f.version>>))

(* Above the limit a hash of the whole key follows what fits of its head. *)
EnforceMaxLength(key) ==
  LET suffix == Text(<<":", "h">>) \o Hash(key)
      head == {i \in DOMAIN key : /\ i <= MaxKeyLength - Len(suffix)
                                  /\ \E j \in DOMAIN key : j > i /\ key[j] = <<"run", ":">>}
  IN IF Len(key) <= MaxKeyLength THEN key
     ELSE IF Len(suffix) >= MaxKeyLength THEN Text(<<"h">>) \o Hash(key)
     ELSE Picked(key, head) \o suffix

BuildEntryKey(f, material) ==
  EnforceMaxLength(KeyBase(f) \o Text(<<":">>) \o SanitizeLabel(Label(f))
                     \o Text(<<":">>) \o Hash(material))

Dashed(text) ==
  [i \in 1 .. Len(text) |-> IF text[i] = <<"run", ":">> THEN <<"run", "-">> ELSE text[i]]

Segment(f, custom) ==
  Dashed(SanitizeLabel(Label(f)) \o Text(<<":">>) \o custom)

BuildCustomEntryKey(f, custom) ==
  EnforceMaxLength(KeyBase(f) \o Text(<<":">>) \o Segment(f, custom))

ScopeToken(scope) == IF scope = <<>> THEN <<>> ELSE Hash(StableStringify(scope))

Custom(call) ==
  IF call.scope = <<>> THEN call.of.key
  ELSE call.of.key \o Text(<<"~">>) \o ScopeToken(call.scope)

Material(call) ==
  Identity(call.of) \o Text(<<"|">>) \o ScopeToken(call.scope) \o Text(<<"|">>)
    \o StableStringify(call.args)

KeyOf(call) ==
  IF Named(call.of.key) THEN BuildCustomEntryKey(call.of, Custom(call))
  ELSE BuildEntryKey(call.of, Material(call))
=============================================================================
