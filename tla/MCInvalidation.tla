--------------------------- MODULE MCInvalidation ---------------------------
(* Instances of Invalidation for TLC: three caches of one namespace of a   *)
(* shared storage, the first under another prefix and the last of another  *)
(* version, which may be made the default; a cache in another namespace of *)
(* it; and the unconfigured default, whose function has a namespace of its *)
(* own.                                                                    *)
EXTENDS Invalidation, TLC

CONSTANTS shop, next, legacy, users, unnamed,
          product, audit, shared, memory

MCConfig ==
  LET Options(by, storage, prefix, namespace) ==
        [by |-> by, storage |-> storage, prefix |-> prefix, namespace |-> namespace,
         version |-> "1", owns |-> storage = memory, registers |-> TRUE]
      Created(prefix, namespace) ==
        Options({"createCache"}, shared, prefix, namespace)
  IN  (users   :> Created("p", "users"))
   @@ (legacy  :> Created("q", "shop"))
   @@ (shop    :> Created("p", "shop"))
   @@ (next    :> [Created("p", "shop") EXCEPT
                    !.version = "2", !.by = {"createCache", "configureCache"}])
   @@ (unnamed :> Options({"getCache"}, memory, "p", "default"))

MCAtStart == <<users, legacy, shop>>

MCFunctionOf ==
  LET In(instance, namespace) ==
        [instance |-> instance, namespace |-> namespace, tags |-> {"t"}]
  IN  (product :> In(next, "shop"))
   @@ (audit   :> In(unnamed, "audit"))

MCTagScopes ==
  {(shared :> scope) @@ (memory :> "storage") : scope \in {"key", "namespace"}}

MCRequests ==
  LET Of(cache, namespace, tags, keys, namespaces) ==
        [cache |-> cache, namespace |-> namespace, tags |-> tags,
         keys |-> keys, namespaces |-> namespaces]
  IN  {Of(None, None, <<"t">>, <<>>, <<>>),          \* revalidateTag("t")
       Of("users", None, <<"t">>, <<>>, <<>>),       \* ... { cache: "users" }
       Of(legacy, None, <<>>, <<>>, <<None>>),       \* clearCache({ cache })
       Of(None, "shop", <<>>, <<>>, <<"shop">>),     \* clearCache({ namespace })
       Of(unnamed, None, <<>>, <<>>, <<"audit">>),   \* revalidateNamespace
       Of("shop", None, <<"t", "u">>, <<product>>, <<None>>),   \* invalidate
       Of(None, None, <<>>, <<>>, <<>>)}             \* ... of nothing
=============================================================================
