----------------------------- MODULE MCRequests -----------------------------
(* Instances of Requests for TLC: the request of a user, and a context in  *)
(* it that names a tenant with the same id and shares the request cache;   *)
(* a private function, and a public one of a region that is not memoized.  *)
EXTENDS Requests, TLC

CONSTANTS request, nested, profile, page

MCInitOf ==
  LET Given(outer, user, tenant, cache) ==
        [outer |-> outer, user |-> user, tenant |-> tenant, cache |-> cache]
  IN  (request :> Given(None, "acme", None, None))
   @@ (nested  :> Given(request, None, "acme", request))

MCFunctionOf ==
  (profile :> [private |-> TRUE, scope |-> <<>>, memo |-> TRUE])
  @@ (page :> [private |-> FALSE, scope |-> <<"eu">>, memo |-> FALSE])

MCSymmetry == Permutations(Calls)
=============================================================================
