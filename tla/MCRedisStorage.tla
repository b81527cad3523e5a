--------------------------- MODULE MCRedisStorage ---------------------------
(* Instances of RedisStorage for TLC: the clients, and who writes which    *)
(* key with which tags.                                                    *)
EXTENDS RedisStorage, TLC

CONSTANTS w1, w2, k1, t1

MCClients == {<<"scripts", FALSE>>, <<"commands", TRUE>>}
MCScripts == {<<"scripts", FALSE>>}

(* Two writers of one key and one tag. *)
MCOneKey == (w1 :> k1) @@ (w2 :> k1)
MCOneTag == (w1 :> {t1}) @@ (w2 :> {t1})

MCSymmetry ==
  Permutations(Writers) \union Permutations(Invalidations)
    \union Permutations(Erasers)
=============================================================================
