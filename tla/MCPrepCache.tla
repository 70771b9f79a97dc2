----------------------------- MODULE MCPrepCache -----------------------------
(* PrepCache for TLC: raw1 and raw2 tokenize to the same template; twinA and
   twinB are tokenized, different and have one key; an unknown marker grows
   from grow0 to grow2 at each turn.                                        *)
EXTENDS PrepCache, TLC

MCTemplates == {"raw1", "raw2", "tok1", "twinA", "twinB", "grow0", "grow1", "grow2"}

MCTokenized == [x \in MCTemplates |->
                  CASE x \in {"raw1", "raw2"} -> "tok1"
                    [] x = "grow0" -> "grow1"
                    [] x = "grow1" -> "grow2"
                    [] OTHER -> x]

MCcache_key == [x \in MCTemplates |-> IF x = "twinB" THEN "twinA" ELSE x]
MCKeys == {MCcache_key[x] : x \in MCTemplates}

Symmetry == Permutations(Threads)
=============================================================================
