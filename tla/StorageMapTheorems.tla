------------------------- MODULE StorageMapTheorems -------------------------
(* What the operators on storage maps return and preserve.                 *)
EXTENDS StorageMap, TLAPS

\* The empty map is a map of any type.
THEOREM EmptyMapType ==
    ASSUME NEW K, NEW V
    PROVE  IsMap(EmptyMap, K, V) /\ DOMAIN EmptyMap = {}
BY DEF IsMap, EmptyMap

\* `insert` keeps a map's type, adds one key and changes no other entry.
THEOREM InsertMap ==
    ASSUME NEW K, NEW V, NEW m, IsMap(m, K, V), NEW k \in K, NEW v \in V
    PROVE  /\ IsMap(insert(m, k, v), K, V)
           /\ DOMAIN insert(m, k, v) = DOMAIN m \cup {k}
           /\ insert(m, k, v)[k] = v
           /\ \A x \in DOMAIN m : x # k => insert(m, k, v)[x] = m[x]
BY DEF IsMap, insert

\* `remove` keeps a map's type, drops one key and changes no other entry.
THEOREM RemoveMap ==
    ASSUME NEW K, NEW V, NEW m, IsMap(m, K, V), NEW k
    PROVE  /\ IsMap(remove(m, k), K, V)
           /\ DOMAIN remove(m, k) = DOMAIN m \ {k}
           /\ \A x \in DOMAIN remove(m, k) : remove(m, k)[x] = m[x]
BY DEF IsMap, remove

\* `mutate` of a present key keeps a map's type and changes no other entry.
THEOREM MutateMap ==
    ASSUME NEW K, NEW V, NEW m, IsMap(m, K, V), NEW k \in DOMAIN m, NEW v \in V
    PROVE  /\ IsMap([m EXCEPT ![k] = v], K, V)
           /\ DOMAIN [m EXCEPT ![k] = v] = DOMAIN m
           /\ [m EXCEPT ![k] = v][k] = v
           /\ \A x \in DOMAIN m : x # k => [m EXCEPT ![k] = v][x] = m[x]
BY DEF IsMap

=============================================================================
