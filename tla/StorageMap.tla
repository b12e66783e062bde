----------------------------- MODULE StorageMap -----------------------------
(***************************************************************************)
(* FRAME storage maps (`frame_support::StorageMap`, an external library)   *)
(* as the pallet uses them: a map is a function whose domain is the set of *)
(* keys present, so that contains_key is membership in DOMAIN.             *)
(***************************************************************************)

\* m is a storage map from keys of K to values of V.
IsMap(m, K, V) ==
    /\ m \in [DOMAIN m -> V]
    /\ DOMAIN m \subseteq K

\* Every storage map is empty at genesis.
EmptyMap == [k \in {} |-> {}]

insert(m, k, v) == [x \in DOMAIN m \cup {k} |-> IF x = k THEN v ELSE m[x]]

remove(m, k) == [x \in DOMAIN m \ {k} |-> m[x]]

\* A `ValueQuery` read: the type's default when the key is absent.
get(m, k, default) == IF k \in DOMAIN m THEN m[k] ELSE default

=============================================================================
