-------------------------------- MODULE Maps --------------------------------
(***************************************************************************)
(* std::unordered_map as a function with a varying domain: the operations  *)
(* the registry, the spawn manager and the network-id manager use.         *)
(***************************************************************************)

\* map takes some of the keys to values.
IsMap(map, keys, values) ==
  /\ DOMAIN map \subseteq keys
  /\ map \in [DOMAIN map -> values]

EmptyMap == [k \in {} |-> k]

\* insert_or_assign, and operator[] on the left of an assignment.
InsertOrAssign(map, key, value) ==
  [k \in DOMAIN map \cup {key} |-> IF k = key THEN value ELSE map[k]]

\* insert: an element already stored under the key is kept.
Insert(map, key, value) ==
  IF key \in DOMAIN map THEN map ELSE InsertOrAssign(map, key, value)

Erase(map, key) == [k \in DOMAIN map \ {key} |-> map[k]]
=============================================================================
