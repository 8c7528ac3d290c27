------------------------------- MODULE StdMap -------------------------------
(***************************************************************************)
(* std::map as the services use it: a function whose domain is the set of  *)
(* keys that are present.  The empty map is the empty function << >>.      *)
(***************************************************************************)

(* try_emplace: a key that is present keeps its value.                     *)
Emplace(map, key, value) ==
  [k \in DOMAIN map \cup {key} |-> IF k \in DOMAIN map THEN map[k] ELSE value]

(* erase: erasing an absent key changes nothing.                           *)
Erase(map, key) == [k \in DOMAIN map \ {key} |-> map[k]]

(* A map from some of the Keys to Values.                                  *)
IsMap(map, Keys, Values) ==
  /\ DOMAIN map \subseteq Keys
  /\ map \in [DOMAIN map -> Values]
=============================================================================
