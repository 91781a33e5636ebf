-------------------------------- MODULE GoMaps --------------------------------
(***************************************************************************)
(* Go's built-in map: a function whose domain is the set of keys present.  *)
(* Reading an absent key is guarded by the modules that use a map; here    *)
(* are the two statements that change one.                                 *)
(***************************************************************************)
EXTENDS Functions

\* m[k] = v
Store(m, k, v) == [x \in DOMAIN m \cup {k} |-> IF x = k THEN v ELSE m[x]]

\* delete(m, k): a no-op on an absent key
Delete(m, k) == Restrict(m, DOMAIN m \ {k})
===============================================================================
