----------------------------- MODULE GoMapsProofs -----------------------------
(***************************************************************************)
(* What the statements on a Go map do: the only facts about Store and      *)
(* Delete that the other proofs use.                                       *)
(***************************************************************************)
EXTENDS GoMaps, TLAPS

\* m[k] = v makes k present with value v and leaves the other entries alone.
LEMMA StoreFacts ==
    ASSUME NEW m, NEW k, NEW v
    PROVE  /\ DOMAIN Store(m, k, v) = DOMAIN m \cup {k}
           /\ Store(m, k, v)[k] = v
           /\ \A x \in DOMAIN m : x # k => Store(m, k, v)[x] = m[x]
  BY DEF Store

\* delete(m, k) makes k absent and leaves the other entries alone.
LEMMA DeleteFacts ==
    ASSUME NEW m, NEW k
    PROVE  /\ DOMAIN Delete(m, k) = DOMAIN m \ {k}
           /\ \A x \in DOMAIN m : x # k => Delete(m, k)[x] = m[x]
  BY DEF Delete, Restrict

\* A map of values in V stays one when a value of V is stored.
LEMMA StoreType ==
    ASSUME NEW V, NEW m, m \in [DOMAIN m -> V], NEW k, NEW v \in V
    PROVE  Store(m, k, v) \in [DOMAIN m \cup {k} -> V]
  BY DEF Store

\* ... and when an entry is deleted.
LEMMA DeleteType ==
    ASSUME NEW V, NEW m, m \in [DOMAIN m -> V], NEW k
    PROVE  Delete(m, k) \in [DOMAIN m \ {k} -> V]
  BY DEF Delete, Restrict
===============================================================================
