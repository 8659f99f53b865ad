-------------------------- MODULE MCResourceCaches --------------------------
(* Two callers, one file of each kind.  The third version is larger than   *)
(* the whole cache; the other two do not both fit twice.                   *)
EXTENDS ResourceCaches, TLC

MCSize == <<2, 3, 6>>

(* The two caches share no state, so every run of one is explored while the *)
(* other is at rest.                                                       *)
Touched ==
  {p \in Paths :
     \/ disk[p] > 1 \/ p \in DOMAIN published
     \/ \E k \in DOMAIN images.entries \cup DOMAIN fonts.entries : k.path = p
     \/ p \in Fonts /\ (DOMAIN named # {} \/ sharing # {})
     \/ \E c \in Documents : p \in DOMAIN examined[c] \/ (p \in Fonts /\ registered[c] # {})
     \/ \E c \in Documents : request[c].step # "idle" /\ Path(c) = p}

OneCacheAtATime == Touched \subseteq Fonts \/ Touched \cap Fonts = {}

Symmetry == Permutations(Documents)
=============================================================================
