-------------------------- MODULE MCTaskSettlement --------------------------
(* Two agents that post and work, and the resolver; the two may be swapped. *)
EXTENDS TaskSettlement, TLC

CONSTANTS p, w, res

MCAgent == {p, w, res}

Perms == Permutations({p, w})
=============================================================================
