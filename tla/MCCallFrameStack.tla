-------------------------- MODULE MCCallFrameStack --------------------------
(* Two LStates, each created and closed again and again, that share the    *)
(* segment pool: s1 has room for two segments, s2 for one.                 *)
EXTENDS CallFrameStack, TLC

CONSTANTS s1, s2, f1, f2, a, b, c

\* s1 calls two functions; s2 only takes and returns its first segment.
MCCode == s1 :> {f1, f2} @@ s2 :> {}
MCCallStackSize == s1 :> 4 @@ s2 :> 2

Perms == Permutations({a, b, c})
=============================================================================
