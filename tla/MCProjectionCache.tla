-------------------------- MODULE MCProjectionCache --------------------------
(* A root session with one child, and two builds with different reducers.    *)
EXTENDS ProjectionCache, TLC

CONSTANTS root, child

MCTree(s) == IF s = root THEN {root, child} ELSE {s}
\* Readers are alike, and so are builds and payloads.
Symmetric == Permutations(Readers) \cup Permutations(Payloads)
                                     \cup Permutations(Versions)
==============================================================================
