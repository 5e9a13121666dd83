----------------------------- MODULE MCStreamCache -----------------------------
(* Small instances of StreamCache: streams of one chunk and one of two chunks, *)
(* which are announced as they are, or shorter, or longer.                     *)
EXTENDS StreamCache, TLC

CONSTANT long

MCLength == [i \in Id |-> IF i = long THEN 2 ELSE 1]

Exact == [i \in Id |-> {MCLength[i]}]
Understated == [i \in Id |-> 1 .. MCLength[i]]
Overstated == [i \in Id |-> MCLength[i] .. 3]

Symmetry == Permutations(File) \cup Permutations(Stream)
=============================================================================
