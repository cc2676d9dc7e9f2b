---------------------------- MODULE MCDirectories ----------------------------
(* A small instance of Directories for TLC. *)
EXTENDS Directories, TLC

CONSTANTS p1, p2, s1, s2, MaxLeaks

(* A bare name, below and beside a directory, and the special names. *)
SomePaths == {<<>>, <<"a">>, <<Dot>>, <<DotDot>>, <<"a", "a">>, <<"a", DotDot>>,
              <<DotDot, "a">>, <<Dot, "a">>}

Symmetric == Permutations({p1, p2}) \cup Permutations({s1, s2})

(* What follows the end of it is not looked at; no property speaks of it. *)
IsSound == Sound

(* Bound on the references that leak. *)
FewLeaks == leaked[Root] + leaked[s1] + leaked[s2] <= MaxLeaks
=============================================================================
