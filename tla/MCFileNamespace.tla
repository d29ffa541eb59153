-------------------------- MODULE MCFileNamespace --------------------------
(***************************************************************************)
(* A name in the root directory, and two in it, if it is a directory.      *)
(* Machines and requests are interchangeable, and so are the two names.    *)
(***************************************************************************)
EXTENDS FileNamespace, TLC

CONSTANTS root, d, f, g
MCParent == (d :> root) @@ (f :> d) @@ (g :> d)
Alike == Permutations(Node) \cup Permutations(Slot) \cup Permutations({f, g})
=============================================================================
