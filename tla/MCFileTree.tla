----------------------------- MODULE MCFileTree -----------------------------
(***************************************************************************)
(* Three names in the root directory, one of which has a blank, and two in *)
(* one of them; paths of one length share a chain.                         *)
(***************************************************************************)
EXTENDS FileTree

CONSTANTS na, nb, nc
MCPath == {<<>>, <<na>>, <<nb>>, <<nc>>, <<na, na>>, <<na, nb>>}
MCAddr == 1..5
MCHash == [p \in MCPath |-> Len(p)]
=============================================================================
