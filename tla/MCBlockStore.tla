---------------------------- MODULE MCBlockStore ----------------------------
(* Small instances of BlockStore for TLC. *)
EXTENDS BlockStore, TLC

\* Slots are interchangeable pool threads.
SlotSymmetry == Permutations(Slot)
=============================================================================
