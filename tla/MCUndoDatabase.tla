--------------------------- MODULE MCUndoDatabase ---------------------------
(* Instances of UndoDatabase for TLC. *)
EXTENDS UndoDatabase, TLC

MCNumbers == 0 .. 1
(* Object keys, payloads and indexes are interchangeable. *)
MCSymmetry ==
    Permutations(Keys) \cup Permutations(Payloads) \cup Permutations(Indexes)
=============================================================================
