--------------------------- MODULE MCFileTransfer ---------------------------
(* Small instances of FileTransfer for TLC. *)
EXTENDS FileTransfer, TLC

\* Clients differ by their names only.
Symmetry == Permutations(Clients)

=============================================================================
