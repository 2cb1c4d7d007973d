--------------------------- MODULE MCFileManager ---------------------------
(* One task whose ants are symmetric.                                      *)
EXTENDS FileManager

AntSymmetry == Permutations(Ants)
=============================================================================
