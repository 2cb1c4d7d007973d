----------------------------- MODULE MCDownload -----------------------------
(* A file of three bytes that arrive in runs of any length. *)
EXTENDS Download

MCLens == -1 .. FileLen
MCPieces == {a .. b : a, b \in 0 .. FileLen - 1}
=============================================================================
