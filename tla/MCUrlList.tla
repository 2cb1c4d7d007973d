----------------------------- MODULE MCUrlList ------------------------------
(* One mirror is redirected to the main URL; the other one has a file of   *)
(* another length, or is redirected to a URL of another kind.              *)
EXTENDS UrlList

MCMoves == [u \in {"a", "b"} |-> IF u = "a" THEN "m" ELSE "far"]
=============================================================================
