---------------------------- MODULE MCMainWindow ----------------------------
(* Two windows: in one, tasks of one address run and end, and the user     *)
(* looks at three lists; in the other, a pattern makes two tasks, and a    *)
(* directory is entered among their mirrors.                               *)
EXTENDS MainWindow

Url(s, u, f) == [site |-> s, user |-> u, file |-> f]

MCFtp == {"ftp"}
MCBatches == [x \in {"f[1-2]"} |-> <<"f1", "f2">>]

One == {Url("web", "none", "a")}
Pattern == {Url("web", "none", "f[1-2]"), Url("ftp", "none", "dir")}
MCTexts == One \cup Pattern

Running == INSTANCE MainWindow WITH Texts <- One
Entering == INSTANCE MainWindow WITH Texts <- Pattern, Limit <- 0, Types <- {"running"}

VARIABLE entering \* which of the two

MCInit == /\ entering \in BOOLEAN
          /\ IF entering THEN Entering!Init ELSE Running!Init
MCNext == /\ UNCHANGED entering
          /\ IF entering THEN Entering!Next ELSE Running!Next
MCSpec == MCInit /\ [][MCNext]_<<entering, vars>>
=============================================================================
