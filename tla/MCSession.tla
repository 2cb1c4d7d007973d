------------------------------ MODULE MCSession ------------------------------
(***************************************************************************)
(* The servers, replies and proxies of the run Session.                    *)
(***************************************************************************)
EXTENDS Session

(* Six kinds of FTP servers. *)
Plain == [chatty |-> TRUE, pass |-> TRUE, type |-> TRUE, rest |-> TRUE,
          size |-> TRUE, list |-> TRUE, start |-> 150, bare |-> 150]
NoSize == [Plain EXCEPT !.size = FALSE]
NoRest == [NoSize EXCEPT !.rest = FALSE, !.pass = FALSE, !.chatty = FALSE]
Odd == [NoSize EXCEPT !.list = FALSE, !.pass = FALSE]
Strict == [Plain EXCEPT !.type = FALSE, !.bare = 425]
Early == [NoSize EXCEPT !.start = 125]
MCServers == {Plain, NoSize, NoRest, Odd, Strict, Early}

(* a may redirect to b or to the FTP URL f, say nothing about the length,  *)
(* ask for a GET by 304, refuse, or answer; b refuses, answers, or sends   *)
(* back to a.                                                              *)
Len2 == [key |-> "length", value |-> FileLen]
Len9 == [key |-> "length", value |-> 9] \* of an error page
To(u) == [key |-> "location", value |-> u]
Other == [key |-> "other"]
R(c, h) == [code |-> c, head |-> h]
MCReplies ==
  [a |-> {R(200, <<Other, Len2>>), R(200, <<Other>>), R(302, <<To("b"), Len9>>),
          R(302, <<To("f")>>), R(304, <<Other, Other>>),
          R(304, <<Other, Other, Other, Len9>>), R(-1, << >>),
          R(404, <<Other>>), R(503, <<Other, Other, Other, Len9>>)},
   b |-> {R(206, <<Len2>>), R(200, <<Other>>), R(500, <<Other, Len9>>),
          R(302, <<To("a")>>)},
   f |-> {R(-1, << >>)}]

(* Nothing, or the end of some other reply. *)
MCStack == {<< >>, <<Other, Other, [key |-> "status", value |-> 500], Len9>>,
            <<Other, Other, To("b")>>}

MCProxies == [v5 : {"none", "open", "login", "other"}, v4a : BOOLEAN,
              v4 : BOOLEAN, knows : BOOLEAN, reaches : BOOLEAN, speaks : BOOLEAN]
=============================================================================
