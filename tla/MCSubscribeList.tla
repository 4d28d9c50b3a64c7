--------------------------- MODULE MCSubscribeList ---------------------------
(* Topics over two characters, two characters long at most. *)
EXTENDS SubscribeList
MCTopics == {<<"a">>, <<"a", "b">>, <<"b">>}
=============================================================================
