--------------------------- MODULE MCChatSession ---------------------------
(* TLC instances of ChatSession: a session with one chat or with two. *)
EXTENDS ChatSession, TLC
OneChat == {1}
TwoChats == {1, 2}
Requests == {1, 2}
OneRequest == {1}
=============================================================================
