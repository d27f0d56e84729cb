---------------------------- MODULE MCWorkspaceUi ----------------------------
(***************************************************************************)
(* Two chats and one that may be created, eight scripts of the user, three  *)
(* handlers at a time and one lost call.                                   *)
(***************************************************************************)
EXTENDS WorkspaceUi

MCChats == {"a", "b", "c"}
MCInitialChats == {"a", "b"}
MCHeld == [a |-> <<"complete">>, b |-> <<>>]
MCScripts ==
    { <<<<"ask", "a">>, <<"open", "b">>, <<"open", "a">>>>,
      <<<<"ask", "a">>, <<"ask", "a">>>>,
      <<<<"inspect", "a">>, <<"open", "b">>, <<"open", "a">>, <<"inspect", "a">>>>,
      <<<<"ask", "a">>, <<"inspect", "a">>, <<"open", "b">>>>,
      <<<<"create", "c">>, <<"ask", "c">>, <<"inspect", "c">>>>,
      <<<<"ask", "a">>, <<"create", "c">>, <<"open", "a">>>>,
      <<<<"inspect", "a">>, <<"create", "c">>, <<"open", "b">>>>,
      <<<<"ask", "a">>, <<"delete", "a">>, <<"open", "b">>>> }
=============================================================================
