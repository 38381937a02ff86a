--------------------------- MODULE MCAgentSession ---------------------------
(* Answers without tool calls, with one and with two; one of the two names *)
(* no tool, and some come with a call that is not of a function.           *)
EXTENDS AgentSession

MCCallLists == {<<>>, <<"x">>, <<"a">>, <<"a", "x", "b">>}

=============================================================================
