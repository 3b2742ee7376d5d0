------------------------------- MODULE MCStream -------------------------------
(* A vocabulary for TLC: a call that holds a tag the parser does not know. *)
EXTENDS Stream

MCStrayVocabs == {{<<"<", "tool_call>", "<", "function=", "a", ">">>, <<"<", "a">>, <<"<", "/tool_call>">>}}
MCStops == {<<"a", "b">>}
MCStrayMaxTokens == {3}
===============================================================================
