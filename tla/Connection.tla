------------------------------ MODULE Connection ------------------------------
(***************************************************************************)
(* One connection of the API server, as its thread and its client see it:  *)
(* the module Stream under names of its own, with what it promises, so     *)
(* that other parts of the server can stand beside it.                     *)
(***************************************************************************)
EXTENDS Sequences

CONSTANTS Vocabs, Stops, MaxTokens

\* Tokens and stop sequences are texts.
ASSUME StreamAssumption == /\ \A vocab \in Vocabs : vocab \subseteq Seq(STRING)
                           /\ Stops \subseteq Seq(STRING)

VARIABLES thread, req, toks, pending, fin, text, hold, span, blocks, back, cancel, broken, outbox, sent, par

stream == <<thread, req, toks, pending, fin, text, hold, span, blocks, back, cancel, broken, outbox, sent, par>>

Str == INSTANCE Stream WITH pc <- thread

-------------------------------------------------------------------------------
\* "A stop sequence is never emitted early" (generate), up to the tail of a generation that ended inside a
\* character, which flush_pending holds back before it looks for stop sequences.
NoStopShown == Str!NoStopShown

\* What was streamed is what parser::parse makes of the whole text, however the deltas cut the tags, and a stream
\* that was not cut ends with one finish event and one [DONE] (chat.rs, StreamSplit and stream_events).
StreamTrue == Str!StreamTrue

\* Every request ends, with a response or with its connection, also when the client leaves, the engine fails or
\* calls are lost; the only thread that does not end is one stuck in parser::parse (chat.rs, parser.rs).
StreamEnds == Str!RequestEnds
===============================================================================
