------------------------------ MODULE MCFrontEnd ------------------------------
(* The request side for TLC: small vocabularies, frames, codes, pictures and payloads. *)
EXTENDS FrontEnd, Integers, Sequences, TLC

-------------------------------------------------------------------------------
(* The token stream: what one token may hold.                                 *)

\* Characters cut between tokens, around the stop sequence.
Chars == {<<"a">>, <<"b">>, <<"u1">>, <<"u2">>, <<"b", "u1">>}
\* Tags cut between tokens.
TagCuts == {<<"a">>, <<"<">>, <<"think>">>, <<"think>", "a", "<">>, <<"/think>">>, <<"tool_call>">>}
\* Calls, complete, unnamed, lost and followed by more.
Calls == {<<"<", "tool_call>", "<", "function=", "a", ">">>, <<"<", "tool_call>", "<", "function=", "a", ">", "<", "parameter=", "a", ">">>,
          <<"<", "tool_call>", "<">>, <<"parameter=", "a", ">">>, <<"<", "/parameter>">>, <<"<", "/tool_call>">>,
          <<"a", "<">>, <<"/tool_call>">>, <<"<", "think>", "a">>}

MCVocabs == {Chars, TagCuts, Calls}
MCStops == {<<"a", "b">>}

-------------------------------------------------------------------------------
(* JPEG: blocks of 2 x 2 samples, three coefficients. Frames with every       *)
(* sampling factor are laid out; a few small ones are scanned.                *)

Samp(a, b) == [h |-> a, v |-> b, tq |-> 0]
MCFrameComps == {<<Samp(1, 1)>>, <<Samp(2, 2)>>, <<Samp(2, 2), Samp(1, 1), Samp(1, 1)>>,
                 <<Samp(2, 1), Samp(1, 1), Samp(1, 1)>>, <<Samp(1, 2), Samp(1, 1), Samp(1, 2)>>,
                 <<Samp(4, 1), Samp(1, 1), Samp(2, 1)>>, <<Samp(1, 4), Samp(1, 2), Samp(1, 1)>>,
                 <<Samp(3, 1), Samp(2, 1), Samp(1, 1)>>, <<Samp(1, 1), Samp(1, 1)>>,
                 <<Samp(4, 4), Samp(2, 2), Samp(1, 1)>>}
Gray == <<<<1, 1>>>>
Ycc420 == <<<<2, 2>>, <<1, 1>>, <<1, 1>>>>
MCScanFrames == {<<3, 1, Gray, TRUE>>, <<7, 1, Gray, TRUE>>, <<2, 2, Ycc420, TRUE>>, <<2, 2, Ycc420, FALSE>>}
Scan(cs, ss, se, ah, al) == [comps |-> cs, ss |-> ss, se |-> se, ah |-> ah, al |-> al]
MCScans == {Scan(<<1>>, 0, 0, 0, 1), Scan(<<1>>, 0, 0, 1, 0), Scan(<<1, 2, 3>>, 0, 0, 0, 0), Scan(<<1, 2, 3>>, 0, 2, 0, 0),
            Scan(<<1>>, 1, 2, 0, 1), Scan(<<1>>, 1, 2, 1, 0),
            Scan(<<1>>, 0, 1, 0, 0), Scan(<<1>>, 2, 1, 0, 0)}

-------------------------------------------------------------------------------
(* Inflate: bytes of two bits, a bit buffer of six bytes, codes of three bits. *)

MCFixedLit == 0 :> 2 @@ 1 :> 2 @@ 2 :> 3 @@ 3 :> 3 @@ 4 :> 3 @@ 5 :> 3
MCFixedDist == [c \in 0..3 |-> 2]

MCLenBase == <<2, 3>>
MCLenExtra == <<0, 1, 0>>
MCDistBase == <<1, 2>>
MCDistExtra == <<0, 1>>
MCShapes == {<<3, 1>>, <<4, 2>>, <<6, 1>>}

-------------------------------------------------------------------------------
(* PNG: sizes that leave passes empty, and every colour type.                 *)

Entry(t, y, v) == [tag |-> t, type |-> y, value |-> v]
MCTags == {<<Entry("orientation", "short", v)>> : v \in {0, 2, 3, 4, 5, 6, 7, 8}}
          \cup {<<Entry("orientation", "short", 6), Entry("orientation", "bytes", 0)>>,
                <<Entry("orientation", "short", 3), Entry("other", "short", 8), Entry("orientation", "unknown", 5)>>}

MCPngSizes == {<<0, 1>>, <<3, 2>>, <<5, 5>>, <<11, 3>>}
MCFormats == {<<0, 1>>, <<0, 16>>, <<2, 8>>, <<3, 2>>, <<4, 8>>, <<6, 8>>, <<6, 4>>}
===============================================================================
