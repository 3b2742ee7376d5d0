-------------------------------- MODULE Stream --------------------------------
(* One connection of the API server: a chat request becomes a job, its tokens    *)
(* become text (CoordinatorEngine::generate, flush_pending), the text becomes    *)
(* events (stream_events, StreamSplit) and, once complete, is parsed for think    *)
(* blocks and tool calls (parser::parse).                                        *)
(*                                                                               *)
(* Text is a sequence of letters.  A tag is a "<" and a letter that names it, so *)
(* a tag can be cut between two tokens; "u1" "u2" are the bytes of a two-byte    *)
(* character, "u" is that character and "?" is U+FFFD.                           *)
EXTENDS Integers, Sequences, FiniteSets, SequencesExt, FiniteSetsExt

CONSTANTS Vocabs,       \* each a set of tokens, which are byte sequences
          Stops,        \* the request's stop sequences
          MaxTokens     \* the values of max_tokens a request may carry

VARIABLES pc,        \* where the connection's thread is
          req,       \* [stream, max, usage, vocab] of the request
          toks,      \* number of tokens generated, gen_ids.len()
          pending,   \* bytes of the tokens in `pending`
          fin,       \* finish_reason once it is decided, else ""
          text,      \* full_text
          hold, span, blocks,       \* StreamSplit
          back,      \* where push returns to: "check" or "finish"
          cancel,    \* the request's cancel flag
          broken,    \* writes to the client fail
          outbox,    \* events still to be written by the current step
          sent,      \* events the client received
          par        \* parser::parse: [i, at, c, content, reasons, calls, err]

vars == <<pc, req, toks, pending, fin, text, hold, span, blocks, back, cancel, broken, outbox, sent, par>>
split == <<hold, span, blocks, back>>

Tag(name) == <<"<", name>>
ThinkOpen == Tag("think>")
ThinkClose == Tag("/think>")
ToolOpen == Tag("tool_call>")
ToolClose == Tag("/tool_call>")
FnOpen == Tag("function=")
FnClose == Tag("/function>")
ParOpen == Tag("parameter=")
ParClose == Tag("/parameter>")
\* Letters that contain a '>'.
Gt == {">", "think>", "/think>", "tool_call>", "/tool_call>", "/function>", "/parameter>"}

At(s, i, t) == i + Len(t) - 1 <= Len(s) /\ SubSeq(s, i, i + Len(t) - 1) = t
\* str::find from position i on: the first place of t, or 0.
FindFrom(s, i, t) == LET at == {k \in i..Len(s) : At(s, k, t)} IN IF at = {} THEN 0 ELSE Min(at)
Before(s, i) == SubSeq(s, 1, i - 1)
From(s, i) == SubSeq(s, i, Len(s))

-------------------------------------------------------------------------------
(* Decoding *)

\* The first byte that from_utf8 refuses, or 0.
BadByte(b) == LET bad == {i \in 1..Len(b) : \/ b[i] = "u1" /\ ~At(b, i, <<"u1", "u2">>)
                                            \/ b[i] = "u2" /\ ~(i > 1 /\ b[i - 1] = "u1")}
              IN  IF bad = {} THEN 0 ELSE Min(bad)

\* error_len() is None: the only fault is a character cut off at the end.
Incomplete(b) == BadByte(b) = Len(b) /\ Len(b) > 0 /\ b[Len(b)] = "u1"

\* String::from_utf8_lossy
Lossy(b) == FlattenSeq([i \in 1..Len(b) |->
                CASE b[i] = "u1" -> IF At(b, i, <<"u1", "u2">>) THEN <<"u">> ELSE <<"?">>
                  [] b[i] = "u2" -> IF i > 1 /\ b[i - 1] = "u1" THEN <<>> ELSE <<"?">>
                  [] OTHER -> <<b[i]>>])

StopAt(t) == LET at == {FindFrom(t, 1, s) : s \in Stops} \ {0} IN IF at = {} THEN 0 ELSE Min(at)

\* Mutant: only the whole pending text is compared with the stop sequences.
EndsInPrefix_Whole(t) == \E s \in Stops : \E n \in 1..Len(s) - 1 : SubSeq(s, 1, n) = t
EndsInPrefix(t) == \E s \in Stops : \E n \in 1..Len(s) - 1 : IsSuffix(SubSeq(s, 1, n), t)

\* flush_pending: what to emit, whether a stop sequence was hit, what stays pending.
Flush(b) ==
  LET t == Lossy(b)
      p == StopAt(t)
  IN  IF b = <<>> \/ Incomplete(b) THEN [emit |-> <<>>, stop |-> FALSE, left |-> b]
      ELSE IF p > 0 THEN [emit |-> Before(t, p), stop |-> TRUE, left |-> <<>>]
      ELSE IF EndsInPrefix(t) THEN [emit |-> <<>>, stop |-> FALSE, left |-> b]
      ELSE [emit |-> t, stop |-> FALSE, left |-> <<>>]

-------------------------------------------------------------------------------
(* The request: handle, generate *)

(* What goes to the client *)
RoleEvent == [k |-> "role", v |-> <<>>]
FinishEvent(reason) == [k |-> "finish", v |-> reason]
UsageEvent(n) == [k |-> "usage", v |-> n]
DoneEvent == [k |-> "done", v |-> <<>>]
Delta(k, t) == IF t = <<>> THEN <<>> ELSE <<[k |-> k, v |-> t]>>
\* A call's header and its arguments.
CallEvents(n) == [i \in 1..n |-> [k |-> "call", v |-> i]]
\* The buffered response: no content beside calls.
Message(p) == [k |-> "message", v |-> IF p.calls > 0 THEN <<>> ELSE p.content]
ApiError(status) == [k |-> "error", v |-> status]

NoParse == [i |-> 1, at |-> "top", c |-> 1, content |-> <<>>, reasons |-> <<>>, calls |-> 0, err |-> FALSE]
NoRequest == [stream |-> FALSE, max |-> 1, usage |-> FALSE, vocab |-> {}]

\* Nothing of a request outlives it in its thread.
Fresh == /\ pc' = "idle" /\ req' = NoRequest /\ outbox' = <<>> /\ toks' = 0 /\ pending' = <<>> /\ fin' = "" /\ text' = <<>>
         /\ hold' = <<>> /\ span' = "content" /\ blocks' = 0 /\ back' = "check"
         /\ cancel' = FALSE /\ sent' = <<>> /\ par' = NoParse

Init == /\ pc = "idle" /\ req = NoRequest /\ toks = 0 /\ pending = <<>> /\ fin = "" /\ text = <<>>
        /\ hold = <<>> /\ span = "content" /\ blocks = 0 /\ back = "check"
        /\ cancel = FALSE /\ broken = FALSE /\ outbox = <<>> /\ sent = <<>> /\ par = NoParse

\* The request line, its headers and its body, or the client closes.
ReadRequest ==
  /\ pc = "idle"
  /\ pc' = "handle"
  /\ \E s, u \in BOOLEAN, m \in MaxTokens, v \in Vocabs : req' = [stream |-> s, max |-> m, usage |-> u, vocab |-> v]
  /\ UNCHANGED <<toks, pending, fin, text, split, cancel, broken, outbox, sent, par>>

\* A bad body, an unknown path, images without an encoder, too long a prompt,
\* a full queue: one response with an error status and no generation.
Refuse ==
  /\ pc = "handle"
  /\ \E status \in {400, 404, 429} : outbox' = <<ApiError(status)>>
  /\ pc' = "write"
  /\ UNCHANGED <<req, toks, pending, fin, text, split, cancel, broken, sent, par>>

\* max_tokens is clamped to 1..65536; the role event goes first.
Begin ==
  /\ pc = "handle"
  /\ req' = [req EXCEPT !.max = Max({req.max, 1})]
  /\ IF req.stream /\ broken THEN pc' = "gone" /\ UNCHANGED sent
     ELSE pc' = "wait" /\ sent' = IF req.stream THEN <<RoleEvent>> ELSE <<>>
  /\ UNCHANGED <<toks, pending, fin, text, split, cancel, broken, outbox, par>>

\* generate returns an error: CancelOnDrop tells the scheduler, the stream ends.
Failed == /\ cancel' = TRUE
          /\ pc' = "write"
          /\ outbox' = IF req.stream THEN <<FinishEvent("error"), DoneEvent>>
                       ELSE <<ApiError(500)>>

\* Bad sampling, mismatched images, a stopped scheduler or an error of the job.
EngineFails ==
  /\ pc = "wait"
  /\ Failed
  /\ UNCHANGED <<req, toks, pending, fin, text, split, broken, sent, par>>

\* recv_timeout: 15 s without a token; an empty delta and a look at cancel.
Keepalive ==
  /\ pc = "wait"
  /\ IF req.stream /\ broken THEN Failed ELSE UNCHANGED <<pc, cancel, outbox>>
  /\ UNCHANGED <<req, toks, pending, fin, text, split, broken, sent, par>>

\* emit_delta: the text joins full_text and, streaming, the split's hold.
Emit(t, to) ==
  /\ text' = text \o t
  /\ IF t = <<>> \/ ~req.stream THEN pc' = to /\ UNCHANGED split
     ELSE pc' = "push" /\ hold' = hold \o t /\ back' = to /\ UNCHANGED <<span, blocks>>

\* A token arrives: the end-of-sequence token, or one with text.
Token ==
  /\ pc = "wait"
  /\ toks' = toks + 1
  /\ \/ /\ fin' = "stop" /\ pc' = "tail"
        /\ UNCHANGED <<pending, text, split>>
     \/ \E t \in req.vocab :
          LET f == Flush(pending \o t)
          IN  /\ pending' = f.left
              /\ fin' = IF f.stop THEN "stop" ELSE ""
              /\ Emit(f.emit, "check")
  /\ UNCHANGED <<req, cancel, broken, outbox, sent, par>>

\* After a token: stopped, at the length cap, cancelled, or the next token.
Check ==
  /\ pc = "check"
  /\ \/ fin = "stop" /\ pc' = "tail" /\ UNCHANGED <<fin, cancel, outbox>>
     \/ fin = "" /\ toks >= req.max /\ fin' = "length" /\ pc' = "tail" /\ UNCHANGED <<cancel, outbox>>
     \/ fin = "" /\ toks < req.max /\ cancel /\ Failed /\ UNCHANGED fin
     \/ fin = "" /\ toks < req.max /\ ~cancel /\ pc' = "wait" /\ UNCHANGED <<fin, cancel, outbox>>
  /\ UNCHANGED <<req, toks, pending, text, split, broken, sent, par>>

\* What is still pending is text after all; generate returns.
FlushTail ==
  /\ pc = "tail"
  /\ Emit(Lossy(pending), "finish")
  /\ pending' = <<>>
  /\ UNCHANGED <<req, toks, fin, cancel, broken, outbox, sent, par>>

-------------------------------------------------------------------------------
(* Events: StreamSplit *)

\* Mutant: nothing is held back.
HeldSuffix_None(s, tags) == 0

\* held_suffix: the longest end of the hold that may become one of the tags.
HeldSuffix(s, tags) == LET n == {k \in 1..Len(s) : \E t \in tags : IsPrefix(From(s, Len(s) - k + 1), t)}
                       IN  IF n = {} THEN 0 ELSE Max(n)

\* One turn of push's loop: [ev, hold, span, block, again].
Turn ==
  LET close == FindFrom(hold, 1, ThinkClose)
      think == FindFrom(hold, 1, ThinkOpen)
      tool == FindFrom(hold, 1, ToolOpen)
      flush(tags) == Len(hold) - HeldSuffix(hold, tags)
  IN  CASE span = "tool" -> [ev |-> <<>>, hold |-> hold, span |-> span, block |-> 0, again |-> FALSE]
        [] span = "think" /\ close > 0 ->
             [ev |-> Delta("reasoning", Before(hold, close)), hold |-> From(hold, close + 2), span |-> "content",
              block |-> 0, again |-> TRUE]
        [] span = "think" /\ close = 0 ->
             [ev |-> Delta("reasoning", Before(hold, flush({ThinkClose}) + 1)),
              hold |-> From(hold, flush({ThinkClose}) + 1), span |-> span, block |-> 0, again |-> FALSE]
        [] span = "content" /\ think > 0 /\ (tool = 0 \/ think < tool) ->
             [ev |-> Delta("content", Before(hold, think)), hold |-> From(hold, think + 2), span |-> "think",
              block |-> 1, again |-> TRUE]
        [] span = "content" /\ tool > 0 /\ (think = 0 \/ tool < think) ->
             [ev |-> Delta("content", Before(hold, tool)), hold |-> From(hold, tool), span |-> "tool",
              block |-> 0, again |-> TRUE]
        [] OTHER ->
             [ev |-> Delta("content", Before(hold, flush({ThinkOpen, ToolOpen}) + 1)),
              hold |-> From(hold, flush({ThinkOpen, ToolOpen}) + 1), span |-> span, block |-> 0, again |-> FALSE]

\* A write that fails ends push where it is and sets cancel.
Push ==
  /\ pc = "push"
  /\ IF broken /\ Turn.ev # <<>>
     THEN cancel' = TRUE /\ pc' = back /\ UNCHANGED <<sent, hold, span, blocks>>
     ELSE /\ sent' = sent \o Turn.ev
          /\ hold' = Turn.hold /\ span' = Turn.span /\ blocks' = blocks + Turn.block
          /\ pc' = IF Turn.again THEN pc ELSE back
          /\ UNCHANGED cancel
  /\ UNCHANGED <<req, toks, pending, fin, text, back, broken, outbox, par>>

\* StreamSplit::finish, once generate has returned (CancelOnDrop: cancel is set).
Finish ==
  /\ pc = "finish"
  /\ cancel' = TRUE
  /\ IF ~req.stream \/ span = "tool" \/ hold = <<>> THEN pc' = "parse" /\ UNCHANGED <<sent, hold>>
     ELSE IF broken THEN pc' = "gone" /\ UNCHANGED <<sent, hold>>
     ELSE /\ sent' = Append(sent, [k |-> IF span = "think" THEN "reasoning" ELSE "content", v |-> hold])
          /\ hold' = <<>> /\ pc' = "parse"
  /\ UNCHANGED <<req, toks, pending, fin, text, span, blocks, back, broken, outbox, par>>

-------------------------------------------------------------------------------
(* parser::parse *)

EndOfText == Len(text) + 1
GtFrom(i) == LET at == {k \in i..Len(text) : text[k] \in Gt} IN IF at = {} THEN 0 ELSE Min(at)

\* Mutant: the cursor stays where the closing tag was looked for.
Lost_Stays == par' = [par EXCEPT !.at = "top"]
\* The lost call takes the rest of the text.
Lost == par' = [par EXCEPT !.i = EndOfText, !.at = "top"]

ParseTop ==
  /\ pc = "parse" /\ par.at = "top" /\ par.i < EndOfText
  /\ LET close == FindFrom(text, par.i, ThinkClose)
         fn == FindFrom(text, par.i + 2, FnOpen)
         gt == GtFrom(fn + 2)
     IN  CASE At(text, par.i, ThinkOpen) ->
                par' = [par EXCEPT !.i = IF close = 0 THEN EndOfText ELSE close + 2,
                                   !.reasons = Append(@, IF close = 0 THEN From(text, par.i + 2)
                                                         ELSE SubSeq(text, par.i + 2, close - 1))]
           [] At(text, par.i, ToolOpen) /\ fn = 0 ->
                par' = [par EXCEPT !.i = EndOfText, !.err = FindFrom(text, par.i + 2, ParOpen) > 0]
           [] At(text, par.i, ToolOpen) /\ fn > 0 /\ gt = 0 -> Lost
           [] At(text, par.i, ToolOpen) /\ fn > 0 /\ gt > 0 ->
                par' = IF gt = fn + 2 /\ text[gt] = ">" THEN [par EXCEPT !.i = EndOfText, !.err = TRUE]
                       ELSE [par EXCEPT !.at = "call", !.c = gt + 1]
           [] OTHER -> par' = [par EXCEPT !.i = @ + 1, !.content = Append(@, text[par.i])]
  /\ UNCHANGED <<pc, req, toks, pending, fin, text, split, cancel, broken, outbox, sent>>

\* The call's end: its closing tag is there, or the call is lost.
Close(c) == par' = IF At(text, c, ToolClose) THEN [par EXCEPT !.i = c + 2, !.at = "top", !.calls = @ + 1]
                   ELSE [par EXCEPT !.i = EndOfText, !.at = "top"]

\* Stray text: on to the next '<', which may be the one it starts with.
Resync(c) == LET lt == FindFrom(text, c, <<"<">>) IN IF lt = 0 THEN EndOfText ELSE lt

\* One turn of parse_call's loop over the parameters.
ParseCall ==
  /\ pc = "parse" /\ par.at = "call"
  /\ LET c == par.c
         key == GtFrom(c + 2)
         val == FindFrom(text, key + 1, ParClose)
     IN  CASE At(text, c, FnClose) -> Close(c + 2)
           [] At(text, c, ToolClose) \/ c = EndOfText -> Close(c)
           [] At(text, c, ParOpen) /\ key = 0 -> Lost
           [] At(text, c, ParOpen) /\ key > 0 /\ val = 0 -> Lost
           [] At(text, c, ParOpen) /\ key > 0 /\ val > 0 -> par' = [par EXCEPT !.c = val + 2]
           [] At(text, c, ParClose) -> par' = [par EXCEPT !.c = c + 2]
           [] OTHER -> par' = [par EXCEPT !.c = Resync(c)]
  /\ UNCHANGED <<pc, req, toks, pending, fin, text, split, cancel, broken, outbox, sent>>

-------------------------------------------------------------------------------
(* The end of the response *)

Reason == IF par.calls > 0 THEN "tool_calls" ELSE fin

\* Think blocks not streamed live, skip(split.think_blocks).
Left == SubSeq(par.reasons, blocks + 1, Len(par.reasons))

Parsed ==
  /\ pc = "parse" /\ par.at = "top" /\ par.i = EndOfText
  /\ outbox' = IF req.stream
               THEN IF par.err THEN <<FinishEvent("error"), DoneEvent>>
                    ELSE [i \in 1..Len(Left) |-> [k |-> "reasoning", v |-> Left[i]]]
                         \o CallEvents(par.calls) \o <<FinishEvent(Reason)>>
                         \o (IF req.usage THEN <<UsageEvent(toks)>> ELSE <<>>) \o <<DoneEvent>>
               ELSE IF par.err THEN <<ApiError(400)>>
                    ELSE <<Message(par)>>
  /\ pc' = "write"
  /\ UNCHANGED <<req, toks, pending, fin, text, split, cancel, broken, sent, par>>

\* One event, or a whole buffered response, is written; a failed write ends the
\* connection.
Write ==
  /\ pc = "write"
  /\ \/ /\ outbox # <<>> /\ ~broken
        /\ sent' = Append(sent, Head(outbox)) /\ outbox' = Tail(outbox)
        /\ UNCHANGED pc
     \/ /\ outbox = <<>>
        /\ pc' = "done"
        /\ UNCHANGED <<sent, outbox>>
     \/ /\ outbox # <<>> /\ broken
        /\ pc' = "gone" /\ outbox' = <<>>
        /\ UNCHANGED sent
  /\ UNCHANGED <<req, toks, pending, fin, text, split, cancel, broken, par>>

\* Keep-alive: the next request of the same connection.
KeepAlive == pc = "done" /\ Fresh /\ UNCHANGED broken

\* The thread has ended; another connection is accepted.
Accept == pc \in {"gone", "done"} /\ Fresh /\ broken' = FALSE

\* From here on writes to the client fail.
Leave == /\ ~broken /\ pc \notin {"idle", "gone"} /\ broken' = TRUE
         /\ UNCHANGED <<pc, req, toks, pending, fin, text, split, cancel, outbox, sent, par>>

Handler == \/ Refuse \/ Begin \/ Token \/ Check \/ FlushTail \/ Push \/ Finish \/ ParseTop \/ ParseCall \/ Parsed \/ Write

Next == ReadRequest \/ Handler \/ EngineFails \/ Keepalive \/ KeepAlive \/ Accept \/ Leave

\* The thread runs and the scheduler answers its job (Scheduler's JobEnds).
Spec == Init /\ [][Next]_vars /\ WF_vars(Handler)

-------------------------------------------------------------------------------
(* Properties *)

Places(k) == {i \in 1..Len(sent) : sent[i].k = k}
Said(k) == FlattenSeq([i \in 1..Len(sent) |-> IF sent[i].k = k THEN sent[i].v ELSE <<>>])
Has(t, s) == FindFrom(t, 1, s) > 0

\* "A stop sequence is never emitted early" (generate): the text given out never
\* contains one, however the tokens cut it, with one exception: the tail of a
\* generation that ended inside a character, since flush_pending looks for an
\* incomplete character before it looks for stop sequences.
NoStopShown == \A s \in Stops : Has(text, s) => fin # "" /\ Last(text) = "?"

\* What was streamed is what parser::parse makes of the whole text, however the
\* deltas cut the tags: the reasoning exactly, the content exactly (up to the
\* first call if there is one), no markup in either, and a stream that was not
\* cut ends with one finish event and one [DONE], the last.
StreamTrue ==
  /\ \A i \in 1..Len(sent) : sent[i].k \in {"content", "reasoning"} =>
       \A tag \in IF sent[i].k = "content" THEN {ThinkOpen, ToolOpen} ELSE {ThinkClose} : ~Has(sent[i].v, tag)
  /\ pc = "done" /\ Places("role") # {} =>
       /\ Places("done") = {Len(sent)}
       /\ \E f \in 1..Len(sent) :
            /\ Places("finish") = {f}
            /\ sent[f].v # "error" =>
                 /\ Said("reasoning") = FlattenSeq(par.reasons)
                 /\ IsPrefix(Said("content"), par.content)
                 /\ par.calls = 0 => Said("content") = par.content

\* parse_call stands before a '<' that opens no tag it knows: it reports stray text
\* and looks for the next '<', which is this one.
Stuck == /\ pc = "parse" /\ par.at = "call"
         /\ At(text, par.c, <<"<">>)
         /\ \A tag \in {FnClose, ToolClose, ParOpen, ParClose} : ~At(text, par.c, tag)

\* Every request ends, with a response or with its connection, also when the
\* client leaves at any moment, the engine fails or calls are lost; the only
\* thread that does not end is one stuck as above.
RequestEnds == (pc = "handle") ~> (pc \in {"done", "gone"} \/ Stuck)

\* "Stray text after a parameter's first closing tag: report it, then resync at
\* the next tag" (parse_call): the parser gets to the end of every text.
ParseEnds == (pc = "parse") ~> (pc # "parse")

===============================================================================
