----------------------------- MODULE SpecDecode -----------------------------
(***************************************************************************)
(* Speculative decoding (dforward.rs, spec_step; the scheduler's decode    *)
(* step around it in api.rs).  Each step verifies a block for every        *)
(* running request: its last token and drafts, from the drafter or from a  *)
(* copy window.  The target selects a token after every row, the longest   *)
(* prefix of drafts it agrees with is kept, the other rows are cut off the *)
(* KV, and the accepted rows become the drafter's context.                 *)
(*                                                                         *)
(* The drafter may draft anything and the length policy may verify any     *)
(* number of its drafts the budget allows.  The target's selection after a *)
(* context is Select: the argmax, or for a sampled request the draw at the *)
(* position of the token in its output, which its seed determines.         *)
(***************************************************************************)
EXTENDS CopyWindow

CONSTANTS
  Requests,
  Token,
  Prompt,          \* each request's prompt
  Budget,          \* each request's max_tokens
  Sampled,         \* requests that draw; the others are greedy
  Select(_, _, _), \* request, context, position in the output -> token
  Eos,             \* end-of-text tokens
  Drafts,          \* DRAFTS
  DraftWindow,     \* WINDOW: positions a block query sees back
  Ring,            \* RING: rows of the drafter's cache
  CopyOn           \* MIMO26_COPY

ASSUME SpecAssumption ==
  /\ Prompt \in [Requests -> Seq(Token) \ {<<>>}]
  /\ Budget \in [Requests -> Nat \ {0}]
  /\ Drafts \in Nat \ {0} /\ DraftWindow \in Nat \ {0}
  /\ Ring \in Nat /\ Ring >= DraftWindow + Drafts
  /\ CopyOn \in BOOLEAN

VARIABLES
  req,  \* each request: state, tokens, KV rows, count of tokens sent, the
        \* drafter's cache and the copy index
  spec  \* whether the scheduler decodes speculatively, settled at start-up

vars == <<req, spec>>

Active == {r \in Requests : req[r].st = "active"}

\* A row of the drafter's cache: the context it was computed from, or none for
\* a row of a draft block and for one never written.
NoRow == <<>>
EmptyRing == [s \in 0..(Ring - 1) |-> NoRow]

\* Positions from..to of the cache (from 0) written with the rows of `toks`.
RingWith(ring, from, to, toks) ==
  [s \in 0..(Ring - 1) |->
     LET ps == {p \in from..to : p % Ring = s}
     IN  IF ps = {} THEN ring[s] ELSE SubSeq(toks, 1, Max(ps) + 1)]

\* The block's own rows, written while it drafts at position `start`.
RingDrafted(ring, start) ==
  [s \in 0..(Ring - 1) |->
     IF \E p \in start..(start + Drafts) : p % Ring = s THEN NoRow ELSE ring[s]]

Waiting == [st |-> "waiting", hist |-> <<>>, kv |-> <<>>, gen |-> 0,
            ring |-> EmptyRing, index |-> EmptyIndex]

Init ==
  /\ req = [r \in Requests |-> Waiting]
  /\ spec \in BOOLEAN

State(done) == IF done THEN "ended" ELSE "active"

\* A prefilled request with its first token; the prompt's tail is the
\* drafter's context.
Started(r, gone) ==
  LET p == Prompt[r]
      t == Select(r, p, 0)
  IN  [st |-> State(gone \/ t \in Eos \/ Budget[r] <= 1),
       hist |-> Append(p, t), kv |-> p, gen |-> 1,
       ring |-> RingWith(EmptyRing, Max({0, Len(p) - DraftWindow}), Len(p) - 1, p),
       index |-> EmptyIndex]

Start(r, gone) ==
  /\ req[r].st = "waiting"
  /\ req' = [req EXCEPT ![r] = Started(r, gone)]
  /\ UNCHANGED spec
-----------------------------------------------------------------------------
(* One request's part of a speculative step.                               *)

Least(a, b) == IF a <= b THEN a ELSE b

\* "Never draft past the token budget: a step emits at most k + 1."
Allowed(r, x) == Least(Budget[r] - x.gen - 1, Drafts)

Copies(r, x) ==
  IF CopyOn /\ r \notin Sampled
  THEN Propose(IndexAfter(x.index, x.hist, Allowed(r, x)), x.hist, Allowed(r, x))
  ELSE <<>>

CopyIndexAfter(r, x) ==
  IF CopyOn /\ r \notin Sampled THEN IndexAfter(x.index, x.hist, Allowed(r, x))
  ELSE x.index

\* The drafts that may be verified: the copy window, else as many of the
\* drafter's as the policy says.
DraftsOf(r, x) ==
  IF Copies(r, x) # <<>> THEN {Copies(r, x)}
  ELSE UNION {[1..n -> Token] : n \in 0..Allowed(r, x)}

Block(x, d) == <<x.hist[Len(x.hist)]>> \o d

\* Mutant: every row draws at the step's first position.
Selection_Fixed(r, x, b) ==
  [j \in 1..Len(b) |-> Select(r, x.kv \o SubSeq(b, 1, j), x.gen)]

\* verify_batch: the target's selection after every row of the block.
Selection(r, x, b) ==
  [j \in 1..Len(b) |-> Select(r, x.kv \o SubSeq(b, 1, j), x.gen + j - 1)]

\* The number of drafts accepted: the target agrees with them and not with the
\* next.
Accepts(b, g) ==
  {a \in 0..(Len(b) - 1) :
     /\ \A j \in 1..a : b[j + 1] = g[j]
     /\ a = Len(b) - 1 \/ b[a + 2] # g[a + 1]}

\* The accepted drafts, then the target's next token.
Out(b, g, a) == SubSeq(b, 2, a + 1) \o <<g[a + 1]>>

Stops(r, x, out, i) == out[i] \in Eos \/ x.gen + i >= Budget[r]

\* How many of `out` are sent, and whether the request ends there: at an end of
\* text, at the budget, or because its client is gone.
Sends(r, x, out) ==
  {s \in [n : 1..Len(out), done : BOOLEAN] :
     /\ \A i \in 1..(s.n - 1) : ~Stops(r, x, out, i)
     /\ Stops(r, x, out, s.n) \/ s.n < Len(out) => s.done}

\* Mutant: one row too few is kept.
Kept_Short(x, b, a) == SubSeq(x.kv \o b, 1, Len(x.kv) + a)

\* The KV after truncate: the rows of the accepted prefix.
Kept(x, b, a) == SubSeq(x.kv \o b, 1, Len(x.kv) + a + 1)

\* Mutant: the last accepted row is taken for a rejected one.
Context_Short(r, x, b, a) ==
  RingWith(IF Copies(r, x) = <<>> THEN RingDrafted(x.ring, Len(x.kv)) ELSE x.ring,
           Len(x.kv), Len(x.kv) + a - 1, x.kv \o b)

\* The drafter's cache: the block it drafted (unless a copy window served),
\* then the accepted rows.
Context(r, x, b, a) ==
  RingWith(IF Copies(r, x) = <<>> THEN RingDrafted(x.ring, Len(x.kv)) ELSE x.ring,
           Len(x.kv), Len(x.kv) + a, x.kv \o b)

\* x after it verified block b, a drafts were accepted and s was sent.
Stepped(r, x, b, a, s) ==
  LET out == Out(b, Selection(r, x, b), a)
  IN  [st |-> State(s.done), hist |-> x.hist \o SubSeq(out, 1, s.n), kv |-> Kept(x, b, a),
       gen |-> x.gen + s.n, ring |-> Context(r, x, b, a), index |-> CopyIndexAfter(r, x)]

StepsOf(r, x, b) ==
  LET g == Selection(r, x, b)
  IN  UNION {{Stepped(r, x, b, a, s) : s \in Sends(r, x, Out(b, g, a))} : a \in Accepts(b, g)}

Steps(r, x) == UNION {StepsOf(r, x, Block(x, d)) : d \in DraftsOf(r, x)}

\* spec_step for all running requests.
SpecStep ==
  /\ spec /\ Active # {}
  /\ \E y \in [Active -> UNION {Steps(r, req[r]) : r \in Active}] :
       /\ \A r \in Active : y[r] \in Steps(r, req[r])
       /\ req' = [r \in Requests |-> IF r \in Active THEN y[r] ELSE req[r]]
  /\ UNCHANGED spec

\* x after a plain step: one token.
Decoded(r, x, gone) ==
  LET kv == Append(x.kv, x.hist[Len(x.hist)])
      t  == Select(r, kv, x.gen)
  IN  [st |-> State(gone \/ t \in Eos \/ x.gen + 1 >= Budget[r]),
       hist |-> Append(x.hist, t), kv |-> kv, gen |-> x.gen + 1,
       ring |-> x.ring, index |-> x.index]

\* decode_batch and the selection after it, without a drafter.
DecodeStep(gone) ==
  /\ ~spec /\ Active # {}
  /\ req' = [r \in Requests |->
               IF r \in Active THEN Decoded(r, req[r], r \in gone) ELSE req[r]]
  /\ UNCHANGED spec

\* x after a failed step: its KV is released.
Failed(x) ==
  [st |-> "failed", hist |-> x.hist, kv |-> <<>>, gen |-> x.gen, ring |-> x.ring,
   index |-> x.index]

\* A step fails: all running requests get the error.
StepFails ==
  /\ Active # {}
  /\ req' = [r \in Requests |-> IF r \in Active THEN Failed(req[r]) ELSE req[r]]
  /\ UNCHANGED spec

Next ==
  \/ \E r \in Requests, gone \in BOOLEAN : Start(r, gone)
  \/ SpecStep
  \/ \E gone \in SUBSET Requests : DecodeStep(gone)
  \/ StepFails

Spec == Init /\ [][Next]_vars
-----------------------------------------------------------------------------
(* Type correctness of the requests.                                       *)
TypeOK ==
  \A r \in Requests :
    /\ req[r].st \in {"waiting", "active", "ended", "failed"}
    /\ req[r].hist \in Seq(Token) /\ req[r].kv \in Seq(Token)
    /\ req[r].gen \in Nat
    /\ req[r].st # "waiting" => req[r].gen >= 1

(* "A copy changes which rows are verified, never the output": whatever is *)
(* drafted, copied, verified and rejected, every token a request was sent  *)
(* is the target's selection after the tokens before it, at its own        *)
(* position; the output is what decoding one token at a time would give.   *)
OutputTrue ==
  \A r \in Requests :
    LET x == req[r]
        n == Len(Prompt[r])
    IN  x.st # "waiting" =>
          /\ Len(x.hist) = n + x.gen
          /\ SubSeq(x.hist, 1, n) = Prompt[r]
          /\ \A i \in 1..x.gen :
               x.hist[n + i] = Select(r, SubSeq(x.hist, 1, n + i - 1), i - 1)

(* The rejected rows are rolled out of the KV, and no accepted one is: a   *)
(* running request's rows are those of all its tokens but the last; one    *)
(* that ended inside a run has at least those (its retirement cuts the     *)
(* rest).                                                                  *)
RowsKept ==
  \A r \in Requests :
    LET x == req[r]
        h == SubSeq(x.hist, 1, Len(x.hist) - 1)
    IN  /\ x.st = "active" => x.kv = h
        /\ x.st = "ended" => Len(h) <= Len(x.kv) /\ SubSeq(x.kv, 1, Len(h)) = h

(* "Never draft past the token budget": no request is sent more than its   *)
(* budget, and its KV never holds more rows than its prompt and its budget *)
(* need, also when it ends inside an accepted run.                         *)
WithinBudget ==
  \A r \in Requests :
    req[r].st # "waiting" =>
      /\ req[r].gen <= Budget[r]
      /\ Len(req[r].kv) < Len(Prompt[r]) + Budget[r]

(* "Only accepted tokens become context": when a running request drafts    *)
(* next, every position its block can see in the drafter's cache holds the *)
(* row of the request's own tokens up to there, through rejected drafts,   *)
(* rounds the drafter sat out, and the cache's wrap-around.                *)
DraftContextExact ==
  spec => \A r \in Active :
    LET x == req[r]
        n == Len(x.kv)
    IN  \A p \in Max({0, n - (DraftWindow - 1)})..(n - 1) :
          x.ring[p % Ring] = SubSeq(x.hist, 1, p + 1)

(* The copy index, extended only in the rounds that propose, proposes what *)
(* a search of the whole context would.                                    *)
CopyExact ==
  \A r \in Active : \A k \in 2..Drafts :
    Propose(IndexAfter(req[r].index, req[r].hist, k), req[r].hist, k)
      = ProposeOf(req[r].hist, k)
=============================================================================
