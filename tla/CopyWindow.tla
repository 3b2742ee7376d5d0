----------------------------- MODULE CopyWindow -----------------------------
(***************************************************************************)
(* Copy windows (copy.rs): drafts copied from a request's own context.  An *)
(* index of the context's Match-grams is extended as the context grows;    *)
(* where the last Match tokens occurred before, what followed them there   *)
(* is proposed.  Positions are those of a gram's last token, from 1; 0     *)
(* stands for NONE.                                                        *)
(***************************************************************************)
EXTENDS Integers, Sequences, FiniteSetsExt, SequencesExt

CONSTANTS
  Match,      \* MATCH
  Extend,     \* EXTEND
  Candidates  \* CANDIDATES

ASSUME CopyAssumption ==
  Match \in Nat \ {0} /\ Extend \in Nat /\ Extend >= Match /\ Candidates \in Nat \ {0}

Gram(ctx, p) == SubSeq(ctx, p - Match + 1, p)

EmptyIndex == [head |-> <<>>, prev |-> <<>>]

\* Position p joins the index: it heads its gram's list.
IndexOne(idx, ctx, p) ==
  LET g == Gram(ctx, p)
      known == g \in DOMAIN idx.head
  IN  IF p < Match THEN [idx EXCEPT !.prev = Append(@, 0)]
      ELSE [head |-> [x \in DOMAIN idx.head \cup {g} |-> IF x = g THEN p ELSE idx.head[x]],
            prev |-> Append(idx.prev, IF known THEN idx.head[g] ELSE 0)]

\* Every position with a token after it that is not indexed yet.
Indexed(idx, ctx) ==
  LET upTo[p \in Len(idx.prev)..(Len(ctx) - 1)] ==
        IF p = Len(idx.prev) THEN idx ELSE IndexOne(upTo[p - 1], ctx, p)
  IN  upTo[Len(ctx) - 1]

\* propose returns before it indexes when there is nothing to propose.
TooShort(ctx, k) == k < 2 \/ Len(ctx) <= Match

\* Mutant: the grams indexed before are forgotten.
IndexAfter_Afresh(idx, ctx, k) ==
  IF TooShort(ctx, k) THEN idx ELSE Indexed([idx EXCEPT !.head = <<>>], ctx)

IndexAfter(idx, ctx, k) == IF TooShort(ctx, k) THEN idx ELSE Indexed(idx, ctx)

\* The occurrences tried: the newest and those before it in its list.
Tried(idx, newest) ==
  LET c[i \in 1..Candidates] ==
        IF i = 1 THEN newest ELSE IF c[i - 1] = 0 THEN 0 ELSE idx.prev[c[i - 1]]
  IN  {c[i] : i \in 1..Candidates} \ {0}

\* How far back the context before position p matches its end.
Backward(ctx, p) ==
  Max({n \in Match..Extend : \A i \in Match..(n - 1) : i < p /\ ctx[p - i] = ctx[Len(ctx) - i]})

\* The one that matches furthest back, the newest of several.
Best(ctx, ps) ==
  Max({p \in ps : \A q \in ps : Backward(ctx, q) <= Backward(ctx, p)})

\* What followed position p; past the end of the context the copy repeats.
CopyFrom(ctx, p, k) ==
  LET out[j \in 1..k] ==
        IF p + j <= Len(ctx) THEN ctx[p + j] ELSE out[p + j - Len(ctx)]
  IN  [j \in 1..k |-> out[j]]

\* propose, with the index already extended.
Propose(idx, ctx, k) ==
  IF TooShort(ctx, k) \/ Gram(ctx, Len(ctx)) \notin DOMAIN idx.head THEN <<>>
  ELSE CopyFrom(ctx, Best(ctx, Tried(idx, idx.head[Gram(ctx, Len(ctx))])), k)
-----------------------------------------------------------------------------
(* What a proposal should be, from the context alone.                      *)

Occurrences(ctx) ==
  {p \in Match..(Len(ctx) - 1) : Gram(ctx, p) = Gram(ctx, Len(ctx))}

\* The newest Candidates of them.
Newest(ps) == {p \in ps : Cardinality({q \in ps : q > p}) < Candidates}

ProposeOf(ctx, k) ==
  IF TooShort(ctx, k) \/ Occurrences(ctx) = {} THEN <<>>
  ELSE LET p == Best(ctx, Newest(Occurrences(ctx)))
       IN  [j \in 1..k |-> ctx[p + 1 + ((j - 1) % (Len(ctx) - p))]]
=============================================================================
