------------------------------ MODULE RamTier ------------------------------
(***************************************************************************)
(* What the RAM snapshot cache (hostcache.rs) promises its user, the       *)
(* device pool: a set of snapshots, at most one for each token sequence,   *)
(* of which a capture may delete any.  A capture of tokens already held    *)
(* adds to what is known of the token after them and keeps the rows that   *)
(* are there; it may also come to nothing.                                 *)
(***************************************************************************)
EXTENDS Integers, FiniteSets

CONSTANTS
  Snapshots,  \* what may be captured: records with tokens and after
  Cap,        \* most snapshots held
  None        \* "the argmax is not known"

VARIABLE ram

MergeAfter(a, b) ==
  [greedy |-> IF a.greedy # None THEN a.greedy ELSE b.greedy,
   logits |-> a.logits \/ b.logits]

\* Every snapshot of `held`, with what `e` adds to it if it is of e's tokens.
Refreshed(held, e) ==
  {IF r.tokens = e.tokens THEN [r EXCEPT !.after = MergeAfter(@, e.after)] ELSE r :
     r \in held}

\* `held` and `e`, one snapshot for each token sequence.
Joined(held, e) ==
  IF \E r \in held : r.tokens = e.tokens THEN Refreshed(held, e) ELSE held \cup {e}

\* What the capture of `e` can leave behind.
Stored(held, e) == {R \in SUBSET Joined(held, e) : Cardinality(R) <= Cap}

\* What captures of all of `new`, one after the other, can leave behind: a
\* snapshot as it was, as it came, or with what another capture added to it.
StoredAll(held, new) ==
  LET all    == held \cup new
      merged == {[p[1] EXCEPT !.after = MergeAfter(@, p[2].after)] :
                   p \in {q \in all \X all : q[1].tokens = q[2].tokens}}
  IN  IF new = {} THEN {held}
      ELSE {R \in SUBSET merged :
              /\ Cardinality(R) <= Cap
              /\ \A x, y \in R : x.tokens = y.tokens => x = y}

Init == ram = {}

Next == \E e \in Snapshots : ram' \in Stored(ram, e)

Spec == Init /\ [][Next]_ram
=============================================================================
