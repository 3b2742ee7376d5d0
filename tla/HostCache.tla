----------------------------- MODULE HostCache -----------------------------
(***************************************************************************)
(* The RAM tier of the snapshot cache (hostcache.rs).  A snapshot's rows   *)
(* are whole pages, shared between snapshots by reference counts and keyed *)
(* by the token prefix they end (page_chain), a private tail page, and a   *)
(* state slot.  Everything runs on the scheduler thread: one capture at a  *)
(* time, taken apart here into the steps of its loop, with an eviction     *)
(* wherever an allocation finds nothing free.                              *)
(*                                                                         *)
(* The hash chain is taken to be injective: a page's key is its prefix.    *)
(* Each stamp takes a fresh clock value, so `snaps` in order of last use   *)
(* is `victim`'s order and its rule for equal stamps never applies.        *)
(***************************************************************************)
EXTENDS Integers, Sequences, FiniteSets

CONSTANTS
  Tokens,       \* the vocabulary
  Histories,    \* token sequences the scheduler stores or looks up
  PageRows,     \* KV_PAGE_ROWS
  MinTokens,    \* MIN_TOKENS
  PageSlots,    \* slots of the page arena
  StateSlots,   \* slots of the state arena
  NoSlot,       \* "none" for a tail
  MaxFailures   \* bound of the model: captures that fail in an export

ASSUME CacheAssumption ==
  /\ Histories \subseteq Seq(Tokens)
  /\ PageRows \in Nat \ {0} /\ MinTokens \in Nat \ {0}
  /\ IsFiniteSet(PageSlots) /\ IsFiniteSet(StateSlots)
  /\ NoSlot \notin PageSlots
  /\ MaxFailures \in Nat

VARIABLES
  pageMap,     \* page_map: prefix |-> [slot, refs]
  freePages,   \* the page arena's free slots
  freeStates,  \* the state arena's free slots
  mem,         \* the rows last written to each page slot: a prefix
  smem,        \* the position each state slot was last written for
  snaps,       \* snapshots, least recently used first
  step,        \* where the capture in flight is
  toks, know,  \* its tokens and After
  held,        \* how many of its pages it has a reference to
  tail,        \* its tail slot
  failures     \* captures an export has failed in so far

vars == <<pageMap, freePages, freeStates, mem, smem, snaps,
          step, toks, know, held, tail, failures>>

Slots == PageSlots \cup {NoSlot}
Steps == {"idle", "pages", "tail", "state"}
\* What is known of the token after a position.
After == [greedy : BOOLEAN, logits : BOOLEAN]
NoAfter == [greedy |-> FALSE, logits |-> FALSE]
\* What a point can know: its logit row, its argmax alone, or nothing (the end
\* of a sampled completion).
PointAfters == {[greedy |-> TRUE, logits |-> TRUE],
                [greedy |-> TRUE, logits |-> FALSE], NoAfter}

FullPages(t) == Len(t) \div PageRows
PageId(t, i) == SubSeq(t, 1, i * PageRows)
\* The keys of the first n pages of t.
Chain(t, n) == {PageId(t, i) : i \in 1..n}
HasTail(t) == Len(t) % PageRows > 0
Prefix(s, t) == Len(s) <= Len(t) /\ SubSeq(t, 1, Len(s)) = s
Indices == 1..Len(snaps)
Without(i) == SubSeq(snaps, 1, i - 1) \o SubSeq(snaps, i + 1, Len(snaps))
Serves(a, sampled) == IF sampled THEN a.logits ELSE a.greedy
-----------------------------------------------------------------------------
(* page_map with one reference to each of the keys `ids` given up, and the *)
(* slots that frees.                                                       *)

Last(ids) == {k \in ids \cap DOMAIN pageMap : pageMap[k].refs = 1}

MapWithout(ids) ==
  [k \in DOMAIN pageMap \ Last(ids) |->
     [pageMap[k] EXCEPT !.refs = IF k \in ids THEN @ - 1 ELSE @]]

Freed(ids) == {pageMap[k].slot : k \in Last(ids)}

Init ==
  /\ pageMap = <<>>
  /\ freePages = PageSlots /\ freeStates = StateSlots
  /\ mem = [s \in PageSlots |-> <<>>] /\ smem = [s \in StateSlots |-> <<>>]
  /\ snaps = <<>>
  /\ step = "idle" /\ toks = <<>> /\ know = NoAfter
  /\ held = 0 /\ tail = NoSlot /\ failures = 0

NoCapture == step' = "idle" /\ toks' = <<>> /\ know' = NoAfter
             /\ held' = 0 /\ tail' = NoSlot

\* Mutant: what the new capture knows replaces what was kept.
Merge_Replace(a, b) == b

Merge(a, b) == [greedy |-> a.greedy \/ b.greedy, logits |-> a.logits \/ b.logits]

\* capture of tokens already held: the snapshot is refreshed.
Refresh(t, a) ==
  /\ step = "idle" /\ Len(t) >= MinTokens
  /\ \E i \in Indices :
       /\ snaps[i].tokens = t
       /\ snaps' = Append(Without(i), [snaps[i] EXCEPT !.after = Merge(@, a)])
  /\ UNCHANGED <<pageMap, freePages, freeStates, mem, smem,
                 step, toks, know, held, tail>>

\* capture of new tokens begins.
Begin(t, a) ==
  /\ step = "idle" /\ Len(t) >= MinTokens
  /\ \A i \in Indices : snaps[i].tokens # t
  /\ step' = "pages" /\ toks' = t /\ know' = a
  /\ UNCHANGED <<pageMap, freePages, freeStates, mem, smem, snaps, held, tail>>

NextPage == PageId(toks, held + 1)
MorePages == step = "pages" /\ held < FullPages(toks)

\* A page some snapshot already holds is shared.
SharePage ==
  /\ MorePages /\ NextPage \in DOMAIN pageMap
  /\ pageMap' = [pageMap EXCEPT ![NextPage].refs = @ + 1]
  /\ held' = held + 1
  /\ UNCHANGED <<freePages, freeStates, mem, smem, snaps,
                 step, toks, know, tail>>

\* A new page is exported into a free slot.
WritePage(s) ==
  /\ MorePages /\ NextPage \notin DOMAIN pageMap
  /\ s \in freePages
  /\ freePages' = freePages \ {s}
  /\ mem' = [mem EXCEPT ![s] = NextPage]
  /\ pageMap' = [k \in DOMAIN pageMap \cup {NextPage} |->
                   IF k = NextPage THEN [slot |-> s, refs |-> 1] ELSE pageMap[k]]
  /\ held' = held + 1
  /\ UNCHANGED <<freeStates, smem, snaps, step, toks, know, tail>>

\* The pages are done: on to the tail, or past it.
PagesDone ==
  /\ step = "pages" /\ held = FullPages(toks)
  /\ step' = IF HasTail(toks) THEN "tail" ELSE "state"
  /\ UNCHANGED <<pageMap, freePages, freeStates, mem, smem, snaps,
                 toks, know, held, tail>>

\* Mutant: the tail's rows are read from one page too early.
WriteTail_Early(s) ==
  /\ step = "tail" /\ s \in freePages
  /\ freePages' = freePages \ {s}
  /\ mem' = [mem EXCEPT ![s] = PageId(toks, held)]
  /\ tail' = s
  /\ step' = "state"
  /\ UNCHANGED <<pageMap, freeStates, smem, snaps, toks, know, held>>

\* The rows past the last full page go to a page slot of their own.
WriteTail(s) ==
  /\ step = "tail" /\ s \in freePages
  /\ freePages' = freePages \ {s}
  /\ mem' = [mem EXCEPT ![s] = toks]
  /\ tail' = s
  /\ step' = "state"
  /\ UNCHANGED <<pageMap, freeStates, smem, snaps, toks, know, held>>

\* An export fails (`?`): capture returns at once, with the slot it popped and
\* the references it took.
ExportError(s) ==
  /\ failures < MaxFailures /\ failures' = failures + 1
  /\ \/ MorePages /\ NextPage \notin DOMAIN pageMap
     \/ step = "tail"
  /\ s \in freePages
  /\ freePages' = freePages \ {s}
  /\ NoCapture
  /\ UNCHANGED <<pageMap, freeStates, mem, smem, snaps>>

\* The sync after the exports fails.
SyncError ==
  /\ failures < MaxFailures /\ failures' = failures + 1
  /\ step = "state"
  /\ NoCapture
  /\ UNCHANGED <<pageMap, freePages, freeStates, mem, smem, snaps>>

\* The capture wants a slot and there is none.
NeedsSlot ==
  \/ MorePages /\ NextPage \notin DOMAIN pageMap /\ freePages = {}
  \/ step = "tail" /\ freePages = {}
  \/ step = "state" /\ freeStates = {}

TailSlot(s) == IF s = NoSlot THEN {} ELSE {s}

\* evict_one: the least recently used snapshot is released.
EvictOne ==
  LET s   == Head(snaps)
      ids == Chain(s.tokens, FullPages(s.tokens))
  IN  /\ NeedsSlot /\ snaps # <<>>
      /\ snaps' = Tail(snaps)
      /\ freeStates' = freeStates \cup {s.state}
      /\ freePages' = freePages \cup TailSlot(s.tail) \cup Freed(ids)
      /\ pageMap' = MapWithout(ids)
      /\ UNCHANGED <<mem, smem, step, toks, know, held, tail>>

\* Mutant: the tail is forgotten.
Abort_KeepsTail ==
  /\ freePages' = freePages \cup Freed(Chain(toks, held))
  /\ pageMap' = MapWithout(Chain(toks, held))
  /\ NoCapture
  /\ UNCHANGED <<freeStates, mem, smem, snaps>>

\* abort: the references taken are given up, pages written alone go free.
Abort ==
  /\ freePages' = freePages \cup TailSlot(tail) \cup Freed(Chain(toks, held))
  /\ pageMap' = MapWithout(Chain(toks, held))
  /\ NoCapture
  /\ UNCHANGED <<freeStates, mem, smem, snaps>>

\* Mutant: the capture starts over instead.
GiveUp_Retry ==
  /\ NeedsSlot /\ snaps = <<>>
  /\ freePages' = freePages \cup TailSlot(tail) \cup Freed(Chain(toks, held))
  /\ pageMap' = MapWithout(Chain(toks, held))
  /\ step' = "pages" /\ held' = 0 /\ tail' = NoSlot
  /\ UNCHANGED <<freeStates, mem, smem, snaps, toks, know>>

\* Nothing left to evict: the capture is dropped.
GiveUp == NeedsSlot /\ snaps = <<>> /\ Abort

\* The state copy fails: everything taken is given back.
StateError ==
  /\ step = "state" /\ freeStates # {}
  /\ Abort

\* The state is copied and the snapshot is there.
Commit(s) ==
  /\ step = "state" /\ s \in freeStates
  /\ freeStates' = freeStates \ {s}
  /\ smem' = [smem EXCEPT ![s] = toks]
  /\ snaps' = Append(snaps, [tokens |-> toks, tail |-> tail, state |-> s,
                             after |-> know])
  /\ NoCapture
  /\ UNCHANGED <<pageMap, freePages, mem>>

\* lookup: the longest snapshot that prefixes p, 0 when there is none.
Lookup(p) ==
  LET hits == {i \in Indices : Prefix(snaps[i].tokens, p)}
  IN  IF hits = {} THEN 0
      ELSE CHOOSE i \in hits :
             \A j \in hits : Len(snaps[j].tokens) <= Len(snaps[i].tokens)

\* lookup_for: an exact match that does not serve gives way to a shorter one.
LookupFor(p, sampled) ==
  LET i == Lookup(p)
  IN  IF i # 0 /\ snaps[i].tokens = p /\ ~Serves(snaps[i].after, sampled)
      THEN Lookup(SubSeq(p, 1, Len(p) - 1))
      ELSE i

\* restore, or a restore that fails: either way the snapshot is stamped.
Restore(p, sampled) ==
  LET i == LookupFor(p, sampled)
  IN  /\ step = "idle" /\ i # 0
      /\ snaps' = Append(Without(i), snaps[i])
      /\ UNCHANGED <<pageMap, freePages, freeStates, mem, smem,
                     step, toks, know, held, tail>>

\* Every step but a failed export.
Works ==
  \/ \E t \in Histories, a \in PointAfters : Refresh(t, a) \/ Begin(t, a)
  \/ \E t \in Histories, sampled \in BOOLEAN : Restore(t, sampled)
  \/ SharePage \/ PagesDone \/ EvictOne \/ GiveUp \/ StateError
  \/ \E s \in PageSlots : WritePage(s) \/ WriteTail(s)
  \/ \E s \in StateSlots : Commit(s)

Next ==
  \/ Works /\ UNCHANGED failures
  \/ \E s \in PageSlots : ExportError(s)
  \/ SyncError

Spec == Init /\ [][Next]_vars
-----------------------------------------------------------------------------
(* Type correctness of the arenas, the page map, the snapshots and the     *)
(* capture in flight.                                                      *)
TypeOK ==
  /\ \A k \in DOMAIN pageMap :
       pageMap[k].slot \in PageSlots /\ pageMap[k].refs \in Nat \ {0}
  /\ freePages \subseteq PageSlots /\ freeStates \subseteq StateSlots
  /\ \A i \in Indices : snaps[i].tail \in Slots /\ snaps[i].state \in StateSlots
  /\ step \in Steps /\ tail \in Slots /\ held \in Nat
  /\ know \in After /\ failures \in 0..MaxFailures

\* The references a page really has: snapshots, and the capture in flight.
Refs(k) ==
  Cardinality({i \in Indices : k \in Chain(snaps[i].tokens,
                                            FullPages(snaps[i].tokens))})
    + IF k \in Chain(toks, held) THEN 1 ELSE 0

(* Every page is counted as often as it is used ("Pages already held are   *)
(* shared, not copied"): with one reference too few a page would be freed  *)
(* under a snapshot, with one too many it would never be freed.  A failed  *)
(* export strands references, so never one too few, and none too many      *)
(* until then.                                                             *)
RefsExact ==
  \A k \in DOMAIN pageMap :
    /\ pageMap[k].refs >= Refs(k)
    /\ failures = 0 => pageMap[k].refs = Refs(k)

\* The page slots in use: by pages, by tails of snapshots, by the capture.
InUse ==
  [map   |-> {pageMap[k].slot : k \in DOMAIN pageMap},
   tails |-> {snaps[i].tail : i \in Indices} \ {NoSlot},
   tail  |-> TailSlot(tail)]

(* "Drop the references this capture took; pages it wrote alone go free":  *)
(* every page and state slot is free or in use, never both, and no two     *)
(* pages, tails or states use the same one.                                *)
SlotsConserved ==
  /\ freePages \cup InUse.map \cup InUse.tails \cup InUse.tail = PageSlots
  /\ Cardinality(freePages) + Cardinality(DOMAIN pageMap)
       + Cardinality({i \in Indices : snaps[i].tail # NoSlot})
       + Cardinality(InUse.tail) = Cardinality(PageSlots)
  /\ freeStates \cup {snaps[i].state : i \in Indices} = StateSlots
  /\ Cardinality(freeStates) + Len(snaps) = Cardinality(StateSlots)

(* The same, as long as no export has failed in the middle of a capture.   *)
SlotsKept == failures = 0 => SlotsConserved

(* The arenas and the page map together: no reference too few, and no      *)
(* reference or slot too many until an export fails.                       *)
ArenasExact == TypeOK /\ RefsExact /\ SlotsKept

(* A snapshot restores what was captured: each of its pages is there and   *)
(* still holds the rows of its prefix, and so do its tail and its state,   *)
(* whatever was evicted and reused in between.                             *)
SnapshotsRestorable ==
  \A i \in Indices :
    LET s == snaps[i]
    IN  /\ \A k \in Chain(s.tokens, FullPages(s.tokens)) :
             k \in DOMAIN pageMap /\ mem[pageMap[k].slot] = k
        /\ s.tail # NoSlot <=> HasTail(s.tokens)
        /\ s.tail # NoSlot => mem[s.tail] = s.tokens
        /\ smem[s.state] = s.tokens

(* lookup_for answers with the longest snapshot that can serve the prompt: *)
(* a shorter prefix, or the whole prompt with the token it needs.          *)
LookupBest ==
  \A p \in Histories, sampled \in BOOLEAN :
    LET good == {i \in Indices :
                   /\ Prefix(snaps[i].tokens, p)
                   /\ snaps[i].tokens = p => Serves(snaps[i].after, sampled)}
        hit  == LookupFor(p, sampled)
    IN  /\ hit = 0 <=> good = {}
        /\ hit # 0 => /\ hit \in good
                      /\ \A i \in good : Len(snaps[i].tokens) <= Len(snaps[hit].tokens)

(* What is found is the best there is, and restores what was captured.     *)
SnapshotsServe == SnapshotsRestorable /\ LookupBest

\* The cache as its user sees it; a known argmax is TRUE here.
Tier == INSTANCE RamTier
  WITH Snapshots <- [tokens : Histories, after : PointAfters],
       Cap <- Cardinality(StateSlots), None <- FALSE,
       ram <- {[tokens |-> snaps[i].tokens, after |-> snaps[i].after] : i \in Indices}

(* The cache keeps the promise its user relies on: one snapshot for each   *)
(* token sequence, which a capture may delete to make room, and which,     *)
(* while it stays, never forgets what it knows of its next token.          *)
ImplementsTier == Tier!Spec

\* What a capture has left to do: pages, the steps after them, and snapshots
\* it may still have to evict on the way.
WorkLeft ==
  (CASE step = "pages" -> 3 + FullPages(toks) - held
     [] step = "tail"  -> 2
     [] step = "state" -> 1
     [] step = "idle"  -> 0)
  + Len(snaps)

(* A capture ends, stored or dropped, however often it has to evict: each  *)
(* of its steps is its last or leaves it less to do.                       *)
CaptureEnds == [][step # "idle" => step' = "idle" \/ WorkLeft' < WorkLeft]_vars
=============================================================================
