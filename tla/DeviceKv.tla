------------------------------ MODULE DeviceKv ------------------------------
(***************************************************************************)
(* One request slot's device KV cache (dforward.rs, DeviceKv) through its  *)
(* life in the coordinator: admitted, prefilled in two-lane chunk groups,  *)
(* decoded one token or one speculative block at a time, cut back to its   *)
(* history when the request ends, retained with snapshot points, rewound   *)
(* to one of them, or released.                                            *)
(*                                                                         *)
(* Every sliding-window (SWA) layer goes through the same calls, so one    *)
(* layer stands for all of them.  Its buffer holds `rows` rows of          *)
(* consecutive positions from `lo`; the global-attention (GA) layers only  *)
(* append, so `ga` counts their rows and their capacity is left out.       *)
(* A query at position p of an SWA layer reads the rows of positions       *)
(* p - Window + 1 .. p.                                                    *)
(***************************************************************************)
EXTENDS Integers, FiniteSets

CONSTANTS
  Window,       \* sliding_window
  Slack,        \* SWA_SLACK_ROWS
  MaxChunk,     \* rows of one prefill lane
  Block,        \* DFLASH_BLOCK: most rows of one speculative block
  Unit,         \* the allocation unit of SWA growth (64 rows)
  SplitVerify,  \* TRUE: one request's block is split over two verify lanes
  MaxTokens,    \* bound of the model: tokens processed by the cache
  MaxSnaps      \* bound of the model: points kept here, snapshots elsewhere

ASSUME KvAssumption ==
  /\ Window \in Nat \ {0} /\ Slack \in Nat /\ Block \in Nat \ {0}
  /\ MaxChunk \in Nat \ {0} /\ Unit \in Nat \ {0}
  /\ SplitVerify \in BOOLEAN
  /\ MaxTokens \in Nat /\ MaxSnaps \in Nat

VARIABLES
  phase,   \* where the slot's owner keeps it
  tokens,  \* tokens processed (the next position)
  ga,      \* rows of every GA layer
  lo,      \* position of the SWA layers' row 0
  rows,    \* rows of every SWA layer
  cap,     \* row capacity of every SWA layer
  hist,    \* tokens of the request's history already in the cache
  points,  \* snapshot points kept in this slot
  snaps    \* snapshots of this history in RAM or in another slot

vars == <<phase, tokens, ga, lo, rows, cap, hist, points, snaps>>

Phases == {"free", "ready", "prefill", "decode", "done", "retained"}

\* A snapshot: its length and the SWA rows saved with it.
Snapshot == [len : Nat, lo : Nat, rows : Nat]

Least(a, b) == IF a <= b THEN a ELSE b

RoundUp(n) == ((n + Unit - 1) \div Unit) * Unit

Cap0 == Window - 1 + Slack

PrefillCap == RoundUp(Window - 1 + MaxChunk)
-----------------------------------------------------------------------------
(* The SWA layer, as a record so that one call can follow another.         *)

Layer == [lo |-> lo, rows |-> rows, cap |-> cap]

\* Mutant: one row short of the window.
Keep_Short(l) == Least(l.rows, Window - 2)

\* The rows that survive a compaction.
Keep(l) == Least(l.rows, Window - 1)

\* The last Keep(l) rows moved to the front of the buffer.
Compact(l) ==
  [lo |-> l.lo + (l.rows - Keep(l)), rows |-> Keep(l), cap |-> l.cap]

\* Room for t more rows: nothing, or a compaction, or a compaction and growth.
Prepare(l, t) ==
  LET c == Compact(l)
  IN  IF l.rows + t <= l.cap THEN l
      ELSE IF c.rows + t <= c.cap THEN c
      ELSE [c EXCEPT !.cap = RoundUp(c.rows + t)]

\* One lane's attention: make room, then store its t rows at the end.
AppendRows(l, t) ==
  LET p == Prepare(l, t) IN [p EXCEPT !.rows = @ + t]

\* Mutant: the block is always split.
FirstLane_Split(n) == (n + 1) \div 2

\* The rows of the first verify lane.
FirstLane(n) == IF SplitVerify THEN (n + 1) \div 2 ELSE n

\* A verify pass over a block of n rows: one lane, or two in sequence order.
AppendBlock(l, n) ==
  IF FirstLane(n) = n THEN AppendRows(l, n)
  ELSE AppendRows(AppendRows(l, FirstLane(n)), n - FirstLane(n))

\* truncate on one layer: the newest n rows go.
DropRows(l, n) == [l EXCEPT !.rows = @ - n]

\* shrink_swa: back to the between-prefills buffer with the rows a query sees.
Shrink(l) == IF l.cap > Cap0 THEN [Compact(l) EXCEPT !.cap = Cap0] ELSE l

SetLayer(l) == lo' = l.lo /\ rows' = l.rows /\ cap' = l.cap

\* Mutant: saves the oldest rows of the buffer.
SaveAt_Front(l, n) == [len |-> n, lo |-> l.lo, rows |-> Keep(l)]

\* Point::save: the last Keep rows of a layer l at position n.
SaveAt(l, n) == [len |-> n, lo |-> l.lo + (l.rows - Keep(l)), rows |-> Keep(l)]
-----------------------------------------------------------------------------
Init ==
  /\ phase = "free"
  /\ tokens = 0 /\ ga = 0
  /\ lo = 0 /\ rows = 0 /\ cap = Cap0
  /\ hist = 0
  /\ points = {} /\ snaps = {}

\* A clean slot for a prompt that resumes nowhere (take_free resets it).
AdmitCold ==
  /\ phase = "free"
  /\ phase' = "ready"
  /\ UNCHANGED <<tokens, ga, lo, rows, cap, hist, points, snaps>>

\* A clean slot that takes over a snapshot from RAM or from another slot:
\* the GA rows are copied, then the snapshot's SWA rows are loaded at row 0.
\* A restore from RAM also keeps the point; a fork does not.
AdmitCopy(s, keep) ==
  /\ phase = "free"
  /\ phase' = "ready"
  /\ tokens' = s.len /\ ga' = s.len
  /\ lo' = s.lo /\ rows' = s.rows
  /\ points' = IF keep THEN {s} ELSE {}
  /\ UNCHANGED <<cap, hist, snaps>>

\* A retained slot goes back to one of its points; later points go to RAM.
AdmitInPlace(p) ==
  /\ phase = "retained"
  /\ p.len <= ga
  /\ phase' = "ready"
  /\ tokens' = p.len /\ ga' = p.len
  /\ lo' = p.lo /\ rows' = p.rows
  /\ points' = {q \in points : q.len <= p.len}
  /\ UNCHANGED <<cap, hist, snaps>>

\* In place, but the slot cannot grow: without a RAM tier it stays retained
\* with the points up to the hit, its rows untouched.
AdmitRefused(p) ==
  /\ phase = "retained"
  /\ points' = {q \in points : q.len <= p.len}
  /\ UNCHANGED <<phase, tokens, ga, lo, rows, cap, hist, snaps>>

\* reserve_swa before the first prefill segment.
ReserveSwa ==
  /\ phase = "ready"
  /\ phase' = "prefill"
  /\ cap' = IF cap < PrefillCap THEN PrefillCap ELSE cap
  /\ UNCHANGED <<tokens, ga, lo, rows, hist, points, snaps>>

\* One prefill group: a chunk in lane A, and one in lane B unless t2 = 0.
ForwardGroup(t1, t2) ==
  /\ phase = "prefill"
  /\ tokens + t1 + t2 <= MaxTokens
  /\ SetLayer(IF t2 = 0 THEN AppendRows(Layer, t1)
              ELSE AppendRows(AppendRows(Layer, t1), t2))
  /\ tokens' = tokens + t1 + t2
  /\ ga' = ga + t1 + t2
  /\ UNCHANGED <<phase, hist, points, snaps>>

\* start: the prompt is in the cache.  The SWA buffer shrinks (or the
\* allocation fails and it stays as it is); a prompt point may be saved.
Start(l, save) ==
  /\ phase \in {"ready", "prefill"}
  /\ tokens > 0
  /\ save => Cardinality(points) < MaxSnaps /\ \A p \in points : p.len # tokens
  /\ SetLayer(l)
  /\ points' = IF save THEN points \cup {SaveAt(l, tokens)} ELSE points
  /\ hist' = tokens
  /\ phase' = "decode"
  /\ UNCHANGED <<tokens, ga, snaps>>

\* park: a prefill given up part way keeps its position as a point.
Park(l, save) ==
  /\ phase \in {"ready", "prefill"}
  /\ save => /\ tokens > 0 /\ Cardinality(points) < MaxSnaps
             /\ \A p \in points : p.len < tokens
  /\ points' = IF save THEN points \cup {SaveAt(l, tokens)} ELSE points
  /\ points' # {}
  /\ SetLayer(l)
  /\ phase' = "retained"
  /\ hist' = tokens
  /\ UNCHANGED <<tokens, ga, snaps>>

\* One decode step of the batch.
DecodeStep(ended) ==
  /\ phase = "decode"
  /\ tokens < MaxTokens
  /\ SetLayer(AppendRows(Layer, 1))
  /\ tokens' = tokens + 1 /\ ga' = ga + 1 /\ hist' = tokens + 1
  /\ phase' = IF ended THEN "done" ELSE "decode"
  /\ UNCHANGED <<points, snaps>>

\* One speculative step: n rows verified, the first acc drafts accepted, the
\* rejected tail truncated.  The request's history takes the first m of the
\* acc + 1 new tokens: fewer than all of them only when one ends the request.
SpecStep(n, acc, m) ==
  LET l    == AppendBlock(Layer, n)
      drop == n - (acc + 1)
  IN  /\ phase = "decode"
      /\ tokens + n <= MaxTokens
      /\ drop <= l.rows
      /\ SetLayer(DropRows(l, drop))
      /\ tokens' = tokens + acc + 1
      /\ ga' = ga + n - drop
      /\ hist' = tokens + m
      /\ \/ m = acc + 1 /\ phase' \in {"decode", "done"}
         \/ m < acc + 1 /\ phase' = "done"
      /\ UNCHANGED <<points, snaps>>

\* retire: the cache is cut back to the history; a turn point may be saved
\* there; without any point the slot is released instead.
Retire(save) ==
  LET drop == tokens - hist
      l    == DropRows(Layer, drop)
  IN  /\ phase \in {"decode", "done"}
      /\ drop <= rows
      /\ save => Cardinality(points) < MaxSnaps /\ \A p \in points : p.len < hist
      /\ points' = IF save THEN points \cup {SaveAt(l, hist)} ELSE points
      /\ points' # {}
      /\ SetLayer(l)
      /\ tokens' = hist /\ ga' = ga - drop
      /\ phase' = "retained"
      /\ UNCHANGED <<hist, snaps>>

\* A point's snapshot copied to RAM (eviction, bank overflow), or its slot
\* read by a fork: the snapshot now also exists outside the slot.
Share(p) ==
  /\ phase # "free"
  /\ p.len <= ga
  /\ Cardinality(snaps \cup {p}) <= MaxSnaps
  /\ snaps' = snaps \cup {p}
  /\ UNCHANGED <<phase, tokens, ga, lo, rows, cap, hist, points>>

\* A bank over its size, or a RAM tier over its size, drops a snapshot.
DropPoint(p) ==
  /\ p \in points
  /\ phase = "retained" => points # {p}
  /\ points' = points \ {p}
  /\ UNCHANGED <<phase, tokens, ga, lo, rows, cap, hist, snaps>>

DropSnap(s) ==
  /\ snaps' = snaps \ {s}
  /\ UNCHANGED <<phase, tokens, ga, lo, rows, cap, hist, points>>

\* release: every row dropped, the SWA buffer back to its first size (or the
\* shrink fails and the buffer stays).  Ends a failed or evicted request too.
Release(c) ==
  /\ phase # "free"
  /\ phase' = "free"
  /\ tokens' = 0 /\ ga' = 0 /\ lo' = 0 /\ rows' = 0 /\ hist' = 0
  /\ cap' = c
  /\ points' = {}
  /\ UNCHANGED snaps

Next ==
  \/ AdmitCold
  \/ \E s \in snaps : \E keep \in BOOLEAN : AdmitCopy(s, keep)
  \/ \E p \in points : AdmitInPlace(p)
  \/ \E p \in points : AdmitRefused(p)
  \/ ReserveSwa
  \/ \E t1 \in 1..MaxChunk : \E t2 \in 0..MaxChunk : ForwardGroup(t1, t2)
  \/ \E save \in BOOLEAN : \E l \in {Layer, Shrink(Layer)} : Start(l, save)
  \/ \E save \in BOOLEAN : \E l \in {Layer, Shrink(Layer)} : Park(l, save)
  \/ \E ended \in BOOLEAN : DecodeStep(ended)
  \/ \E n \in 1..Block : \E acc \in 0..(n - 1) : \E m \in 1..(acc + 1) :
       SpecStep(n, acc, m)
  \/ \E save \in BOOLEAN : Retire(save)
  \/ \E p \in points : Share(p)
  \/ \E p \in points : DropPoint(p)
  \/ \E s \in snaps : DropSnap(s)
  \/ \E c \in {cap, Least(cap, Cap0)} : Release(c)

Spec == Init /\ [][Next]_vars
-----------------------------------------------------------------------------
(* Type correctness: every counter is a natural number and every snapshot  *)
(* has the shape Point::save and HostCache::capture give it.               *)
TypeOK ==
  /\ phase \in Phases
  /\ tokens \in Nat /\ ga \in Nat /\ lo \in Nat /\ rows \in Nat
  /\ cap \in Nat /\ hist \in Nat
  /\ points \subseteq Snapshot /\ snaps \subseteq Snapshot

(* The rows of the SWA and GA layers are those of the positions just       *)
(* before the next one: a missed load, a double append or a truncation of  *)
(* only some layers would shift every later key (the prefill kernel reads  *)
(* the cache as position-contiguous).                                      *)
PositionsAligned == lo + rows = tokens /\ ga = tokens

(* "an SWA compaction during the append kept the window before the block,  *)
(* which is all the next query needs" (DeviceKv::truncate): between calls  *)
(* the SWA layers hold every row the next query reads, back to the first   *)
(* position or Window - 1 rows.                                            *)
WindowCovered == rows >= Least(tokens, Window - 1)

(* The same at the cut that ends a request: when the history takes fewer   *)
(* tokens than the last step produced, the rows left at its end are still  *)
(* a whole window, so a turn snapshot saved there is exact.                *)
HistoryCovered ==
  phase \in {"decode", "done"} =>
    /\ hist <= tokens
    /\ rows - (tokens - hist) >= Least(hist, Window - 1)

(* A snapshot, here or in RAM, holds exactly the window before its         *)
(* position, and the slot's own points still have their GA rows, so a      *)
(* resumed request sees what a cold prefill of the same tokens would.      *)
SnapshotsExact ==
  /\ \A s \in points \cup snaps :
       s.lo + s.rows = s.len /\ s.rows = Least(s.len, Window - 1)
  /\ \A p \in points : p.len <= ga

(* No SWA append runs past the end of its buffer: `prepare` makes room for *)
(* every chunk, decode row and verify lane, and a resumed state fits.      *)
WithinCapacity == rows <= cap
=============================================================================
