----------------------------- MODULE PrefixCodes -----------------------------
(* Canonical Huffman codes as the two image decoders build and read them: the       *)
(* `Huffman` of inflate.rs (a lookup for short codes, a bit-serial walk for long    *)
(* ones) and the `Huff` of jpeg.rs (a lookup, then maxcode and valoffset).          *)
(*                                                                                *)
(* `lens` gives each symbol its code length, 0 for none; a stream is a sequence of  *)
(* bits in the order they are read.                                                *)
EXTENDS Integers, Sequences, FiniteSets, SequencesExt, FiniteSetsExt

CONSTANTS MaxBits,  \* longest code: 15 and 16, scaled
          FastBits  \* bits of the lookup: FAST_BITS and LOOKAHEAD, scaled

Count(lens, l) == Cardinality({s \in DOMAIN lens : lens[s] = l})
Longest(lens) == Max({0} \cup {lens[s] : s \in DOMAIN lens})
Left(lens) == LET left[l \in 0..MaxBits] == IF l = 0 THEN 1 ELSE 2 * left[l - 1] - Count(lens, l) IN left

\* Huffman::new: which lengths are a code.
Accepted(lens, kind) ==
  \/ Longest(lens) = 0
  \/ /\ \A l \in 1..MaxBits : Left(lens)[l] >= 0
     /\ Left(lens)[MaxBits] > 0 => kind # "CodeLengths" /\ Longest(lens) = 1

\* The symbols by length and then by number, the number of codes and the first code of each length.
Rank(lens, s) == Cardinality({t \in DOMAIN lens : lens[t] # 0 /\ (lens[t] < lens[s] \/ (lens[t] = lens[s] /\ t <= s))})
Table(lens) ==
  LET used == {s \in DOMAIN lens : lens[s] # 0}
      first[l \in 1..MaxBits] == IF l = 1 THEN 0 ELSE 2 * (first[l - 1] + Count(lens, l - 1))
  IN  [count |-> [l \in 1..MaxBits |-> Count(lens, l)], first |-> first,
       before |-> [l \in 1..MaxBits |-> Cardinality({s \in used : lens[s] < l})],
       symbols |-> [k \in 1..Cardinality(used) |-> CHOOSE s \in used : Rank(lens, s) = k]]

Value(bs, l) == LET v[i \in 0..l] == IF i = 0 THEN 0 ELSE 2 * v[i - 1] + bs[i] IN v[l]
Bad == [sym |-> -1, bits |-> 0]

\* The lookup of short codes: the k-th symbol of length l has the code first + k.
Fast(t, bs) ==
  LET hits == {l \in 1..FastBits : Value(bs, l) - t.first[l] \in 0..t.count[l] - 1}
      l == CHOOSE h \in hits : TRUE
  IN  IF hits = {} THEN Bad ELSE [sym |-> t.symbols[t.before[l] + Value(bs, l) - t.first[l] + 1], bits |-> l]

NextFirst(first, count) == 2 * (first + count)
\* decode_slow: bit by bit, length by length.
Slow(t, bs) ==
  LET walk[l \in 0..MaxBits] == IF l = 0 THEN [first |-> 0, index |-> 0, sym |-> -1, bits |-> 0, stop |-> FALSE]
        ELSE LET w == walk[l - 1]
                 c == Value(bs, l)
                 i == w.index + c - w.first + 1
             IN  IF w.stop THEN w
                 ELSE IF c - t.count[l] < w.first
                      THEN [w EXCEPT !.stop = TRUE, !.bits = l, !.sym = IF i \in DOMAIN t.symbols THEN t.symbols[i] ELSE -1]
                      ELSE [w EXCEPT !.index = @ + t.count[l], !.first = NextFirst(@, t.count[l])]
      end == walk[MaxBits]
  IN  IF end.sym = -1 THEN Bad ELSE [sym |-> end.sym, bits |-> end.bits]

Streams == [1..MaxBits -> {0, 1}]
\* What decode returns for every stream.
Reader(lens) == LET t == Table(lens)
                IN  [bs \in Streams |-> LET e == Fast(t, bs) IN IF e # Bad THEN e ELSE Slow(t, bs)]

\* jpeg.rs Huff::new: no length may use its last code; Bits::huff: the lookup, then maxcode and valoffset.
JpegAccepted(lens) == LET t == Table(lens) IN \A l \in 1..MaxBits : t.count[l] > 0 => t.first[l] + t.count[l] < 2^l
JpegReader(lens) ==
  LET t == Table(lens)
      maxcode(l) == IF t.count[l] = 0 THEN -1 ELSE t.first[l] + t.count[l] - 1
      slow(bs) == LET hits == {l \in FastBits + 1..MaxBits : Value(bs, l) <= maxcode(l)}
                      l == Min(hits)
                  IN  IF hits = {} THEN Bad ELSE [sym |-> t.symbols[Value(bs, l) + t.before[l] - t.first[l] + 1], bits |-> l]
  IN  [bs \in Streams |-> LET e == Fast(t, bs) IN IF e # Bad THEN e ELSE slow(bs)]

\* What a canonical code means: in the order of the symbols each takes the next 2^-length of the streams.
Meaning(lens) ==
  LET share(s) == 2^(MaxBits - lens[s])
      earlier(s) == {t \in DOMAIN lens : lens[t] # 0 /\ (lens[t] < lens[s] \/ (lens[t] = lens[s] /\ t < s))}
      from == [s \in DOMAIN lens |-> MapThenSumSet(share, earlier(s))]
      of(bs) == {s \in DOMAIN lens : lens[s] # 0 /\ Value(bs, MaxBits) \in from[s]..from[s] + share(s) - 1}
  IN  [bs \in Streams |-> IF of(bs) = {} THEN Bad ELSE LET s == CHOOSE t \in of(bs) : TRUE IN [sym |-> s, bits |-> lens[s]]]
===============================================================================
