------------------------------- MODULE Inflate -------------------------------
(* The DEFLATE decoder behind PNG image data: its bit buffer, which reads ahead     *)
(* and pads with zero bytes past the end, stored, fixed and dynamic blocks, and     *)
(* matches that overlap their own output.                                          *)
(*                                                                                *)
(* The stream is read as it is decoded: every bit is any, so only how many bits     *)
(* are real, buffered and used is state.                                           *)
EXTENDS Integers, Sequences, FiniteSets, TLC, SequencesExt, FiniteSetsExt

CONSTANTS Byte,       \* bits of a byte: 8, scaled
          Ahead,      \* bytes the bit buffer holds: 8
          MaxBits, FastBits,
          Lits,       \* literals 0..Lits - 1, then the end of block, then the length codes
          LenBase, LenExtra, DistBase, DistExtra,  \* functions of the length and distance codes
          FixedLit, FixedDist,                     \* the code lengths of a fixed block
          Headers,    \* shapes of a dynamic block: <<literal and length codes, distance codes>>
          MaxLit, MaxDist,                         \* most of each: 286 and 30, scaled
          DataLens, OutLens, StoredLens            \* bounds: bytes of the stream, of the image, of a stored block

VARIABLES mode,  \* "idle", "block", "stored", "lens", "tables", "codes"; then "done", "short" (TRUNCATED: the stream
                 \* ends early) or "error" (any other refusal, also of a last block that leaves bytes missing)
          data, need, pos, bitcnt, virt, last,
          todo,  \* code lengths a dynamic block still gives
          lens,
          lit, dist,  \* the code lengths of the block's symbols, then what decode returns for every stream
          out,
          used, ref  \* bits used and bytes written by a decoder that reads bit by bit

vars == <<mode, data, need, pos, bitcnt, virt, last, todo, lens, lit, dist, out, used, ref>>
buffer == <<pos, bitcnt, virt>>
table == <<todo, lens, lit, dist>>

C == INSTANCE PrefixCodes

Width == Byte * Ahead
Eob == Lits
NoCode == <<>>

Init == /\ mode = "idle" /\ data = 0 /\ need = 0 /\ pos = 0 /\ bitcnt = 0 /\ virt = 0 /\ last = FALSE
        /\ todo = <<0, 0>> /\ lens = <<>> /\ lit = NoCode /\ dist = NoCode /\ out = <<>> /\ used = 0 /\ ref = <<>>

\* zlib_decompress: the two bytes of the header, then the stream.
Open(d, n, ok) ==
  /\ mode = "idle" /\ data' = d /\ need' = n
  /\ mode' = IF ~ok THEN "error" ELSE IF n = 0 THEN "done" ELSE "block"
  /\ UNCHANGED <<buffer, last, table, out, used, ref>>

-------------------------------------------------------------------------------
(* The bit buffer *)

\* refill: whole words while they last, then byte by byte, zero bytes past the end.
Refilled ==
  LET words == (Width - 1 - bitcnt) \div Byte
      n == (Width - bitcnt) \div Byte
      real == Min({n, data - pos})
  IN  IF bitcnt > Width - Byte THEN [ok |-> TRUE, pos |-> pos, bitcnt |-> bitcnt, virt |-> virt]
      ELSE IF pos + Ahead <= data THEN [ok |-> TRUE, pos |-> pos + words, bitcnt |-> bitcnt + words * Byte, virt |-> virt]
      ELSE [ok |-> virt + n - real <= Ahead, pos |-> pos + real, bitcnt |-> bitcnt + n * Byte, virt |-> virt + n - real]

\* Refill, or stop; then n bits are used.
Take(n) == LET r == Refilled
           IN  r.ok /\ pos' = r.pos /\ virt' = r.virt /\ bitcnt' = r.bitcnt - n /\ used' = used + n
Starved == /\ mode \in {"block", "lens", "codes"} /\ ~Refilled.ok
           /\ mode' = "short" /\ UNCHANGED <<data, need, buffer, last, table, out, used, ref>>

Refuse == mode' = "error" /\ UNCHANGED <<data, need, last, table, out, ref>>

\* run and inflate after a block or a full image: enough bytes, and all from real input.
Ended(o, stop, p, v, b) ==
  IF Len(o) >= need THEN IF (p + v) * Byte - b > data * Byte THEN "short" ELSE "done"
  ELSE IF ~stop THEN "codes" ELSE IF last THEN "error" ELSE "block"

-------------------------------------------------------------------------------
(* Blocks *)

Block(final, type) ==
  /\ mode = "block" /\ Take(3)
  /\ mode' = CASE type = 0 -> "stored" [] type = 1 -> "tables" [] type = 2 -> "lens" [] OTHER -> "error"
  /\ last' = final
  /\ lit' = IF type = 1 THEN FixedLit ELSE NoCode
  /\ dist' = IF type = 1 THEN FixedDist ELSE NoCode
  /\ todo' = <<0, 0>> /\ lens' = <<>>
  /\ UNCHANGED <<data, need, out, ref>>

\* Mutant: the zero bytes read ahead are handed back as if they were data.
Back_Virt(cnt) == [pos |-> pos - cnt \div Byte, virt |-> 0]
\* stored drops to a byte boundary and hands the whole bytes it read ahead back.
Back(cnt) == LET bytes == cnt \div Byte
                 v == Min({bytes, virt})
             IN  [pos |-> pos - (bytes - v), virt |-> virt - v]

Stored(len, good) ==
  /\ mode = "stored"
  /\ LET b == Back(bitcnt)
         aligned == used + (bitcnt % Byte)
         at == b.pos + 4
         avail == data - at
         take == Min({len, need - Len(out), avail})
         whole == Len(out) + take >= need
         bytes == [i \in 1..take |-> 0]
     IN  IF b.virt > 0 \/ at > data THEN mode' = "short" /\ used' = aligned + 4 * Byte /\ pos' = b.pos /\ virt' = b.virt /\ bitcnt' = 0
                                        /\ UNCHANGED <<data, need, last, table, out, ref>>
         ELSE IF ~good THEN Refuse /\ UNCHANGED <<buffer, used>>
         ELSE IF ~whole /\ avail < len THEN mode' = "short" /\ used' = aligned + (4 + len) * Byte /\ UNCHANGED <<data, need, buffer, last, table, out, ref>>
         ELSE /\ pos' = at + (IF whole THEN take ELSE len) /\ virt' = b.virt /\ bitcnt' = 0
              /\ used' = aligned + (4 + (IF whole THEN take ELSE len)) * Byte
              /\ out' = out \o bytes /\ ref' = ref \o bytes
              /\ mode' = Ended(out', TRUE, pos', virt', 0)
              /\ UNCHANGED <<data, need, last, table>>

\* dynamic_tables: the shape, then code lengths one symbol at a time, then the two codes.
\* Bound: as a stream's first block with output.
Shape(nlen, ndist) ==
  /\ mode = "lens" /\ todo = <<0, 0>> /\ out = <<>> /\ Take(2)
  /\ IF nlen > MaxLit \/ ndist > MaxDist THEN Refuse
     ELSE todo' = <<nlen, ndist>> /\ UNCHANGED <<mode, data, need, last, lens, lit, dist, out, ref>>

LenSym(sym, count) ==
  /\ mode = "lens" /\ todo # <<0, 0>> /\ Take(1)
  /\ LET total == todo[1] + todo[2]
         value == CASE sym = "repeat" -> IF lens = <<>> THEN -1 ELSE Last(lens) [] sym = "zeros" -> 0 [] OTHER -> count
         n == IF sym = "length" THEN 1 ELSE count
         all == lens \o [i \in 1..n |-> value]
         l == [s \in 0..todo[1] - 1 |-> all[s + 1]]
         d == [s \in 0..todo[2] - 1 |-> all[todo[1] + s + 1]]
     IN  IF value = -1 \/ Len(all) > total THEN Refuse
         ELSE IF Len(all) < total THEN lens' = all /\ UNCHANGED <<mode, data, need, last, todo, lit, dist, out, ref>>
         ELSE IF l[Eob] = 0 \/ ~C!Accepted(l, "Lens") \/ ~C!Accepted(d, "Dists") THEN Refuse
         ELSE mode' = "tables" /\ lit' = l /\ dist' = d /\ lens' = <<>> /\ todo' = <<0, 0>> /\ UNCHANGED <<data, need, last, out, ref>>

Tables == /\ mode = "tables" /\ mode' = "codes"
          /\ lit' = C!Reader(lit) /\ dist' = C!Reader(dist)
          /\ UNCHANGED <<data, need, buffer, last, todo, lens, out, used, ref>>

-------------------------------------------------------------------------------
(* Symbols *)

\* copy_match: each pass copies everything written since the match's source.
CopyMatch(o, d, len) ==
  LET src == Len(o) - d
      grow[n \in 0..len] == IF n = 0 THEN [o |-> o, left |-> len]
                            ELSE LET g == grow[n - 1]
                                     k == Min({g.left, Len(g.o) - src})
                                 IN  [o |-> g.o \o SubSeq(g.o, src + 1, src + k), left |-> g.left - k]
  IN  IF d = 1 THEN o \o [i \in 1..len |-> o[src + 1]] ELSE grow[len].o
\* A match as DEFLATE means it: one byte after the other.
Repeat(o, d, len) == o \o [i \in 1..len |-> o[Len(o) - d + 1 + ((i - 1) % d)]]

Literal(s) == /\ mode = "codes"
              /\ LET y == lit[s]
                 IN  /\ y.sym \in -1..Lits - 1 /\ Take(IF y.sym = -1 THEN MaxBits ELSE y.bits)
                     /\ IF y.sym = -1 THEN Refuse
                        ELSE /\ out' = Append(out, y.sym) /\ ref' = Append(ref, y.sym)
                             /\ mode' = Ended(out', FALSE, pos', virt', bitcnt')
                             /\ UNCHANGED <<data, need, last, table>>
EndBlock(s) == /\ mode = "codes"
               /\ LET y == lit[s]
                  IN  y.sym = Eob /\ Take(y.bits) /\ mode' = Ended(out, TRUE, pos', virt', bitcnt')
               /\ UNCHANGED <<data, need, last, table, out, ref>>
Match(s, t, e, f) ==
  /\ mode = "codes"
  /\ LET y == lit[s]
         z == dist[t]
         l == y.sym - Eob
         head == y.bits + LenExtra[l]
         d == DistBase[z.sym + 1] + f
     IN  /\ y.sym > Eob
         /\ IF l \notin DOMAIN LenBase THEN Take(y.bits) /\ Refuse
            ELSE IF z.sym + 1 \notin DOMAIN DistBase THEN Take(head + (IF z.sym = -1 THEN MaxBits ELSE z.bits)) /\ Refuse
            ELSE /\ e < 2^LenExtra[l] /\ f < 2^DistExtra[z.sym + 1]
                 /\ Take(head + z.bits + DistExtra[z.sym + 1])
                 /\ IF d > Len(out) THEN Refuse
                    ELSE LET len == Min({LenBase[l] + e, need - Len(out)})
                         IN  /\ out' = CopyMatch(out, d, len) /\ ref' = Repeat(ref, d, len)
                             /\ mode' = Ended(out', FALSE, pos', virt', bitcnt')
                             /\ UNCHANGED <<data, need, last, table>>

Next == \/ \E d \in DataLens, n \in OutLens, ok \in BOOLEAN : Open(d, n, ok)
        \/ Starved
        \/ \E final \in BOOLEAN, type \in 0..3 : Block(final, type)
        \/ \E len \in StoredLens, good \in BOOLEAN : Stored(len, good)
        \/ \E h \in Headers : Shape(h[1], h[2])
        \/ \E l \in 0..MaxBits : LenSym("length", l)
        \/ \E n \in 2..3, sym \in {"repeat", "zeros"} : LenSym(sym, n)
        \/ Tables
        \/ \E s \in C!Streams : Literal(s) \/ EndBlock(s) \/ \E t \in C!Streams, e, f \in {0, 1} : Match(s, t, e, f)

Spec == Init /\ [][Next]_vars

-------------------------------------------------------------------------------
(* Properties *)

\* Read ahead, padded and handed back as it is, the buffer always stands where a decoder that reads bit
\* by bit would: the bits used are the bytes loaded less those buffered, the bytes written are those such
\* a decoder writes, also for a match that overlaps itself, never more than the image needs; an image is
\* returned only if every bit of it was real input, and the stream is said to end early only if one was not
\* (inflate.rs).
InflateExact ==
  /\ mode \notin {"idle", "short", "error"} => used = (pos + virt) * Byte - bitcnt /\ bitcnt \in 0..Width
  /\ out = ref /\ Len(out) <= need
  /\ mode = "done" => Len(out) = need /\ used <= data * Byte
  /\ mode = "short" => used > data * Byte

\* Whatever code lengths are accepted, lookup and slow path together read every stream as the canonical
\* code means it, and refuse a stream only if no code begins it (Huffman::new, decode_slow). The lengths a
\* dynamic block has given so far are any list of them, and stand for the table of a JPEG, which may be
\* incomplete: when its test accepts them, the lookup, maxcode and valoffset read every stream as the same
\* canonical code means it (Huff::new, Bits::huff).
CodesExact ==
  /\ mode = "tables" => \A code \in {lit, dist} : C!Reader(code) = C!Meaning(code)
  /\ mode = "lens" /\ C!JpegAccepted(lens) => C!JpegReader(lens) = C!Meaning(lens)
===============================================================================
