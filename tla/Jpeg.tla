--------------------------------- MODULE Jpeg ---------------------------------
(* The JPEG decoder of mimo26-image: markers, frame geometry, sequential and       *)
(* progressive scans, restart intervals and their resynchronisation, block         *)
(* smoothing and upsampling.                                                       *)
(*                                                                                *)
(* The file is read as it is decoded: every marker, header and Huffman symbol is   *)
(* any the format can hold.  Entropy-coded data is a sequence of segments, each    *)
(* the data of some MCUs up to the next marker; an MCU's data is tagged with the   *)
(* restart interval it was written for.  Natural order, IDCT and colour arithmetic *)
(* are left out: a coefficient keeps its position in the scan order.               *)
EXTENDS Integers, Sequences, FiniteSets, TLC, SequencesExt, FiniteSetsExt

CONSTANTS Blk,        \* samples on a block's side: 8, scaled
          N,          \* coefficients of a block: 64, scaled
          Zrl,        \* the run of a ZRL symbol: 15, scaled
          Smooth,     \* coefficients block smoothing looks at: 10, scaled
          MaxPixels,  \* MAX_DECODE_PIXELS
          Sizes,      \* widths and heights a frame header may give
          FrameComps, \* sequences of [h, v, tq] a frame header may give
          Headers,    \* scan headers: [comps, ss, se, ah, al]
          Intervals,  \* restart intervals a DRI may give
          ScanFrames, BandMcus, MaxScans, MaxSyms, MaxLost
                      \* bounds: <<width, height, sampling factors, progressive>> of the frames that are scanned, MCUs of a
                      \* scan of an AC band, scans, symbols of a block, markers lost in a row

VARIABLES st,       \* "markers", "scan", "done", "error"
          qt, dht,  \* slots with a quantization table; [class |-> slots] with a Huffman table
          ri,       \* restart_interval
          frame, comps, scans, single, app, color,
          scan,     \* the scan under way
          rest,     \* the segments left of it
          coefs,    \* per component and block: the coefficients, or what a sequential scan's IDCT was given
          got,      \* per MCU of the scan: the interval its data was written for, or Zeroed
          start,    \* coefs when the scan began
          clean     \* an undamaged, legal successive approximation in which no run leaves its band

vars == <<st, qt, dht, ri, frame, comps, scans, single, app, color, scan, rest, coefs, got, start, clean>>
tables == <<qt, dht, ri>>
image == <<frame, comps, scans, single, app, color>>
run == <<scan, rest, coefs, got, start, clean>>

NoFrame == [width |-> 0, height |-> 0, progressive |-> FALSE, mcusX |-> 0, mcusY |-> 0, lastGood |-> 0]
NoTables == [c \in {"dc", "ac"} |-> {}]
NoScan == [comps |-> <<>>]
Zeroed == 99
CeilDiv(a, b) == (a + b - 1) \div b
Wrap16(x) == ((x + 32768) % 65536) - 32768
Index(k) == IF k < N THEN k ELSE N - 1
EmptyBlock == [k \in 0..N - 1 |-> 0]

Init == /\ st = "markers" /\ qt = {} /\ dht = NoTables /\ ri = 0
        /\ frame = NoFrame /\ comps = <<>> /\ scans = 0 /\ single = FALSE
        /\ app = "none" /\ color = "YCbCr"
        /\ scan = NoScan /\ rest = <<>> /\ coefs = <<>> /\ got = <<>> /\ start = <<>> /\ clean = TRUE

\* Nothing of a file that is refused is kept.
Fail == /\ st' = "error" /\ qt' = {} /\ dht' = NoTables /\ ri' = 0
        /\ frame' = NoFrame /\ comps' = <<>> /\ scans' = 0 /\ single' = FALSE /\ app' = "none" /\ color' = "YCbCr"
        /\ scan' = NoScan /\ rest' = <<>> /\ coefs' = <<>> /\ got' = <<>> /\ start' = <<>> /\ clean' = TRUE

-------------------------------------------------------------------------------
(* Tables and application segments *)

\* Bound: a file that is scanned gives its frame header, its tables and its scans in that order.
Scanned == frame = NoFrame \/ <<frame.width, frame.height, [i \in DOMAIN comps |-> <<comps[i].h, comps[i].v>>], frame.progressive>> \in ScanFrames
Begun == st = "markers" /\ frame # NoFrame /\ scans = 0 /\ Scanned

Dqt(t) == /\ Begun
          /\ IF t >= 4 THEN Fail ELSE qt' = qt \cup {t} /\ UNCHANGED <<st, dht, ri, image, run>>

Dht(class, slot) == /\ Begun
                    /\ IF slot >= 4 THEN Fail
                       ELSE dht' = [dht EXCEPT ![class] = @ \cup {slot}] /\ UNCHANGED <<st, qt, ri, image, run>>

Dri(n) == Begun /\ ri' = n /\ UNCHANGED <<st, qt, dht, image, run>>

\* Only up to the first scan; bound: in baseline files with colour.
App(kind) == /\ Begun /\ qt = {} /\ Len(comps) > 1 /\ ~frame.progressive
             /\ app' = IF app = "jfif" THEN app ELSE kind
             /\ UNCHANGED <<st, tables, frame, comps, scans, single, color, run>>

\* A marker the decoder refuses: lossless, hierarchical, arithmetic, a second SOI or frame header, no EOI.
BadMarker == st = "markers" /\ Fail

-------------------------------------------------------------------------------
(* Frame header *)

MaxOf(cs, f) == Max({cs[i][f] : i \in DOMAIN cs})

Component(c, w, h, mh, mv) ==
  LET dw == CeilDiv(w * c.h, mh)
      mx == CeilDiv(w, Blk * mh)
      my == CeilDiv(h, Blk * mv)
      up == <<mh \div c.h, mv \div c.v>>
  IN  [h |-> c.h, v |-> c.v, tq |-> c.tq, dw |-> dw, dh |-> CeilDiv(h * c.v, mv),
       bw |-> CeilDiv(w * c.h, mh * Blk), bh |-> CeilDiv(h * c.v, mv * Blk), pbw |-> mx * c.h, pbh |-> my * c.v,
       up |-> CASE up = <<1, 1>> -> <<"Full", 1, 1>>
                [] up = <<2, 1>> /\ dw > 2 -> <<"H2V1", 2, 1>>
                [] up = <<1, 2>> -> <<"H1V2", 1, 2>>
                [] up = <<2, 2>> /\ dw > 2 -> <<"H2V2", 2, 2>>
                [] OTHER -> <<"Box", up[1], up[2]>>,
       q |-> FALSE, bits |-> [k \in 0..N - 1 |-> -1], prev |-> [k \in 0..N - 1 |-> 0], scanned |-> FALSE]

Sof(progressive, w, h, cs) ==
  /\ st = "markers" /\ frame = NoFrame
  /\ LET mh == MaxOf(cs, "h")
         mv == MaxOf(cs, "v")
         ok == /\ Len(cs) \in {1, 3} /\ w > 0 /\ h > 0 /\ w * h <= MaxPixels
               /\ \A i \in DOMAIN cs : cs[i].h \in 1..4 /\ cs[i].v \in 1..4 /\ cs[i].tq < 4
               /\ \A i \in DOMAIN cs : mh % cs[i].h = 0 /\ mv % cs[i].v = 0
     IN  IF ~ok THEN Fail
         ELSE /\ frame' = [width |-> w, height |-> h, progressive |-> progressive,
                           mcusX |-> CeilDiv(w, Blk * mh), mcusY |-> CeilDiv(h, Blk * mv), lastGood |-> 0]
              /\ comps' = [i \in DOMAIN cs |-> Component(cs[i], w, h, mh, mv)]
              /\ UNCHANGED <<st, tables, scans, single, app, color, run>>

-------------------------------------------------------------------------------
(* Scan header *)

\* With neither segment the component ids decide, which are left out.
Color(n) == CASE n = 1 -> {"Gray"}
              [] n # 1 /\ app \in {"jfif", "adobe1"} -> {"YCbCr"}
              [] n # 1 /\ app = "adobe0" -> {"Rgb"}
              [] OTHER -> {"YCbCr", "Rgb"}

Kind(hd) == CASE ~frame.progressive -> "Sequential"
              [] hd.ss = 0 -> IF hd.ah = 0 THEN "DcFirst" ELSE "DcRefine"
              [] OTHER -> IF hd.ah = 0 THEN "AcFirst" ELSE "AcRefine"

ProgressiveOk(hd) ==
  /\ IF hd.ss = 0 THEN hd.se = 0 ELSE hd.ss <= hd.se /\ hd.se < N /\ Len(hd.comps) = 1
  /\ hd.ah # 0 => hd.al + 1 = hd.ah
  /\ hd.al <= 13

\* std_huff_tables fill slots 0 and 1 of a sequential file's first scan.
Tables == IF scans = 0 /\ ~frame.progressive THEN [c \in {"dc", "ac"} |-> dht[c] \cup {0, 1}] ELSE dht

TablesOk(kind) == /\ kind \in {"Sequential", "DcFirst"} => 0 \in Tables["dc"]
                  /\ kind \in {"Sequential", "AcFirst", "AcRefine"} => 0 \in Tables["ac"]

\* jdphuff start_pass: the bits known before the scan are remembered, then al is recorded.
Pass(c, hd) == [c EXCEPT !.q = TRUE, !.scanned = TRUE,
                         !.prev = [k \in 0..N - 1 |-> IF k \in Min({hd.ss, 1})..Max({hd.se, Smooth - 1})
                                                      THEN IF scans > 0 THEN c.bits[k] ELSE 0 ELSE @[k]],
                         !.bits = [k \in 0..N - 1 |-> IF k \in hd.ss..hd.se THEN hd.al ELSE @[k]]]
Latch(c, hd) == IF frame.progressive THEN Pass(c, hd) ELSE [c EXCEPT !.q = TRUE, !.scanned = TRUE]

\* decode_scan's extent: a scan of one component covers its own blocks, not the padded MCUs.
Extent(cs) == IF Len(cs) = 1 THEN <<comps[cs[1]].bw, comps[cs[1]].bh>> ELSE <<frame.mcusX, frame.mcusY>>

\* A legal successive approximation: each band first, then one bit at a time.
Legal(hd) == \A i \in DOMAIN hd.comps : \A k \in hd.ss..hd.se :
               comps[hd.comps[i]].bits[k] = IF hd.ah = 0 THEN -1 ELSE hd.ah

\* The entropy-coded data as written, then what a few faults make of it: restart markers lost
\* (never more than MaxLost in a row), one interval cut short, and other markers in between.
Rst(i) == i % 8
Eoi == 100
Low == 101
Eof == 102
Segments(mcus, lost, short, low, end) ==
  LET n == IF ri = 0 THEN 1 ELSE CeilDiv(mcus, ri)
      size == IF ri = 0 THEN mcus ELSE ri
      data(i) == [j \in 1..(IF i = short THEN size - 1 ELSE size) |-> i]
      mark(i) == IF i = n - 1 THEN end ELSE Rst(i)
      seg[i \in 0..n - 1] ==
        LET own == IF i = low THEN <<[data |-> data(i), mark |-> Low], [data |-> <<>>, mark |-> mark(i)]>>
                   ELSE <<[data |-> data(i), mark |-> mark(i)]>>
        IN  IF i = 0 THEN own
            ELSE IF i - 1 \in lost
                 THEN Front(seg[i - 1]) \o <<[data |-> Last(seg[i - 1]).data \o own[1].data, mark |-> own[1].mark]>> \o Tail(own)
                 ELSE seg[i - 1] \o own
  IN  seg[n - 1]
NoRunLost(lost) == \A i \in lost : ~(i..i + MaxLost \subseteq lost)

ScanOk(hd) == /\ frame # NoFrame /\ Len(hd.comps) \in 1..4 /\ \A i \in DOMAIN hd.comps : hd.comps[i] \in DOMAIN comps
              /\ IsInjective(hd.comps) /\ ~(scans > 0 /\ single)
              /\ \A i \in DOMAIN hd.comps : comps[hd.comps[i]].q \/ comps[hd.comps[i]].tq \in qt
              /\ Len(hd.comps) > 1 => MapThenSumSet(LAMBDA i : comps[hd.comps[i]].h * comps[hd.comps[i]].v, DOMAIN hd.comps) <= 10
              /\ frame.progressive => ProgressiveOk(hd)
              /\ TablesOk(Kind(hd))

\* Bounds: a script stops at its first scan that is damaged or no legal approximation; only the first scan of a file is damaged.
NoFault == [lost |-> {}, short |-> -1, low |-> -1, end |-> Eoi]
Faults(n) == {f \in [lost : SUBSET (0..n - 2), short : -1..n - 1, low : -1..n - 2, end : {Eoi, Eof}] :
                (scans > 0 => f = NoFault) /\ NoRunLost(f.lost) /\ {f.short, f.low} \cap f.lost = {} /\ -1 \in {f.short, f.low} /\ (ri = 0 => f.short = -1)}

Sos(hd) ==
  /\ st = "markers" /\ scans < MaxScans /\ clean /\ Scanned
  /\ IF ~ScanOk(hd) THEN Fail
     ELSE LET e == Extent(hd.comps)
              mcus == e[1] * e[2]
              buf == [i \in DOMAIN comps |-> [b \in 1..comps[i].pbw * comps[i].pbh |-> EmptyBlock]]
          IN  /\ (hd.ss > 0 \/ ~frame.progressive) => mcus <= BandMcus
              /\ st' = "scan" /\ dht' = Tables
              /\ color' \in IF scans = 0 THEN Color(Len(comps)) ELSE {color}
              /\ single' = IF scans = 0 THEN ~frame.progressive /\ Len(hd.comps) = Len(comps) ELSE single
              /\ comps' = [i \in DOMAIN comps |-> IF i \in ToSet(hd.comps) THEN Latch(comps[i], hd) ELSE comps[i]]
              /\ \E f \in Faults(IF ri = 0 THEN 1 ELSE CeilDiv(mcus, ri)) :
                   /\ scan' = [comps |-> hd.comps, kind |-> Kind(hd), ss |-> hd.ss, se |-> hd.se, ah |-> hd.ah, al |-> hd.al,
                               mcu |-> 0, w |-> e[1], mcus |-> mcus, eob |-> 0, pred |-> [i \in DOMAIN comps |-> 0],
                               short |-> FALSE, left |-> ri, next |-> 0, lost |-> f.lost, cut |-> f.short]
                   /\ rest' = Segments(mcus, f.lost, f.short, f.low, f.end)
                   /\ clean' = (f = NoFault /\ (frame.progressive => Legal(hd)))
              /\ coefs' = IF scans = 0 THEN buf ELSE coefs
              /\ start' = IF scans = 0 THEN buf ELSE coefs
              /\ got' = <<>>
              /\ UNCHANGED <<qt, ri, frame, scans, app>>

-------------------------------------------------------------------------------
(* Blocks *)

\* Symbols: a run, a value (0: none) and the extra bits of an end-of-band run.
\* Bound: both signs in short scans only.
Diffs == IF scan.mcus > BandMcus THEN {1} ELSE {-1, 1}
Sym == [r : 0..Zrl, v : {-1, 1}, x : {0}] \cup [r : 0..Zrl, v : {0}, x : {0, 1}]

\* seq_block and ac_first: one symbol.
FirstStep(b, y) ==
  IF b.stop \/ b.k > b.se THEN [b EXCEPT !.extra = TRUE]
  ELSE IF y.v # 0
       THEN [b EXCEPT !.k = @ + y.r + 1, !.coef[Index(b.k + y.r)] = Wrap16(y.v * 2^b.al), !.out = @ \/ b.k + y.r > b.se]
       ELSE IF y.r = Zrl THEN [b EXCEPT !.k = @ + Zrl + 1, !.out = @ \/ b.k + Zrl > b.se]
            ELSE [b EXCEPT !.stop = TRUE, !.eob = 2^y.r + (IF y.r = 0 THEN 0 ELSE y.x)]

\* Mutant: the correction is added whatever the sign.
Refined_Plus(c, bit, al) == IF bit /\ (c \div 2^al) % 2 = 0 THEN Wrap16(c + 2^al) ELSE c
Refined(c, bit, al) == IF bit /\ (c \div 2^al) % 2 = 0 THEN Wrap16(IF c >= 0 THEN c + 2^al ELSE c - 2^al) ELSE c

RefineBand(coef, from, to, ones, al) ==
  [k \in 0..N - 1 |-> IF k \in from..to /\ coef[k] # 0 THEN Refined(coef[k], k \in ones, al) ELSE coef[k]]

\* ac_refine's inner loop: past the coefficients already known and r zeros.
Landing(b, r) == LET zeros == {j \in b.k..b.se : b.coef[Index(j)] = 0}
                     at == {j \in zeros : Cardinality({i \in zeros : i <= j}) = r + 1}
                 IN  IF at = {} THEN b.se + 1 ELSE CHOOSE j \in at : TRUE
RefineStep(b, y) ==
  IF b.stop \/ b.k > b.se THEN [b EXCEPT !.extra = TRUE]
  ELSE IF y.v = 0 /\ y.r # Zrl THEN [b EXCEPT !.stop = TRUE, !.eob = 2^y.r + (IF y.r = 0 THEN 0 ELSE y.x)]
       ELSE LET p == Landing(b, y.r)
                c == RefineBand(b.coef, b.k, p - 1, b.ones, b.al)
            IN  [b EXCEPT !.k = p + 1, !.coef = IF y.v # 0 THEN [c EXCEPT ![Index(p)] = y.v * 2^b.al] ELSE c,
                          !.out = @ \/ (y.v # 0 /\ p > b.se)]

Block(coef, ss, se, al, ones) == [k |-> ss, se |-> se, al |-> al, coef |-> coef, ones |-> ones, eob |-> 0,
                                  stop |-> FALSE, extra |-> FALSE, out |-> FALSE]
Whole(b) == ~b.extra /\ (b.stop \/ b.k > b.se)
EobLeft(b) == IF b.stop THEN b.eob - 1 ELSE 0

\* The data of a block, by the kind of the scan: a DC difference, symbols, correction bits.
BlockData == LET ys == BoundedSeq(Sym, MaxSyms)
                 band == SUBSET (scan.ss..scan.se)
             IN  CASE scan.kind = "Sequential" -> [d : Diffs, ys : ys, ones : {{}}]
                   [] scan.kind = "DcFirst" -> [d : Diffs, ys : {<<>>}, ones : {{}}]
                   [] scan.kind = "DcRefine" -> [d : {0}, ys : {<<>>}, ones : band]
                   [] scan.kind = "AcFirst" -> [d : {0}, ys : ys, ones : {{}}]
                   [] OTHER -> [d : {0}, ys : ys, ones : band]

\* What a block becomes: [coef, pred, eob, out]; ok when the data is just what it reads.
Ok(coef, pred, eob, out, ok) == [coef |-> coef, pred |-> pred, eob |-> eob, out |-> out, ok |-> ok]
SeqBlock(pred, x) ==
  LET b == FoldLeft(FirstStep, Block([EmptyBlock EXCEPT ![0] = Wrap16(pred + x.d)], 1, N - 1, 0, {}), x.ys)
  IN  Ok(b.coef, pred + x.d, 0, FALSE, Whole(b))
DcFirst(pred, coef, x) == Ok([coef EXCEPT ![0] = Wrap16((pred + x.d) * 2^scan.al)], pred + x.d, 0, FALSE, TRUE)
DcRefine(coef, x) ==
  Ok([coef EXCEPT ![0] = IF 0 \in x.ones /\ (@ \div 2^scan.al) % 2 = 0 THEN @ + 2^scan.al ELSE @], 0, 0, FALSE, TRUE)
AcFirst(coef, eob, x) ==
  LET b == FoldLeft(FirstStep, Block(coef, scan.ss, scan.se, scan.al, {}), x.ys)
  IN  IF eob > 0 THEN Ok(coef, 0, eob - 1, FALSE, x.ys = <<>>) ELSE Ok(b.coef, 0, EobLeft(b), b.out, Whole(b))
AcRefine(coef, eob, x) ==
  LET first == Block(coef, scan.ss, scan.se, scan.al, x.ones)
      b == IF eob > 0 THEN [first EXCEPT !.stop = TRUE, !.eob = eob] ELSE FoldLeft(RefineStep, first, x.ys)
  IN  Ok(IF b.stop THEN RefineBand(b.coef, b.k, b.se, b.ones, b.al) ELSE b.coef, 0, EobLeft(b), b.out,
         Whole(b) /\ (eob > 0 => x.ys = <<>>))

Decoded(coef, pred, eob, x) == CASE scan.kind = "Sequential" -> SeqBlock(pred, x)
                                 [] scan.kind = "DcFirst" -> DcFirst(pred, coef, x)
                                 [] scan.kind = "DcRefine" -> DcRefine(coef, x)
                                 [] scan.kind = "AcFirst" -> AcFirst(coef, eob, x)
                                 [] OTHER -> AcRefine(coef, eob, x)

\* The blocks of MCU (mx, my), of component i: [col, row] from 0.
McuBlocks(cs, i, mx, my) ==
  IF Len(cs) = 1 THEN {<<mx, my>>}
  ELSE {<<mx * comps[i].h + bx, my * comps[i].v + by>> : bx \in 0..comps[i].h - 1, by \in 0..comps[i].v - 1}
At(i, b) == b[2] * comps[i].pbw + b[1] + 1
McuOrder(cs, mx, my) ==
  FlattenSeq([j \in DOMAIN cs |-> LET bs == SetToSortSeq(McuBlocks(cs, cs[j], mx, my), LAMBDA a, b : At(cs[j], a) < At(cs[j], b))
                                  IN  [k \in DOMAIN bs |-> <<cs[j], At(cs[j], bs[k])>>]])

-------------------------------------------------------------------------------
(* Restart: process_restart, read_restart_marker, jpeg_resync_to_restart *)

Action(code, want) ==
  CASE code = Low -> 2
    [] code = Eoi -> 3
    [] code = Eof -> 0
    [] code \in {(want + 1) % 8, (want + 2) % 8} -> 3
    [] code \in {(want + 7) % 8, (want + 6) % 8} -> 2
    [] OTHER -> 1

\* From the marker that ends the first segment: [rest, pending].
Resync(segs, want) ==
  LET after[i \in 1..Len(segs)] ==
        LET code == segs[i].mark
        IN  CASE code = want -> [rest |-> SubSeq(segs, i + 1, Len(segs)), pending |-> FALSE]
              [] code # want /\ Action(code, want) = 1 -> [rest |-> SubSeq(segs, i + 1, Len(segs)), pending |-> FALSE]
              [] code # want /\ Action(code, want) = 2 -> after[i + 1]
              [] code = Eof -> [rest |-> <<>>, pending |-> TRUE]
              [] OTHER -> [rest |-> <<[segs[i] EXCEPT !.data = <<>>]>> \o SubSeq(segs, i + 1, Len(segs)), pending |-> TRUE]
  IN  after[1]

\* Before an MCU: the state the restart leaves, if one is due.
Restarted == IF ri > 0 /\ scan.left = 0
             THEN LET r == Resync(rest, scan.next)
                  IN  [scan |-> [scan EXCEPT !.next = (@ + 1) % 8, !.short = IF r.pending THEN @ ELSE FALSE, !.eob = 0,
                                             !.pred = [i \in DOMAIN comps |-> 0], !.left = ri], rest |-> r.rest]
             ELSE [scan |-> scan, rest |-> rest]

-------------------------------------------------------------------------------
(* One MCU *)

\* The blocks of the MCU in order, all given the data x; none when the interval's data ran out.
McuResult(s, x, mx, my) ==
  LET step(a, o) == LET b == Decoded(a.coefs[o[1]][o[2]], a.pred[o[1]], a.eob, x)
                    IN  [coefs |-> [a.coefs EXCEPT ![o[1]][o[2]] = b.coef], pred |-> [a.pred EXCEPT ![o[1]] = b.pred],
                         eob |-> b.eob, out |-> a.out \/ b.out, ok |-> a.ok /\ b.ok]
      wipe(a, o) == [a EXCEPT !.coefs[o[1]][o[2]] = IF s.kind = "Sequential" THEN EmptyBlock ELSE @]
      begin == [coefs |-> coefs, pred |-> s.pred, eob |-> s.eob, out |-> FALSE, ok |-> TRUE]
  IN  IF s.short THEN FoldLeft(wipe, begin, McuOrder(s.comps, mx, my)) ELSE FoldLeft(step, begin, McuOrder(s.comps, mx, my))

Mcu ==
  /\ st = "scan" /\ scan.mcu < scan.mcus
  /\ LET r == Restarted
         s == r.scan
         mx == scan.mcu % scan.w
         my == scan.mcu \div scan.w
         data == Head(r.rest).data
         have == ~s.short /\ data # <<>>
         truncated == r.rest = <<>> \/ (~s.short /\ data = <<>> /\ Head(r.rest).mark = Eof)
     IN  IF truncated THEN Fail
         ELSE \E x \in IF s.short THEN {[d |-> 0]} ELSE BlockData :
                LET a == McuResult(s, x, mx, my)
                IN  /\ a.ok
                    /\ coefs' = a.coefs /\ clean' = (clean /\ ~a.out)
                    /\ scan' = [s EXCEPT !.mcu = @ + 1, !.left = IF ri > 0 THEN @ - 1 ELSE @, !.eob = a.eob,
                                         !.pred = a.pred, !.short = @ \/ data = <<>>]
                    /\ frame' = [frame EXCEPT !.lastGood = IF scan.short THEN @
                                    ELSE my \div (IF Len(s.comps) = 1 THEN comps[s.comps[1]].v ELSE 1)]
                    /\ got' = Append(got, IF have THEN data[1] ELSE Zeroed)
                    /\ rest' = IF have THEN <<[r.rest[1] EXCEPT !.data = Tail(@)]>> \o Tail(r.rest) ELSE r.rest
                    /\ UNCHANGED <<st, tables, comps, scans, single, app, color, start>>

\* Marker parsing resumes at the marker that ended the data, or where it stopped.
ScanEnd == /\ st = "scan" /\ scan.mcu = scan.mcus
           /\ st' = "markers" /\ scans' = scans + 1 /\ scan' = NoScan /\ rest' = <<>> /\ got' = <<>> /\ start' = <<>>
           /\ UNCHANGED <<tables, frame, comps, single, app, color, coefs, clean>>

-------------------------------------------------------------------------------
(* The image: block smoothing, upsampling *)

\* smoothing_latches
SmoothOk == /\ \A i \in DOMAIN comps : comps[i].q /\ comps[i].bits[0] >= 0
            /\ \E i \in DOMAIN comps : \E k \in 1..Smooth - 1 : comps[i].bits[k] # 0
Latched(c, r) == IF r > frame.lastGood
                 THEN [k \in 1..Smooth - 1 |-> IF scans > 1 THEN c.prev[k] ELSE -1]
                 ELSE [k \in 1..Smooth - 1 |-> c.bits[k]]
ChangeDc(bits) == \A k \in 1..Smooth - 1 : bits[k] = -1

\* idct_smoothed: the block rows of iMCU row r and the five rows around block row b of it.
BlockRows(c, r) == IF r + 1 < frame.mcusY \/ c.bh % c.v = 0 THEN c.v ELSE c.bh % c.v
Around(c, r, b) ==
  LET n == BlockRows(c, r)
      row == r * c.v + b
      i == r * n + b
      all == n * frame.mcusY
      prev == IF i > 0 THEN row - 1 ELSE row
      next == IF i < all - 1 THEN row + 1 ELSE row
  IN  {row, prev, next, IF i > 1 THEN row - 2 ELSE prev, IF i < all - 2 THEN row + 2 ELSE next}

\* smooth_block's pred: num over 256 q, rounded, below the bit known to be zero.
Pred(num, q, al) == LET p == (128 * q + (IF num < 0 THEN -num ELSE num)) \div (256 * q)
                        m == IF al > 0 /\ p >= 2^al THEN 2^al - 1 ELSE p
                    IN  IF num < 0 THEN -m ELSE m
Estimated(coef, bits, num) ==
  [k \in 0..N - 1 |-> IF k \in 1..Smooth - 1 /\ bits[k] # 0 /\ coef[k] = 0 THEN Pred(num, 1, bits[k])
                      ELSE IF k = 0 /\ ChangeDc(bits) THEN Pred(num, 1, 0) ELSE coef[k]]

\* upsample_row: the sample rows and the last sample of a row read for row y of the image.
RowsRead(c, y) ==
  LET i == y \div c.up[3]
      far == IF y % 2 = 0 THEN Max({i - 1, 0}) ELSE Min({i + 1, c.dh - 1})
  IN  IF c.up[1] \in {"H1V2", "H2V2"} THEN {i, far} ELSE {i}
Written(c) == IF c.up[1] \in {"H2V1", "H2V2"} THEN 2 * c.dw ELSE IF c.up[1] = "H1V2" THEN c.dw ELSE frame.width
LastRead(c) == (frame.width - 1) \div c.up[2]

Finish == /\ st = "markers" /\ st' = IF scans = 0 THEN "error" ELSE "done"
          /\ UNCHANGED <<tables, image, run>>

-------------------------------------------------------------------------------
Next == \/ \E t \in {0, 4} : Dqt(t) \/ \E class \in {"dc", "ac"} : Dht(class, t)
        \/ \E n \in Intervals : Dri(n)
        \/ \E kind \in {"jfif", "adobe0", "adobe1"} : App(kind)
        \/ BadMarker
        \/ \E p \in BOOLEAN, w \in Sizes, h \in Sizes, cs \in FrameComps : Sof(p, w, h, cs)
        \/ \E hd \in Headers : Sos(hd)
        \/ Mcu \/ ScanEnd \/ Finish

Spec == Init /\ [][Next]_vars

-------------------------------------------------------------------------------
(* Properties *)

Grid(w, h) == (0..w - 1) \X (0..h - 1)
Covers(cs, i) ==
  LET e == Extent(cs)
      mcus == Grid(e[1], e[2])
  IN  /\ \A m \in mcus : McuBlocks(cs, i, m[1], m[2]) \subseteq Grid(comps[i].pbw, comps[i].pbh)
      /\ \A b \in Grid(comps[i].bw, comps[i].bh) : Cardinality({m \in mcus : b \in McuBlocks(cs, i, m[1], m[2])}) = 1

\* Whatever size and sampling factors a frame header gives, every index the decoder forms is inside
\* what it allocated and nothing is missed: a scan of one component and one of all of them meet each
\* block of the picture once, inside the padded grid; smoothing and its five rows stay in that grid and
\* take each block row of the picture once; upsampling reads inside the plane and fills the row (jpeg.rs).
ScanPlaced ==
  (st = "markers" /\ scans = 0 /\ frame # NoFrame) =>
    \A i \in DOMAIN comps :
      LET c == comps[i]
          rows == {p \in (0..frame.mcusY - 1) \X (0..c.v - 1) : p[2] < BlockRows(c, p[1])}
      IN  /\ Covers(<<i>>, i) /\ Covers([j \in DOMAIN comps |-> j], i)
          /\ {rb[1] * c.v + rb[2] : rb \in rows} = 0..c.bh - 1
          /\ \A rb \in rows : Around(c, rb[1], rb[2]) \subseteq 0..c.pbh - 1
          /\ c.bw <= c.pbw /\ c.dw <= c.pbw * Blk /\ c.dh <= c.pbh * Blk
          /\ \A y \in 0..frame.height - 1 : RowsRead(c, y) \subseteq 0..c.dh - 1
          /\ LastRead(c) < c.dw /\ Written(c) \in frame.width..frame.width + 1

\* A restart marker that is lost costs the one interval it began and no other: no MCU takes the data
\* of another interval, and an interval whose marker is there is decoded (Bits::restart).
ResyncInPlace ==
  (st = "scan" /\ ri > 0) =>
    /\ \A m \in DOMAIN got : got[m] \in {Zeroed, (m - 1) \div ri}
    /\ \A m \in DOMAIN got : got[m] = Zeroed => ((m - 1) \div ri = scan.cut \/ ((m - 1) \div ri) - 1 \in scan.lost)

Keeps(s, c, k) ==
  IF k \notin scan.ss..scan.se THEN c = s
  ELSE IF k = 0 THEN c \div 2^scan.ah = s \div 2^scan.ah
  ELSE IF s = 0 THEN c \in {0, 2^scan.al, -(2^scan.al)}
  ELSE IF s > 0 THEN c > 0 /\ c \div 2^scan.ah = s \div 2^scan.ah
  ELSE c < 0 /\ (-c) \div 2^scan.ah = (-s) \div 2^scan.ah

\* In a legal successive approximation a refinement scan adds one bit below those already known: it
\* changes no coefficient outside its band, no sign and no bit above its own, and what it finds new is
\* one unit; smoothing then estimates only coefficients still zero and not fully known (ac_refine, smooth_block).
CoefsKept ==
  /\ (st = "scan" /\ clean /\ scan.kind \in {"DcRefine", "AcRefine"}) =>
       \A i \in DOMAIN coefs : \A b \in DOMAIN coefs[i] : \A k \in 0..N - 1 : Keeps(start[i][b][k], coefs[i][b][k], k)
  /\ (st = "done" /\ frame.progressive /\ SmoothOk) =>
       \A i \in DOMAIN coefs : \A b \in DOMAIN coefs[i] : \A k \in 1..N - 1, r \in 0..frame.mcusY - 1, num \in {-600, 600} :
         LET bits == Latched(comps[i], r)
             e == Estimated(coefs[i][b], bits, num)[k]
         IN  /\ (coefs[i][b][k] # 0 \/ (k < Smooth /\ bits[k] = 0)) => e = coefs[i][b][k]
             /\ (coefs[i][b][k] = 0 /\ k < Smooth /\ bits[k] > 0) => e \in -(2^bits[k] - 1)..2^bits[k] - 1
===============================================================================
