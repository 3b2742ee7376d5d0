------------------------------ MODULE Preprocess ------------------------------
(* From an image's data URL to the patches of the vision tower: base64, the size    *)
(* rule, the taps of the bicubic resize and the patch layout.  Decoding the bytes   *)
(* is the business of modules Png and Jpeg.  Sizes are computed in exact            *)
(* arithmetic where the code uses doubles; weights and normalised values are left   *)
(* out: a float of a patch is the pixel and the channel it shows.                   *)
EXTENDS Integers, Sequences, FiniteSets, FiniteSetsExt

CONSTANTS Patch, Merge, Temporal,       \* PATCH, MERGE, TEMPORAL
          MinPixels, MaxPixels, Ratio,  \* MIN_PIXELS, MAX_PIXELS, 200
          Sides, MaxSextets             \* bounds: sides of a decoded image, characters of a payload

VARIABLES st,                 \* "url", "base64", "bytes", "image", "done", "error"
          held, pads, bytes,  \* sextets in acc, padding seen, bytes written
          sextets,            \* all characters of data so far
          w, h, rw, rh

vars == <<st, held, pads, bytes, sextets, w, h, rw, rh>>
Factor == Patch * Merge
CeilDiv(a, b) == (a + b - 1) \div b

Init == st = "url" /\ held = 0 /\ pads = 0 /\ bytes = 0 /\ sextets = 0 /\ w = 0 /\ h = 0 /\ rw = 0 /\ rh = 0

Fail == st' = "error" /\ UNCHANGED <<held, pads, bytes, sextets, w, h, rw, rh>>

-------------------------------------------------------------------------------
(* data_url_bytes and base64::decode *)

Url(form) == /\ st = "url"
             /\ IF form # "base64 image" THEN Fail
                ELSE st' = "base64" /\ UNCHANGED <<held, pads, bytes, sextets, w, h, rw, rh>>

Char(c) ==
  /\ st = "base64" /\ sextets + pads < MaxSextets
  /\ CASE c = "invalid" -> Fail
       [] c = "pad" -> pads' = pads + 1 /\ UNCHANGED <<st, held, bytes, sextets, w, h, rw, rh>>
       [] c = "data" /\ pads > 0 -> Fail
       [] OTHER -> /\ held' = (held + 1) % 4
                   /\ bytes' = IF held = 3 THEN bytes + 3 ELSE bytes
                   /\ sextets' = sextets + 1 /\ UNCHANGED <<st, pads, w, h, rw, rh>>

Ending(n, p) == <<n, p>> \in {<<0, 0>>, <<2, 0>>, <<2, 2>>, <<3, 0>>, <<3, 1>>}
EndUrl == /\ st = "base64"
          /\ LET all == bytes + (CASE held = 2 -> 1 [] held = 3 -> 2 [] OTHER -> 0)
             IN  IF ~Ending(held, pads) \/ all = 0 THEN Fail
                 ELSE st' = "bytes" /\ bytes' = all /\ UNCHANGED <<held, pads, sextets, w, h, rw, rh>>

-------------------------------------------------------------------------------
(* decode, smart_resize, preprocess *)

\* By magic: PNG or JPEG, anything else is refused.
Decode(width, height) == /\ st = "bytes"
                         /\ w' = width /\ h' = height /\ st' = "image" /\ UNCHANGED <<held, pads, bytes, sextets, rw, rh>>
Undecodable == st = "bytes" /\ Fail

\* round_ties_even(n / f) * f
RoundTo(n, f) == LET q == n \div f
                     r == n % f
                 IN  f * (IF 2 * r > f \/ (2 * r = f /\ q % 2 = 1) THEN q + 1 ELSE q)
\* The side a, beside b, of a picture of exactly `pixels` pixels, rounded to the factor: sqrt(pixels * a / b).
SideDown(a, b, pixels) == Factor * Max({k \in 0..pixels : (k * Factor) * (k * Factor) * b <= a * pixels})
SideUp(a, b, pixels) == Factor * Min({k \in 0..pixels : (k * Factor) * (k * Factor) * b >= a * pixels})
\* Mutant: a picture that is too small is rounded down.
SmartResize_Down(hh, ww) ==
  LET hb == RoundTo(hh, Factor)
      wb == RoundTo(ww, Factor)
  IN  IF hb * wb > MaxPixels THEN <<Max({Factor, SideDown(hh, ww, MaxPixels)}), Max({Factor, SideDown(ww, hh, MaxPixels)})>>
      ELSE IF hb * wb < MinPixels THEN <<Max({Factor, SideDown(hh, ww, MinPixels)}), Max({Factor, SideDown(ww, hh, MinPixels)})>>
      ELSE <<hb, wb>>
SmartResize(hh, ww) ==
  LET hb == RoundTo(hh, Factor)
      wb == RoundTo(ww, Factor)
  IN  IF hb * wb > MaxPixels THEN <<Max({Factor, SideDown(hh, ww, MaxPixels)}), Max({Factor, SideDown(ww, hh, MaxPixels)})>>
      ELSE IF hb * wb < MinPixels THEN <<SideUp(hh, ww, MinPixels), SideUp(ww, hh, MinPixels)>>
      ELSE <<hb, wb>>
MergedTokens(hh, ww) == LET r == SmartResize(hh, ww) IN (r[1] \div Factor) * (r[2] \div Factor)

Resize == /\ st = "image"
          /\ IF Max({w, h}) > Ratio * Min({w, h}) THEN Fail
             ELSE /\ rh' = SmartResize(h, w)[1] /\ rw' = SmartResize(h, w)[2]
                  /\ st' = "done" /\ UNCHANGED <<held, pads, bytes, sextets, w, h>>

\* precompute: the input samples output sample x reads, of a line resized from `in` to `out`; in units of 1 / 2 out.
Taps(in, out, x) ==
  LET center == (2 * x + 1) * in
      support == 4 * Max({in, out})
      low == center - support + out
      xmin == IF low <= 0 THEN 0 ELSE low \div (2 * out)
      xmax == Min({(center + support + out) \div (2 * out), in})
      ksize == 2 * CeilDiv(support, 2 * out) + 1
  IN  [from |-> xmin, all |-> Max({xmax - xmin, 0}), count |-> Min({Max({xmax - xmin, 0}), ksize}), ksize |-> ksize]
\* resize_bicubic: the rows the horizontal pass keeps for the vertical one.
Kept(in, out) == LET end == Taps(in, out, out - 1) IN Taps(in, out, 0).from..end.from + end.count - 1

\* preprocess: float `i` of patch row `r` is written from this pixel and channel.
Plane == Patch * Patch
PatchDim == 3 * Temporal * Plane
Written(bh, bw, mh, mw, py, px, c, t) ==
  LET gw == rw \div Patch
      row == ((bh * (gw \div Merge) + bw) * Merge + mh) * Merge + mw
  IN  [at |-> row * PatchDim + c * Temporal * Plane + t * Plane + py * Patch + px,
       from |-> <<(bw * Merge + mw) * Patch + px, (bh * Merge + mh) * Patch + py, c>>]
Patches == {Written(bh, bw, mh, mw, py, px, c, t) :
              bh \in 0..(rh \div Factor) - 1, bw \in 0..(rw \div Factor) - 1, mh \in 0..Merge - 1, mw \in 0..Merge - 1,
              py \in 0..Patch - 1, px \in 0..Patch - 1, c \in 0..2, t \in 0..Temporal - 1}

-------------------------------------------------------------------------------
Next == \/ \E form \in {"base64 image", "remote", "no comma", "not base64", "not an image"} : Url(form)
        \/ \E c \in {"data", "pad", "invalid"} : Char(c)
        \/ EndUrl \/ Undecodable \/ Resize
        \/ \E ww \in Sides, hh \in Sides : Decode(ww, hh)

Spec == Init /\ [][Next]_vars

-------------------------------------------------------------------------------
(* Properties *)

\* Whatever the size of the picture, the size it is resized to is whole merged patches, at least one, and
\* between the two pixel bounds; every tap of the resize is an input sample, no output sample is without
\* one or loses one to the kernel's size, and the vertical pass finds every row it reads (lib.rs, resize.rs).
SizeBounded ==
  st = "done" =>
    /\ rw % Factor = 0 /\ rh % Factor = 0 /\ rw >= Factor /\ rh >= Factor
    /\ rw * rh \in MinPixels..MaxPixels
    /\ \A d \in {<<w, rw>>, <<h, rh>>} : \A x \in 0..d[2] - 1 :
         LET t == Taps(d[1], d[2], x)
         IN  t.all > 0 /\ t.all = t.count /\ t.from + t.count <= d[1] /\ t.from..t.from + t.count - 1 \subseteq Kept(d[1], d[2])

\* An accepted payload is the bytes its characters encode, whole; the patches hold each channel of each
\* pixel once per frame, where Qwen2-VL's layout looks for it; and the placeholders counted from the
\* picture's own size are as many as the merged patches (base64.rs, preprocess.rs, merged_tokens).
PatchesExact ==
  /\ st \in {"bytes", "image", "done"} => /\ bytes = (6 * sextets) \div 8
                                          /\ pads > 0 => (sextets + pads) % 4 = 0
  /\ st = "done" =>
       LET gh == rh \div Patch
           gw == rw \div Patch
           \* the axes of the patch array, outermost first: by merged row and column, patch in it, channel, frame, line, column
           place(x, y, c, t) ==
             LET u == <<y \div Factor, x \div Factor, (y \div Patch) % Merge, (x \div Patch) % Merge, c, t, y % Patch, x % Patch>>
                 n == <<gh \div Merge, gw \div Merge, Merge, Merge, 3, Temporal, Patch, Patch>>
                 flat[i \in 0..8] == IF i = 0 THEN 0 ELSE flat[i - 1] * n[i] + u[i]
             IN  flat[8]
       IN  /\ {p.at : p \in Patches} = 0..gh * gw * PatchDim - 1
           /\ Patches = {[at |-> place(x, y, c, t), from |-> <<x, y, c>>] :
                           x \in 0..rw - 1, y \in 0..rh - 1, c \in 0..2, t \in 0..Temporal - 1}
           /\ MergedTokens(h, w) * Merge * Merge = gh * gw
===============================================================================
