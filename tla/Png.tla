--------------------------------- MODULE Png ---------------------------------
(* The PNG decoder of mimo26-image: its chunks, the rows of each interlace pass,    *)
(* filters, sample formats, palette and transparency, and the orientation an eXIf   *)
(* chunk asks for.                                                                *)
(*                                                                                *)
(* Bytes of the image data are a fixed function of their place; what a chunk holds  *)
(* and each row's filter are any.  Inflation is module Inflate's: here it gives     *)
(* just the bytes asked for, or fails.                                             *)
EXTENDS Integers, Sequences, FiniteSets, TLC, SequencesExt, FiniteSetsExt

CONSTANTS MaxPixels,   \* MAX_DECODE_PIXELS
          Sizes,       \* <<width, height>> of a header
          Formats,     \* <<colour type, bit depth>> of a header
          Tags,        \* sequences of IFD0 entries: [tag, type, value]
          MaxChunks    \* bound on the chunks of a file

VARIABLES st,       \* "head", "data", "tail", "rows", "done", "error"
          chunks, hdr, plte, trns, exif,
          pass, row, prev,            \* the row to read next and the row before it in its pass
          canon, writes,              \* samples by pixel, and how often one was written
          last,                       \* the row just read: [filter, raw, cur, prev, pass, row]
          width, height, image        \* the picture: where each pixel comes from

vars == <<st, chunks, hdr, plte, trns, exif, pass, row, prev, canon, writes, last, width, height, image>>
meta == <<hdr, plte, trns, exif>>
raster == <<pass, row, prev, canon, writes, last>>
picture == <<width, height, image>>

None == <<>>
NoHdr == [w |-> 0, h |-> 0, ctype |-> 0, depth |-> 0, interlaced |-> FALSE]
CeilDiv(a, b) == (a + b - 1) \div b

Init == /\ st = "head" /\ chunks = 0 /\ hdr = NoHdr /\ plte = FALSE /\ trns = None /\ exif = None
        /\ pass = 1 /\ row = 0 /\ prev = None /\ canon = None /\ writes = 0 /\ last = None
        /\ width = 0 /\ height = 0 /\ image = None

Fail == st' = "error" /\ UNCHANGED <<chunks, meta, raster, picture>>

-------------------------------------------------------------------------------
(* Chunks *)

More == chunks < MaxChunks /\ chunks' = chunks + 1

\* Up to the first IDAT a chunk must be whole.
Broken == st = "head" /\ Fail
Ihdr(s, f, i) == /\ st = "head" /\ More
                 /\ hdr' = [w |-> s[1], h |-> s[2], ctype |-> f[1], depth |-> f[2], interlaced |-> i]
                 /\ UNCHANGED <<st, plte, trns, exif, raster, picture>>
Plte == /\ st = "head" /\ More /\ hdr # NoHdr /\ hdr.ctype = 3
        /\ plte' = TRUE /\ UNCHANGED <<st, hdr, trns, exif, raster, picture>>
\* parse_trns: a key of gray images, the alphas of a palette; of RGB only its length matters.
Trns(body) ==
  /\ st = "head" /\ More /\ hdr # NoHdr
  /\ LET short == (hdr.ctype = 0 /\ Len(body) < 2) \/ (hdr.ctype = 2 /\ Len(body) < 6)
         key == IF hdr.depth = 1 THEN IF body[1] + body[2] # 0 THEN 255 ELSE 0 ELSE body[2]
     IN  IF short THEN st' = "error" /\ UNCHANGED <<meta, raster, picture>>
         ELSE /\ trns' = CASE hdr.ctype = 3 -> body [] hdr.ctype = 0 -> <<key>> [] OTHER -> None
              /\ UNCHANGED <<st, hdr, plte, exif, raster, picture>>
\* An eXIf counts before and after the image data; the last one is used.
Exif(tags) == /\ st \in {"head", "tail"} /\ More
              /\ exif' = tags /\ UNCHANGED <<st, hdr, plte, trns, raster, picture>>
Idat == /\ st \in {"head", "data"} /\ More
        /\ IF hdr = NoHdr THEN st' = "error" ELSE st' = "data"
        /\ UNCHANGED <<meta, raster, picture>>
AfterData == st = "data" /\ st' = "tail" /\ UNCHANGED <<chunks, meta, raster, picture>>

-------------------------------------------------------------------------------
(* Rows *)

ValidFormat == \/ hdr.ctype = 0 /\ hdr.depth \in {1, 2, 4, 8, 16}
               \/ hdr.ctype \in {2, 4, 6} /\ hdr.depth \in {8, 16}
               \/ hdr.ctype = 3 /\ hdr.depth \in {1, 2, 4, 8}
Channels == CASE hdr.ctype \in {0, 3} -> 1 [] hdr.ctype = 4 -> 2 [] hdr.ctype = 2 -> 3 [] OTHER -> 4
PixelBits == hdr.depth * Channels
RowBytes(w) == CeilDiv(w * PixelBits, 8)
Bpp == Max({PixelBits \div 8, 1})

\* Mutant: the last two passes trade places.
Passes_Swapped == IF hdr.interlaced
                  THEN <<<<0, 0, 8, 8>>, <<4, 0, 8, 8>>, <<0, 4, 4, 8>>, <<2, 0, 4, 4>>, <<0, 2, 2, 4>>, <<0, 1, 1, 2>>, <<1, 0, 2, 2>>>>
                  ELSE <<<<0, 0, 1, 1>>>>
\* The first column and row of each pass, and its steps.
Passes == IF hdr.interlaced
          THEN <<<<0, 0, 8, 8>>, <<4, 0, 8, 8>>, <<0, 4, 4, 8>>, <<2, 0, 4, 4>>, <<0, 2, 2, 4>>, <<1, 0, 2, 2>>, <<0, 1, 1, 2>>>>
          ELSE <<<<0, 0, 1, 1>>>>
PassDims(p) == <<IF hdr.w > p[1] THEN CeilDiv(hdr.w - p[1], p[3]) ELSE 0,
                 IF hdr.h > p[2] THEN CeilDiv(hdr.h - p[2], p[4]) ELSE 0>>
NotEmpty(i) == 0 \notin {PassDims(Passes[i])[1], PassDims(Passes[i])[2]}

Pixels == (0..hdr.w - 1) \X (0..hdr.h - 1)
Unset == <<>>
Begin == /\ st = "tail"
         /\ IF ~ValidFormat \/ hdr.w = 0 \/ hdr.h = 0 \/ hdr.w * hdr.h > MaxPixels THEN Fail
            ELSE /\ st' = "rows" /\ pass' = 1 /\ row' = 0 /\ prev' = None
                 /\ canon' = [p \in Pixels |-> Unset] /\ writes' = 0 /\ last' = None
                 /\ UNCHANGED <<chunks, meta, picture>>
Truncated == st = "tail" /\ Fail

\* The bytes of a row as inflated.
Raw(i, r, n) == [k \in 1..n |-> (37 * i + 91 * r + 53 * k + 140 * (k % 3)) % 256]

Paeth(a, b, c) == LET abs(x) == IF x < 0 THEN -x ELSE x
                      pa == abs(b - c)
                      pb == abs(a - c)
                      pc == abs(a + b - 2 * c)
                  IN  IF pa <= pb /\ pa <= pc THEN a ELSE IF pb <= pc THEN b ELSE c
\* unfilter, in place from the left; up = None in the first row of a pass.
Unfilter(filter, raw, up) ==
  LET cur[k \in 1..Len(raw)] ==
        LET a == cur[k - Bpp]
            add == CASE filter = 1 /\ k > Bpp -> a
                     [] filter = 2 /\ up # None -> up[k]
                     [] filter = 3 /\ up = None /\ k > Bpp -> a \div 2
                     [] filter = 3 /\ up # None /\ k <= Bpp -> up[k] \div 2
                     [] filter = 3 /\ up # None /\ k > Bpp -> (a + up[k]) \div 2
                     [] filter = 4 /\ up = None /\ k > Bpp -> a
                     [] filter = 4 /\ up # None /\ k <= Bpp -> up[k]
                     [] filter = 4 /\ up # None /\ k > Bpp -> Paeth(a, up[k], up[k - Bpp])
                     [] OTHER -> 0
        IN  (raw[k] + add) % 256
  IN  [k \in 1..Len(raw) |-> cur[k]]

\* canonicalize: the 8-bit samples of pixel i of a row.
Scale == CASE hdr.ctype = 0 /\ hdr.depth = 1 -> 255 [] hdr.ctype = 0 /\ hdr.depth = 2 -> 85
           [] hdr.ctype = 0 /\ hdr.depth = 4 -> 17 [] OTHER -> 1
Samples(cur, i) ==
  [c \in 1..Channels |->
     LET s == i * Channels + c - 1
         per == 8 \div hdr.depth
         shift == 8 - hdr.depth * ((s % per) + 1)
     IN  CASE hdr.depth = 8 -> cur[s + 1]
           [] hdr.depth = 16 /\ hdr.ctype = 0 -> IF cur[2 * s + 1] # 0 THEN 255 ELSE cur[2 * s + 2]
           [] hdr.depth = 16 /\ hdr.ctype # 0 -> cur[2 * s + 1]
           [] OTHER -> ((cur[s \div per + 1] \div 2^shift) % 2^hdr.depth) * Scale]

Row(filter) ==
  /\ st = "rows" /\ pass \in DOMAIN Passes /\ NotEmpty(pass)
  /\ LET p == Passes[pass]
         d == PassDims(p)
         raw == Raw(pass, row, RowBytes(d[1]))
         cur == Unfilter(filter, raw, prev)
         at == [i \in 0..d[1] - 1 |-> <<p[1] + i * p[3], p[2] + row * p[4]>>]
     IN  IF filter > 4 THEN Fail
         ELSE /\ canon' = [q \in DOMAIN canon |-> LET i == {j \in DOMAIN at : at[j] = q}
                                                  IN  IF i = {} THEN canon[q] ELSE Samples(cur, CHOOSE j \in i : TRUE)]
              /\ writes' = writes + d[1]
              /\ last' = [filter |-> filter, raw |-> raw, cur |-> cur, prev |-> prev, pass |-> pass, row |-> row]
              /\ IF row + 1 < d[2] THEN row' = row + 1 /\ prev' = cur /\ UNCHANGED pass
                 ELSE row' = 0 /\ prev' = None /\ pass' = pass + 1
              /\ UNCHANGED <<st, chunks, meta, picture>>
EmptyPass == /\ st = "rows" /\ pass \in DOMAIN Passes /\ ~NotEmpty(pass)
             /\ pass' = pass + 1 /\ UNCHANGED <<st, chunks, meta, row, prev, canon, writes, last, picture>>
\* Bound: every filter in images of few rows, one after the other in larger ones.
Filters == IF hdr.h <= 2 /\ ~hdr.interlaced THEN 0..5 ELSE {(row + pass) % 5}

-------------------------------------------------------------------------------
(* Colour, transparency, orientation *)

\* over_white_exact: one value with an alpha over white, in AlphaComposite.c's integers.
OverWhite(c, a) ==
  LET coef1 == (a * 255 * 255 * 128) \div (a * 255 + 255 * (255 - a))
      tmp == c * coef1 + 255 * (255 * 128 - coef1) + 128 * 128
  IN  IF a = 0 THEN 255 ELSE (((tmp \div 256) + tmp) \div 256) \div 128

\* to_rgb: palettes have 256 entries, the unset ones opaque black.
Palette(i) == IF plte /\ i < 2 THEN 10 + i ELSE 0
Alpha(i) == IF i < Len(trns) THEN trns[i + 1] ELSE 255
Gray(v) == IF trns = <<v>> THEN 255 ELSE v
Rgb(s) == CASE hdr.ctype = 2 -> s
            [] hdr.ctype = 6 -> [k \in 1..3 |-> OverWhite(s[k], s[4])]
            [] hdr.ctype = 4 -> [k \in 1..3 |-> OverWhite(s[1], s[2])]
            [] hdr.ctype = 3 -> [k \in 1..3 |-> OverWhite(Palette(s[1]), Alpha(s[1]))]
            [] OTHER -> [k \in 1..3 |-> Gray(s[1])]

\* ifd0_orientation and first_value: the last usable entry of tag 0x0112.
Orientation(tags) ==
  LET mine == {i \in DOMAIN tags : tags[i].tag = "orientation" /\ tags[i].type # "unknown"}
      e == tags[Max(mine)]
  IN  IF tags = None \/ mine = {} THEN 1 ELSE IF e.type = "bytes" THEN 1 ELSE e.value

\* exif::apply: the pixel that column c and row r of the turned picture shows.
Source(o, w, h, c, r) == CASE o = 2 -> <<w - 1 - c, r>> [] o = 3 -> <<w - 1 - c, h - 1 - r>> [] o = 4 -> <<c, h - 1 - r>>
                           [] o = 5 -> <<r, c>> [] o = 6 -> <<r, h - 1 - c>> [] o = 7 -> <<w - 1 - r, h - 1 - c>>
                           [] o = 8 -> <<w - 1 - r, c>> [] OTHER -> <<c, r>>
Finish == /\ st = "rows" /\ pass \notin DOMAIN Passes
          /\ LET o == Orientation(exif)
             IN  /\ width' = IF o \in 5..8 THEN hdr.h ELSE hdr.w
                 /\ height' = IF o \in 5..8 THEN hdr.w ELSE hdr.h
                 /\ image' = [q \in (0..width' - 1) \X (0..height' - 1) |->
                                LET s == Source(o, hdr.w, hdr.h, q[1], q[2]) IN [from |-> s, rgb |-> Rgb(canon[s])]]
          /\ st' = "done" /\ UNCHANGED <<chunks, meta, raster>>

-------------------------------------------------------------------------------
Next == \/ Broken \/ Plte \/ Idat \/ AfterData \/ Begin \/ Truncated \/ EmptyPass \/ Finish
        \/ \E s \in Sizes, f \in Formats, i \in BOOLEAN : Ihdr(s, f, i)
        \/ \E body \in {<<0>>, <<0, 0>>, <<7, 190>>, <<0, 1, 0, 2, 0, 3>>} : Trns(body)
        \/ \E t \in Tags : Exif(t)
        \/ \E f \in Filters : Row(f)

Spec == Init /\ [][Next]_vars

-------------------------------------------------------------------------------
(* Properties *)

\* Adam7 as the PNG standard draws it: the pass of each pixel of an 8 by 8 tile.
Tile == <<<<1, 6, 4, 6, 2, 6, 4, 6>>, <<7, 7, 7, 7, 7, 7, 7, 7>>, <<5, 6, 5, 6, 5, 6, 5, 6>>, <<7, 7, 7, 7, 7, 7, 7, 7>>,
          <<3, 6, 4, 6, 3, 6, 4, 6>>, <<7, 7, 7, 7, 7, 7, 7, 7>>, <<5, 6, 5, 6, 5, 6, 5, 6>>, <<7, 7, 7, 7, 7, 7, 7, 7>>>>
PassOf(q) == IF hdr.interlaced THEN Tile[(q[2] % 8) + 1][(q[1] % 8) + 1] ELSE 1
\* A pass holds its pixels by rows: the row and column of a pixel in its pass.
InPass(q) == LET mine == {p \in Pixels : PassOf(p) = PassOf(q)}
             IN  <<Cardinality({p[2] : p \in {m \in mine : m[2] < q[2]}}), Cardinality({p \in mine : p[2] = q[2] /\ p[1] < q[1]})>>
\* A filter as the standard defines it, bytes outside the row or the pass being 0.
ByteOf(r, k) == IF r = None \/ k < 1 THEN 0 ELSE r[k]
Predicted(l, k) == LET a == ByteOf(l.cur, k - Bpp)
                       b == ByteOf(l.prev, k)
                       c == ByteOf(l.prev, k - Bpp)
                   IN  CASE l.filter = 0 -> 0 [] l.filter = 1 -> a [] l.filter = 2 -> b
                         [] l.filter = 3 -> (a + b) \div 2 [] OTHER -> Paeth(a, b, c)
\* EXIF: the visual side of the stored first row and of the stored first column.
Corners == <<<<"top", "left">>, <<"top", "right">>, <<"bottom", "right">>, <<"bottom", "left">>,
             <<"left", "top">>, <<"right", "top">>, <<"right", "bottom">>, <<"left", "bottom">>>>
Along(side, n, w, h) == CASE side = "top" -> n [] side = "left" -> n [] side = "bottom" -> h - 1 - n [] OTHER -> w - 1 - n

\* Every row undoes its filter against the row before it in its own pass, each pixel takes its sample from
\* the pass, row and column where Adam7 puts it, every pixel is written once, and the picture shows each
\* stored pixel where the EXIF orientation says it is seen; blending over white is off by less than one
\* and exact for opaque pixels (png.rs, exif.rs).
PixelsPlaced ==
  /\ last # None =>
       /\ \A k \in DOMAIN last.cur : last.cur[k] = (last.raw[k] + Predicted(last, k)) % 256
       /\ \A q \in Pixels : (PassOf(q) = last.pass /\ InPass(q)[1] = last.row) => canon[q] = Samples(last.cur, InPass(q)[2])
  /\ st = "done" =>
       /\ writes = Cardinality(Pixels) /\ \A q \in Pixels : canon[q] # Unset
       /\ {image[q].from : q \in DOMAIN image} = Pixels
       /\ \A q \in DOMAIN image :
            LET o == Orientation(exif)
                s == Corners[IF o \in 1..8 THEN o ELSE 1]
                f == image[q].from
                byRow == Along(s[1], f[2], width, height)
                byCol == Along(s[2], f[1], width, height)
            IN  q = IF s[1] \in {"top", "bottom"} THEN <<byCol, byRow>> ELSE <<byRow, byCol>>
       /\ hdr.ctype \in {4, 6} => \A q \in DOMAIN image : \A k \in 1..3 :
            LET s == canon[image[q].from]
                v == IF hdr.ctype = 6 THEN s[k] ELSE s[1]
                a == s[Len(s)]
                err == 255 * image[q].rgb[k] - (v * a + 255 * (255 - a))
            IN  err \in -254..254 /\ (a = 255 => image[q].rgb[k] = v)
===============================================================================
