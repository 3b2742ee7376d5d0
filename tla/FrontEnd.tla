------------------------------- MODULE FrontEnd -------------------------------
(***************************************************************************)
(* The request side: the token stream of one connection, and the stages a  *)
(* picture in a request goes through. They share no state in the code, so  *)
(* a behaviour exercises one of them: `part` says which.                   *)
(***************************************************************************)
EXTENDS Connection

CONSTANTS Blk, N, Zrl, Smooth, MaxPixels, Sizes, FrameComps, \* JPEG
          Headers, Intervals, ScanFrames, BandMcus, MaxScans, MaxSyms, MaxLost,
          Byte, Ahead, MaxBits, FastBits, Lits,              \* inflate
          LenBase, LenExtra, DistBase, DistExtra, FixedLit, FixedDist,
          Shapes, MaxLit, MaxDist, DataLens, OutLens, StoredLens,
          PngPixels, PngSizes, Formats, Tags, MaxChunks,     \* PNG
          Patch, Merge, Temporal, MinSize, MaxSize, Ratio,   \* the payload and the patches
          Sides, MaxSextets

VARIABLES part,
          st, qt, dht, ri, frame, comps, scans, single, app, color, scan, rest, coefs, got, start, clean,
          mode, data, need, pos, bitcnt, virt, last, todo, lens, lit, dist, out, used, ref,
          pst, chunks, hdr, plte, trns, exif, pass, row, prev, canon, writes, plast, width, height, shown,
          qst, held, pads, bytes, sextets, w, h, rw, rh

jpeg == <<st, qt, dht, ri, frame, comps, scans, single, app, color, scan, rest, coefs, got, start, clean>>
inflate == <<mode, data, need, pos, bitcnt, virt, last, todo, lens, lit, dist, out, used, ref>>
png == <<pst, chunks, hdr, plte, trns, exif, pass, row, prev, canon, writes, plast, width, height, shown>>
payload == <<qst, held, pads, bytes, sextets, w, h, rw, rh>>
all == <<part, stream, jpeg, inflate, png, payload>>

Jpg == INSTANCE Jpeg

Inf == INSTANCE Inflate WITH Headers <- Shapes

Pic == INSTANCE Png WITH MaxPixels <- PngPixels, Sizes <- PngSizes, st <- pst, last <- plast, image <- shown

Pre == INSTANCE Preprocess WITH MinPixels <- MinSize, MaxPixels <- MaxSize, st <- qst

-------------------------------------------------------------------------------
FrontInit == part \in {"stream", "jpeg", "inflate", "png", "payload"}
             /\ Str!Init /\ Jpg!Init /\ Inf!Init /\ Pic!Init /\ Pre!Init

StreamStep == part = "stream" /\ Str!Next /\ UNCHANGED <<part, jpeg, inflate, png, payload>>
JpegStep == part = "jpeg" /\ Jpg!Next /\ UNCHANGED <<part, stream, inflate, png, payload>>
InflateStep == part = "inflate" /\ Inf!Next /\ UNCHANGED <<part, stream, jpeg, png, payload>>
PngStep == part = "png" /\ Pic!Next /\ UNCHANGED <<part, stream, jpeg, inflate, payload>>
PayloadStep == part = "payload" /\ Pre!Next /\ UNCHANGED <<part, stream, jpeg, inflate, png>>
\* A decoder may come to its end or to a bound; the connection's thread may not.
Stop == part # "stream" /\ UNCHANGED all

FrontNext == StreamStep \/ JpegStep \/ InflateStep \/ PngStep \/ PayloadStep \/ Stop
FrontSpec == FrontInit /\ [][FrontNext]_all /\ WF_stream(Str!Handler)

-------------------------------------------------------------------------------
\* Whatever sizes, sampling factors, scans and lost restart markers a JPEG has, every index stays inside the
\* planes and each block is met once, a lost marker costs its own interval only, and a refinement scan changes
\* nothing above its own bit (jpeg.rs: decode_scan, Bits::restart, ac_refine, smooth_block).
JpegExact == Jpg!ScanPlaced /\ Jpg!ResyncInPlace /\ Jpg!CoefsKept

\* The read-ahead bit buffer gives every byte a bit-by-bit decoder gives and tells real input from padding; the
\* lookup and the slow path of inflate.rs read every code it accepts as the canonical code means it, and those of
\* jpeg.rs (Huff) every table it accepts, complete or not.
InflateExact == Inf!InflateExact /\ Inf!CodesExact

\* Each stored pixel is filtered against its own pass, written once and shown where the EXIF orientation puts it
\* (png.rs, exif.rs).
PixelsPlaced == Pic!PixelsPlaced

\* An accepted payload is whole, the resized picture is within the pixel bounds and sampled inside the picture, and
\* its patches are as many as the placeholders counted beforehand (base64.rs, lib.rs, resize.rs, preprocess.rs).
PayloadExact == Pre!SizeBounded /\ Pre!PatchesExact
===============================================================================
