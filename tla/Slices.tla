-------------------------------- MODULE Slices --------------------------------
(* From the checkpoint to a Spark's device memory: the repack driver cuts each     *)
(* expert's tensors into one rank's slice files and writes their manifest, the     *)
(* daemon reads everything back at boot, and a layer's slices are joined into one   *)
(* image on its first request.  The driver may fail, be killed at any write and be   *)
(* run again, for another checkpoint or another rank, while a daemon boots or serves. *)
(*                                                                                 *)
(* A byte is where it comes from: the checkpoint, the tensor and the place in it; a   *)
(* hash is the bytes themselves.  PerByte stands for the 2 weights of a byte, PerScale *)
(* for the 32 of a scale, PerShard for the 4 experts of a shard file.                 *)
EXTENDS Integers, Sequences, FiniteSets, SequencesExt, TLC

CONSTANTS Hidden, Inter, Ranks, Layers, Experts, \* the geometry
          PerByte, PerScale, PerShard,
          Checkpoints,  \* [id, damage]: what the driver may be given to read
          MaxRuns       \* bound on runs of the driver

VARIABLES disk,      \* slice files: name -> bytes
          manifest,  \* manifest.json: [file, text], file one of "none", "torn", "whole"
          pack,      \* the driver
          spark,     \* the daemon up to its serving loop
          cache,     \* device_cache: the image of each layer, and whether no file in it was touched since it was verified
          dirty,     \* files written since the running daemon verified them
          runs

vars == <<disk, manifest, pack, spark, cache, dirty, runs>>

Off == "off"
Projs == <<"gate", "up", "down">>
LayerIds == 1..Layers
ExpertIds == 0..Experts - 1
Units == Inter \div Ranks    \* intermediate units of one rank

-------------------------------------------------------------------------------
(* Geometry of a projection and of its part in a slice. *)

OutRows(p) == IF p = "down" THEN Hidden ELSE Inter
InCols(p) == IF p = "down" THEN Inter ELSE Hidden
SliceRows(p) == IF p = "down" THEN Hidden ELSE Units
SliceInCols(p) == IF p = "down" THEN Units ELSE Hidden
ColStart(p, rank) == IF p = "down" THEN rank * Units ELSE 0
PayloadBytes(p) == (SliceRows(p) * SliceInCols(p)) \div PerByte
ScaleBytes(p) == (SliceRows(p) * SliceInCols(p)) \div PerScale
PayloadOff(p) == CASE p = "gate" -> 0
                   [] p = "up" -> PayloadBytes("gate") + ScaleBytes("gate")
                   [] p = "down" -> PayloadBytes("gate") + ScaleBytes("gate") + PayloadBytes("up") + ScaleBytes("up")
ScaleOff(p) == PayloadOff(p) + PayloadBytes(p)
SliceBytes == ScaleOff("down") + ScaleBytes("down")

\* slice_row_indices
RowStart(p, rank) == IF p = "down" THEN 0 ELSE rank * SliceRows(p)

LayoutTable == FlattenSeq([i \in 1..3 |->
  <<[proj |-> Projs[i], region |-> "payload", off |-> PayloadOff(Projs[i]), len |-> PayloadBytes(Projs[i])],
    [proj |-> Projs[i], region |-> "scales", off |-> ScaleOff(Projs[i]), len |-> ScaleBytes(Projs[i])]>>])

ShardFile(e) == e \div PerShard
FileName(l, e, rank) == <<l, e, rank>>
FileBefore(a, b) == \E i \in 1..3 : a[i] < b[i] /\ \A j \in 1..i - 1 : a[j] = b[j]

-------------------------------------------------------------------------------
(* The checkpoint: a shard holds its experts' tensors of every layer, one after the  *)
(* other, behind a header of their types, shapes and ranges.                         *)

Tensor(l, e, p, scale) == <<l, e, p, scale>>
Shape(p, scale) == <<OutRows(p), InCols(p) \div (IF scale THEN PerScale ELSE PerByte)>>
\* source_tensors
SourceTensors(l, e) == FlattenSeq([i \in 1..3 |-> <<Tensor(l, e, Projs[i], FALSE), Tensor(l, e, Projs[i], TRUE)>>])
ShapeOf(t) == Shape(t[3], t[4])
Size(t) == ShapeOf(t)[1] * ShapeOf(t)[2]

ShardTensors(s) == FlattenSeq([k \in 1..Layers * PerShard |->
  LET e == s * PerShard + ((k - 1) % PerShard)
  IN  IF e < Experts THEN SourceTensors(((k - 1) \div PerShard) + 1, e) ELSE <<>>])
ExpertBytes == FoldSeq(+, 0, [i \in 1..6 |-> Size(SourceTensors(1, 0)[i])])
RawData(id, ts) == FlattenSeq([k \in DOMAIN ts |-> [i \in 1..Size(ts[k]) |-> <<id, ts[k], i - 1>>]])
StartOf(ts, k) == LET upto[i \in 0..Len(ts)] == IF i = 0 THEN 0 ELSE upto[i - 1] + Size(ts[i])
                  IN  upto[k - 1]

\* What the header says of tensor k, the last tensor of the shard being the damaged one.
Entry(ts, k, damage) ==
  LET from == StartOf(ts, k)
      to == from + Size(ts[k])
      bad == k = Len(ts)
  IN  [dtype |-> IF bad /\ damage = "dtype" THEN "BF16" ELSE "U8",
       shape |-> IF bad /\ damage = "shape" THEN Reverse(ShapeOf(ts[k])) ELSE ShapeOf(ts[k]),
       from |-> IF bad /\ damage = "reversed" THEN to + 1 ELSE from,
       to |-> CASE bad /\ damage = "short" -> to - 1 [] bad /\ damage = "truncated" -> to + 1 [] OTHER -> to]
Header(ts, damage) ==
  SubSeq([k \in DOMAIN ts |-> Entry(ts, k, damage)], 1, IF damage = "missing" THEN Len(ts) - 1 ELSE Len(ts))

\* SafetensorsHeader::read: the ranges are in order and inside the file.
HeaderOk(h, len) == \A k \in DOMAIN h : h[k].from <= h[k].to /\ h[k].to <= len
ReadTensor(h, data, k) == SubSeq(data, h[k].from + 1, h[k].to)

\* shard_headers
HeadersOk(ck) == \A e \in ExpertIds : LET ts == ShardTensors(ShardFile(e))
                                      IN  HeaderOk(Header(ts, ck.damage), StartOf(ts, Len(ts) + 1))

\* The audit of one tensor in read_expert.
TensorOk(h, data, k, t) ==
  /\ k \in DOMAIN h
  /\ h[k].dtype = "U8" /\ h[k].shape = ShapeOf(t)
  /\ Len(ReadTensor(h, data, k)) = Size(t)

\* read_expert: the tensors by name, or <<>> when one is refused.
ReadExpert(ck, l, e) ==
  LET ts == ShardTensors(ShardFile(e))
      h == Header(ts, ck.damage)
      data == RawData(ck.id, ts)
      at == [t \in Range(SourceTensors(l, e)) |-> CHOOSE k \in DOMAIN ts : ts[k] = t]
  IN  IF \A t \in DOMAIN at : TensorOk(h, data, at[t], t)
        THEN [t \in DOMAIN at |-> ReadTensor(h, data, at[t])] ELSE <<>>

\* The rows of one projection in a slice: row i of the rank, `width` bytes from column `col`.
CopyRows(bytes, p, rank, per) ==
  LET full == InCols(p) \div per
      width == SliceInCols(p) \div per
      col == ColStart(p, rank) \div per
  IN  FlattenSeq([i \in 1..SliceRows(p) |->
        LET src == (RowStart(p, rank) + i - 1) * full + col IN SubSeq(bytes, src + 1, src + width)])

\* build_slice: payload then scales of each projection, at the offsets of the layout.
BuildSlice(tensors, l, e, rank) ==
  FlattenSeq([i \in 1..3 |-> CopyRows(tensors[Tensor(l, e, Projs[i], FALSE)], Projs[i], rank, PerByte)
                             \o CopyRows(tensors[Tensor(l, e, Projs[i], TRUE)], Projs[i], rank, PerScale)])

-------------------------------------------------------------------------------
(* The manifest. *)

Geometry == [hidden |-> Hidden, intermediate |-> Inter, experts |-> Experts, layers |-> Layers, ranks |-> Ranks,
             expert_bytes |-> ExpertBytes, slice_bytes |-> SliceBytes]
NewManifest == [version |-> 2, geometry |-> Geometry, layout |-> LayoutTable, slices |-> <<>>]
Push(m, entry) == [m EXCEPT !.slices = SortSeq(Append(@, entry), LAMBDA a, b : FileBefore(a.file, b.file))]

\* Manifest::read and validate_geometry
Readable(json) == json.file = "whole"
ValidManifest(m) == m.version = 2 /\ m.geometry = Geometry /\ m.layout = LayoutTable

-------------------------------------------------------------------------------
(* The driver. *)

Idle == [at |-> Off, rank |-> 0, ck |-> [id |-> 0, damage |-> "none"], pos |-> 0, slice |-> <<>>, manifest |-> <<>>]
Total == Layers * Experts
LayerAt(pos) == (pos \div Experts) + 1
ExpertAt(pos) == pos % Experts

\* Arguments, the slice directory and the shard headers.
StartRepack(rank, ck) ==
  /\ pack.at = Off /\ runs < MaxRuns
  /\ runs' = runs + 1
  /\ pack' = IF rank < Ranks /\ HeadersOk(ck) THEN [Idle EXCEPT !.at = "read", !.rank = rank, !.ck = ck, !.manifest = NewManifest] ELSE Idle
  /\ UNCHANGED <<disk, manifest, spark, cache, dirty>>

\* The next expert is read and its slice built; its file is created empty, over the one there was.
ReadSlice ==
  LET l == LayerAt(pack.pos)
      e == ExpertAt(pack.pos)
      t == ReadExpert(pack.ck, l, e)
      f == FileName(l, e, pack.rank)
  IN  /\ pack.at = "read" /\ pack.pos < Total
      /\ IF DOMAIN t = {} THEN pack' = Idle /\ UNCHANGED <<disk, dirty>>
                     ELSE /\ pack' = [pack EXCEPT !.at = "write", !.slice = BuildSlice(t, l, e, pack.rank)]
                          /\ disk' = (f :> <<>>) @@ disk
                          /\ dirty' = dirty \cup {f}
      /\ UNCHANGED <<manifest, spark, cache, runs>>

\* The rest of fs::write, and the manifest entry.
WriteSlice ==
  LET l == LayerAt(pack.pos)
      e == ExpertAt(pack.pos)
      f == FileName(l, e, pack.rank)
  IN  /\ pack.at = "write"
      /\ disk' = (f :> pack.slice) @@ disk
      /\ dirty' = dirty \cup {f}
      /\ pack' = [pack EXCEPT !.at = "read", !.pos = @ + 1, !.slice = <<>>,
                   !.manifest = Push(@, [file |-> f, sha |-> pack.slice, layer |-> l, expert |-> e, rank |-> pack.rank])]
      /\ UNCHANGED <<manifest, spark, cache, runs>>

\* Manifest::write, in its two steps.
WriteManifest ==
  /\ \/ /\ pack.at = "read" /\ pack.pos = Total
        /\ manifest' = [file |-> "torn", text |-> <<>>] /\ pack' = [pack EXCEPT !.at = "finish"]
     \/ /\ pack.at = "finish"
        /\ manifest' = [file |-> "whole", text |-> pack.manifest] /\ pack' = Idle
  /\ UNCHANGED <<disk, spark, cache, dirty, runs>>

KillRepack == pack.at # Off /\ pack' = Idle /\ UNCHANGED <<disk, manifest, spark, cache, dirty, runs>>

-------------------------------------------------------------------------------
(* The daemon. *)

Down == [at |-> Off, rank |-> 0, manifest |-> <<>>, pos |-> 0, failed |-> FALSE, files |-> <<>>]
NoImages == [l \in LayerIds |-> [held |-> FALSE, image |-> <<>>, clean |-> FALSE]]
Exit == spark' = Down /\ cache' = NoImages /\ dirty' = {}

\* readback: the manifest of the directory.
Boot(rank) ==
  /\ spark.at = Off
  /\ Readable(manifest) /\ ValidManifest(manifest.text)
  /\ spark' = [Down EXCEPT !.at = "verify", !.rank = rank, !.manifest = manifest.text]
  /\ UNCHANGED <<disk, manifest, pack, cache, dirty, runs>>

\* Mutant: the size is all that is compared.
VerifyOne_Size(entry) == entry.file \in DOMAIN disk /\ Len(disk[entry.file]) = SliceBytes
\* verify_one
VerifyOne(entry) == /\ entry.file \in DOMAIN disk
                    /\ Len(disk[entry.file]) = SliceBytes
                    /\ disk[entry.file] = entry.sha

Verify ==
  LET entry == spark.manifest.slices[spark.pos + 1]
  IN  /\ spark.at = "verify" /\ spark.pos < Len(spark.manifest.slices)
      /\ spark' = [spark EXCEPT !.pos = @ + 1, !.failed = @ \/ ~VerifyOne(entry)]
      /\ dirty' = dirty \ {entry.file}
      /\ UNCHANGED <<disk, manifest, pack, cache, runs>>

Listed(m) == {m.slices[i].file : i \in DOMAIN m.slices}

\* The other direction, over the directory, and into_result.
ListResident ==
  /\ spark.at = "verify" /\ spark.pos = Len(spark.manifest.slices)
  /\ IF spark.failed \/ ~(DOMAIN disk \subseteq Listed(spark.manifest))
       THEN Exit ELSE spark' = [spark EXCEPT !.at = "index"] /\ UNCHANGED <<cache, dirty>>
  /\ UNCHANGED <<disk, manifest, pack, runs>>

\* load_manifest: the manifest is read again; this rank's entries by layer and expert.
LoadManifest ==
  /\ spark.at = "index"
  /\ IF Readable(manifest) /\ ValidManifest(manifest.text)
       THEN LET slices == manifest.text.slices
                mine == {i \in DOMAIN slices : slices[i].rank = spark.rank}
                of(i) == <<slices[i].layer, slices[i].expert>>
            IN  /\ spark' = [spark EXCEPT !.at = "start", !.files =
                     [k \in {of(i) : i \in mine} |-> slices[CHOOSE i \in mine : of(i) = k].file]]
                /\ UNCHANGED <<cache, dirty>>
       ELSE Exit
  /\ UNCHANGED <<disk, manifest, pack, runs>>

\* check_aot, the scratch and the listening socket, each of which may be refused.
StartServing ==
  /\ spark.at = "start"
  /\ \/ spark' = [spark EXCEPT !.at = "serve"] /\ UNCHANGED <<cache, dirty>>
     \/ Exit
  /\ UNCHANGED <<disk, manifest, pack, runs>>

\* grouped_image: the slices of experts 0, 1, ... as the files are now.
Image(l) == FlattenSeq([k \in 1..Experts |-> disk[spark.files[<<l, k - 1>>]]])

\* upload_grouped looks at the length alone.
WholeSlices(image) == Len(image) % SliceBytes = 0

\* The first request of a layer; a missing entry or file, or an image that is not whole slices, fails it.
LoadLayer(l) ==
  /\ spark.at = "serve" /\ ~cache[l].held
  /\ \A e \in ExpertIds : <<l, e>> \in DOMAIN spark.files /\ spark.files[<<l, e>>] \in DOMAIN disk
  /\ WholeSlices(Image(l))
  /\ cache' = [cache EXCEPT ![l] = [held |-> TRUE, image |-> Image(l), clean |-> \A e \in ExpertIds : spark.files[<<l, e>>] \notin dirty]]
  /\ UNCHANGED <<disk, manifest, pack, spark, dirty, runs>>

StopSpark == spark.at # Off /\ Exit /\ UNCHANGED <<disk, manifest, pack, runs>>

-------------------------------------------------------------------------------
(* What the kernel reads. *)

\* grouped_proj and slice_proj
GroupedProj(image, e, p) ==
  [payload |-> SubSeq(image, e * SliceBytes + PayloadOff(p) + 1, e * SliceBytes + PayloadOff(p) + PayloadBytes(p)),
   scales |-> SubSeq(image, e * SliceBytes + ScaleOff(p) + 1, e * SliceBytes + ScaleOff(p) + ScaleBytes(p))]

\* unpack_element: the byte and the weight in it (the even column in the low half), and the scale of its block.
UnpackElement(m, cols, row, col) ==
  <<m.payload[row * (cols \div PerByte) + (col \div PerByte) + 1], col % PerByte,
    m.scales[row * (cols \div PerScale) + (col \div PerScale) + 1]>>

-------------------------------------------------------------------------------
\* An earlier build's artifacts: whole files of the same length, hashes that match, manifest version 1.
OldSlice(f) == [i \in 1..SliceBytes |-> <<0, f, i - 1>>]
OldFiles == {FileName(l, e, 0) : l \in LayerIds, e \in ExpertIds}
OldManifest == [NewManifest EXCEPT !.version = 1, !.slices =
  [i \in 1..Total |-> LET f == FileName(LayerAt(i - 1), ExpertAt(i - 1), 0)
                      IN  [file |-> f, sha |-> OldSlice(f), layer |-> f[1], expert |-> f[2], rank |-> 0]]]

Init == /\ \/ disk = <<>> /\ manifest = [file |-> "none", text |-> <<>>]
           \/ disk = [f \in OldFiles |-> OldSlice(f)] /\ manifest = [file |-> "whole", text |-> OldManifest]
        /\ pack = Idle /\ spark = Down /\ cache = NoImages /\ dirty = {} /\ runs = 0

Next == \/ \E rank \in 0..Ranks, ck \in Checkpoints : StartRepack(rank, ck)
        \/ ReadSlice \/ WriteSlice \/ WriteManifest \/ KillRepack
        \/ \E rank \in 0..Ranks - 1 : Boot(rank)
        \/ Verify \/ ListResident \/ LoadManifest \/ StartServing \/ StopSpark
        \/ \E l \in LayerIds : LoadLayer(l)

Spec == Init /\ [][Next]_vars

-------------------------------------------------------------------------------
\* One weight of the checkpoint, read from its own tensors.
Weight(id, l, e, p, row, col) ==
  LET byte(scale, per) == <<id, Tensor(l, e, p, scale), row * (InCols(p) \div per) + (col \div per)>>
  IN  <<byte(FALSE, PerByte), col % PerByte, byte(TRUE, PerScale)>>

\* A weight of a projection in an image.
Elem(proj, p, row, col) == UnpackElement(proj, SliceInCols(p), row, col)

(* Whatever runs of the repack driver were killed, failed or repeated for another    *)
(* checkpoint or rank, before the daemon's boot or beside it, a layer image all of    *)
(* whose files are as boot verified them holds, for every expert, the gate row, the up *)
(* row and the down column of exactly this rank's intermediate units, with the scales  *)
(* that belong to them, and all of one checkpoint.                                     *)
LoadedExact == \A l \in LayerIds : (cache[l].held /\ cache[l].clean) =>
  \E ck \in Checkpoints : \A e \in ExpertIds :
    LET gate == GroupedProj(cache[l].image, e, "gate")
        up == GroupedProj(cache[l].image, e, "up")
        down == GroupedProj(cache[l].image, e, "down")
    IN  \A u \in 0..Units - 1, h \in 0..Hidden - 1 :
          LET unit == spark.rank * Units + u
          IN  /\ Elem(gate, "gate", u, h) = Weight(ck.id, l, e, "gate", unit, h)
              /\ Elem(up, "up", u, h) = Weight(ck.id, l, e, "up", unit, h)
              /\ Elem(down, "down", h, u) = Weight(ck.id, l, e, "down", h, unit)
===============================================================================
