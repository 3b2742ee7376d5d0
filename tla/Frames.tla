-------------------------------- MODULE Frames --------------------------------
(* The DS41RTE3 frame codec of mimo26-wire: three encoders of the same request,   *)
(* the copying decoder and the in-place view, the return frame, the checksum.     *)
(*                                                                               *)
(* A frame is a record of its header fields, its length and its body, cut into    *)
(* descriptors, route entries and rows.  Byte sizes are the layout's, scaled.     *)
(* The checksum of a frame is everything it covers, so no damage keeps it: that   *)
(* is CRC32C for the damage injected here, one field at a time.                   *)
EXTENDS Integers, Sequences, FiniteSets, TLC

CONSTANTS HeaderLen, DescLen, RouteLen, Hidden, K32, TopK, Sparks

ASSUME FrameAssumption == {HeaderLen, DescLen, RouteLen, Hidden, K32, TopK, Sparks} \subseteq Nat \ {0}

-------------------------------------------------------------------------------
(* Layout *)

HiddenRow == Hidden + Hidden \div K32
RequestRow == DescLen + HiddenRow + TopK * RouteLen
ReturnRow == Hidden * 2

Dtypes == {"Bf16", "F16", "Fp8Debug", "Nvfp4", "RowScaled", "F32", "Ue8m0K32"}
SourceKinds == {"Decode", "Prefill", "MtpVerify", "Benchmark"}
Statuses == {"Ok", "Error"}
ReturnRequired == {"SPARK_REDUCTION", "V41_COMPACT_BF16"}

\* WireError::disposition
Disposition(err) == CASE err \in {"TooShort", "Truncated", "Corrupt", "OutOfOrder"} -> "Retry"
                      [] err \in {"Duplicate", "SlotFilled"} -> "DropIdempotent"
                      [] OTHER -> "FailLoud"

\* The first check that fails names the error; "ok" when none does.
First(checks) == LET bad == {i \in DOMAIN checks : checks[i][1]}
                 IN  IF bad = {} THEN "ok" ELSE checks[CHOOSE i \in bad : \A j \in bad : i <= j][2]

-------------------------------------------------------------------------------
(* Checksum *)

\* crc32c_zeroed: the frame with its checksum field zeroed.
Crc(f) == <<[f EXCEPT !.crc = <<>>]>>
Seal(f, off) == IF off THEN f ELSE [f EXCEPT !.crc = Crc(f)]
VerifyCrc(f, off) == IF off \/ f.crc = Crc(f) THEN "ok" ELSE "Corrupt"

-------------------------------------------------------------------------------
(* Requests *)

\* validate_rows_routes
RowsRoutes(rows, routes) ==
  First(<< <<\E i \in DOMAIN rows : rows[i].off + rows[i].cnt > Len(routes), "RouteRangeBad">>,
           <<\E j \in DOMAIN routes : routes[j].row >= Len(rows), "RouteRowMismatch">> >>)

\* A record with the fields of both, of f where they share one.
With(f, g) == [x \in DOMAIN f \cup DOMAIN g |-> IF x \in DOMAIN f THEN f[x] ELSE g[x]]

\* write_header: the fields every frame carries.
Header(kind, req, layer, exec, seq, n) ==
  [magic |-> "DS41RTE3", version |-> 3, kind |-> kind, hlen |-> HeaderLen, req |-> req, layer |-> layer,
   exec |-> exec, seq |-> seq, rows |-> n, dim |-> Hidden, tok |-> 0, crc |-> <<>>]

Request(req, layer, exec, seq, sk, descs, entries, hid) ==
  LET n == Len(descs)
      m == Len(entries)
      body == DescLen * n + RouteLen * m + HiddenRow * n
  IN  With(Header("request", req, layer, exec, seq, n),
      [dtype |-> "Ue8m0K32", sk |-> sk, routes |-> m, descBytes |-> DescLen * n, routeBytes |-> RouteLen * m,
       payload |-> HiddenRow * n, logical |-> RequestRow * n, wire |-> HeaderLen + body,
       len |-> HeaderLen + body, flags |-> {}, stride |-> HiddenRow, status |-> "Ok",
       descs |-> descs, entries |-> entries, hid |-> hid])

\* encode_request_seq, of a RequestFrame [req, layer, exec, sk, rows, routes, hidden].
EncodeRequest(fr, seq, off) ==
  LET err == First(<< <<fr.rows = <<>>, "DimMismatch">>,
                      <<Len(fr.hidden) # Len(fr.rows), "DimMismatch">>,
                      <<RowsRoutes(fr.rows, fr.routes) # "ok", RowsRoutes(fr.rows, fr.routes)>>,
                      <<\E i \in DOMAIN fr.hidden : fr.hidden[i].size # HiddenRow, "DimMismatch">> >>)
  IN  IF err # "ok" THEN [err |-> err]
      ELSE Seal(Request(fr.req, fr.layer, fr.exec, seq, fr.sk, fr.rows, fr.routes, fr.hidden), off)

\* The decode-kind row t (from 1) of a request with topk routes a row.
DecodeRow(req, t, topk) == [id |-> t - 1, sk |-> "Decode", src |-> req, pos |-> t - 1,
                            off |-> (t - 1) * topk, cnt |-> topk]

\* encode_request_meta_into: descriptors and routes in place, hidden rows left to the caller.
EncodeMeta(room, req, layer, exec, seq, experts, topk, hid) ==
  LET n == IF topk = 0 THEN 0 ELSE Len(experts) \div topk
      descs == [t \in 1..n |-> DecodeRow(req, t, topk)]
      entries == [j \in 1..Len(experts) |-> [row |-> IF topk = 0 THEN 0 ELSE (j - 1) \div topk, expert |-> experts[j]]]
      err == First(<< <<topk = 0 \/ experts = <<>> \/ Len(experts) % topk # 0, "DimMismatch">>,
                      <<room < DescLen * n + RouteLen * Len(experts) + HiddenRow * n, "TooShort">>,
                      <<RowsRoutes(descs, entries) # "ok", RowsRoutes(descs, entries)>> >>)
  IN  IF err # "ok" THEN [err |-> err] ELSE Request(req, layer, exec, seq, "Decode", descs, entries, hid)

\* encode_request_desc_into: the caller also writes the routes.
EncodeDesc(room, req, layer, exec, seq, n, topk, entries, hid) ==
  LET err == First(<< <<n = 0 \/ topk = 0 \/ topk > TopK, "DimMismatch">>,
                      <<room < DescLen * n + RouteLen * n * topk + HiddenRow * n, "TooShort">> >>)
  IN  IF err # "ok" THEN [err |-> err]
      ELSE Request(req, layer, exec, seq, "Decode", [t \in 1..n |-> DecodeRow(req, t, topk)], entries, hid)

-------------------------------------------------------------------------------
(* Decoding *)

\* parse_header
ParseHeader(f) ==
  First(<< <<f.len < HeaderLen, "TooShort">>, <<f.magic # "DS41RTE3", "BadMagic">>,
           <<f.version # 3, "BadVersion">>, <<f.kind \notin {"request", "return"}, "BadKind">>,
           <<f.hlen # HeaderLen, "BadHeaderLen">>, <<f.len < f.wire, "Truncated">>,
           <<f.len > f.wire, "TrailingBytes">>, <<f.dtype \notin Dtypes, "BadCode">>,
           <<f.sk \notin SourceKinds, "BadCode">>, <<f.status \notin Statuses, "BadCode">> >>)

Outside(d, n) == d.off + d.cnt > n
\* Mutant: a row may name routes past the end of the table.
ViewRow_NoRange(f, i) == IF f.descs[i].sk \notin SourceKinds THEN "BadCode" ELSE "ok"
\* One turn of the view's loop over its descriptors.
ViewRow(f, i) == IF f.descs[i].sk \notin SourceKinds THEN "BadCode"
                 ELSE IF Outside(f.descs[i], f.routes) THEN "RouteRangeBad" ELSE "ok"
RowsRoutesView(f) ==
  LET rows == [i \in DOMAIN f.descs |-> <<ViewRow(f, i) # "ok", ViewRow(f, i)>>]
      entries == [j \in DOMAIN f.entries |-> <<f.entries[j].row >= f.rows, "RouteRowMismatch">>]
  IN  First(rows \o entries)

\* The geometry both request decoders check before they read the body.
Geometry(f) ==
  LET descs == f.rows * DescLen
      routes == f.routes * RouteLen
      payload == f.rows * f.stride
  IN  << <<f.rows = 0, "DimMismatch">>, <<f.descBytes # descs, "DimMismatch">>,
         <<f.routeBytes # routes, "DimMismatch">>, <<f.dim # Hidden, "DimMismatch">>,
         <<f.dtype \notin {"Ue8m0K32", "RowScaled"}, "DimMismatch">>, <<f.stride < Hidden, "DimMismatch">>,
         <<f.payload # payload, "DimMismatch">>, <<f.len - HeaderLen # descs + routes + payload, "DimMismatch">> >>

\* decode_request
DecodeRequest(f) ==
  LET g == First(Geometry(f))
  IN  IF g # "ok" THEN g
      ELSE IF \E i \in DOMAIN f.descs : f.descs[i].sk \notin SourceKinds THEN "BadCode"
      ELSE RowsRoutes(f.descs, f.entries)

\* RequestView::parse
ParseView(f, off) ==
  LET h == ParseHeader(f)
      g == First(Geometry(f))
  IN  IF h # "ok" THEN h
      ELSE IF VerifyCrc(f, off) # "ok" THEN "Corrupt"
      ELSE IF f.kind # "request" THEN "BadKind"
      ELSE IF g # "ok" THEN g
      ELSE RowsRoutesView(f)

-------------------------------------------------------------------------------
(* Returns *)

\* return_header_seq with its body and seal_in_place.
ReturnHeader(ret, seq) ==
  With(Header("return", ret.req, ret.layer, ret.exec, seq, Len(ret.rows)),
  [dtype |-> "Bf16", sk |-> "Decode", routes |-> ret.routes, descBytes |-> 0, routeBytes |-> 0,
   payload |-> ReturnRow * Len(ret.rows), logical |-> ReturnRow * Len(ret.rows),
   wire |-> HeaderLen + ReturnRow * Len(ret.rows), len |-> HeaderLen + ReturnRow * Len(ret.rows),
   flags |-> ret.flags, stride |-> ReturnRow, status |-> ret.status, descs |-> <<>>, entries |-> <<>>,
   hid |-> ret.rows])

\* encode_return_seq, of a ReturnFrame [req, layer, exec, routes, flags, status, rows].
EncodeReturn(ret, seq, off) ==
  LET err == First(<< <<ret.rows = <<>>, "DimMismatch">>, <<ret.routes = 0, "DimMismatch">> >>)
  IN  IF err # "ok" THEN [err |-> err] ELSE Seal(ReturnHeader(ret, seq), off)

\* decode_return
DecodeReturn(f) ==
  LET copies == f.stride \div (Hidden * 2)
  IN  First(<< <<f.status = "Ok" /\ ~(ReturnRequired \subseteq f.flags), "UnpresummedReturn">>,
               <<f.rows = 0, "DimMismatch">>, <<f.dim # Hidden, "DimMismatch">>,
               <<f.payload # f.rows * f.stride, "DimMismatch">>, <<f.descBytes # 0 \/ f.routeBytes # 0, "DimMismatch">>,
               <<f.len - HeaderLen # f.payload, "DimMismatch">>, <<f.routes = 0, "DimMismatch">>,
               <<f.dtype = "F32" /\ f.stride # Hidden * 4, "DimMismatch">>,
               <<f.dtype = "Bf16" /\ (f.stride % (Hidden * 2) # 0 \/ copies \notin {1, f.routes}), "DimMismatch">>,
               <<f.dtype \notin {"F32", "Bf16"}, "DimMismatch">> >>)

\* decode_frame
DecodeFrame(f, off) ==
  LET h == ParseHeader(f)
  IN  IF h # "ok" THEN h
      ELSE IF VerifyCrc(f, off) # "ok" THEN "Corrupt"
      ELSE IF f.kind = "request" THEN DecodeRequest(f)
      ELSE DecodeReturn(f)
===============================================================================
