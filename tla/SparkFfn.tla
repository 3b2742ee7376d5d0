-------------------------------- MODULE SparkFfn --------------------------------
(* How a Spark serves one request: the route plan, the padded and chunked launches  *)
(* of the expert kernel on the device's one stream, the reduction to one row per    *)
(* token, and the two tensor-core variants that take the frame's routes as they are. *)
(*                                                                                 *)
(* A hidden row is its token, a kernel's output row the pair of the expert and the   *)
(* row it read, a sum the sequence of its terms, in order.  TopK stands for 8, the    *)
(* tiles for 256, 64 and 16, the caps for 8 * capacity rows and 256 groups.           *)
(* The host stages what it uploads in one page-locked buffer; a copy from it reads it *)
(* when the stream gets there.                                                        *)
EXTENDS Integers, Sequences, FiniteSets, SequencesExt

CONSTANTS TopK, Big, Mid, Small, \* tile sizes
          MaxTotal, MaxGroups,   \* caps of one launch
          Requests,              \* the request frames enumerated: [rows, routes, path]
          MaxFaults              \* bound on refused launches

VARIABLES req,     \* the request
          pc,      \* where the host is
          rp,      \* its RoutePlan
          chunk,   \* [gi, start]: the next group and its first padded row
          pinned,  \* the staging buffer, one cell per hidden row or index array
          stream,  \* work on the null stream, not done yet
          dev,     \* device buffers
          hostx,   \* replicate_x of the fallback, or <<>>
          result,  \* what is returned
          faults

vars == <<req, pc, rp, chunk, pinned, stream, dev, hostx, result, faults>>

-------------------------------------------------------------------------------
(* RoutePlan *)

Fill(x, n) == [i \in 1..n |-> x]
\* tile_m
Tiles(real) ==
  LET r1 == real % Big
      r2 == r1 % Mid
      r3 == r2 % Small
  IN  Fill(Big, real \div Big) \o Fill(Mid, r1 \div Mid) \o Fill(Small, r2 \div Small) \o Fill(Small, IF r3 > 0 THEN 1 ELSE 0)

SumOf(s) == FoldSeq(+, 0, s)
Flat(ss) == FlattenSeq(ss)

\* The slots (from 0) routed to expert e, in order.
Slots(routes, e) == SelectSeq([i \in 1..Len(routes) |-> i - 1], LAMBDA i : routes[i + 1].expert = e)

\* The padded row of an expert's j-th route: the real routes fill the tiles from the group's start.
PaddedRow(start, j) == start + j - 1

\* The groups of one expert, from the padded row `start`.
ExpertGroups(routes, e, start) ==
  LET tiles == Tiles(Len(Slots(routes, e)))
  IN  [i \in DOMAIN tiles |-> [expert |-> e, tokens |-> tiles[i], off |-> start + SumOf(SubSeq(tiles, 1, i - 1))]]
ExpertRows(routes, e, start) ==
  LET slots == Slots(routes, e)
  IN  [j \in DOMAIN slots |-> [token |-> slots[j] \div TopK, weight |-> routes[slots[j] + 1].weight,
                               padded |-> PaddedRow(start, j)]]

Routed(routes, n) == /\ Len(routes) = n * TopK
                     /\ \A i \in DOMAIN routes : routes[i].row = (i - 1) \div TopK

\* from_routes of a table it accepts: groups by ascending expert, and the routed rows in that order.
FromRoutes(routes, n) ==
  LET experts == SetToSortSeq({routes[i].expert : i \in DOMAIN routes}, <)
      size(e) == SumOf(Tiles(Len(Slots(routes, e))))
      start == [k \in DOMAIN experts |-> SumOf([i \in 1..k - 1 |-> size(experts[i])])]
  IN  [groups |-> Flat([k \in DOMAIN experts |-> ExpertGroups(routes, experts[k], start[k])]),
       rows |-> Flat([k \in DOMAIN experts |-> ExpertRows(routes, experts[k], start[k])]),
       tokens |-> n]

TotalTokens(groups) == SumOf([i \in DOMAIN groups |-> groups[i].tokens])

\* GroupedPlan::validate
ValidPlan(groups) == \A i \in DOMAIN groups :
  /\ groups[i].off = TotalTokens(SubSeq(groups, 1, i - 1)) /\ groups[i].tokens \in {Big, Mid, Small}

\* replicate_x, and what the device gather builds from the same indices; padding rows are zero.
Gathered(n, rows, hidden) ==
  [p \in 0..n - 1 |-> IF \E i \in DOMAIN rows : rows[i].padded = p
                      THEN hidden[(CHOOSE r \in Range(rows) : r.padded = p).token + 1] ELSE <<"zero">>]

\* token_major_routes: the rows of each token, in group order.
TokenMajor(p) == Flat([t \in 1..p.tokens |-> SelectSeq(p.rows, LAMBDA r : r.token = t - 1)])

\* reduce, cpu_reduce_bf16 and m26x_route_reduce: entry i belongs to token i / TopK.
Reduced(order, out, n) ==
  [t \in 1..n |-> [k \in 1..TopK |-> LET r == order[(t - 1) * TopK + k] IN <<r.weight, out[r.padded]>>]]

\* rank_bf16_to_return_frame: a row per token, or no frame.
None == [ok |-> FALSE]
ReturnFrame(sums, n) == IF Len(sums) # n THEN None ELSE [ok |-> TRUE, sums |-> sums]

-------------------------------------------------------------------------------
(* The B1 variants *)

\* b1_inputs and serve_return_b1 of the decoded frame, serve_b1_view of the frame in place: "" or the routes, token-major.
B1Fits(q) == \A i \in DOMAIN q.rows :
  LET d == q.rows[i] IN /\ d.cnt = TopK /\ d.off + TopK <= Len(q.routes)
                        /\ \A j \in d.off + 1..d.off + TopK : q.routes[j].row = i - 1
B1Inputs(q) == Flat([i \in DOMAIN q.rows |-> SubSeq(q.routes, q.rows[i].off + 1, q.rows[i].off + TopK)])

\* m26s_b1_ffn: each token's experts in the order given.
B1Ffn(q) == LET ids == B1Inputs(q)
            IN  [t \in DOMAIN q.rows |-> [k \in 1..TopK |->
                  <<ids[(t - 1) * TopK + k].weight, <<ids[(t - 1) * TopK + k].expert, <<"row", t - 1>>>>>>]]

B1Result(q) == IF B1Fits(q) THEN ReturnFrame(B1Ffn(q), Len(q.rows)) ELSE None

-------------------------------------------------------------------------------
(* Serving *)

HiddenRows(q) == [t \in DOMAIN q.rows |-> <<"row", t - 1>>]

Init == /\ req \in Requests /\ pc = "start" /\ rp = <<>> /\ chunk = [gi |-> 1, start |-> 0] /\ pinned = <<>>
        /\ stream = <<>> /\ dev = [hidden |-> <<>>, src |-> <<>>, x |-> <<>>, plan |-> <<>>, out |-> <<>>]
        /\ hostx = <<>> /\ result = None /\ faults = 0

\* serve_return up to the FFN, or all of a B1 path.
Start ==
  /\ pc = "start"
  /\ IF req.path = "b2"
     THEN IF Routed(req.routes, Len(req.rows))
          THEN pc' = "gather" /\ rp' = FromRoutes(req.routes, Len(req.rows)) /\ UNCHANGED result
          ELSE pc' = "done" /\ UNCHANGED <<result, rp>>
     ELSE pc' = "done" /\ result' = B1Result(req) /\ UNCHANGED rp
  /\ UNCHANGED <<req, chunk, pinned, stream, dev, hostx, faults>>

\* upload_and_gather: hidden rows and indices staged, copied and gathered, with no wait.
Gather ==
  /\ pc = "gather" /\ pc' = "launch"
  /\ pinned' = HiddenRows(req) \o << <<"src", rp.rows>> >>
  /\ stream' = stream \o << <<"hidden", 1, Len(req.rows)>>, <<"src", Len(req.rows) + 1>>, <<"gather">> >>
  /\ dev' = [dev EXCEPT !.out = [p \in 0..TotalTokens(rp.groups) - 1 |-> <<-1, <<"unset">>>>]]
  /\ UNCHANGED <<req, rp, chunk, hostx, result, faults>>

\* The groups of the next launch: as many as its caps admit.
ChunkLen(groups, gi) ==
  LET fits(k) == k <= MaxGroups /\ TotalTokens(SubSeq(groups, gi, gi + k - 1)) <= MaxTotal
  IN  CHOOSE k \in 0..Len(groups) - gi + 1 : fits(k) /\ (gi + k > Len(groups) \/ ~fits(k + 1))

\* Mutant: the offsets are those of the whole plan.
SubGroup_Absolute(g, start) == g
\* The sub-plan's offsets count from the chunk's first row.
SubGroup(g, start) == [g EXCEPT !.off = @ - start]

\* launch_chunk up to its wait: ids and offsets staged at the head of the buffer, over what was staged before.
LaunchChunk(before) ==
  /\ pc = "launch" /\ chunk.gi <= Len(rp.groups) /\ pc' = "sync"
  /\ LET k == ChunkLen(rp.groups, chunk.gi)
         part == SubSeq(rp.groups, chunk.gi, chunk.gi + k - 1)
     IN  /\ pinned' = [pinned EXCEPT ![1] = <<"plan", [i \in DOMAIN part |-> SubGroup(part[i], chunk.start)]>>]
         /\ chunk' = [gi |-> chunk.gi + k, start |-> chunk.start + TotalTokens(part)]
  /\ stream' = stream \o before \o << <<"plan", 1>>, <<"ffn", chunk.start>> >>
  /\ UNCHANGED <<req, rp, dev, hostx, result, faults>>

Launch == hostx = <<>> /\ LaunchChunk(<<>>)
\* ffn_roundtrip: the chunk's rows are uploaded from the host's copy first.
HostLaunch == hostx # <<>> /\ LaunchChunk(<< <<"hostx">> >>)

\* A launch the device refuses: once more from host memory, with the same plan in chunks; then the request fails.
LaunchRefused ==
  /\ pc = "launch" /\ chunk.gi <= Len(rp.groups) /\ faults < MaxFaults /\ faults' = faults + 1
  /\ IF hostx = <<>> /\ ValidPlan(rp.groups)
     THEN /\ hostx' = Gathered(TotalTokens(rp.groups), rp.rows, HiddenRows(req))
          /\ chunk' = [gi |-> 1, start |-> 0] /\ UNCHANGED pc
     ELSE pc' = "done" /\ UNCHANGED <<hostx, chunk>>
  /\ UNCHANGED <<req, rp, pinned, stream, dev, result>>

\* cudaDeviceSynchronize, and the fault word is clear.
Sync == pc = "sync" /\ stream = <<>> /\ pc' = "launch" /\ UNCHANGED <<req, rp, chunk, pinned, stream, dev, hostx, result, faults>>

Finish == /\ pc = "launch" /\ chunk.gi > Len(rp.groups) /\ stream = <<>> /\ pc' = "done"
          /\ result' = ReturnFrame(Reduced(TokenMajor(rp), dev.out, rp.tokens), Len(req.rows))
          /\ UNCHANGED <<req, rp, chunk, pinned, stream, dev, hostx, faults>>
\* route_reduce, on the device; cpu_reduce_bf16 of the rows a fallback downloaded.
Reduce == hostx = <<>> /\ Finish
HostReduce == hostx # <<>> /\ Finish

\* The stream does its oldest work.  The kernel writes the rows of its groups, from its chunk's first row on.
DeviceStep ==
  /\ stream # <<>> /\ stream' = Tail(stream)
  /\ LET w == Head(stream)
     IN  dev' = CASE w[1] = "hidden" -> [dev EXCEPT !.hidden = SubSeq(pinned, w[2], w[3])]
                  [] w[1] = "src" -> [dev EXCEPT !.src = pinned[w[2]][2]]
                  [] w[1] = "gather" -> [dev EXCEPT !.x = Gathered(TotalTokens(rp.groups), dev.src, dev.hidden)]
                  [] w[1] = "hostx" -> [dev EXCEPT !.x = hostx]
                  [] w[1] = "plan" -> [dev EXCEPT !.plan = pinned[w[2]][2]]
                  [] OTHER -> [dev EXCEPT !.out = [p \in DOMAIN dev.out |->
                       LET mine == {g \in Range(dev.plan) : p - w[2] \in g.off..g.off + g.tokens - 1}
                       IN  IF mine = {} THEN dev.out[p] ELSE <<(CHOOSE g \in mine : TRUE).expert, dev.x[p]>>]]
  /\ UNCHANGED <<req, pc, rp, chunk, pinned, hostx, result, faults>>

Done == pc = "done" /\ stream = <<>> /\ UNCHANGED vars

Next == Start \/ Gather \/ Launch \/ HostLaunch \/ LaunchRefused \/ Sync \/ Reduce \/ HostReduce \/ DeviceStep \/ Done

Spec == Init /\ [][Next]_vars

-------------------------------------------------------------------------------
(* Properties *)

\* The terms of token t, as a reader of the request expects them.
Terms(t) == {<<req.routes[i].weight, req.routes[i].expert>> : i \in {j \in DOMAIN req.routes : req.routes[j].row = t - 1}}

\* A return holds, for each token, each of its routes once, with that route's weight and expert, whatever the
\* padding, the chunks and the path; and a term reads the token's own row, or what the staging left of row 0.
PartialExact == result.ok =>
  \A t \in DOMAIN req.rows :
    /\ {<<result.sums[t][k][1], result.sums[t][k][2][1]>> : k \in 1..TopK} = Terms(t)
    /\ \A k \in 1..TopK : LET row == result.sums[t][k][2][2] IN row = <<"row", t - 1>> \/ (t = 1 /\ row[1] = "plan")

\* "the gather and the FFN launches run on the same (null) stream and serialize; the FFN's own sync covers both"
\* (upload_and_gather): the rows on the device are the request's.
StagedRows == \A t \in DOMAIN dev.hidden : dev.hidden[t] = <<"row", t - 1>>
===============================================================================
