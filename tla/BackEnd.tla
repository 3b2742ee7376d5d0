-------------------------------- MODULE BackEnd --------------------------------
(***************************************************************************)
(* The expert side: the streamed transport with its integrity ladder, the  *)
(* lane simulator, the TCP fallback, one request in the Spark's expert     *)
(* path, and the slice files a Spark serves from. They share no state in   *)
(* the code, so a behaviour exercises one of them: `part` says which.      *)
(***************************************************************************)
EXTENDS Ladder

CONSTANTS Room, MaxRequests,                              \* the TCP fallback
          RowLists, Width, Rtt, MaxSubmits,               \* the lane simulator
          Big, Mid, Small, MaxTotal, MaxGroups,           \* the expert path
          Requests, MaxRefused,
          MoeLayers,                                      \* MoE layers of a step and of a checkpoint
          Model, Inter, UnitExperts,                      \* the slice files
          PerByte, PerScale, PerShard, Checkpoints, MaxRuns

VARIABLES part,
          clock, queue, nextKey, nextTicket, free, tickets, counters, call, step, steps,
          mode, held, shut, txId, txSeq, rxSeq, skew, inflight, op, up, back, daemon, last, failed, broken,
          req, pc, rp, chunk, pinned, gpu, dev, hostx, result, refused,
          disk, manifest, pack, spark, cache, dirty, runs

lane == <<clock, queue, nextKey, nextTicket, free, tickets, counters, call, step, steps>>
tcp == <<mode, held, shut, txId, txSeq, rxSeq, skew, inflight, op, up, back, daemon, last, failed, broken>>
ffn == <<req, pc, rp, chunk, pinned, gpu, dev, hostx, result, refused>>
slices == <<disk, manifest, pack, spark, cache, dirty, runs>>

Lane == INSTANCE LaneSim WITH Ranks <- Sparks, StepLayers <- MoeLayers, faults <- counters, results <- steps

Tcp == INSTANCE TcpWire WITH nextId <- txId, down <- back, faults <- broken

Ffn == INSTANCE SparkFfn WITH MaxFaults <- MaxRefused, stream <- gpu, faults <- refused

Slc == INSTANCE Slices WITH Hidden <- Model, Ranks <- Sparks, Layers <- MoeLayers, Experts <- UnitExperts

-------------------------------------------------------------------------------
\* The parts a behaviour does not exercise start in one of their initial states.
BackInit == /\ part \in {"ladder", "lane", "tcp", "ffn", "slices"}
            /\ Init /\ Lane!Init
            /\ Tcp!Init /\ (part # "tcp" => mode = "raw")
            /\ Slc!Init /\ (part # "slices" => manifest.file = "none")
            /\ Ffn!Init /\ (part # "ffn" => req = CHOOSE r \in Requests : TRUE)

LadderStep == part = "ladder" /\ Next /\ UNCHANGED <<part, lane, tcp, ffn, slices>>
LaneStep == part = "lane" /\ Lane!Next /\ UNCHANGED <<part, vars, tcp, ffn, slices>>
TcpStep == part = "tcp" /\ Tcp!Next /\ UNCHANGED <<part, vars, lane, ffn, slices>>
FfnStep == part = "ffn" /\ Ffn!Next /\ UNCHANGED <<part, vars, lane, tcp, slices>>
SlicesStep == part = "slices" /\ Slc!Next /\ UNCHANGED <<part, vars, lane, tcp, ffn>>

BackNext == LadderStep \/ LaneStep \/ TcpStep \/ FfnStep \/ SlicesStep
BackSpec == BackInit /\ [][BackNext]_<<part, vars, lane, tcp, ffn, slices>>

-------------------------------------------------------------------------------
\* The sum-conservation law of the compact returns: a combined row has every route's term of every quarter once,
\* and a decode step's total is the time its layers account for (sim.rs).
LaneExact == Lane!LaneExact

\* Over TCP, an exchange that is handed out is made of one return of every rank with its rows, and of the return to
\* that exchange: a raw one whatever timed out, failed or went away before, a sum as long as no exchange has failed
\* (wire.rs, recv_raw_blocking, recv_frame_full).
TcpExact == Tcp!TcpExact

\* "returns the request id the returns must carry" (wire.rs, send_layer): a sum is made of such returns.
SumOwn == Tcp!SumOwn

\* As long as nothing has failed, client and daemon never wait for each other in a write (moe_send_raw's limit).
NoWriteCycle == Tcp!NoWriteCycle

\* A return holds, for each token, each of its routes once with its own weight, expert and row, whatever the
\* padding, the chunks and the path (route.rs, decode.rs).
PartialExact == Ffn!PartialExact

\* "the gather and the FFN launches run on the same (null) stream and serialize; the FFN's own sync covers both"
\* (decode.rs, upload_and_gather): the rows on the device are the request's.
StagedRows == Ffn!StagedRows

\* A layer image whose files are as boot verified them holds exactly this rank's units of one checkpoint, whatever
\* runs of the repack driver were killed, failed or repeated before (repack.rs, resident.rs).
LoadedExact == Slc!LoadedExact
===============================================================================
