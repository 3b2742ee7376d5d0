-------------------------------- MODULE TcpWire --------------------------------
(* The expert exchange over TCP: WireClient without RDMA, and the daemon's copying *)
(* loop behind TcpTransport.  One connection per rank, never opened again.        *)
(*                                                                               *)
(* A stream is the sequence of header-sized pieces the socket buffers of its two   *)
(* ends hold, at most Room of them: a writer waits for room and a reader for a     *)
(* piece.  Writes have no timeout; the client's reads have one.  A request id      *)
(* names its layer.  The bytes of a frame are its identity; TCP does not damage    *)
(* them, so the checksum decides nothing here.                                     *)
EXTENDS Integers, Sequences, FiniteSets, TLC

CONSTANTS Sparks,      \* SPARKS
          Room,        \* pieces the socket buffers of one direction hold
          MaxRows,     \* bound on the rows of a request
          MaxRequests, \* bound on exchanges
          MaxFaults    \* bound on timeouts, failed loads, failed serves and lost daemons

VARIABLES mode,      \* who calls: "raw" (DeviceForward) or "sum" (GpuForward, which expects every sum)
          held,      \* ranks in `conns`
          shut,      \* ranks whose client end is closed
          nextId,    \* next_request_id
          txSeq, rxSeq, \* the L4 sequences of each connection, client side
          skew,      \* ranks whose stream lost part of a piece to a timed-out read
          inflight,
          op,        \* the call that runs
          up, down,  \* pieces under way to and from each rank
          daemon,    \* the daemon of each rank
          last,      \* the exchange handed out last, with the frames it is made of
          failed,    \* an exchange has failed
          faults

vars == <<mode, held, shut, nextId, txSeq, rxSeq, skew, inflight, op, up, down, daemon, last, failed, faults>>
client == <<held, shut, nextId, txSeq, rxSeq, skew, inflight, last, failed>>

Ranks == 0..Sparks - 1
All(x) == [r \in Ranks |-> x]

\* A frame as pieces: its header, then one piece a row.
Pieces(f) == <<[head |-> TRUE, f |-> f]>> \o [i \in 1..f.n |-> [head |-> FALSE, f |-> f]]

Idle == [at |-> "idle"]
Closed == [at |-> "closed"]

Init == /\ mode \in {"raw", "sum"} /\ held = Ranks /\ shut = {} /\ nextId = 1
        /\ txSeq = All(0) /\ rxSeq = All(0) /\ skew = {} /\ inflight = <<>> /\ op = Idle
        /\ up = All(<<>>) /\ down = All(<<>>)
        /\ daemon = All([at |-> "recv", got |-> 0, rx |-> 0, tx |-> 0, loaded |-> FALSE, todo |-> <<>>, end |-> FALSE])
        /\ last = <<>> /\ failed = FALSE /\ faults = 0

Fault == faults < MaxFaults /\ faults' = faults + 1

-------------------------------------------------------------------------------
(* Sending *)

\* An error ends the call, and the client stays: where the caller expects a sum, the panic ends the thread of
\* the connection it serves, and the next request takes the client out of the poisoned lock.
Failed == op' = Idle /\ failed' = TRUE

\* Mutant: two exchanges in flight, as over RDMA.
Limit_Two == 2
\* moe_send_raw without `pipelined`.
Limit == 1

\* moe_layer and moe_layer_prequant: whole rows, and no raw exchange in flight.
SumReady(n) == n > 0 /\ inflight = <<>>

\* send_layer up to the first write: one frame per connection in `conns`, stamped with its sequence.
Send(n) ==
  /\ op = Idle /\ nextId <= MaxRequests
  /\ IF mode = "raw" THEN Len(inflight) < Limit ELSE SumReady(n)
  /\ nextId' = nextId + 1
  /\ txSeq' = [r \in Ranks |-> txSeq[r] + IF r \in held THEN 1 ELSE 0]
  /\ op' = [at |-> "write", id |-> nextId, n |-> n,
            todo |-> [r \in Ranks |-> IF r \in held
                       THEN Pieces([id |-> nextId, n |-> n, exec |-> r, seq |-> txSeq[r], status |-> "Ok"]) ELSE <<>>]]
  /\ UNCHANGED <<mode, held, shut, rxSeq, skew, inflight, up, down, daemon, last, failed, faults>>

\* One thread a rank with more than one row, the ranks in order with one.
Turn(r, done) == op.n > 1 \/ \A q \in held : q < r => q \in done
Written(r) == op.todo[r] = <<>>

\* write_blocking: one write, into the socket's room.  A closed peer takes it for a while.
WritePiece(r) ==
  /\ op.at = "write" /\ r \in held /\ ~Written(r) /\ Turn(r, {q \in held : Written(q)})
  /\ Len(up[r]) < Room
  /\ up' = IF daemon[r].at = "closed" THEN up ELSE [up EXCEPT ![r] = Append(@, Head(op.todo[r]))]
  /\ op' = [op EXCEPT !.todo[r] = Tail(@)]
  /\ UNCHANGED <<client, mode, down, daemon, faults>>

\* The peer's reset reaches the socket.  In turn the call ends; in threads the first rank to be joined with
\* an error returns from send_layer with the connections still taken out of `conns`: all of them close.
WriteFails(r) ==
  /\ op.at = "write" /\ r \in held /\ ~Written(r) /\ Turn(r, {q \in held : Written(q)})
  /\ daemon[r].at = "closed" /\ \A q \in held : q < r => Written(q)
  /\ IF op.n > 1 THEN held' = {} /\ shut' = Ranks ELSE UNCHANGED <<held, shut>>
  /\ Failed
  /\ UNCHANGED <<mode, nextId, txSeq, rxSeq, skew, inflight, up, down, daemon, last, faults>>

Reading(id, n) == [at |-> "read", id |-> id, n |-> n, done |-> {}, err |-> {}, part |-> All(0), frame |-> All(<<>>)]

\* All written, or nobody to write to: the raw half ends with the exchange in flight, the host sum goes on to its reads.
SendDone ==
  /\ op.at = "write" /\ \A r \in held : Written(r)
  /\ IF mode = "raw" THEN inflight' = Append(inflight, <<op.id, op.n>>) /\ op' = Idle
                     ELSE op' = Reading(op.id, op.n) /\ UNCHANGED inflight
  /\ UNCHANGED <<mode, held, shut, nextId, txSeq, rxSeq, skew, up, down, daemon, last, failed, faults>>

-------------------------------------------------------------------------------
(* Receiving *)

\* moe_recv_raw: the oldest exchange.  With no connection left it succeeds, and rank_plane(0) has none to index:
\* the panic ends the scheduler, whose thread owns the client.
Recv ==
  /\ op = Idle /\ mode = "raw" /\ inflight # <<>>
  /\ inflight' = Tail(inflight)
  /\ op' = IF held = {} THEN [at |-> "dead"] ELSE Reading(Head(inflight)[1], Head(inflight)[2])
  /\ UNCHANGED <<mode, held, shut, nextId, txSeq, rxSeq, skew, up, down, daemon, last, failed, faults>>

Live(r) == op.at = "read" /\ r \in held /\ r \notin op.done \cup op.err /\ Turn(r, op.done)
           /\ (op.n = 1 => op.err = {})

\* Mutant: the return of another exchange of the same size passes.
Matches_AnyId(f, r) == f.status = "Ok" /\ f.n = op.n /\ f.exec = r
\* The header check of recv_raw_blocking.  recv_frame_full has none: a host sum takes any return.
Matches(f, r) == f.status = "Ok" /\ f.id = op.id /\ f.n = op.n /\ f.exec = r

\* A header is read where a header should be.  One that is refused leaves its rows in the stream.
ReadHead(r) ==
  /\ Live(r) /\ op.part[r] = 0 /\ down[r] # <<>>
  /\ down' = [down EXCEPT ![r] = Tail(@)]
  /\ LET p == Head(down[r])
         ok == p.head /\ r \notin skew /\ (mode = "raw" => Matches(p.f, r))
     IN  op' = IF ok THEN [op EXCEPT !.part[r] = p.f.n, !.frame[r] = p.f] ELSE [op EXCEPT !.err = @ \cup {r}]
  /\ UNCHANGED <<client, mode, up, daemon, faults>>

\* The rows; after the last, StreamReceiver::accept.  The sum refuses an error return and rows it has no place for.
ReadRow(r) ==
  /\ Live(r) /\ op.part[r] > 0 /\ down[r] # <<>>
  /\ down' = [down EXCEPT ![r] = Tail(@)]
  /\ LET f == op.frame[r]
         fits == f.seq = rxSeq[r]
     IN  IF op.part[r] > 1 THEN op' = [op EXCEPT !.part[r] = @ - 1] /\ UNCHANGED rxSeq
         ELSE /\ rxSeq' = IF fits THEN [rxSeq EXCEPT ![r] = @ + 1] ELSE rxSeq
              /\ op' = IF fits /\ f.status = "Ok" /\ f.n <= op.n THEN [op EXCEPT !.part[r] = 0, !.done = @ \cup {r}]
                       ELSE [op EXCEPT !.part[r] = 0, !.err = @ \cup {r}]
  /\ UNCHANGED <<mode, held, shut, nextId, txSeq, skew, inflight, up, daemon, last, failed, faults>>

\* The stream ends, or nothing comes for the 120 s of the read timeout: bytes read so far are gone.
ReadFails(r) ==
  /\ Live(r) /\ down[r] = <<>>
  /\ IF daemon[r].at = "closed" THEN UNCHANGED faults ELSE Fault
  /\ \E lost \in BOOLEAN : skew' = IF lost THEN skew \cup {r} ELSE skew
  /\ op' = [op EXCEPT !.err = @ \cup {r}]
  /\ UNCHANGED <<mode, held, shut, nextId, txSeq, rxSeq, inflight, up, down, daemon, last, failed>>

\* What rank_plane reads, or the sum adds up: the last frame of every rank.
HandOut == [id |-> op.id, n |-> op.n, clean |-> ~failed, frames |-> op.frame]

\* CoordinatorSum::result: a row of every rank for every row of the request.
Complete == mode = "sum" => held = Ranks /\ \A r \in Ranks : op.frame[r].n = op.n

\* Every rank has answered.  A sum that is not complete fails, and the connections stay.
RecvDone ==
  /\ op.at = "read" /\ op.done = held /\ op.err = {}
  /\ IF Complete THEN last' = HandOut /\ op' = Idle /\ UNCHANGED failed ELSE Failed /\ UNCHANGED last
  /\ UNCHANGED <<mode, held, shut, nextId, txSeq, rxSeq, skew, inflight, up, down, daemon, faults>>

\* In turn the call ends at the first error.  In threads, moe_recv_raw joins them all; the host sum returns at the
\* first it joins with an error, and the connections, still taken out of `conns`, close.
RecvFails ==
  /\ op.at = "read" /\ op.err # {}
  /\ IF op.n = 1 THEN UNCHANGED <<held, shut>>
     ELSE IF mode = "raw" THEN op.done \cup op.err = held /\ UNCHANGED <<held, shut>>
     ELSE (\E r \in op.err : \A q \in held : q < r => q \in op.done) /\ held' = {} /\ shut' = Ranks
  /\ Failed
  /\ UNCHANGED <<mode, nextId, txSeq, rxSeq, skew, inflight, up, down, daemon, last, faults>>

-------------------------------------------------------------------------------
(* The daemon *)

Set(r, s) == daemon' = [daemon EXCEPT ![r] = s]
\* The connection ends; what it had not read is gone, what it had written is still under way.
Close(r) == Set(r, Closed) /\ up' = [up EXCEPT ![r] = <<>>]

\* TcpTransport::recv of one piece; a whole frame passes rx.accept, the layer range and the kind, or ends it.
RecvPiece(r) ==
  /\ daemon[r].at = "recv" /\ up[r] # <<>>
  /\ LET f == Head(up[r]).f
         got == daemon[r].got + 1
     IN  IF got <= f.n THEN Set(r, [daemon[r] EXCEPT !.got = got]) /\ up' = [up EXCEPT ![r] = Tail(@)]
         ELSE IF f.seq # daemon[r].rx THEN Close(r)
         ELSE /\ Set(r, [daemon[r] EXCEPT !.at = "serve", !.got = 0, !.rx = @ + 1, !.todo = <<f>>])
              /\ up' = [up EXCEPT ![r] = Tail(@)]
  /\ UNCHANGED <<client, mode, op, down, faults>>

\* The client's end is closed: no frame comes, and none goes.
PeerClosed(r) == /\ r \in shut /\ daemon[r].at = "recv" /\ up[r] = <<>> /\ Close(r)
                 /\ UNCHANGED <<client, mode, op, down, faults>>

Return(r, status) ==
  LET f == daemon[r].todo[1] IN Pieces([id |-> f.id, n |-> f.n, exec |-> f.exec, seq |-> daemon[r].tx, status |-> status])
Answering(r, status) ==
  [daemon[r] EXCEPT !.at = "send", !.tx = @ + 1, !.loaded = TRUE, !.todo = Return(r, status), !.end = status # "Ok"]

\* The layer is loaded on first touch, served, stamped and encoded.
Serve(r) == /\ daemon[r].at = "serve" /\ Set(r, Answering(r, "Ok"))
            /\ UNCHANGED <<client, mode, op, up, down, faults>>
\* A serve that fails answers with an error status and ends the connection.
ServeFails(r) == /\ daemon[r].at = "serve" /\ Fault /\ Set(r, Answering(r, "Error"))
                 /\ UNCHANGED <<client, mode, op, up, down>>
\* A load that fails ends it with no answer.
LoadFails(r) == /\ daemon[r].at = "serve" /\ ~daemon[r].loaded /\ Fault /\ Close(r)
                /\ UNCHANGED <<client, mode, op, down>>

\* write_all of the return.
SendPiece(r) ==
  /\ daemon[r].at = "send" /\ (Len(down[r]) < Room \/ r \in shut)
  /\ LET rest == Tail(daemon[r].todo)
     IN  IF r \in shut THEN Close(r) /\ UNCHANGED down
         ELSE /\ down' = [down EXCEPT ![r] = Append(@, Head(daemon[r].todo))]
              /\ IF rest # <<>> THEN Set(r, [daemon[r] EXCEPT !.todo = rest]) /\ UNCHANGED up
                 ELSE IF daemon[r].end THEN Close(r)
                 ELSE Set(r, [daemon[r] EXCEPT !.at = "recv", !.todo = <<>>]) /\ UNCHANGED up
  /\ UNCHANGED <<client, mode, op, faults>>

\* The process or its host goes away.
Dies(r) == /\ daemon[r].at # "closed" /\ Fault /\ Close(r) /\ UNCHANGED <<client, mode, op, down>>

-------------------------------------------------------------------------------
Next == \/ \E n \in 1..MaxRows : Send(n)
        \/ SendDone \/ Recv \/ RecvDone \/ RecvFails
        \/ \E r \in Ranks : \/ WritePiece(r) \/ WriteFails(r) \/ ReadHead(r) \/ ReadRow(r) \/ ReadFails(r)
                            \/ RecvPiece(r) \/ PeerClosed(r) \/ Serve(r) \/ ServeFails(r) \/ LoadFails(r)
                            \/ SendPiece(r) \/ Dies(r)

Spec == Init /\ [][Next]_vars

-------------------------------------------------------------------------------
(* Properties *)

\* Whatever timed out, failed or went away before, an exchange that is handed out is made of one return of every
\* rank with its rows, and of the return to that exchange: a raw one always (the header check of
\* recv_raw_blocking), a sum as long as no exchange has failed (the sequence check of StreamReceiver::accept).
TcpExact == last # <<>> =>
  \A r \in Ranks : LET f == last.frames[r]
                   IN  /\ f # <<>> /\ f.exec = r /\ f.n = last.n
                       /\ mode = "raw" \/ last.clean => f.id = last.id

\* send_layer "returns the request id the returns must carry": a sum is made of the returns that carry its own,
\* whatever failed before. `exchange` drops the id, and with one token the late return of an exchange that timed
\* out is the next one's in its sequence.
SumOwn == mode = "sum" /\ last # <<>> => \A r \in Ranks : last.frames[r].id = last.id

\* As long as nothing has failed, the client is never stuck in a write to a rank that is stuck in a write to it:
\* one exchange in flight is few enough for any size of socket buffer (moe_send_raw's limit over TCP).
NoWriteCycle ==
  faults = 0 => ~ \E r \in Ranks : /\ op.at = "write" /\ ~Written(r) /\ Len(up[r]) = Room
                                   /\ daemon[r].at = "send" /\ Len(down[r]) = Room
===============================================================================
