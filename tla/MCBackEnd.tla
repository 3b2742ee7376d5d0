------------------------------- MODULE MCBackEnd -------------------------------
(* The expert side for TLC: two ranks, and the inputs of its parts.        *)
EXTENDS BackEnd

\* Rows with the routes of two ranks, and rows the simulator refuses.
Row(t, rs) == [token |-> t, width |-> 2, routes |-> rs]
MCRowLists == {<<Row(1, <<1, 2>>)>>, <<Row(1, <<1, 3>>), Row(2, <<1, 2>>)>>,
               <<>>, <<Row(1, <<1>>)>>, <<Row(1, <<1, 2>>), Row(1, <<1, 3>>)>>,
               <<[token |-> 1, width |-> 3, routes |-> <<1, 2>>]>>}

\* Up to five rows of two routes each over three experts, and frames whose route table is short or names a row twice.
Descs(n) == [t \in 1..n |-> [off |-> (t - 1) * 2, cnt |-> 2]]
Table(ps) == [j \in 1..2 * Len(ps) |->
               [row |-> (j - 1) \div 2, expert |-> ps[(j - 1) \div 2 + 1][((j - 1) % 2) + 1], weight |-> j]]
Choices == {<<1, 2>>, <<2, 1>>, <<0, 2>>}
Whole == UNION {{[rows |-> Descs(n), routes |-> Table(ps), path |-> p] : ps \in [1..n -> Choices], p \in {"b2", "b1"}} : n \in {1, 2, 5}}
Flawed == {[rows |-> Descs(2), routes |-> SubSeq(Table(<<<<1, 2>>, <<1, 2>>>>), 1, 3), path |-> p] : p \in {"b2", "b1"}}
          \cup {[rows |-> <<[off |-> 0, cnt |-> 2], [off |-> 0, cnt |-> 2]>>, routes |-> Table(<<<<1, 2>>, <<1, 2>>>>), path |-> "b1"]}
MCRequests == Whole \cup Flawed

\* Two sound checkpoints, and one for every way the driver can find one unreadable.
MCCheckpoints == [id : {1, 2}, damage : {"none"}]
                 \cup [id : {3}, damage : {"dtype", "shape", "short", "truncated", "reversed", "missing"}]
===============================================================================
