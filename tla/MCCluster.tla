----------------------------- MODULE MCCluster -----------------------------
(* Two shards: one that gets the commands, one that may stop. *)
EXTENDS Cluster

MCSeries(chunks, open) == [chunks |-> chunks, open |-> open]

MCContents == {MCSeries(<<<<1, 2>>, <<3>>>>, -1), MCSeries(<<<<1>>>>, 3)}

MCQuery == {[kind |-> "queryindex", start |-> 0, end |-> 0, latest |-> FALSE],
            [kind |-> "mget", start |-> 0, end |-> 0, latest |-> TRUE],
            [kind |-> "mrange", start |-> 2, end |-> 2, latest |-> TRUE],
            [kind |-> "mrange", start |-> 0, end |-> 4, latest |-> TRUE]}
=============================================================================
