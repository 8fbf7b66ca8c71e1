------------------------------ MODULE MCServer ------------------------------
(* Small instances of Server: two queries, two upstreams, one retry.       *)
EXTENDS Server

CONSTANTS q1, q2

TwoUpstreams == <<"first", "second">>

(* What getOrderedUpstreams describes is what its loop builds. *)
ASSUME OrderIsTheLoops ==
  \A well \in SUBSET Servers :
    getOrderedUpstreams(well) = {SelectSeq(Upstreams, LAMBDA u : u \in well)
                                 \o SelectSeq(Upstreams, LAMBDA u : u \notin well)}
=============================================================================
