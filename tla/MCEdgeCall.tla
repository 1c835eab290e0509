----------------------------- MODULE MCEdgeCall -----------------------------
(* Constants for the runs of EdgeCall.  The peers number their codecs       *)
(* differently and the callee lacks one of each kind.                       *)
EXTENDS EdgeCallProperties, TLC

CONSTANTS pc1, pc2

MCPeer == {pc1, pc2}
Codec(name, pt) == [name |-> name, pt |-> pt]
MCCodecs == (pc1 :> [audio |-> <<Codec("opus", 1), Codec("PCMU", 2)>>,
                     video |-> <<Codec("VP8", 3)>>])
         @@ (pc2 :> [audio |-> <<Codec("PCMU", 4), Codec("opus", 5)>>,
                     video |-> <<Codec("H264", 3), Codec("VP8", 6)>>])
MCStreams == {<<"audio", "video">>, <<"audio">>}
MCOfferOptions == {[audio |-> -1, video |-> 1]}
MCMaxCandidates == (pc1 :> <<1, 0>>) @@ (pc2 :> <<0, 0>>)
=============================================================================
