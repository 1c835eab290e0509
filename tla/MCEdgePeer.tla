----------------------------- MODULE MCEdgePeer -----------------------------
(* Constants for the runs of EdgePeerCalls.                                 *)
EXTENDS EdgePeerProperties, EdgePeerCalls

CONSTANT pc

MCPeer == {pc}
Opus == [name |-> "opus", pt |-> 1]
H264 == [name |-> "H264", pt |-> 2]
MCCodecs == [p \in MCPeer |-> [audio |-> <<Opus>>, video |-> <<H264>>]]
MCRemoteCodecs == [audio |-> <<Opus>>, video |-> <<H264>>]
MCStreams == {<<"audio">>, <<"audio", "video">>}
MCOfferOptions == {[audio |-> -1, video |-> -1]}
MCMaxCandidates == [p \in MCPeer |-> <<1, 0>>]
MCIceStates == {"connected"}
MCDtlsStates == {"connected", "failed"}
=============================================================================
