------------------------- MODULE MCAdapterFunctions -------------------------
(* Constants for the run of AdapterFunctions.                               *)
EXTENDS AdapterFunctionsProperties

CONSTANTS front, back

\* Candidates as ORTC defines them: the related address of all but host ones.
MCCandidates ==
  {[foundation |-> "f", component |-> component, protocol |-> protocol,
    priority |-> 1, ip |-> "10.0.0.1", port |-> port, type |-> type,
    relatedAddress |-> IF type = "host" THEN "" ELSE "10.0.0.2",
    relatedPort |-> IF type = "host" THEN Undefined ELSE 3478,
    tcpType |-> IF protocol = "tcp" THEN "active" ELSE ""] :
   component \in {1, 2}, protocol \in {"udp", "tcp"}, port \in {0, 9},
   type \in {"host", "srflx", "prflx", "relay"}}

Capability(name, pt, parameters, feedback) ==
  [name |-> name, clockRate |-> 90000, numChannels |-> IF name = "opus" THEN 2 ELSE 1,
   payloadType |-> Undefined, preferredPayloadType |-> pt,
   parameters |-> parameters, rtcpFeedback |-> feedback]
Nack == [type |-> "nack", parameter |-> "pli"]
OffererCodecs == {Capability("opus", 10, [minptime |-> <<"10">>], <<>>),
                  Capability("vp8", 100, <<>>, <<Nack, [Nack EXCEPT !.parameter = ""]>>),
                  Capability("rtx", 101, [apt |-> <<"100">>], <<>>),
                  Capability("red", 1, <<>>, <<>>), Capability("ulpfec", 2, <<>>, <<>>)}
AnswererCodecs == {Capability("vp8", 101, [x |-> <<"1">>], <<>>),
                   Capability("rtx", 100, [apt |-> <<"101">>], <<>>),
                   Capability("rtx", 3, [apt |-> <<"2">>], <<>>),
                   [Capability("opus", 1, <<>>, <<Nack>>) EXCEPT !.numChannels = 1],
                   Capability("h264", 2, <<>>, <<>>)}
Lists(codecs) == UNION {{l \in [1 .. n -> codecs] : IsInjective(l)} : n \in 0 .. 3}
MCCapabilities == [offerer : Lists(OffererCodecs), answerer : Lists(AnswererCodecs)]

Transceiver(sender, receiver, ssrc) ==
  [kind |-> "video", mid |-> "m", sender |-> sender, receiver |-> receiver,
   ufrag |-> "u", pwd |-> "p", fingerprint |-> "f", ssrc |-> ssrc]
MCTransceivers ==
  {[offerer |-> Transceiver(s, r, 1001), answerer |-> Transceiver(t, TRUE, 2002)] :
     s \in BOOLEAN, r \in BOOLEAN, t \in BOOLEAN}

Ssrc(n, attribute) == [a |-> "ssrc", ssrc |-> n, attribute |-> attribute]
Fid(n, m) == [a |-> "ssrc-group:FID", ssrcs |-> <<n, m>>]
Lines(which, direction) ==
  <<[a |-> "ice-ufrag", value |-> which], [a |-> "ice-pwd", value |-> which],
    [a |-> "fingerprint", value |-> which]>> \o direction
MCAnnouncements ==
  {s \o t \o d : s \in {<<>>, <<Ssrc(7, "cname")>>,
                        <<Ssrc(6, "msid"), Ssrc(7, "cname"), Ssrc(8, "cname")>>},
                 t \in {<<>>, <<Fid(7, 8)>>, <<Fid(6, 7)>>, <<Fid(8, 7), Fid(7, 8)>>},
                 d \in {<<>>, Lines("section", <<[a |-> "sendonly"]>>)}}
MCSessions == {Lines("session", d) : d \in {<<>>, <<[a |-> "inactive"]>>}}

\* What an application may ask of a number and of a text: limits that do not
\* contradict each other.
Asked(values) == {[f \in fields |-> v[f]] : fields \in SUBSET {"exact", "ideal", "min", "max"},
                                            v \in [{"exact", "ideal", "min", "max"} -> values]}
Width == {r \in Asked(1 .. 3) : \E v \in 1 .. 3 : Allowed(r, v)}
DeviceId == {[f \in fields |-> v[f]] : fields \in SUBSET {"exact", "ideal"},
                                       v \in [{"exact", "ideal"} -> {front, back}]}
MCConstraints ==
  {[settings |-> [width |-> w, deviceId |-> d]] : w \in Width, d \in DeviceId}
  \union {[settings |-> [width |-> w]] : w \in Width}
  \union {[settings |-> [width |-> w], advanced |-> <<[key |-> "width", value |-> 1]>>] :
            w \in Width}
MCNames == <<"deviceId", "width">>
MCNumbers == 0 .. 4
MCValues == [width |-> 0 .. 4, deviceId |-> {front, back}]
=============================================================================
