------------------------------- MODULE EdgeSdp -------------------------------
(***************************************************************************)
(* SDPUtils of lib/adapter.js (edge_sdp, lines 488-975): what is written    *)
(* into an m-section for the other end, and what is read from one.          *)
(*                                                                         *)
(* A line is a record named by its attribute, with the fields the code      *)
(* splits it into.  A section is its m-line and the lines below, in order.  *)
(* A text that may be missing is "", a number that may be missing is -1.    *)
(***************************************************************************)
EXTENDS Integers, Sequences, SequencesExt, Selection

Undefined == -1

\* The lines of an attribute; several functions read the first one only.
MatchPrefix(lines, a) == Filter(lines, LAMBDA l : l.a = a)
OfPayloadPrefix(lines, a, pt) ==
  Filter(lines, LAMBDA l : l.a = a /\ pt \in {l.pt, l.pt \div 10, l.pt \div 100})
OfPayload(lines, a, pt) == Filter(lines, LAMBDA l : l.a = a /\ l.pt = pt)

-----------------------------------------------------------------------------
(* ICE candidates.                                                          *)

Upper == [udp |-> "UDP", tcp |-> "TCP"]
LowerKept == [UDP |-> "UDP", TCP |-> "TCP", udp |-> "udp", tcp |-> "tcp"]
Lower == [UDP |-> "udp", TCP |-> "tcp", udp |-> "udp", tcp |-> "tcp"]

\* The related address is left out unless its port is a number but 0.
WriteCandidate(c) ==
  [foundation |-> c.foundation, component |-> c.component,
   protocol |-> Upper[c.protocol], priority |-> c.priority, ip |-> c.ip,
   port |-> c.port, type |-> c.type,
   extensions |->
     (IF c.type # "host" /\ c.relatedAddress # "" /\ c.relatedPort \notin {0, Undefined}
      THEN <<[key |-> "raddr", text |-> c.relatedAddress, number |-> Undefined],
             [key |-> "rport", text |-> "", number |-> c.relatedPort]>> ELSE <<>>)
     \o (IF c.tcpType # "" /\ c.protocol = "tcp"
         THEN <<[key |-> "tcptype", text |-> c.tcpType, number |-> Undefined]>>
         ELSE <<>>)]

\* Of repeated extensions the last counts; unknown ones are passed over.
ParseCandidate(l) ==
  LET LastOf(key) == SelectLastInSeq(l.extensions, LAMBDA e : e.key = key)
      Text(key) == IF LastOf(key) = 0 THEN "" ELSE l.extensions[LastOf(key)].text
  IN [foundation |-> l.foundation, component |-> l.component,
      protocol |-> Lower[l.protocol], priority |-> l.priority, ip |-> l.ip,
      port |-> l.port, type |-> l.type,
      relatedAddress |-> Text("raddr"), tcpType |-> Text("tcptype"),
      relatedPort |-> IF LastOf("rport") = 0 THEN Undefined
                      ELSE l.extensions[LastOf("rport")].number]

\* What addIceCandidate hands to the ICE transport: {} if it passes over it,
\* or the candidate, which is empty for the end of candidates.
Usable(l) ==
  LET c == ParseCandidate(l)
  IN IF (c.protocol = "tcp" /\ c.port = 0) \/ c.component # 1 THEN {}
     ELSE IF c.type = "endOfCandidates" THEN {<<>>} ELSE {<<c>>}

-----------------------------------------------------------------------------
(* Codecs.  A capability has a preferred payload type, a parameter none.    *)

PayloadType(c) == IF c.preferredPayloadType # Undefined
                  THEN c.preferredPayloadType ELSE c.payloadType

WriteRtpMap(c) ==
  [a |-> "rtpmap", pt |-> PayloadType(c), name |-> c.name,
   clockRate |-> c.clockRate,
   channels |-> IF c.numChannels # 1 THEN <<c.numChannels>> ELSE <<>>]
\* The caller adds the parameters and the feedback, which have their own lines.
ParseRtpMap(l, parameters, rtcpFeedback) ==
  [payloadType |-> l.pt, preferredPayloadType |-> Undefined, name |-> l.name,
   clockRate |-> l.clockRate,
   numChannels |-> IF l.channels = <<>> THEN 1 ELSE Head(l.channels),
   parameters |-> parameters, rtcpFeedback |-> rtcpFeedback]

\* A parameter is a key with what "=" splits its value into: <<>> where there
\* is no "=", and then written as the word undefined.
WriteFmtp(c) ==
  IF DOMAIN c.parameters = {} THEN <<>>
  ELSE <<[a |-> "fmtp", pt |-> PayloadType(c),
          parameters |-> [k \in DOMAIN c.parameters |->
            IF c.parameters[k] = <<>> THEN <<"undefined">> ELSE c.parameters[k]]]>>
ParseFmtp(l) ==
  [k \in DOMAIN l.parameters |->
     IF l.parameters[k] = <<>> THEN <<>> ELSE <<Head(l.parameters[k])>>]

WriteRtcpFb(c) ==
  [i \in DOMAIN c.rtcpFeedback |->
     [a |-> "rtcp-fb", pt |-> PayloadType(c), feedback |-> c.rtcpFeedback[i]]]

\* An id of 0 counts as none.
WriteExtmap(e) ==
  [a |-> "extmap", uri |-> e.uri, id |-> IF e.id > 0 THEN e.id ELSE e.preferredId]
ParseExtmap(l) == [id |-> l.id, preferredId |-> Undefined, uri |-> l.uri]

\* parseRtpParameters: payload types without rtpmap are passed over, also the
\* static ones.
ParseRtpParameters(section) ==
  LET known == Filter(section.payloadTypes,
                 LAMBDA pt : OfPayload(section.lines, "rtpmap", pt) # <<>>)
      Codec(pt) ==
        LET fmtps == OfPayload(section.lines, "fmtp", pt)
            fbs == OfPayload(section.lines, "rtcp-fb", pt)
        IN ParseRtpMap(OfPayload(section.lines, "rtpmap", pt)[1],
             IF fmtps = <<>> THEN <<>> ELSE ParseFmtp(fmtps[1]),
             [i \in DOMAIN fbs |-> fbs[i].feedback])
      codecs == [i \in DOMAIN known |-> Codec(known[i])]
      extmaps == MatchPrefix(section.lines, "extmap")
  IN [codecs |-> codecs,
      headerExtensions |-> [i \in DOMAIN extmaps |-> ParseExtmap(extmaps[i])],
      fecMechanisms |-> {codecs[i].name : i \in DOMAIN codecs}
                          \intersect {"red", "ulpfec"}]

\* writeRtpDescription: no codec means rejected; the header extensions are
\* not written (830).
WriteRtpDescription(kind, codecs) ==
  [kind |-> kind, port |-> IF codecs = <<>> THEN 0 ELSE 9,
   payloadTypes |-> [i \in DOMAIN codecs |-> PayloadType(codecs[i])],
   lines |-> FlattenSeq([i \in DOMAIN codecs |->
               <<WriteRtpMap(codecs[i])>> \o WriteFmtp(codecs[i])
                                          \o WriteRtcpFb(codecs[i])])]

\* _getCommonCapabilities: each local codec takes the first remote one of its
\* name, rate and channels, whatever their parameters and feedback.
CommonCapabilitiesLocal(local, remote) ==
  Filter(local, LAMBDA c : SelectInSeq(remote, LAMBDA r : r.name = c.name) # 0)
CommonCapabilities(local, remote) ==
  LET First(c) == SelectInSeq(remote, LAMBDA r :
                    /\ r.name = c.name /\ r.clockRate = c.clockRate
                    /\ r.numChannels = c.numChannels)
      shared == Filter(local, LAMBDA c : First(c) # 0)
  IN [i \in DOMAIN shared |-> remote[First(shared[i])]]

-----------------------------------------------------------------------------
(* Streams of packets.                                                      *)

\* The stream of retransmissions: the second of the first FID group, if that
\* group is the primary stream's.
SecondarySsrcOfAny(flows, primarySsrc) ==
  IF flows # <<>> /\ Len(flows[1].ssrcs) > 1 THEN flows[1].ssrcs[2] ELSE Undefined
SecondarySsrc(flows, primarySsrc) ==
  IF /\ flows # <<>> /\ Len(flows[1].ssrcs) > 1
     /\ flows[1].ssrcs[1] = primarySsrc
  THEN flows[1].ssrcs[2] ELSE Undefined

\* parseRtpEncodingParameters: an encoding for each RTX codec, twice with RED,
\* or one for the first SSRC.  Without an SSRC the number is false (0).
ParseRtpEncodingParameters(section) ==
  LET description == ParseRtpParameters(section)
      cnames == Filter(section.lines, LAMBDA l : l.a = "ssrc" /\ l.attribute = "cname")
      flows == MatchPrefix(section.lines, "ssrc-group:FID")
      primarySsrc == IF cnames = <<>> THEN 0 ELSE cnames[1].ssrc
      secondarySsrc == SecondarySsrc(flows, primarySsrc)
      rtx == Filter(description.codecs,
               LAMBDA c : /\ c.name = "rtx" /\ "apt" \in DOMAIN c.parameters
                          /\ c.parameters["apt"] # <<>>)
      Encoding(c, fec) == [ssrc |-> primarySsrc, codec |-> Head(c.parameters["apt"]),
                           rtx |-> secondarySsrc, fec |-> fec]
      hasRed == "red" \in description.fecMechanisms
      mechanism == IF "ulpfec" \in description.fecMechanisms THEN "red+ulpfec" ELSE "red"
      encodings == FlattenSeq([i \in DOMAIN rtx |->
                     <<Encoding(rtx[i], "none")>>
                     \o (IF hasRed THEN <<Encoding(rtx[i], mechanism)>> ELSE <<>>)])
  IN IF encodings = <<>> /\ primarySsrc # 0
     THEN <<[ssrc |-> primarySsrc, codec |-> "", rtx |-> Undefined, fec |-> "none"]>>
     ELSE encodings

-----------------------------------------------------------------------------
(* Transports, direction, and the whole section.                            *)

\* The first line of an attribute, in the section or else the session part;
\* the code throws where there is none.
FirstLine(lines, session, a) == MatchPrefix(lines \o session, a)[1].value
GetDtlsParameters(section, session) == FirstLine(section.lines, session, "fingerprint")
GetIceParameters(section, session) ==
  [usernameFragment |-> FirstLine(section.lines, session, "ice-ufrag"),
   password |-> FirstLine(section.lines, session, "ice-pwd")]

Directions == {"sendrecv", "sendonly", "recvonly", "inactive"}
GetDirection(lines, session) ==
  LET written == Filter(lines \o session, LAMBDA l : l.a \in Directions)
  IN IF written = <<>> THEN "sendrecv" ELSE written[1].a

\* writeMediaSection for a transceiver t: sender and receiver are booleans.
LinesBelow(t, type) ==
  LET direction == IF t.sender /\ t.receiver THEN "sendrecv"
                   ELSE IF t.sender THEN "sendonly"
                   ELSE IF t.receiver THEN "recvonly" ELSE "inactive"
      Ssrc(attribute) == [a |-> "ssrc", ssrc |-> t.ssrc, attribute |-> attribute]
  IN <<[a |-> "ice-ufrag", value |-> t.ufrag], [a |-> "ice-pwd", value |-> t.pwd],
       [a |-> "setup", value |-> IF type = "offer" THEN "actpass" ELSE "active"],
       [a |-> "fingerprint", value |-> t.fingerprint], [a |-> "mid", value |-> t.mid],
       [a |-> direction]>>
     \o (IF t.sender THEN <<Ssrc("msid")>> ELSE <<>>) \o <<Ssrc("cname")>>
WriteMediaSection(t, codecs, type) ==
  [WriteRtpDescription(t.kind, codecs) EXCEPT !.lines = @ \o LinesBelow(t, type)]
=============================================================================
