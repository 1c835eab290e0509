-------------------------- MODULE AdapterFunctions --------------------------
(***************************************************************************)
(* The functions of lib/adapter.js that keep no state, called once each on *)
(* one of a set of inputs.  An m-section goes the way it goes in a call:   *)
(* one end writes its capabilities, the other reads them, answers with     *)
(* what both have, and the first end reads the answer.                     *)
(***************************************************************************)
EXTENDS EdgeSdp, MediaConstraints

CONSTANTS
  Candidates,      \* the candidates ICE gatherers find
  Capabilities,    \* the codec lists of two browsers, [offerer, answerer]
  Transceivers,    \* what sends and receives on a line, [offerer, answerer]
  Announcements,   \* the lines about SSRCs of m-sections of other browsers
  Sessions,        \* the lines of session parts
  Constraints,     \* what applications ask of getUserMedia
  Names            \* the names of settings, in the order of an object's keys

Elements(s) == {s[i] : i \in DOMAIN s}
IsList(s) == s \in Seq(Elements(s))
IsRecord(r, fields) == r = [f \in fields |-> r[f]]

\* A candidate of ORTC.  All but host candidates have a related address.
IsCandidate(c) ==
  /\ IsRecord(c, {"foundation", "component", "protocol", "priority", "ip", "port",
                  "type", "relatedAddress", "relatedPort", "tcpType"})
  /\ c.protocol \in {"udp", "tcp"}
  /\ c.tcpType # "" <=> c.protocol = "tcp"
  /\ c.type \in {"host", "srflx", "prflx", "relay"}
  /\ IF c.type = "host" THEN c.relatedAddress = "" /\ c.relatedPort = Undefined
     ELSE c.relatedAddress # "" /\ c.relatedPort \notin {0, Undefined}

ASSUME CandidatesAssumption == \A c \in Candidates : IsCandidate(c)

\* A codec of RTCRtpSender.getCapabilities.  Its parameters have a value, which
\* has no "=" inside, and RTX says which codec it repeats.
IsCapability(c) ==
  /\ IsRecord(c, {"name", "clockRate", "numChannels", "payloadType",
                  "preferredPayloadType", "parameters", "rtcpFeedback"})
  /\ c.preferredPayloadType # Undefined
  /\ c.parameters = [k \in DOMAIN c.parameters |-> <<c.parameters[k][1]>>]
  /\ c.name = "rtx" => "apt" \in DOMAIN c.parameters /\ c.parameters["apt"] # <<"">>
  /\ IsList(c.rtcpFeedback)

SameCodec(c, d) ==
  c.name = d.name /\ c.clockRate = d.clockRate /\ c.numChannels = d.numChannels

\* A payload type is one codec's.  What a browser lists more than once, as it
\* does RTX, has no feedback.
ASSUME CapabilitiesAssumption ==
  \A caps \in Capabilities :
    /\ IsList(caps.offerer) /\ IsList(caps.answerer)
    /\ \A c \in Elements(caps.offerer) : IsCapability(c)
    /\ \A i, j \in DOMAIN caps.offerer :
         caps.offerer[i].preferredPayloadType = caps.offerer[j].preferredPayloadType => i = j
    /\ \A i, j \in DOMAIN caps.answerer : \A c \in Elements(caps.offerer) :
         /\ i # j
         /\ SameCodec(caps.answerer[i], c) /\ SameCodec(caps.answerer[j], c)
         => c.rtcpFeedback = <<>>

ASSUME TransceiversAssumption ==
  \A ts \in Transceivers :
    /\ ts.offerer.ssrc # 0
    /\ \A t \in {ts.offerer, ts.answerer} : t.sender \in BOOLEAN /\ t.receiver \in BOOLEAN

\* The lines are not about codecs.  A section has one description of its
\* transports, an FID group is a pair.
ASSUME AnnouncementsAssumption ==
  \A lines \in Announcements :
    /\ IsList(lines)
    /\ \A l \in Elements(lines) :
         /\ l.a \notin {"rtpmap", "fmtp", "rtcp-fb"}
         /\ l.a = "ssrc" => l.ssrc # 0
         /\ l.a = "ssrc-group:FID" => l.ssrcs = <<l.ssrcs[1], l.ssrcs[2]>>
    /\ \A i, j \in DOMAIN lines :
         lines[i].a = lines[j].a /\ lines[i].a \in {"ice-ufrag", "ice-pwd", "fingerprint"}
         => i = j

ASSUME SessionsAssumption == \A lines \in Sessions : IsList(lines)

\* Constraints of the new style.  All that is asked of a setting is of numbers
\* or all of texts, which have no limits; an exact number is within the limits.
IsAsked(r) ==
  LET values == {r[f] : f \in DOMAIN r}
  IN /\ values \subseteq Numbers \/ (values \intersect Numbers = {} /\ DOMAIN r \subseteq {"exact", "ideal"})
     /\ DOMAIN r \subseteq {"exact", "ideal", "min", "max"}
     /\ Has(r, "exact") /\ Has(r, "min") => r.exact >= r.min
     /\ Has(r, "exact") /\ Has(r, "max") => r.exact <= r.max

\* Chrome has one name for deviceId and sourceId.
ASSUME ConstraintsAssumption ==
  /\ Numbers \subseteq Int
  /\ IsList(Names)
  /\ \A c \in Constraints :
       /\ ~OldStyle(c) /\ ~Has(c, "require")
       /\ DOMAIN c.settings \subseteq Elements(Names) \ {"sourceId"}
       /\ \A n \in DOMAIN c.settings : IsAsked(c.settings[n])

VARIABLES function, given, got

vars == <<function, given, got>>

Init == function = "none" /\ given = <<>> /\ got = <<>>

Calls(f, input, output) ==
  function' = f /\ given' = input /\ got' = output

SendsCandidate == \E c \in Candidates :
  Calls("candidate", c, Usable(WriteCandidate(c)))

\* The offerer of a section and the answerer who reads it; a rejected one is
\* read as well.
Negotiates == \E caps \in Capabilities, ts \in Transceivers :
  LET offer == WriteMediaSection(ts.offerer, caps.offerer, "offer")
      common == CommonCapabilities(caps.answerer, ParseRtpParameters(offer).codecs)
      answer == WriteMediaSection(ts.answerer, common, "answer")
  IN Calls("negotiation", [caps |-> caps, ts |-> ts],
       [offered |-> ParseRtpParameters(offer).codecs,
        answered |-> ParseRtpParameters(answer).codecs,
        rejected |-> answer.port = 0,
        directions |-> <<GetDirection(offer.lines, <<>>), GetDirection(answer.lines, <<>>)>>,
        encodings |-> ParseRtpEncodingParameters(offer)])

\* A section another browser wrote, with lines of the session above it.
ReadsSection == \E codecs \in {caps.offerer : caps \in Capabilities},
                   lines \in Announcements, session \in Sessions :
  LET written == WriteRtpDescription("video", codecs)
      section == [written EXCEPT !.lines = @ \o lines]
  IN Calls("section", [lines |-> lines, session |-> session, codecs |-> codecs],
       [encodings |-> ParseRtpEncodingParameters(section),
        extensions |-> ParseRtpParameters(section).headerExtensions,
        direction |-> GetDirection(lines, session),
        ice |-> GetIceParameters(section, session),
        dtls |-> GetDtlsParameters(section, session)])

ConvertsForChrome == \E c \in Constraints :
  Calls("chrome", c, ConstraintsToChrome(c, Names))
ConvertsForFirefox == \E c \in Constraints :
  Calls("firefox", c, ConstraintsToFF37(c, Names))

Next ==
  /\ function = "none"
  /\ \/ SendsCandidate \/ Negotiates \/ ReadsSection
     \/ ConvertsForChrome \/ ConvertsForFirefox

Spec == Init /\ [][Next]_vars
=============================================================================
