--------------------- MODULE AdapterFunctionsProperties ---------------------
(* What the functions of the adapter keep of what they are given.           *)
EXTENDS AdapterFunctions

CONSTANT Values   \* Values[n]: what the setting n of a device can be

ASSUME ValuesAssumption ==
  \A c \in Constraints : \A n \in DOMAIN c.settings :
    (\E f \in DOMAIN c.settings[n] \ {"ideal"} : c.settings[n][f] \in Numbers)
      => Values[n] \subseteq Int

\* A candidate of a gatherer, written, sent and parsed, is given to the ICE
\* transport at the other end as it was found, unless it is for RTCP or a TCP
\* candidate without a port (565-589, 526-562, 1856-1871).
CandidatesSurvive ==
  function = "candidate" =>
    got = IF given.component # 1 \/ (given.protocol = "tcp" /\ given.port = 0)
          THEN {} ELSE {<<given>>}

\* The offer reads as the capabilities it was written from, with their
\* parameters and feedback: nothing of one codec is read into another.  Each
\* end learns from the direction the other wrote whether it may send and will
\* receive there, and has one encoding to receive the other's stream.
OffersSurvive ==
  function = "negotiation" =>
    LET ends == <<given.ts.offerer, given.ts.answerer>>
    IN /\ got.offered = [i \in DOMAIN given.caps.offerer |->
            LET c == given.caps.offerer[i]
            IN [c EXCEPT !.payloadType = c.preferredPayloadType,
                         !.preferredPayloadType = Undefined]]
       /\ \A e \in 1 .. 2 :
            /\ ends[e].sender <=> got.directions[e] \in {"sendrecv", "sendonly"}
            /\ ends[e].receiver <=> got.directions[e] \in {"sendrecv", "recvonly"}
       /\ {e.ssrc : e \in Elements(got.encodings)} = {given.ts.offerer.ssrc}

\* The answer holds each codec of the answerer that the offerer knows too, in
\* the answerer's order, exactly as the offerer described it, and is rejected if
\* there is none ("so we reply with offerer payload type", 1159).
AnswersNumberAsOffered ==
  function = "negotiation" =>
    LET Kind(c) == <<c.name, c.clockRate, c.numChannels>>
        offererKnows == {Kind(c) : c \in Elements(given.caps.offerer)}
        shared == Filter(given.caps.answerer, LAMBDA c : Kind(c) \in offererKnows)
    IN /\ [i \in DOMAIN got.answered |-> Kind(got.answered[i])]
            = [i \in DOMAIN shared |-> Kind(shared[i])]
       /\ Elements(got.answered) \subseteq Elements(got.offered)
       /\ got.rejected <=> shared = <<>>

\* What the section says goes before what the session part says.  If the
\* section announces streams (an SSRC with a cname), all encodings are for the
\* first of them, its retransmissions are on the SSRC that an FID group pairs
\* with it, and every codec an RTX codec repeats has an encoding.
SectionsAreRead ==
  function = "section" =>
    LET Said(a) == Elements(Filter(given.lines, LAMBDA l : l.a = a))
        written == {l.a : l \in Elements(given.lines)} \intersect Directions
        cnames == Filter(given.lines, LAMBDA l : l.a = "ssrc" /\ l.attribute = "cname")
        groups == {l.ssrcs : l \in Said("ssrc-group:FID")}
        repeated == {Head(c.parameters["apt"]) :
                       c \in {d \in Elements(given.codecs) : d.name = "rtx"}}
    IN /\ \A l \in Said("ice-ufrag") : got.ice.usernameFragment = l.value
       /\ \A l \in Said("ice-pwd") : got.ice.password = l.value
       /\ \A l \in Said("fingerprint") : got.dtls = l.value
       /\ written # {} => got.direction \in written
       /\ cnames # <<>> =>
            /\ got.encodings # <<>>
            /\ \A e \in Elements(got.encodings) :
                 /\ e.ssrc = cnames[1].ssrc
                 /\ e.rtx # Undefined => <<e.ssrc, e.rtx>> \in groups
            /\ repeated = {e.codec : e \in Elements(got.encodings)} \ {""}

\* Does what is asked of a setting, what Chrome is told is mandatory, or what
\* Firefox is told is required allow the value v of setting n?
Allowed(r, v) ==
  /\ Has(r, "exact") => v = r.exact
  /\ Has(r, "min") => v >= r.min
  /\ Has(r, "max") => v <= r.max
ChromeAllows(c, n, v) ==
  \A m \in Member(c, "mandatory", {}) :
    /\ m[1] = <<"min", n>> => v >= m[2]
    /\ m[1] = <<"max", n>> => v <= m[2]
    /\ m[1] = OldName("", n) => v = m[2]
FirefoxAllows(c, n, v) ==
  n \in Elements(Member(c, "require", <<>>)) /\ n \in DOMAIN c.settings =>
    IF Has(c.settings[n], "text") THEN v = c.settings[n].text
    ELSE Allowed(c.settings[n], v)

\* Each browser accepts the values of a device that the application accepts.
\* In Firefox before 38 the demand is lost where an exact text comes with an
\* ideal one (2213-2228).  getUserMedia of Chrome rewrites the object of the
\* application in place (457-458): another call with it asks for the same.
AskTheSame ==
  /\ function = "chrome" =>
       /\ \A n \in DOMAIN given.settings : \A v \in Values[n] :
            Allowed(given.settings[n], v) <=> ChromeAllows(got, n, v)
       /\ ConstraintsToChrome(got, Names) = got
  /\ function = "firefox" =>
       \A n \in DOMAIN given.settings :
         LET r == given.settings[n]
         IN ~(Has(r, "ideal") /\ Has(r, "exact") /\ r.exact \notin Numbers) =>
              \A v \in Values[n] : Allowed(r, v) <=> FirefoxAllows(got, n, v)
=============================================================================
