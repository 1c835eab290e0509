-------------------------- MODULE ChromeMediaProofs --------------------------
(***************************************************************************)
(* That no URL leaks and no track is told twice, for any number of         *)
(* elements, streams, tracks and handlers.                                 *)
(***************************************************************************)
EXTENDS ChromeMediaProperties, TLAPS

MediaTypes ==
  /\ srcObject \in [Elements -> Streams \cup {NULL}]
  /\ src \in [Elements -> Urls \cup {NULL}]
  /\ blob \in [Urls -> Streams \cup {NULL}]
  /\ watchers \in [Streams -> SUBSET Elements]
  /\ streams \subseteq Streams

MediaInv == MediaTypes /\ UrlsAreShown

-----------------------------------------------------------------------------
(* The URLs.                                                               *)

\* Elements that give up their URLs for unused ones, each for its own.
LEMMA RenewKeeps ==
  ASSUME MediaInv, NEW E \in SUBSET Elements, NEW s \in Streams,
         NEW new \in [E -> Unused], IsInjective(new), RenewUrls(E, new, s)
  PROVE  /\ src' \in [Elements -> Urls \cup {NULL}]
         /\ blob' \in [Urls -> Streams \cup {NULL}]
         /\ UrlsAreShown'
<1>1. /\ src' = [e \in Elements |-> IF e \in E THEN new[e] ELSE src[e]]
      /\ blob' = [u \in Urls |-> IF \E e \in E : new[e] = u THEN s
                                 ELSE IF \E e \in E : src[e] = u THEN NULL
                                 ELSE blob[u]]
  BY DEF RenewUrls
<1>2. /\ \A e \in E : new[e] \in Urls /\ \A x \in Elements : src[x] # new[e]
      /\ \A e, x \in E : new[e] = new[x] => e = x
  BY DEF Unused, IsInjective
<1>3. /\ src \in [Elements -> Urls \cup {NULL}] /\ blob \in [Urls -> Streams \cup {NULL}]
      /\ \A u \in Urls : blob[u] # NULL <=> \E e \in Elements : src[e] = u
      /\ \A e, f \in Elements : src[e] = src[f] /\ src[e] # NULL => e = f
      /\ s # NULL
  BY MediaAssumption DEF MediaInv, MediaTypes, UrlsAreShown
<1>4. src' \in [Elements -> Urls \cup {NULL}] /\ blob' \in [Urls -> Streams \cup {NULL}]
  BY <1>1, <1>2, <1>3
<1>5. ASSUME NEW u \in Urls PROVE blob'[u] # NULL <=> \E e \in Elements : src'[e] = u
  <2>1. CASE \E e \in E : new[e] = u
    BY <1>1, <1>3, <2>1
  <2>2. CASE ~(\E e \in E : new[e] = u)
    <3>1. CASE \E e \in E : src[e] = u
      <4>1. blob'[u] = NULL
        BY <1>1, <2>2, <3>1
      <4>2. \A e \in Elements : src'[e] # u
        BY <1>1, <1>3, <2>2, <3>1, MediaAssumption
      <4>. QED BY <4>1, <4>2
    <3>2. CASE ~(\E e \in E : src[e] = u)
      <4>1. blob'[u] = blob[u]
        BY <1>1, <2>2, <3>2
      <4>2. \A e \in Elements : src'[e] = u <=> src[e] = u
        BY <1>1, <2>2, <3>2
      <4>. QED BY <1>3, <4>1, <4>2
    <3>. QED BY <3>1, <3>2
  <2>. QED BY <2>1, <2>2
<1>6. ASSUME NEW e \in Elements, NEW f \in Elements, src'[e] = src'[f], src'[e] # NULL
      PROVE  e = f
  <2>1. CASE e \in E /\ f \in E
    BY <1>1, <1>2, <1>6, <2>1
  <2>2. CASE e \in E /\ f \notin E
    BY <1>1, <1>2, <1>6, <2>2
  <2>3. CASE e \notin E /\ f \in E
    BY <1>1, <1>2, <1>6, <2>3
  <2>4. CASE e \notin E /\ f \notin E
    BY <1>1, <1>3, <1>6, <2>4
  <2>. QED BY <2>1, <2>2, <2>3, <2>4
<1>. QED BY <1>4, <1>5, <1>6 DEF UrlsAreShown

\* An element that is told to show nothing gives up its URL.
LEMMA DetachKeeps ==
  ASSUME MediaInv, NEW e \in Elements, RenewUrls({e}, [x \in {e} |-> NULL], NULL)
  PROVE  /\ src' \in [Elements -> Urls \cup {NULL}]
         /\ blob' \in [Urls -> Streams \cup {NULL}]
         /\ UrlsAreShown'
<1>1. /\ src' = [x \in Elements |-> IF x = e THEN NULL ELSE src[x]]
      /\ blob' = [u \in Urls |-> IF src[e] = u THEN NULL ELSE blob[u]]
  BY MediaAssumption DEF RenewUrls
<1>. QED BY <1>1, MediaAssumption DEF MediaInv, MediaTypes, UrlsAreShown

\* Setting srcObject keeps what is known of the blob URLs.
LEMMA SetSrcObjectKeeps ==
  ASSUME MediaInv, NEW e \in Elements, NEW s \in Streams \cup {NULL}, SetSrcObject(e, s)
  PROVE  MediaInv'
<1>1. srcObject' \in [Elements -> Streams \cup {NULL}] /\ streams' \subseteq Streams
  BY DEF SetSrcObject, peerVars, MediaInv, MediaTypes
<1>2. CASE s = NULL
  <2>1. RenewUrls({e}, [x \in {e} |-> NULL], NULL) /\ watchers' = watchers
    BY <1>2 DEF SetSrcObject
  <2>. QED BY <1>1, <2>1, DetachKeeps DEF MediaInv, MediaTypes
<1>3. CASE s # NULL
  <2>1. PICK u \in Unused : RenewUrls({e}, [x \in {e} |-> u], s)
    BY <1>3 DEF SetSrcObject
  <2>2. PICK new : new = [x \in {e} |-> u]
    OBVIOUS
  <2>3. new \in [{e} -> Unused] /\ IsInjective(new) /\ {e} \in SUBSET Elements
    BY <2>1, <2>2 DEF IsInjective
  <2>4. /\ src' \in [Elements -> Urls \cup {NULL}] /\ blob' \in [Urls -> Streams \cup {NULL}]
        /\ UrlsAreShown'
    BY <1>3, <2>1, <2>2, <2>3, RenewKeeps
  <2>5. watchers' \in [Streams -> SUBSET Elements]
    BY <1>3 DEF SetSrcObject, MediaInv, MediaTypes
  <2>. QED BY <1>1, <2>4, <2>5 DEF MediaInv, MediaTypes
<1>. QED BY <1>2, <1>3

\* A track that comes or goes keeps what is known of the blob URLs.
LEMMA ReloadKeeps ==
  ASSUME MediaInv, NEW s \in Streams, Reload(s), streams' = streams
  PROVE  MediaInv'
<1>1. PICK new \in [watchers[s] -> Unused] :
        IsInjective(new) /\ RenewUrls(watchers[s], new, s)
  BY DEF Reload
<1>2. watchers[s] \in SUBSET Elements
  BY DEF MediaInv, MediaTypes
<1>3. /\ src' \in [Elements -> Urls \cup {NULL}] /\ blob' \in [Urls -> Streams \cup {NULL}]
      /\ UrlsAreShown'
  BY <1>1, <1>2, RenewKeeps
<1>. QED BY <1>3 DEF Reload, MediaInv, MediaTypes

\* A step that touches no element keeps what is known of the blob URLs.
LEMMA UrlsUntouched ==
  ASSUME MediaInv, UNCHANGED mediaVars, streams' \subseteq Streams
  PROVE  MediaInv'
BY DEF MediaInv, MediaTypes, UrlsAreShown, mediaVars

\* Every URL that is alive is shown by one element and every element that shows
\* one shows a live one, whatever streams it was given and whichever of its old
\* listeners fire.
THEOREM UrlsStayShown == Spec => []UrlsAreShown
<1>1. Init => MediaInv
  BY MediaAssumption DEF Init, MediaInv, MediaTypes, UrlsAreShown
<1>2. MediaInv /\ [Next]_vars => MediaInv'
  <2> SUFFICES ASSUME MediaInv, [Next]_vars PROVE MediaInv'
    OBVIOUS
  <2>1. ASSUME NEW e \in Elements, NEW s \in streams \cup {NULL}, SetSrcObject(e, s)
        PROVE  MediaInv'
    BY <2>1, SetSrcObjectKeeps DEF MediaInv, MediaTypes
  <2>2. ASSUME NEW to \in Elements, NEW from \in Elements, Reattach(to, from) PROVE MediaInv'
    <3>1. srcObject[from] \in Streams \cup {NULL}
      BY DEF MediaInv, MediaTypes
    <3>. QED BY <2>2, <3>1, SetSrcObjectKeeps DEF Reattach
  <2>3. ASSUME NEW f \in Handlers \cup {NULL}, SetOnTrack(f) PROVE MediaInv'
    BY <2>3, UrlsUntouched DEF SetOnTrack, peerVars, MediaInv, MediaTypes
  <2>4. ASSUME NEW s \in Streams, AddStream(s) PROVE MediaInv'
    BY <2>4, UrlsUntouched DEF AddStream, MediaInv, MediaTypes
  <2>5. ASSUME NEW t \in Tracks, NEW s \in Streams, AddTrack(t, s) \/ RemoveTrack(t, s)
        PROVE  MediaInv'
    BY <2>5, ReloadKeeps DEF AddTrack, RemoveTrack
  <2>6. CASE UNCHANGED vars
    BY <2>6, UrlsUntouched DEF vars, peerVars, MediaInv, MediaTypes
  <2>. QED BY <2>1, <2>2, <2>3, <2>4, <2>5, <2>6 DEF Next
<1>3. MediaInv => UrlsAreShown
  BY DEF MediaInv
<1>. QED BY <1>1, <1>2, <1>3, PTL DEF Spec

-----------------------------------------------------------------------------
(* The tracks.                                                             *)

\* While no handler was taken away there is one polyfill for a handler, and one
\* relay for each stream that was promised.
TrackInv ==
  /\ polyfills \in Nat
  /\ relays \in [Streams -> Nat]
  /\ heard \in [Tracks -> Nat]
  /\ due \in [Tracks -> Nat]
  /\ promised \subseteq streams /\ streams \subseteq Streams
  /\ ontrack \in Handlers \cup {NULL}
  /\ ~cleared =>
       /\ polyfills = IF ontrack = NULL THEN 0 ELSE 1
       /\ promised # {} => ontrack # NULL
       /\ \A s \in Streams : relays[s] = IF s \in promised THEN 1 ELSE 0
       /\ heard = due

\* Every handler the page sets, one after the other, is told of every track once.
THEOREM TracksHeardOnce == Spec => []HeardOnce
<1>1. ASSUME Init PROVE TrackInv
  <2>1. /\ polyfills = 0 /\ promised = {} /\ streams = {} /\ ontrack = NULL
        /\ relays = [s \in Streams |-> 0]
        /\ heard = [t \in Tracks |-> 0] /\ due = [t \in Tracks |-> 0]
    BY <1>1 DEF Init
  <2>2. heard = due
    BY <2>1
  <2>. QED BY <2>1, <2>2 DEF TrackInv
<1>2. TrackInv /\ [Next]_vars => TrackInv'
  <2> SUFFICES ASSUME TrackInv, [Next]_vars PROVE TrackInv'
    OBVIOUS
  <2>0. ASSUME UNCHANGED trackVars, UNCHANGED streams PROVE TrackInv'
    BY <2>0 DEF TrackInv, trackVars
  <2>1. ASSUME NEW e \in Elements, NEW s, SetSrcObject(e, s) PROVE TrackInv'
    BY <2>0, <2>1 DEF SetSrcObject, peerVars
  <2>2. ASSUME NEW to \in Elements, NEW from \in Elements, Reattach(to, from) PROVE TrackInv'
    BY <2>1, <2>2 DEF Reattach
  <2>3. ASSUME NEW f \in Handlers \cup {NULL}, SetOnTrack(f) PROVE TrackInv'
    <3>1. ~cleared' => ~cleared /\ f # NULL
      BY <2>3, Zenon DEF SetOnTrack
    <3>2. /\ ontrack' = f /\ polyfills' = (IF ontrack = NULL THEN polyfills ELSE polyfills - 1) + 1
          /\ UNCHANGED <<relays, heard, promised, due, streams>>
      BY <2>3 DEF SetOnTrack, peerVars
    <3>. QED BY <3>1, <3>2 DEF TrackInv
  <2>4. ASSUME NEW s \in Streams, AddStream(s) PROVE TrackInv'
    <3>1. /\ heard' = [t \in Tracks |-> IF t \in tracks[s] /\ ontrack # NULL
                                       THEN heard[t] + polyfills ELSE heard[t]]
          /\ due' = [t \in Tracks |-> IF t \in tracks[s] /\ ontrack # NULL THEN due[t] + 1 ELSE due[t]]
      BY <2>4 DEF AddStream, Dispatch
    <3>2. heard' \in [Tracks -> Nat] /\ due' \in [Tracks -> Nat] /\ (~cleared => heard' = due')
      BY <3>1 DEF TrackInv
    <3>3. /\ promised' = IF ontrack # NULL THEN promised \cup {s} ELSE promised
          /\ streams' = streams \cup {s} /\ relays' = [relays EXCEPT ![s] = @ + polyfills]
          /\ s \notin streams /\ UNCHANGED <<ontrack, polyfills, cleared>>
      BY <2>4 DEF AddStream
    <3>4. relays' \in [Streams -> Nat] /\ relays'[s] = relays[s] + polyfills
          /\ \A r \in Streams : r # s => relays'[r] = relays[r]
      BY <3>3 DEF TrackInv
    <3>5. ~cleared => \A r \in Streams : relays'[r] = IF r \in promised' THEN 1 ELSE 0
      BY <3>3, <3>4 DEF TrackInv
    <3>. QED BY <3>2, <3>3, <3>4, <3>5 DEF TrackInv
  <2>5. ASSUME NEW t \in Tracks, NEW s \in Streams, AddTrack(t, s) PROVE TrackInv'
    <3>1. /\ heard' = [x \in Tracks |-> IF x \in {t} /\ ontrack # NULL
                                       THEN heard[x] + relays[s] ELSE heard[x]]
          /\ due' = [x \in Tracks |-> IF x \in {t} /\ s \in promised THEN due[x] + 1 ELSE due[x]]
      BY <2>5 DEF AddTrack, Dispatch
    <3>2. heard' \in [Tracks -> Nat] /\ due' \in [Tracks -> Nat] /\ (~cleared => heard' = due')
      BY <3>1 DEF TrackInv
    <3>. QED BY <2>5, <3>2 DEF AddTrack, TrackInv
  <2>6. ASSUME NEW t \in Tracks, NEW s \in Streams, RemoveTrack(t, s) PROVE TrackInv'
    BY <2>0, <2>6 DEF RemoveTrack
  <2>7. CASE UNCHANGED vars
    BY <2>0, <2>7 DEF vars, peerVars
  <2>. QED BY <2>1, <2>2, <2>3, <2>4, <2>5, <2>6, <2>7 DEF Next
<1>3. TrackInv => HeardOnce
  BY DEF TrackInv, HeardOnce
<1>. QED BY <1>1, <1>2, <1>3, PTL DEF Spec
=============================================================================
