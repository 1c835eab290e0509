----------------------------- MODULE ChromeMedia -----------------------------
(***************************************************************************)
(* What lib/adapter.js adds to Chrome's media elements and to the peer     *)
(* connection that feeds them: the property srcObject, kept by a blob URL  *)
(* that is made anew whenever a track comes or goes, and the property      *)
(* ontrack, kept by listeners of the older event addstream.                *)
(* An element that is given the same stream again listens to it twice; its *)
(* second listener revokes what the first one created, so the listeners of *)
(* an element count as one.                                                *)
(***************************************************************************)
EXTENDS Naturals, FiniteSets, Functions

CONSTANTS Elements,  \* the media elements of the page
          Streams,   \* the streams the other side sends
          Tracks,    \* their tracks
          Urls,      \* the blob URLs: more than are ever in use at once
          Handlers,  \* the functions the page sets ontrack to
          NULL,
          MaxComings,   \* bounds: how often a track may come into a stream,
          MaxPolyfills  \* and how many listeners to addstream may pile up

ASSUME MediaAssumption ==
  /\ NULL \notin Streams \cup Urls \cup Handlers
  /\ MaxComings \in Nat
  /\ MaxPolyfills \in Nat

VARIABLES srcObject,  \* of each element, _srcObject: a stream or NULL
          src,        \* of each element: a URL, or NULL for ''
          blob,       \* of each URL: the stream it was created for, or NULL
          watchers,   \* of each stream: the elements that listen to its tracks
          ontrack,    \* of the connection, _ontrack: a handler or NULL
          polyfills,  \* the number of its listeners to addstream
          relays,     \* of each stream: how many of their listeners to addtrack
          streams,    \* the streams announced by addstream
          tracks,     \* of each stream: the tracks that are in it
          comings,    \* of each track: how often it came into a stream
          heard,      \* of each track: how often a handler was told
          promised,   \* history: the streams announced while there was a handler,
          due,        \* how often each track was there then or came later,
          cleared     \* and whether ontrack was ever set to null

mediaVars == <<srcObject, src, blob, watchers>>
trackVars == <<ontrack, polyfills, relays, heard, promised, due, cleared>>
peerVars == <<streams, tracks, comings>>
vars == <<mediaVars, trackVars, peerVars>>

Init ==
  /\ srcObject = [e \in Elements |-> NULL]
  /\ src = [e \in Elements |-> NULL]
  /\ blob = [u \in Urls |-> NULL]
  /\ watchers = [s \in Streams |-> {}]
  /\ ontrack = NULL
  /\ polyfills = 0
  /\ relays = [s \in Streams |-> 0]
  /\ streams = {}
  /\ tracks = [s \in Streams |-> {}]
  /\ comings = [t \in Tracks |-> 0]
  /\ heard = [t \in Tracks |-> 0]
  /\ promised = {}
  /\ due = [t \in Tracks |-> 0]
  /\ cleared = FALSE

-----------------------------------------------------------------------------
(* Media elements.                                                         *)

\* The elements of E revoke the URLs they have, if any, and take those of `new`,
\* which are of the stream.
TakeUrls(E, new, s) ==
  /\ src' = [e \in Elements |-> IF e \in E THEN new[e] ELSE src[e]]
  /\ blob' = [u \in Urls |-> IF \E e \in E : new[e] = u THEN s ELSE blob[u]]
RenewUrls(E, new, s) ==
  /\ src' = [e \in Elements |-> IF e \in E THEN new[e] ELSE src[e]]
  /\ blob' = [u \in Urls |-> IF \E e \in E : new[e] = u THEN s
                             ELSE IF \E e \in E : src[e] = u THEN NULL
                             ELSE blob[u]]

\* createObjectURL returns a URL that is not in use.
Unused == {u \in Urls : blob[u] = NULL /\ \A e \in Elements : src[e] # u}

\* The setter of srcObject.
SetSrcObject(e, s) ==
  /\ srcObject' = [srcObject EXCEPT ![e] = s]
  /\ IF s = NULL
     THEN RenewUrls({e}, [x \in {e} |-> NULL], NULL) /\ UNCHANGED watchers
     ELSE /\ \E u \in Unused : RenewUrls({e}, [x \in {e} |-> u], s)
          /\ watchers' = [watchers EXCEPT ![s] = @ \cup {e}]
  /\ UNCHANGED <<trackVars, peerVars>>

\* reattachMediaStream, from version 43 on.
Reattach(to, from) == SetSrcObject(to, srcObject[from])

\* The listeners of addtrack and removetrack: every element that ever showed the
\* stream takes a new URL of it.
Reload(s) ==
  /\ \E new \in [watchers[s] -> Unused] :
       IsInjective(new) /\ RenewUrls(watchers[s], new, s)
  /\ UNCHANGED <<srcObject, watchers>>

-----------------------------------------------------------------------------
(* Tracks.                                                                 *)

\* The setter of ontrack.
KeepPolyfill(f) ==
  /\ polyfills < MaxPolyfills
  /\ ontrack' = f
  /\ polyfills' = polyfills + 1
  /\ cleared' = (cleared \/ f = NULL)
  /\ UNCHANGED <<relays, heard, promised, due, mediaVars, peerVars>>
SetOnTrack(f) ==
  /\ ontrack = NULL => polyfills < MaxPolyfills
  /\ ontrack' = f
  /\ polyfills' = (IF ontrack = NULL THEN polyfills ELSE polyfills - 1) + 1
  /\ cleared' = (cleared \/ f = NULL)
  /\ UNCHANGED <<relays, heard, promised, due, mediaVars, peerVars>>

\* Each of the tracks of T is dispatched n times, and was promised if so.
Dispatch(T, n, isPromised) ==
  /\ heard' = [t \in Tracks |-> IF t \in T /\ ontrack # NULL THEN heard[t] + n ELSE heard[t]]
  /\ due' = [t \in Tracks |-> IF t \in T /\ isPromised THEN due[t] + 1 ELSE due[t]]

\* addstream: every polyfill listens to the tracks that will come, and tells of
\* those that are there.
AddStream(s) ==
  /\ s \notin streams
  /\ streams' = streams \cup {s}
  /\ promised' = IF ontrack # NULL THEN promised \cup {s} ELSE promised
  /\ relays' = [relays EXCEPT ![s] = @ + polyfills]
  /\ Dispatch(tracks[s], polyfills, ontrack # NULL)
  /\ UNCHANGED <<ontrack, polyfills, cleared, mediaVars, tracks, comings>>

\* addtrack, or, before addstream, a track that is in the stream from the start.
AddTrack(t, s) ==
  /\ \A r \in Streams : t \notin tracks[r]
  /\ comings[t] < MaxComings
  /\ comings' = [comings EXCEPT ![t] = @ + 1]
  /\ tracks' = [tracks EXCEPT ![s] = @ \cup {t}]
  /\ Dispatch({t}, relays[s], s \in promised)
  /\ Reload(s)
  /\ UNCHANGED <<ontrack, polyfills, relays, promised, cleared, streams>>

RemoveTrack(t, s) ==
  /\ t \in tracks[s]
  /\ tracks' = [tracks EXCEPT ![s] = @ \ {t}]
  /\ Reload(s)
  /\ UNCHANGED <<trackVars, streams, comings>>

Next ==
  \/ \E e \in Elements, s \in streams \cup {NULL} : SetSrcObject(e, s)
  \/ \E to, from \in Elements : Reattach(to, from)
  \/ \E f \in Handlers \cup {NULL} : SetOnTrack(f)
  \/ \E s \in Streams : AddStream(s)
  \/ \E t \in Tracks, s \in Streams : AddTrack(t, s) \/ RemoveTrack(t, s)

Spec == Init /\ [][Next]_vars
=============================================================================
