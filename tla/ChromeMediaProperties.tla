------------------------ MODULE ChromeMediaProperties ------------------------
(***************************************************************************)
(* What the media elements and the property ontrack of Chrome must satisfy. *)
(***************************************************************************)
EXTENDS ChromeMedia

\* Whatever streams elements were given, and whichever of the listeners left on
\* them still fire: no element shows a URL that was revoked, no URL is left
\* alive that no element shows, and two elements never share one, which either
\* could revoke under the other.
UrlsAreShown ==
  /\ \A u \in Urls : blob[u] # NULL <=> \E e \in Elements : src[e] = u
  /\ \A e, f \in Elements : src[e] = src[f] /\ src[e] # NULL => e = f

\* However often the page replaces its handler, and whether a track was there
\* when its stream was announced or came later: a handler is told of it, and
\* only once.  A page that sets ontrack to null is told as many times as there
\* are polyfills left behind.
HeardOnce == ~cleared => heard = due
=============================================================================
