---------------------------- MODULE MCChromeMedia ----------------------------
(***************************************************************************)
(* A small instance: nothing tells two elements, streams, tracks, URLs or  *)
(* handlers apart, so they may be permuted.                                *)
(***************************************************************************)
EXTENDS ChromeMediaProperties, TLC

Symmetry ==
  UNION {Permutations(S) : S \in {Elements, Streams, Tracks, Urls, Handlers}}
=============================================================================
