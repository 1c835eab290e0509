SPECIFICATION Spec
CONSTANTS
  Elements = {e1, e2}
  Streams = {s1, s2}
  Tracks = {t1}
  Urls = {u1, u2, u3, u4}
  Handlers = {f, g}
  NULL = null
  MaxComings = 2
  MaxPolyfills = 2
SYMMETRY Symmetry
INVARIANTS
  UrlsAreShown
  HeardOnce
