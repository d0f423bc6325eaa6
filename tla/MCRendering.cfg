SPECIFICATION RenderSpec
CONSTANTS
  a = a
  b = b
  c = c
  Hosts <- MCHosts
  Nowhere = Nowhere
INVARIANTS NoRedirectLoop NoBackendLost TlsKept PlainPortAnswers RedirectInForce
