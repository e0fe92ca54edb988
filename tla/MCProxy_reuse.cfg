SPECIFICATION Spec
CONSTANTS
  Requests = {r1, r2}
  r1 = r1
  r2 = r2
  Asks <- MCAsks
  LocalMedia = {"transcription"}
  Providers = {p, f}
  p = p
  f = f
  Fallback = f
  NoProvider = NoProvider
  Local = Local
  Prompts = {a, b}
  a = a
  b = b
  TTL = 1
  MaxTime = 2
  None = None
INVARIANT NoCrossProviderReuse
