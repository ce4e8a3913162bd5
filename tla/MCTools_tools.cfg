CONSTANTS
  Umask = {"g"}
  targetRoot <- t
  Users = {u1, u2, u3}
  Ids = {i1, i2}
  Sizes = {1, 2}
  Checksums = {c1, c2}
  Formats = {f1, f2}
  Times = {t1, t2}
  Codes = {0, 1, 2}
  MaxOutput = 2
  Getters = {u1, u2, u3}
SPECIFICATION Spec
CHECK_DEADLOCK FALSE
INVARIANTS CopyFaithful TarRoundTrip ZipExtracted LimiterBounded ErrorReported
  ExitReported ClientShared InfoAgrees
