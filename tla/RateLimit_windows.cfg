\* A chat client and an uploading client, windows of four ticks, two slots.
CONSTANTS
  Keys = {k1, k2}
  UploadKeys = {k2}
  Uploads = {u1, u2, u3}
  Limit = 2
  Seconds = 2
  PerSecond = 2
  MaxActive = 2
  MaxTime = 8
SPECIFICATION Spec
SYMMETRY Interchangeable
CHECK_DEADLOCK FALSE
INVARIANTS SpanBounded SlotsCounted
PROPERTY WaitingPays
