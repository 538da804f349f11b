SPECIFICATION Spec
SYMMETRY Symmetry
CONSTANTS
  Client = {c1}
  Usb = Usb
  NULL = NULL
  Ops = {"bulk16", "get"}
  DetachedReq = "queued"
  Prompt = TRUE
  PcTimeouts = FALSE
  MaxPull = 0
INVARIANT BulkWritten
CHECK_DEADLOCK FALSE
