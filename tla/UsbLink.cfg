SPECIFICATION Spec
SYMMETRY Symmetry
CONSTANTS
  Client = {c1}
  Usb = Usb
  NULL = NULL
  Ops = {"put", "get", "async", "bulk", "bulk16", "lock"}
  DetachedReq = "refused"
  Prompt = FALSE
  PcTimeouts = TRUE
  MaxPull = 2
INVARIANTS SessionOK AsyncAlive
CHECK_DEADLOCK FALSE
