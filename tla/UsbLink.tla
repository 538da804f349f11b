------------------------------ MODULE UsbLink ------------------------------
(***************************************************************************)
(* The link between the PSP driver (usbhostfs/main.c) and usbhostfs_pc:    *)
(* the attach/detach/handshake loop of usb_thread, the exchanges of client *)
(* threads under g_mainsema, and the main loop of the PC program.          *)
(*                                                                         *)
(* A thread's exchange is a script of transfers (todo): "w" entries are    *)
(* write_data calls, "r" entries read_data calls.  The transfers of all    *)
(* threads go through the two shared requests g_bulkin_req, g_bulkout_req  *)
(* and the two bits of g_transevent.                                       *)
(***************************************************************************)
EXTENDS Integers, Sequences, FiniteSets

CONSTANTS Client,       \* threads of the PSP that use the driver
          Usb,          \* usb_thread
          NULL,
          Ops,          \* the calls the clients make, a subset of CallOps
          DetachedReq,  \* sceUsbbdReqSend/Recv without a cable: "refused", "queued"
          Prompt,       \* TRUE: the bus is slower than the PSP, nothing happens
                        \* on it while a thread of the PSP could run
          PcTimeouts,   \* TRUE: the 1 s and 10 s timeouts of the PC may fire
          MaxPull       \* bound: how often the cable is pulled

CallOps == {"put", "get", "async", "bulk", "bulk16", "lock"}

ASSUME LinkAssumption ==
  /\ Usb \notin Client
  /\ NULL \notin Client \cup {Usb}
  /\ Ops \subseteq CallOps
  /\ DetachedReq \in {"refused", "queued"}
  /\ Prompt \in BOOLEAN
  /\ PcTimeouts \in BOOLEAN
  /\ MaxPull \in Nat

Thread == Client \cup {Usb}

VARIABLES
  g_mainevent,   \* subset of ATTACH, DETACH, ASYNC, CONNECT
  g_transevent,  \* subset of BULKIN, BULKOUT (the _DONE bits)
  g_mainsema,    \* the thread holding the semaphore, then its waiters in order
  g_connected,
  g_bulkin_req, g_bulkout_req, g_async_req,
  pc, job,       \* per thread: where it is, and the exchange it makes
  result,        \* events usb_thread still has to handle
  attached,      \* the cable is in
  pulls,         \* how often it was pulled
  pcst,          \* PC: "search", "magic", "loop" or inside a handler
  g_hDev,        \* PC: its handle is open and the device has not gone since
  hand           \* PC: the command a handler works on

psp  == <<g_mainsema, g_connected, job, result>>
bus  == <<attached, pulls>>
host == <<pcst, g_hDev, hand>>
vars == <<g_mainevent, g_transevent, g_mainsema, g_connected, g_bulkin_req,
          g_bulkout_req, g_async_req, pc, job, result, attached, pulls,
          pcst, g_hDev, hand>>

Msg == [kind : {"magic", "hello", "put", "get", "async", "bulk", "data",
                "bulkdata", "resp", "rdata"},
        who : Thread, seq : 0..1, more : BOOLEAN]
Req == [st : {"free", "pend", "done"}, ok : BOOLEAN, msg : Msg \cup {NULL}]
FreeReq == [st |-> "free", ok |-> FALSE, msg |-> NULL]

ASSUME NullAssumption == NULL \notin CallOps \cup {"hello", "attach"} \cup Msg

M(kind, t, s) == [kind |-> kind, who |-> t, seq |-> s, more |-> FALSE]
W(kind) == [dir |-> "w", kind |-> kind]
R(kind) == [dir |-> "r", kind |-> kind]

\* The transfers of one call.  A bulk write from a buffer that is only 16-byte
\* aligned sends the header and then fails in write_data_large.
Script(op) ==
  CASE op = "put"    -> <<W("put"), W("data"), R("resp")>>
    [] op = "get"    -> <<W("get"), R("resp")>>
    [] op = "async"  -> <<W("async")>>
    [] op = "bulk"   -> <<W("bulk"), W("bulkdata")>>
    [] op = "bulk16" -> <<W("bulk"), [dir |-> "misaligned"]>>
    [] op = "lock"   -> <<>>
    [] op = "hello"  -> <<W("hello"), R("resp")>>
    [] op = "attach" -> <<R("magic")>>

NoJob == [op |-> NULL, seq |-> 0, todo |-> <<>>, ok |-> TRUE, reply |-> NULL]
NewJob(op, seq) == [op |-> op, seq |-> seq, todo |-> Script(op), ok |-> TRUE, reply |-> NULL]

Init ==
  /\ g_mainevent = {}
  /\ g_transevent = {}
  /\ g_mainsema = <<>>
  /\ g_connected = FALSE
  /\ g_bulkin_req = FreeReq
  /\ g_bulkout_req = FreeReq
  /\ g_async_req = FreeReq
  /\ pc = [t \in Thread |-> IF t = Usb THEN "wait" ELSE "idle"]
  /\ job = [t \in Thread |-> NoJob]
  /\ result = {}
  /\ attached = FALSE
  /\ pulls = 0
  /\ pcst = "search"
  /\ g_hDev = FALSE
  /\ hand = NULL

-----------------------------------------------------------------------------
(* Kernel and USB bus driver of the PSP, as the code uses them (external). *)

\* What usb_thread waits for.
WakeBits == {"ATTACH", "DETACH", "ASYNC"}

\* A thread that the scheduler could run now.
CanRun(t) ==
  \/ pc[t] \in {"enter", "run", "woken", "handle"}
  \/ pc[t] = "wait" /\ g_mainevent \cap WakeBits # {}
BusTurn == Prompt => \A t \in Thread : ~CanRun(t)

\* sceKernelSetEventFlag(g_transevent, bits): a thread that waits for a bit
\* takes it, a bit nobody waits for stays up.
SetTransevent(bits) ==
  LET Waiters(b) == {t \in Thread : pc[t] = b}
  IN  \E S \in SUBSET UNION {Waiters(b) : b \in bits} :
        /\ \A b \in bits : Waiters(b) # {} => Cardinality(S \cap Waiters(b)) = 1
        /\ pc' = [t \in Thread |-> IF t \in S THEN "woken" ELSE pc[t]]
        /\ g_transevent' = g_transevent \cup {b \in bits : Waiters(b) = {}}

\* sceKernelSignalSema(g_mainsema, 1), the caller's pc being p: the semaphore
\* is created with attribute 0, so the thread that waits longest gets it.
SignalSema(p) ==
  /\ g_mainsema' = Tail(g_mainsema)
  /\ pc' = IF g_mainsema' = <<>> THEN p ELSE [p EXCEPT ![Head(g_mainsema')] = "run"]

\* sceUsbbdReqSend / sceUsbbdReqRecv on a request that was just cleared.
Submitted(msg) ==
  [st |-> IF attached \/ DetachedReq = "queued" THEN "pend" ELSE "free",
   ok |-> FALSE, msg |-> msg]
Completed(msg) == [st |-> "done", ok |-> TRUE, msg |-> msg]
Cancelled(req) == IF req.st = "pend" THEN [st |-> "done", ok |-> FALSE, msg |-> NULL] ELSE req

-----------------------------------------------------------------------------
(* Transfers: read_data, write_data, write_data_large.                     *)

\* set_bulkin_req and the wait.  The result of the request is not looked at.
SubmitWrite(t) ==
  /\ pc[t] = "run"
  /\ job[t].todo # <<>>
  /\ Head(job[t].todo).dir = "w"
  /\ g_bulkin_req' = Submitted(M(Head(job[t].todo).kind, t, job[t].seq))
  /\ g_transevent' = g_transevent \ {"BULKIN"}
  /\ pc' = [pc EXCEPT ![t] = "BULKIN"]
  /\ UNCHANGED <<g_mainevent, g_bulkout_req, g_async_req, psp, bus, host>>

\* set_bulkout_req and the wait; a refused request makes read_data fail.
SubmitRead(t) ==
  /\ pc[t] = "run"
  /\ job[t].todo # <<>>
  /\ Head(job[t].todo).dir = "r"
  /\ g_bulkout_req' = Submitted(NULL)
  /\ g_transevent' = g_transevent \ {"BULKOUT"}
  /\ IF Submitted(NULL).st = "pend"
     THEN pc' = [pc EXCEPT ![t] = "BULKOUT"] /\ UNCHANGED job
     ELSE job' = [job EXCEPT ![t].ok = FALSE, ![t].todo = <<>>] /\ UNCHANGED pc
  /\ UNCHANGED <<g_mainevent, g_bulkin_req, g_async_req, g_mainsema, g_connected,
                 result, bus, host>>

\* The thread runs again and looks at the shared request.  A failed transfer
\* ends the exchange.
WriteDone(t) ==
  /\ pc[t] = "woken"
  /\ Head(job[t].todo).dir = "w"
  /\ job' = [job EXCEPT ![t] = IF g_bulkin_req.ok
                               THEN [job[t] EXCEPT !.todo = Tail(@)]
                               ELSE [job[t] EXCEPT !.todo = <<>>, !.ok = FALSE]]
  /\ pc' = [pc EXCEPT ![t] = "run"]
  /\ UNCHANGED <<g_mainevent, g_transevent, g_bulkin_req, g_bulkout_req, g_async_req,
                 g_mainsema, g_connected, result, bus, host>>

\* write_data_large refuses a buffer that is not on a 64-byte boundary.
WriteMisaligned(t) ==
  /\ pc[t] = "run"
  /\ job[t].todo # <<>>
  /\ Head(job[t].todo).dir = "misaligned"
  /\ job' = [job EXCEPT ![t].todo = <<>>, ![t].ok = FALSE]
  /\ UNCHANGED <<g_mainevent, g_transevent, g_bulkin_req, g_bulkout_req, g_async_req,
                 g_mainsema, g_connected, pc, result, bus, host>>

\* A magic read in the place of a response is too short: read_data goes on.
\* A response with extralen > 0 is followed by its data.
ReadDone(t) ==
  /\ pc[t] = "woken"
  /\ Head(job[t].todo).dir = "r"
  /\ LET m == g_bulkout_req.msg
     IN  job' = [job EXCEPT ![t] =
           IF ~g_bulkout_req.ok \/ m = NULL THEN [job[t] EXCEPT !.todo = <<>>, !.ok = FALSE]
           ELSE IF m.kind = "magic" /\ Head(job[t].todo).kind # "magic" THEN job[t]
           ELSE [job[t] EXCEPT !.reply = m,
                               !.todo = IF Head(@).kind = "resp" /\ m.more
                                        THEN <<R("rdata")>> ELSE Tail(@)]]
  /\ pc' = [pc EXCEPT ![t] = "run"]
  /\ UNCHANGED <<g_mainevent, g_transevent, g_bulkin_req, g_bulkout_req, g_async_req,
                 g_mainsema, g_connected, result, bus, host>>

-----------------------------------------------------------------------------
(* Client threads: command_xchg, send_async, usbWriteBulkData, usbLockBus. *)

\* The usb_connected() test at the start of every call but usbLockBus.
Call(t, op) ==
  /\ pc[t] = "idle"
  /\ op = "lock" \/ g_connected
  /\ job' = [job EXCEPT ![t] = NewJob(op, 1 - job[t].seq)]
  /\ pc' = [pc EXCEPT ![t] = "enter"]
  /\ UNCHANGED <<g_mainevent, g_transevent, g_bulkin_req, g_bulkout_req, g_async_req,
                 g_mainsema, g_connected, result, bus, host>>

\* Mutant of WaitSema: nobody waits.
WaitSemaNever(t) ==
  /\ pc[t] = "enter"
  /\ g_mainsema' = Append(g_mainsema, t)
  /\ pc' = [pc EXCEPT ![t] = "run"]
  /\ UNCHANGED <<g_mainevent, g_transevent, g_bulkin_req, g_bulkout_req, g_async_req,
                 g_connected, job, result, bus, host>>

\* sceKernelWaitSema(g_mainsema, 1, NULL)
WaitSema(t) ==
  /\ pc[t] = "enter"
  /\ g_mainsema' = Append(g_mainsema, t)
  /\ pc' = [pc EXCEPT ![t] = IF g_mainsema = <<>> THEN "run" ELSE "sema"]
  /\ UNCHANGED <<g_mainevent, g_transevent, g_bulkin_req, g_bulkout_req, g_async_req,
                 g_connected, job, result, bus, host>>

\* usbLockBus has returned; the client keeps the bus until usbUnlockBus.
LockBus(t) ==
  /\ pc[t] = "run"
  /\ job[t].op = "lock"
  /\ pc' = [pc EXCEPT ![t] = "locked"]
  /\ UNCHANGED <<g_mainevent, g_transevent, g_bulkin_req, g_bulkout_req, g_async_req,
                 psp, bus, host>>

\* Mutant of Finish: an exchange that failed returns without the signal.
FinishLeaky(t) ==
  /\ t # Usb
  /\ pc[t] = "run" /\ job[t].todo = <<>> /\ job[t].op # "lock"
  /\ IF job[t].ok THEN SignalSema([pc EXCEPT ![t] = "idle"])
     ELSE pc' = [pc EXCEPT ![t] = "idle"] /\ UNCHANGED g_mainsema
  /\ job' = [job EXCEPT ![t] = [NoJob EXCEPT !.seq = job[t].seq]]
  /\ UNCHANGED <<g_mainevent, g_transevent, g_bulkin_req, g_bulkout_req, g_async_req,
                 g_connected, result, bus, host>>

\* The end of an exchange, or usbUnlockBus.
Finish(t) ==
  /\ t # Usb
  /\ \/ pc[t] = "run" /\ job[t].todo = <<>> /\ job[t].op # "lock"
     \/ pc[t] = "locked"
  /\ SignalSema([pc EXCEPT ![t] = "idle"])
  /\ job' = [job EXCEPT ![t] = [NoJob EXCEPT !.seq = job[t].seq]]
  /\ UNCHANGED <<g_mainevent, g_transevent, g_bulkin_req, g_bulkout_req, g_async_req,
                 g_connected, result, bus, host>>

-----------------------------------------------------------------------------
(* usb_thread.                                                             *)

UsbWake ==
  /\ pc[Usb] = "wait"
  /\ result' = g_mainevent \cap WakeBits
  /\ result' # {}
  /\ g_mainevent' = g_mainevent \ result'
  /\ pc' = [pc EXCEPT ![Usb] = "handle"]
  /\ UNCHANGED <<g_transevent, g_bulkin_req, g_bulkout_req, g_async_req, g_mainsema,
                 g_connected, job, bus, host>>

\* Mutant of UsbAsync: the request is not put back.
UsbAsyncOnce ==
  /\ pc[Usb] = "handle"
  /\ "ASYNC" \in result
  /\ result' = result \ {"ASYNC"}
  /\ UNCHANGED <<g_mainevent, g_transevent, g_bulkin_req, g_bulkout_req, g_async_req, pc,
                 g_mainsema, g_connected, job, bus, host>>

\* fill_async, then set_ayncreq again; after an error the request stays down.
UsbAsync ==
  /\ pc[Usb] = "handle"
  /\ "ASYNC" \in result
  /\ result' = result \ {"ASYNC"}
  /\ IF g_async_req.ok
     THEN /\ g_async_req' = Submitted(NULL)
          /\ g_mainevent' = g_mainevent \ {"ASYNC"}
     ELSE UNCHANGED <<g_async_req, g_mainevent>>
  /\ UNCHANGED <<g_transevent, g_bulkin_req, g_bulkout_req, pc, g_mainsema,
                 g_connected, job, bus, host>>

\* Mutant of Disconnect: only the event is cleared.
DisconnectEvent == g_mainevent' = g_mainevent \ {"CONNECT"} /\ UNCHANGED g_connected

\* The first thing usb_thread does for a detach and for an attach.
Disconnect == g_connected' = FALSE /\ g_mainevent' = g_mainevent \ {"CONNECT"}

UsbDetach ==
  /\ pc[Usb] = "handle"
  /\ "ASYNC" \notin result
  /\ "DETACH" \in result
  /\ result' = result \ {"DETACH"}
  /\ Disconnect
  /\ UNCHANGED <<g_transevent, g_bulkin_req, g_bulkout_req, g_async_req, pc,
                 g_mainsema, job, bus, host>>

\* Then the magic is read, without the semaphore.
UsbAttach ==
  /\ pc[Usb] = "handle"
  /\ result = {"ATTACH"}
  /\ result' = {}
  /\ Disconnect
  /\ job' = [job EXCEPT ![Usb] = NewJob("attach", 0)]
  /\ pc' = [pc EXCEPT ![Usb] = "run"]
  /\ UNCHANGED <<g_transevent, g_bulkin_req, g_bulkout_req, g_async_req,
                 g_mainsema, bus, host>>

UsbLoop ==
  /\ pc[Usb] = "handle"
  /\ result = {}
  /\ pc' = [pc EXCEPT ![Usb] = "wait"]
  /\ UNCHANGED <<g_mainevent, g_transevent, g_bulkin_req, g_bulkout_req, g_async_req,
                 psp, bus, host>>

\* After the magic: send_hello_cmd if it is right, back to the loop if not.
\* Responses start with the same word.
UsbMagic ==
  /\ pc[Usb] = "run"
  /\ job[Usb].op = "attach" /\ job[Usb].todo = <<>>
  /\ IF job[Usb].ok /\ job[Usb].reply.kind \in {"magic", "resp"}
     THEN /\ job' = [job EXCEPT ![Usb] = NewJob("hello", 0)]
          /\ pc' = [pc EXCEPT ![Usb] = "enter"]
     ELSE /\ job' = [job EXCEPT ![Usb] = NoJob]
          /\ pc' = [pc EXCEPT ![Usb] = "handle"]
  /\ UNCHANGED <<g_mainevent, g_transevent, g_bulkin_req, g_bulkout_req, g_async_req,
                 g_mainsema, g_connected, result, bus, host>>

\* The end of the hello exchange.
UsbHello ==
  /\ pc[Usb] = "run"
  /\ job[Usb].op = "hello" /\ job[Usb].todo = <<>>
  /\ SignalSema([pc EXCEPT ![Usb] = "handle"])
  /\ IF job[Usb].ok
     THEN /\ g_async_req' = Submitted(NULL)
          /\ g_connected' = TRUE
          /\ g_mainevent' = (g_mainevent \ {"ASYNC"}) \cup {"CONNECT"}
     ELSE UNCHANGED <<g_async_req, g_connected, g_mainevent>>
  /\ job' = [job EXCEPT ![Usb] = NoJob]
  /\ UNCHANGED <<g_transevent, g_bulkin_req, g_bulkout_req, result, bus, host>>

-----------------------------------------------------------------------------
(* The cable and the callbacks usb_attach, usb_detach, *_req_done.         *)

\* Every request on the bus ends with an error and calls its callback.
CancelAll(events) ==
  /\ g_bulkin_req' = Cancelled(g_bulkin_req)
  /\ g_bulkout_req' = Cancelled(g_bulkout_req)
  /\ g_async_req' = Cancelled(g_async_req)
  /\ SetTransevent({b \in {"BULKIN", "BULKOUT"} :
       IF b = "BULKIN" THEN g_bulkin_req.st = "pend" ELSE g_bulkout_req.st = "pend"})
  /\ g_mainevent' = g_mainevent \cup events
                      \cup (IF g_async_req.st = "pend" THEN {"ASYNC"} ELSE {})

Unplug ==
  /\ BusTurn
  /\ attached
  /\ pulls < MaxPull
  /\ pulls' = pulls + 1
  /\ attached' = FALSE
  /\ g_hDev' = FALSE
  /\ CancelAll({"DETACH"})
  /\ UNCHANGED <<psp, pcst, hand>>

Plug ==
  /\ BusTurn
  /\ ~attached
  /\ attached' = TRUE
  /\ g_mainevent' = g_mainevent \cup {"ATTACH"}
  /\ UNCHANGED <<pulls, g_transevent, g_bulkin_req, g_bulkout_req, g_async_req, pc, psp, host>>

-----------------------------------------------------------------------------
(* usbhostfs_pc: start_hostfs and the handlers.                            *)

CanSend == g_hDev /\ g_bulkout_req.st = "pend"
CanRecv == g_hDev /\ g_bulkin_req.st = "pend"

Send(msg) ==
  /\ BusTurn
  /\ CanSend
  /\ g_bulkout_req' = Completed(msg)
  /\ SetTransevent({"BULKOUT"})
  /\ UNCHANGED <<g_mainevent, g_bulkin_req, g_async_req, psp, bus>>

Recv ==
  /\ BusTurn
  /\ CanRecv
  /\ g_bulkin_req' = Completed(NULL)
  /\ SetTransevent({"BULKIN"})
  /\ UNCHANGED <<g_mainevent, g_bulkout_req, g_async_req, psp, bus>>

\* A handler that returns to the main loop forgets its command.
InHand == IF pcst' \in {"loop", "search"} THEN NULL ELSE hand

\* wait_for_device
PcOpen ==
  /\ pcst = "search"
  /\ attached
  /\ g_hDev' = TRUE
  /\ pcst' = "magic"
  /\ UNCHANGED <<g_mainevent, g_transevent, g_bulkin_req, g_bulkout_req, g_async_req,
                 pc, psp, bus, hand>>

PcMagic ==
  /\ pcst = "magic"
  /\ Send(M("magic", Usb, 0))
  /\ pcst' = "loop"
  /\ UNCHANGED <<g_hDev, hand>>

\* Mutant of HandlerFor: the data after a command is not read.
HandlerNoData(kind) == IF kind \in {"hello", "get", "put"} THEN "reply" ELSE "loop"

\* Where a packet takes the main loop.
HandlerFor(kind) ==
  CASE kind = "put" -> "data"
    [] kind = "bulk" -> "bulk"
    [] kind \in {"hello", "get"} -> "reply"
    [] OTHER -> "loop"

\* One packet in the main loop: do_hostfs, do_async or do_bulk.  Anything
\* else has no magic and is reported only.
PcRead ==
  /\ pcst = "loop"
  /\ Recv
  /\ LET m == g_bulkin_req.msg
     IN  /\ pcst' = HandlerFor(m.kind)
         /\ hand' = IF pcst' = "loop" THEN NULL ELSE m
  /\ UNCHANGED g_hDev

\* The extra data of a command, the block of a bulk write.  A transfer of the
\* wrong length ends the handler without an answer.
PcData ==
  /\ pcst \in {"data", "bulk"}
  /\ Recv
  /\ pcst' = IF pcst = "data" /\ g_bulkin_req.msg.kind = "data" THEN "reply" ELSE "loop"
  /\ hand' = InHand
  /\ UNCHANGED g_hDev

\* The answer; a successful read has data to send after it.
PcReply ==
  /\ pcst = "reply"
  /\ \E more \in (IF hand.kind = "get" THEN BOOLEAN ELSE {FALSE}) :
       /\ Send([M("resp", hand.who, hand.seq) EXCEPT !.more = more])
       /\ pcst' = IF more THEN "rdata" ELSE "loop"
  /\ hand' = InHand
  /\ UNCHANGED g_hDev

PcReplyData ==
  /\ pcst = "rdata"
  /\ Send(M("rdata", hand.who, hand.seq))
  /\ pcst' = "loop"
  /\ hand' = InHand
  /\ UNCHANGED g_hDev

\* A transfer on a handle whose device is gone fails: a handler gives up, the
\* main loop closes the device and starts over.
PcBroken ==
  /\ pcst # "search"
  /\ ~g_hDev
  /\ pcst' = IF pcst \in {"loop", "magic"} THEN "search" ELSE "loop"
  /\ hand' = InHand
  /\ UNCHANGED <<g_mainevent, g_transevent, g_bulkin_req, g_bulkout_req, g_async_req,
                 pc, psp, bus, g_hDev>>

\* A handler gives up after 10 s without an answer to the PSP.
PcTimeout ==
  /\ PcTimeouts
  /\ BusTurn
  /\ \/ pcst \in {"data", "bulk"} /\ ~CanRecv
     \/ pcst \in {"reply", "rdata"} /\ ~CanSend
  /\ g_hDev
  /\ pcst' = "loop"
  /\ hand' = InHand
  /\ UNCHANGED <<g_mainevent, g_transevent, g_bulkin_req, g_bulkout_req, g_async_req,
                 pc, psp, bus, g_hDev>>

\* Mutant of PcReset: the handle is closed, the device is not reset.
PcCloseOnly ==
  /\ PcTimeouts
  /\ BusTurn
  /\ pcst = "magic"
  /\ g_hDev
  /\ ~CanSend
  /\ pcst' = "search"
  /\ g_hDev' = FALSE
  /\ UNCHANGED <<g_mainevent, g_transevent, g_bulkin_req, g_bulkout_req, g_async_req,
                 pc, psp, bus, hand>>

\* The magic is not taken within 1 s: close_device resets the device, which
\* the PSP sees as detach and attach.
PcReset ==
  /\ PcTimeouts
  /\ BusTurn
  /\ pcst = "magic"
  /\ g_hDev
  /\ ~CanSend
  /\ pcst' = "search"
  /\ g_hDev' = FALSE
  /\ CancelAll({"DETACH", "ATTACH"})
  /\ UNCHANGED <<psp, bus, hand>>

\* async_thread of the PC forwards socket data to endpoint 3.
PcAsync ==
  /\ BusTurn
  /\ pcst # "search"
  /\ g_hDev
  /\ g_async_req.st = "pend"
  /\ g_async_req' = Completed(NULL)
  /\ g_mainevent' = g_mainevent \cup {"ASYNC"}
  /\ UNCHANGED <<g_transevent, g_bulkin_req, g_bulkout_req, pc, psp, bus, host>>

-----------------------------------------------------------------------------
ThreadStep(t) ==
  \/ SubmitWrite(t) \/ SubmitRead(t) \/ WriteDone(t) \/ WriteMisaligned(t)
  \/ ReadDone(t)
  \/ WaitSema(t) \/ LockBus(t) \/ Finish(t)
UsbStep == UsbWake \/ UsbAsync \/ UsbDetach \/ UsbAttach \/ UsbLoop \/ UsbMagic \/ UsbHello
PcStep ==
  \/ PcOpen \/ PcMagic \/ PcRead \/ PcData \/ PcReply \/ PcReplyData \/ PcBroken
  \/ PcTimeout \/ PcReset

Next ==
  \/ \E t \in Client, op \in Ops : Call(t, op)
  \/ \E t \in Thread : ThreadStep(t)
  \/ UsbStep
  \/ PcStep \/ PcAsync
  \/ Unplug \/ Plug

\* Threads and the PC program keep running, timeouts fire when what they wait
\* for stays out, and the bus serves all endpoints in turn, so that traffic on
\* one of them does not starve the main loop of the PC (strong fairness).  Calls,
\* socket data and hands on the cable come or do not come.
Fairness ==
  /\ \A t \in Thread : WF_vars(ThreadStep(t))
  /\ WF_vars(UsbStep)
  /\ SF_vars(PcStep)

Spec     == Init /\ [][Next]_vars
FairSpec == Spec /\ Fairness

-----------------------------------------------------------------------------
\* command_xchg accepts any packet with the right magic (line 544), so only the
\* protocol makes an answer belong to its command: a response or its data that
\* a thread has read answers the command of its own current call.
Paired ==
  \A t \in Thread :
    job[t].op # "attach" /\ job[t].reply # NULL =>
      /\ job[t].reply.kind \in {"resp", "rdata"}
      /\ job[t].reply.who = t
      /\ job[t].reply.seq = job[t].seq

\* The PC tells a command from the data after it only by counting transfers:
\* what it can receive next is what its state expects, from the same thread.
Framed ==
  CanRecv => LET m == g_bulkin_req.msg
             IN  CASE pcst = "data" -> m.kind = "data" /\ m.who = hand.who
                   [] pcst = "bulk" -> m.kind = "bulkdata" /\ m.who = hand.who
                   [] OTHER         -> m.kind \notin {"data", "bulkdata"}

\* Attach and detach events all handled.
Settled == pc[Usb] = "wait" /\ {"ATTACH", "DETACH"} \cap g_mainevent = {}

\* usb_connected() tells the truth once usb_thread has caught up: the cable is
\* in and the PC serves this very session.
SessionOK ==
  g_connected /\ Settled => attached /\ g_hDev /\ pcst \notin {"search", "magic"}

\* In a settled session the request for asynchronous data is on the bus, or
\* its completion is about to be handled and will put it back.
AsyncAlive ==
  g_connected /\ Settled =>
    g_async_req.st = "pend" \/ ("ASYNC" \in g_mainevent /\ g_async_req.ok)

\* usbasync.h:105 "Pointer to the data to write (should be 16byte aligned)": a
\* bulk write from such a buffer succeeds as long as the cable stays in.
BulkWritten ==
  \A t \in Client : job[t].op \in {"bulk", "bulk16"} /\ pulls = 0 => job[t].ok

\* While the cable stays in, the handshake of usb_thread and the PC comes to
\* its end, whatever the clients had in progress.
Connects == attached ~> (g_connected \/ ~attached)

\* While the cable stays in, a call comes back to its caller.
CallEnds == \A t \in Client : pc[t] # "idle" ~> (pc[t] = "idle" \/ ~attached)
=============================================================================
