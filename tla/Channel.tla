------------------------------- MODULE Channel -------------------------------
(***************************************************************************)
(* One model channel of laplace-model-rt: a bounded or unbounded mpsc      *)
(* channel or a oneshot channel, which wrap the real tokio endpoints, and  *)
(* the events the wrapper reports to the AsyncChannelHook.  The wrapper    *)
(* takes a step on the real channel and reports it in another step, before *)
(* or after, and the other tasks run in between.                           *)
(*                                                                         *)
(* A value is the op that sent it.  The hook stays installed: AsyncLock    *)
(* covers a hook that comes and goes, with the same re-read at each event. *)
(***************************************************************************)
EXTENDS Integers, Sequences, FiniteSets

CONSTANTS
  Handle,    \* sender handles; First is the one channel() returns
  First,
  SendOp,    \* op ids of send and try_send calls
  RecvOp,    \* op ids of recv and try_recv calls
  RxOp,      \* the op id a oneshot receiver gets in channel()
  Kinds,     \* which channels are built
  Capacity,  \* buffer of a bounded channel
  None

Op == SendOp \cup RecvOp

ASSUME OpsDistinct == SendOp \cap RecvOp = {} /\ RxOp \in RecvOp
ASSUME HandlesOK   == First \in Handle /\ None \notin Handle
ASSUME KindsOK     == Kinds \subseteq {"bounded", "unbounded", "oneshot"}
ASSUME CapacityOK  == Capacity \in Nat \ {0}
ASSUME OpsFinite   == IsFiniteSet(Op)

VARIABLES
  kind,       \* which channel this is
  buf,        \* values sent and not received
  live,       \* handles whose real sender exists
  shut,       \* the real receiver was closed or dropped
  taken,      \* a oneshot's inner is None: the receive completed
  hpc,        \* what the owner of a handle is doing
  from,       \* the handle a handle is being cloned from
  rpc,        \* what the owner of the receiver is doing
  opc,        \* where a call is
  by,         \* the handle of a send call
  requested,  \* requested_emitted of the future
  out,        \* what the real operation returned
  obs,        \* last event of an op
  obsSenders, \* handles the events say exist
  obsRx,      \* the receiver was not reported dropped
  obsClosed   \* channel_closed was reported

real  == <<buf, live, shut, taken>>
calls == <<hpc, from, rpc, opc, by, requested, out>>
seen  == <<obs, obsSenders, obsRx, obsClosed>>
vars  == <<kind, real, calls, seen>>

Outcome == {"ok", "closed", "full", "empty"}
HandlePC == {"none", "cloning", "idle", "dropping", "consumed", "gone"}
RxPC     == {"idle", "closing", "ending", "dropping", "gone"}
OpPC     == {"unused", "made", "waiting", "requesting", "answering", "cancelling", "done"}

TypeOK ==
  /\ kind \in Kinds
  /\ buf \in Seq(SendOp) /\ live \subseteq Handle
  /\ shut \in BOOLEAN /\ taken \in BOOLEAN
  /\ hpc \in [Handle -> HandlePC] /\ from \in [Handle -> Handle \cup {None}]
  /\ rpc \in RxPC
  /\ opc \in [Op -> OpPC] /\ by \in [SendOp -> Handle \cup {None}]
  /\ requested \in [Op -> BOOLEAN] /\ out \in [Op -> Outcome \cup {"none"}]
  /\ obs \in [Op -> Outcome \cup {"none", "requested", "dropped"}]
  /\ obsSenders \in Nat
  /\ obsRx \in BOOLEAN /\ obsClosed \in BOOLEAN

\* channel(), unbounded_channel() and oneshot::channel(): one sender, one
\* receiver, channel_created reported, and a oneshot has its receive op.
Init ==
  /\ kind \in Kinds
  /\ buf = << >> /\ live = {First} /\ shut = FALSE /\ taken = FALSE
  /\ hpc = [h \in Handle |-> IF h = First THEN "idle" ELSE "none"]
  /\ from = [h \in Handle |-> None]
  /\ rpc = "idle"
  /\ opc = [o \in Op |-> IF kind = "oneshot" /\ o = RxOp THEN "made" ELSE "unused"]
  /\ by = [o \in SendOp |-> None]
  /\ requested = [o \in Op |-> FALSE] /\ out = [o \in Op |-> "none"]
  /\ obs = [o \in Op |-> "none"]
  /\ obsSenders = 1 /\ obsRx = TRUE /\ obsClosed = FALSE

Active(o) == opc[o] \notin {"unused", "done"}
Step(o, p) == opc' = [opc EXCEPT ![o] = p]

\* A call ended: its fields are gone with it.
End(o) ==
  /\ Step(o, "done")
  /\ by' = [p \in SendOp |-> IF p = o THEN None ELSE by[p]]
  /\ requested' = [requested EXCEPT ![o] = FALSE]
  /\ out' = [out EXCEPT ![o] = "none"]

\* The receiver is taken by &mut: one call at a time.  A oneshot receiver is
\* its own future, which may wait while try_recv or close is called.
RxFree ==
  /\ rpc = "idle"
  /\ \A o \in RecvOp :
       opc[o] \notin {"requesting", "answering", "cancelling"}
       /\ (Active(o) => kind = "oneshot")

\* A handle is borrowed while a send future or a clone of it exists.
HandleFree(h) ==
  /\ hpc[h] = "idle"
  /\ \A o \in SendOp : by[o] = h => ~Active(o)
  /\ \A g \in Handle : hpc[g] = "cloning" => from[g] # h

-----------------------------------------------------------------------------
(* The real channel, as far as the wrapper can tell. *)

\* Values in the buffer and permits that waiting sends may have been given.
Occupied == Len(buf) + Cardinality({o \in SendOp : opc[o] = "waiting"})

\* Puts a value of o, if the channel is open and has room.
Push(o) ==
  /\ ~shut
  /\ kind = "bounded" => Len(buf) < Capacity
  /\ buf' = Append(buf, o)
  /\ UNCHANGED <<shut, taken>>

Pop ==
  /\ buf # << >>
  /\ buf' = Tail(buf)
  /\ taken' = (kind = "oneshot")
  /\ UNCHANGED <<live, shut>>

\* recv returns None and try_recv Disconnected: nothing is left to come.
NoMore ==
  /\ buf = << >>
  /\ shut \/ live = {}
  /\ taken' = (kind = "oneshot")
  /\ UNCHANGED <<buf, live, shut>>

-----------------------------------------------------------------------------
(* Faulty variants, used by no specification. *)

\* The sender is gone and its drop is never reported.
DropSenderUnreported(h) ==
  /\ HandleFree(h)
  /\ live' = live \ {h}
  /\ hpc' = [hpc EXCEPT ![h] = "dropping"]
  /\ UNCHANGED <<kind, buf, shut, taken, from, rpc, opc, by, requested, out, seen>>

\* The drop of a sender is reported again until the real sender is gone.
DropSenderTwice(h) ==
  /\ HandleFree(h) \/ hpc[h] = "dropping"
  /\ obsSenders' = obsSenders - 1
  /\ hpc' = [hpc EXCEPT ![h] = "dropping"]
  /\ UNCHANGED <<kind, real, from, rpc, opc, by, requested, out, obs, obsRx, obsClosed>>

\* A resolved or never requested future is reported dropped.
DropFutureAlways(o) ==
  /\ opc[o] \in {"made", "waiting"} /\ ~(kind = "oneshot" /\ o = RxOp)
  /\ Step(o, "cancelling")
  /\ UNCHANGED <<kind, real, hpc, from, rpc, by, requested, out, seen>>

\* try_send forgets the permits of the buffer.
PushUnbounded(o) ==
  /\ ~shut
  /\ Len(buf) < Capacity + 1
  /\ buf' = Append(buf, o)
  /\ UNCHANGED <<shut, taken>>

-----------------------------------------------------------------------------
(* Calls on the senders. *)

\* Sender::send builds the future under its op id.
Send(h, o) ==
  /\ kind = "bounded" /\ hpc[h] = "idle" /\ opc[o] = "unused"
  /\ by' = [by EXCEPT ![o] = h]
  /\ Step(o, "made")
  /\ UNCHANGED <<kind, real, hpc, from, rpc, requested, out, seen>>

\* A call that does not wait: real operation first, the answer reported next.
Immediate(h, o, result) ==
  /\ hpc[h] = "idle" /\ opc[o] = "unused"
  /\ by' = [by EXCEPT ![o] = h]
  /\ out' = [out EXCEPT ![o] = result]
  /\ Step(o, "answering")
  /\ UNCHANGED <<kind, from, rpc, requested, seen>>

\* Sender::try_send.
TrySend(h, o) ==
  /\ kind = "bounded"
  /\ \/ Occupied < Capacity /\ Push(o) /\ Immediate(h, o, "ok")
     \/ ~shut /\ Occupied >= Capacity /\ UNCHANGED <<buf, shut, taken>>
        /\ Immediate(h, o, "full")
     \/ shut /\ UNCHANGED <<buf, shut, taken>> /\ Immediate(h, o, "closed")
  /\ UNCHANGED <<live, hpc>>

\* UnboundedSender::send.
UnboundedSend(h, o) ==
  /\ kind = "unbounded"
  /\ \/ Push(o) /\ Immediate(h, o, "ok")
     \/ shut /\ UNCHANGED <<buf, shut, taken>> /\ Immediate(h, o, "closed")
  /\ UNCHANGED <<live, hpc>>

\* oneshot::Sender::send consumes the handle: inner is taken, so the drop of
\* the handle reports nothing.
OneshotSend(h, o) ==
  /\ kind = "oneshot"
  /\ \/ Push(o) /\ Immediate(h, o, "ok")
     \/ shut /\ UNCHANGED <<buf, shut, taken>> /\ Immediate(h, o, "closed")
  /\ live' = live \ {h}
  /\ hpc' = [hpc EXCEPT ![h] = "consumed"]

\* Clone: the real sender first, endpoint_cloned next.
Clone(h, g) ==
  /\ kind # "oneshot" /\ hpc[h] = "idle" /\ hpc[g] = "none"
  /\ live' = live \cup {g}
  /\ hpc' = [hpc EXCEPT ![g] = "cloning"]
  /\ from' = [from EXCEPT ![g] = h]
  /\ UNCHANGED <<kind, buf, shut, taken, rpc, opc, by, requested, out, seen>>

ReportClone(g) ==
  /\ hpc[g] = "cloning"
  /\ hpc' = [hpc EXCEPT ![g] = "idle"]
  /\ from' = [from EXCEPT ![g] = None]
  /\ obsSenders' = obsSenders + 1
  /\ UNCHANGED <<kind, real, rpc, opc, by, requested, out, obs, obsRx, obsClosed>>

\* Drop of a sender: endpoint_dropped first, the real sender next.
DropSender(h) ==
  /\ HandleFree(h)
  /\ obsSenders' = obsSenders - 1
  /\ hpc' = [hpc EXCEPT ![h] = "dropping"]
  /\ UNCHANGED <<kind, real, from, rpc, opc, by, requested, out, obs, obsRx, obsClosed>>

DropSenderInner(h) ==
  /\ hpc[h] = "dropping"
  /\ live' = live \ {h}
  /\ hpc' = [hpc EXCEPT ![h] = "gone"]
  /\ UNCHANGED <<kind, buf, shut, taken, from, rpc, opc, by, requested, out, seen>>

-----------------------------------------------------------------------------
(* Calls on the receiver. *)

\* Receiver::recv and UnboundedReceiver::recv.
Recv(o) ==
  /\ kind # "oneshot" /\ RxFree /\ opc[o] = "unused"
  /\ Step(o, "made")
  /\ UNCHANGED <<kind, real, hpc, from, rpc, by, requested, out, seen>>

\* try_recv of the bounded and unbounded receiver, under a new op id.
TryRecv(o) ==
  /\ kind # "oneshot" /\ RxFree /\ opc[o] = "unused"
  /\ \/ Pop /\ out' = [out EXCEPT ![o] = "ok"]
     \/ NoMore /\ out' = [out EXCEPT ![o] = "closed"]
     \/ buf = << >> /\ ~shut /\ live # {}
        /\ UNCHANGED real /\ out' = [out EXCEPT ![o] = "empty"]
  /\ Step(o, "answering")
  /\ UNCHANGED <<kind, hpc, from, rpc, by, requested, seen>>

\* oneshot::Receiver::try_recv: also under a new op id, so that the op of the
\* receiver itself stays unresolved; once the receive completed it is Closed.
OneshotTryRecv(o) ==
  /\ kind = "oneshot" /\ RxFree /\ opc[o] = "unused"
  /\ \/ ~taken /\ Pop /\ out' = [out EXCEPT ![o] = "ok"]
     \/ ~taken /\ NoMore /\ out' = [out EXCEPT ![o] = "closed"]
     \/ ~taken /\ buf = << >> /\ ~shut /\ live # {}
        /\ UNCHANGED real /\ out' = [out EXCEPT ![o] = "empty"]
     \/ taken /\ UNCHANGED real /\ out' = [out EXCEPT ![o] = "closed"]
  /\ Step(o, "answering")
  /\ UNCHANGED <<kind, hpc, from, rpc, by, requested, seen>>

\* close: the real receiver first, channel_closed next.  A oneshot whose
\* receive completed has no inner to close; the event is reported all the same.
Close ==
  /\ RxFree
  /\ shut' = (shut \/ ~taken)
  /\ rpc' = "closing"
  /\ UNCHANGED <<kind, buf, live, taken, hpc, from, opc, by, requested, out, seen>>

ReportClose ==
  /\ rpc = "closing"
  /\ rpc' = "idle"
  /\ obsClosed' = TRUE
  /\ UNCHANGED <<kind, real, hpc, from, opc, by, requested, out, obs, obsSenders, obsRx>>

\* Drop of the receiver: a oneshot reports its waiting op dropped first.
DropReceiver ==
  /\ RxFree
  /\ IF opc[RxOp] = "waiting"
     THEN /\ obs' = [obs EXCEPT ![RxOp] = "dropped"]
          /\ rpc' = "ending" /\ obsRx' = obsRx
     ELSE rpc' = "dropping" /\ obsRx' = FALSE /\ obs' = obs
  /\ IF kind = "oneshot" THEN End(RxOp) ELSE UNCHANGED <<opc, by, requested, out>>
  /\ UNCHANGED <<kind, real, hpc, from, obsSenders, obsClosed>>

ReportReceiverDropped ==
  /\ rpc = "ending"
  /\ rpc' = "dropping"
  /\ obsRx' = FALSE
  /\ UNCHANGED <<kind, real, hpc, from, opc, by, requested, out, obs, obsSenders, obsClosed>>

DropReceiverInner ==
  /\ rpc = "dropping"
  /\ rpc' = "gone"
  /\ shut' = TRUE /\ buf' = << >>
  /\ UNCHANGED <<kind, live, taken, hpc, from, opc, by, requested, out, seen>>

-----------------------------------------------------------------------------
(* The futures ModelMpscSend and ModelMpscRecv and the oneshot receiver. *)

Pollable(o) ==
  /\ opc[o] \in {"made", "waiting"}
  /\ o \in RecvOp => rpc = "idle"
  /\ o \in RecvOp /\ kind = "oneshot" => RxFree /\ ~taken

\* A pending poll, for want of a value, of room or of the task's budget: the
\* first one sets requested_emitted and reports op_requested.
PollPending(o) ==
  /\ Pollable(o) /\ ~requested[o]
  /\ requested' = [requested EXCEPT ![o] = TRUE]
  /\ Step(o, "requesting")
  /\ UNCHANGED <<kind, real, hpc, from, rpc, by, out, seen>>

PollSend(o) ==
  /\ o \in SendOp /\ Pollable(o)
  /\ \/ Push(o) /\ out' = [out EXCEPT ![o] = "ok"]
     \/ shut /\ UNCHANGED <<buf, shut, taken>> /\ out' = [out EXCEPT ![o] = "closed"]
  /\ Step(o, "answering")
  /\ UNCHANGED <<kind, live, hpc, from, rpc, by, requested, seen>>

PollRecv(o) ==
  /\ o \in RecvOp /\ Pollable(o)
  /\ \/ Pop /\ out' = [out EXCEPT ![o] = "ok"]
     \/ NoMore /\ out' = [out EXCEPT ![o] = "closed"]
  /\ Step(o, "answering")
  /\ UNCHANGED <<kind, hpc, from, rpc, by, requested, seen>>

\* Drop of a future: op_dropped if it was requested and not resolved.
DropFuture(o) ==
  /\ opc[o] \in {"made", "waiting"} /\ ~(kind = "oneshot" /\ o = RxOp)
  /\ IF requested[o] THEN Step(o, "cancelling") /\ UNCHANGED <<by, requested, out>>
                     ELSE End(o)
  /\ UNCHANGED <<kind, real, hpc, from, rpc, seen>>

\* AsyncChannelHook::op_requested, op_resolved and op_dropped.
ReportRequested(o) ==
  /\ opc[o] = "requesting"
  /\ obs' = [obs EXCEPT ![o] = "requested"]
  /\ Step(o, "waiting")
  /\ UNCHANGED <<kind, real, hpc, from, rpc, by, requested, out, obsSenders, obsRx, obsClosed>>

ReportAnswer(o) ==
  /\ opc[o] = "answering"
  /\ obs' = [obs EXCEPT ![o] = out[o]]
  /\ End(o)
  /\ UNCHANGED <<kind, real, hpc, from, rpc, obsSenders, obsRx, obsClosed>>

ReportDropped(o) ==
  /\ opc[o] = "cancelling"
  /\ obs' = [obs EXCEPT ![o] = "dropped"]
  /\ End(o)
  /\ UNCHANGED <<kind, real, hpc, from, rpc, obsSenders, obsRx, obsClosed>>

Report(o) == ReportRequested(o) \/ ReportAnswer(o) \/ ReportDropped(o)

-----------------------------------------------------------------------------
SenderNext(h) ==
  \/ \E o \in SendOp : Send(h, o) \/ TrySend(h, o) \/ UnboundedSend(h, o) \/ OneshotSend(h, o)
  \/ \E g \in Handle : Clone(h, g)
  \/ ReportClone(h) \/ DropSender(h) \/ DropSenderInner(h)

ReceiverNext ==
  \/ \E o \in RecvOp : Recv(o) \/ TryRecv(o) \/ OneshotTryRecv(o)
  \/ Close \/ ReportClose
  \/ DropReceiver \/ ReportReceiverDropped \/ DropReceiverInner

FutureNext(o) ==
  PollPending(o) \/ PollSend(o) \/ PollRecv(o) \/ DropFuture(o) \/ Report(o)

Next ==
  \/ \E h \in Handle : SenderNext(h)
  \/ ReceiverNext
  \/ \E o \in Op : FutureNext(o)

Spec == Init /\ [][Next]_vars

-----------------------------------------------------------------------------
(* Properties. *)

\* A Closed outcome is explained by the events before it.  For a receive,
\* every sender was reported dropped, the receiver reported channel_closed, or
\* the value of the oneshot was reported received: a consumer that counts
\* endpoints never sees a stream end while it believes a sender is alive.  For
\* a send, the receiver was reported gone or closed, or it is between the
\* real close and its report.
OutcomesExplained ==
  /\ \A o \in RecvOp : obs[o] = "closed" =>
       \/ obsSenders = 0
       \/ obsClosed
       \/ kind = "oneshot" /\ \E p \in RecvOp : obs[p] = "ok"
  /\ \A o \in SendOp : obs[o] = "closed" => obsClosed \/ ~obsRx \/ rpc = "closing"

Sent     == Cardinality({o \in SendOp : obs[o] = "ok"})
Received == Cardinality({o \in RecvOp : obs[o] = "ok"})
InFlight == Cardinality({o \in SendOp : opc[o] = "answering" /\ out[o] = "ok"})

\* A consumer that counts reported sends and receives is never off by more
\* than the calls that are between the real operation and its report: one
\* receive above the capacity, the sends in flight below zero.
ReportedWithinCapacity ==
  /\ Received - Sent <= InFlight
  /\ kind = "bounded" => Sent - Received <= Capacity + 1

\* What a consumer can conclude from the reports is right.
ChannelSound == TypeOK /\ OutcomesExplained /\ ReportedWithinCapacity

\* The events of a channel are the trace a consumer may rely on.
Trace == INSTANCE ChannelTrace WITH
  status <- obs, senders <- obsSenders, receiver <- obsRx, closed <- obsClosed
TraceSpec == Trace!Spec
=============================================================================
