---------------------------- MODULE ChannelTrace ----------------------------
(***************************************************************************)
(* What a consumer of AsyncChannelHook may rely on, for one channel: an op *)
(* is requested at most once and ends once, resolved or dropped; only a    *)
(* handle that was reported alive sends, is cloned or is dropped; nothing  *)
(* is received once the receiver was reported dropped; and a receive ends  *)
(* in Closed only when the events before it say why.                       *)
(***************************************************************************)
EXTENDS Integers

CONSTANTS
  SendOp,   \* op ids of the send calls
  RecvOp    \* op ids of the receive calls

VARIABLES
  kind,     \* AsyncChannelKind of channel_created
  status,   \* last event of an op: requested, dropped or its outcome
  senders,  \* 1 + endpoint_cloned - endpoint_dropped of the sender side
  receiver, \* the receiver was not reported dropped
  closed    \* channel_closed was reported

vars == <<kind, status, senders, receiver, closed>>

Init ==
  /\ kind \in {"bounded", "unbounded", "oneshot"}
  /\ status = [o \in SendOp \cup RecvOp |-> "none"]
  /\ senders = 1 /\ receiver = TRUE /\ closed = FALSE

\* The stream ended: no sender is left, the receiver closed the channel, or
\* the one value of a oneshot was taken.
Ended ==
  \/ senders = 0
  \/ closed
  \/ kind = "oneshot" /\ \E p \in RecvOp : status[p] = "ok"

Alive(o) == IF o \in SendOp THEN senders > 0 ELSE receiver

OpRequested(o) ==
  /\ status[o] = "none" /\ Alive(o)
  /\ status' = [status EXCEPT ![o] = "requested"]
  /\ UNCHANGED <<kind, senders, receiver, closed>>

OpResolved(o, out) ==
  /\ status[o] \in {"none", "requested"} /\ Alive(o)
  /\ o \in RecvOp /\ out = "closed" => Ended
  /\ status' = [status EXCEPT ![o] = out]
  /\ UNCHANGED <<kind, senders, receiver, closed>>

OpDropped(o) ==
  /\ status[o] = "requested" /\ Alive(o)
  /\ status' = [status EXCEPT ![o] = "dropped"]
  /\ UNCHANGED <<kind, senders, receiver, closed>>

SenderCloned ==
  /\ senders > 0 /\ kind # "oneshot"
  /\ senders' = senders + 1
  /\ UNCHANGED <<kind, status, receiver, closed>>

SenderDropped ==
  /\ senders > 0
  /\ senders' = senders - 1
  /\ UNCHANGED <<kind, status, receiver, closed>>

ChannelClosed ==
  /\ receiver
  /\ closed' = TRUE
  /\ UNCHANGED <<kind, status, senders, receiver>>

ReceiverDropped ==
  /\ receiver
  /\ receiver' = FALSE
  /\ UNCHANGED <<kind, status, senders, closed>>

Next ==
  \/ \E o \in SendOp \cup RecvOp :
       \/ OpRequested(o)
       \/ OpDropped(o)
       \/ \E out \in {"ok", "closed", "full", "empty"} : OpResolved(o, out)
  \/ SenderCloned \/ SenderDropped \/ ChannelClosed \/ ReceiverDropped

Spec == Init /\ [][Next]_vars
=============================================================================
