------------------------------- MODULE FanOut -------------------------------
(***************************************************************************)
(* The model channels with several receivers, watch and broadcast: real    *)
(* tokio endpoints whose operations are reported to AsyncChannelHook and   *)
(* AsyncBroadcastHook, each in a step of its own before or after the real  *)
(* one.  A send appends to a log; a receiver is a cursor into it.  A watch *)
(* receiver only learns that the log grew, a broadcast receiver reads it   *)
(* value by value and loses what falls out of the ring.                    *)
(***************************************************************************)
EXTENDS Integers, FiniteSets

CONSTANTS
  FanKinds,  \* subset of {"watch", "broadcast"}
  Tx,        \* sender handles; Tx1 is the one channel() returns
  Tx1,
  Rx,        \* receivers; Rx1 is the one channel() returns
  Rx1,
  Ring,      \* capacity of a broadcast channel
  MaxSends,  \* bound on the values sent
  Nobody

ASSUME FanKindsOK == FanKinds \subseteq {"watch", "broadcast"}
ASSUME FanIdsOK   == Tx1 \in Tx /\ Rx1 \in Rx /\ Nobody \notin Tx \cup Rx /\ Tx \cap Rx = {}
ASSUME FanBounds  == Ring \in Nat \ {0} /\ MaxSends \in Nat /\ IsFiniteSet(Tx) /\ IsFiniteSet(Rx)

VARIABLES
  fan,       \* which channel this is
  tail,      \* values really sent
  sendSeq,   \* send_seq, the number of them that were counted
  tx,        \* real senders
  rx,        \* real receivers
  txpc,      \* what the owner of a sender is doing
  txOut,     \* what its send returned
  rxpc,      \* what the owner of a receiver is doing
  rxOut,     \* what its receive returned
  maker,     \* the endpoint a new one is being made from
  pos,       \* the receiver's cursor
  asked,     \* requested_emitted of the receiver's future
  obsTx,     \* senders the events say exist
  obsRxs,    \* receivers the events say exist
  obsAsk,    \* the receiver's op was reported requested and nothing since
  at,        \* at_seq of the receiver's subscribed event
  start,     \* where its cursor really started
  overlap    \* a send was under way while the receiver subscribed

fanReal == <<tail, sendSeq, tx, rx, pos>>
fanPcs  == <<txpc, txOut, rxpc, rxOut, maker, asked>>
fanSeen == <<obsTx, obsRxs, obsAsk>>
fanAux  == <<at, start, overlap>>
fanVars == <<fan, fanReal, fanPcs, fanSeen, fanAux>>

FanTxPC == {"none", "copying", "idle", "asking", "sending", "counting", "answering",
         "dropping", "gone"}
FanRxPC == {"none", "made", "placing", "resolving", "idle", "polling", "requesting",
         "waiting", "answering", "cancelling", "dropping", "gone"}
Results == {"none", "ok", "closed", "empty", "lagged"}

FanTypeOK ==
  /\ fan \in FanKinds
  /\ tail \in 0..MaxSends /\ sendSeq \in 0..tail
  /\ tx \subseteq Tx /\ rx \subseteq Rx
  /\ txpc \in [Tx -> FanTxPC] /\ txOut \in [Tx -> Results]
  /\ rxpc \in [Rx -> FanRxPC] /\ rxOut \in [Rx -> Results]
  /\ maker \in [Tx \cup Rx -> Tx \cup Rx \cup {Nobody}]
  /\ pos \in [Rx -> 0..MaxSends] /\ asked \in [Rx -> BOOLEAN]
  /\ obsTx \in Nat /\ obsRxs \in Nat /\ obsAsk \in [Rx -> BOOLEAN]
  /\ at \in [Rx -> 0..MaxSends] /\ start \in [Rx -> 0..MaxSends]
  /\ overlap \in [Rx -> BOOLEAN]

\* channel(): one sender, one receiver at the start of an empty log.
FanInit ==
  /\ fan \in FanKinds
  /\ tail = 0 /\ sendSeq = 0 /\ tx = {Tx1} /\ rx = {Rx1}
  /\ txpc = [h \in Tx |-> IF h = Tx1 THEN "idle" ELSE "none"]
  /\ rxpc = [r \in Rx |-> IF r = Rx1 THEN "idle" ELSE "none"]
  /\ txOut = [h \in Tx |-> "none"] /\ rxOut = [r \in Rx |-> "none"]
  /\ maker = [e \in Tx \cup Rx |-> Nobody]
  /\ pos = [r \in Rx |-> 0] /\ asked = [r \in Rx |-> FALSE]
  /\ obsTx = 1 /\ obsRxs = 1 /\ obsAsk = [r \in Rx |-> FALSE]
  /\ at = [r \in Rx |-> 0] /\ start = [r \in Rx |-> 0]
  /\ overlap = [r \in Rx |-> FALSE]

TxGoto(h, p) == txpc' = [txpc EXCEPT ![h] = p]
RxGoto(r, p) == rxpc' = [rxpc EXCEPT ![r] = p]

\* An endpoint is borrowed while another one is made from it.
Lent(e) == \E f \in Tx \cup Rx : maker[f] = e

\* A receiver exists and its position is not reported yet.
Placing(r) == rxpc[r] \in {"made", "placing"}

-----------------------------------------------------------------------------
(* Faulty variants, used by no specification. *)

\* The receiver is gone before its drop is reported.
DropRxInnerFirst(r) ==
  /\ rxpc[r] = "idle" /\ ~Lent(r)
  /\ rx' = rx \ {r}
  /\ RxGoto(r, "dropping")
  /\ UNCHANGED <<fan, tail, sendSeq, tx, pos, txpc, txOut, rxOut, maker, asked, fanSeen, fanAux>>

\* A refused send is counted too.
FanSendCountsRefused(h) ==
  /\ txpc[h] = IF fan = "watch" THEN "idle" ELSE "sending"
  /\ fan = "watch" => tail < MaxSends
  /\ tail' = IF rx = {} THEN tail ELSE tail + 1
  /\ overlap' = [r \in Rx |-> overlap[r] \/ (Placing(r) /\ rx # {})]
  /\ txOut' = [txOut EXCEPT ![h] = IF rx = {} THEN "closed" ELSE "ok"]
  /\ TxGoto(h, IF fan = "broadcast" THEN "counting" ELSE "answering")
  /\ UNCHANGED <<fan, sendSeq, tx, rx, pos, rxpc, rxOut, maker, asked, fanSeen, at, start>>

\* A receive that resolves is not reported when it was waiting.
ReportReceivedQuietly(r) ==
  /\ rxpc[r] = "answering"
  /\ obsAsk' = obsAsk
  /\ asked' = [asked EXCEPT ![r] = FALSE]
  /\ rxOut' = [rxOut EXCEPT ![r] = "none"]
  /\ RxGoto(r, "idle")
  /\ UNCHANGED <<fan, fanReal, txpc, txOut, maker, obsTx, obsRxs, fanAux>>

-----------------------------------------------------------------------------
(* Senders. *)

\* broadcast::Sender::send starts with op_requested.
FanAsk(h) ==
  /\ fan = "broadcast" /\ txpc[h] = "idle"
  /\ tail + Cardinality({g \in Tx : txpc[g] \in {"asking", "sending"}}) < MaxSends
  /\ TxGoto(h, "asking")
  /\ UNCHANGED <<fan, fanReal, txOut, rxpc, rxOut, maker, asked, fanSeen, fanAux>>

FanReportAsk(h) ==
  /\ txpc[h] = "asking"
  /\ TxGoto(h, "sending")
  /\ UNCHANGED <<fan, fanReal, txOut, rxpc, rxOut, maker, asked, fanSeen, fanAux>>

\* The real send: refused when there is no receiver.
FanSend(h) ==
  /\ txpc[h] = IF fan = "watch" THEN "idle" ELSE "sending"
  /\ fan = "watch" => tail < MaxSends
  /\ tail' = IF rx = {} THEN tail ELSE tail + 1
  /\ overlap' = [r \in Rx |-> overlap[r] \/ (Placing(r) /\ rx # {})]
  /\ txOut' = [txOut EXCEPT ![h] = IF rx = {} THEN "closed" ELSE "ok"]
  /\ TxGoto(h, IF fan = "broadcast" /\ rx # {} THEN "counting" ELSE "answering")
  /\ UNCHANGED <<fan, sendSeq, tx, rx, pos, rxpc, rxOut, maker, asked, fanSeen, at, start>>

\* broadcast: send_seq.fetch_add after the real send.
FanCount(h) ==
  /\ txpc[h] = "counting"
  /\ sendSeq' = sendSeq + 1
  /\ TxGoto(h, "answering")
  /\ UNCHANGED <<fan, tail, tx, rx, pos, txOut, rxpc, rxOut, maker, asked, fanSeen, fanAux>>

FanReportSent(h) ==
  /\ txpc[h] = "answering"
  /\ txOut' = [txOut EXCEPT ![h] = "none"]
  /\ TxGoto(h, "idle")
  /\ UNCHANGED <<fan, fanReal, rxpc, rxOut, maker, asked, fanSeen, fanAux>>

\* watch clones the sender, then reports; broadcast reports, then clones.
CloneTx(h, g) ==
  /\ txpc[h] = "idle" /\ txpc[g] = "none"
  /\ IF fan = "watch" THEN tx' = tx \cup {g} /\ obsTx' = obsTx
                      ELSE obsTx' = obsTx + 1 /\ tx' = tx
  /\ maker' = [maker EXCEPT ![g] = h]
  /\ TxGoto(g, "copying")
  /\ UNCHANGED <<fan, tail, sendSeq, rx, pos, txOut, rxpc, rxOut, asked, obsRxs, obsAsk, fanAux>>

CloneTxEnd(g) ==
  /\ txpc[g] = "copying"
  /\ IF fan = "watch" THEN obsTx' = obsTx + 1 /\ tx' = tx
                      ELSE tx' = tx \cup {g} /\ obsTx' = obsTx
  /\ maker' = [maker EXCEPT ![g] = Nobody]
  /\ TxGoto(g, "idle")
  /\ UNCHANGED <<fan, tail, sendSeq, rx, pos, txOut, rxpc, rxOut, asked, obsRxs, obsAsk, fanAux>>

\* endpoint_dropped first, the real sender next.
DropTx(h) ==
  /\ txpc[h] = "idle" /\ ~Lent(h)
  /\ obsTx' = obsTx - 1
  /\ TxGoto(h, "dropping")
  /\ UNCHANGED <<fan, fanReal, txOut, rxpc, rxOut, maker, asked, obsRxs, obsAsk, fanAux>>

DropTxInner(h) ==
  /\ txpc[h] = "dropping"
  /\ tx' = tx \ {h}
  /\ TxGoto(h, "gone")
  /\ UNCHANGED <<fan, tail, sendSeq, rx, pos, txOut, rxpc, rxOut, maker, asked, fanSeen, fanAux>>

-----------------------------------------------------------------------------
(* Receivers. *)

\* A new real receiver r at p, made from the endpoint e.
MakeRx(e, r, p) ==
  /\ rxpc[r] = "none"
  /\ rx' = rx \cup {r}
  /\ pos' = [pos EXCEPT ![r] = p]
  /\ start' = [start EXCEPT ![r] = p]
  /\ overlap' = [overlap EXCEPT ![r] = \E h \in Tx : txpc[h] = "counting"]
  /\ maker' = [maker EXCEPT ![r] = e]
  /\ RxGoto(r, "made")
  /\ UNCHANGED <<fan, tail, sendSeq, tx, txpc, txOut, rxOut, asked, fanSeen, at>>

\* Sender::subscribe of both channels: a cursor at the tail.
Subscribe(h, r) == txpc[h] = "idle" /\ MakeRx(h, r, tail)

\* broadcast::Receiver::resubscribe: a cursor at the tail.
Resubscribe(q, r) == fan = "broadcast" /\ rxpc[q] = "idle" /\ MakeRx(q, r, tail)

\* watch::Receiver::clone: what the original has seen.
CloneRx(q, r) == fan = "watch" /\ rxpc[q] = "idle" /\ MakeRx(q, r, pos[q])

\* endpoint_cloned; a broadcast goes on to subscribed.
ReportMade(r) ==
  /\ rxpc[r] = "made"
  /\ obsRxs' = obsRxs + 1
  /\ RxGoto(r, IF fan = "broadcast" THEN "placing" ELSE "idle")
  /\ maker' = IF fan = "broadcast" THEN maker ELSE [maker EXCEPT ![r] = Nobody]
  /\ UNCHANGED <<fan, fanReal, txpc, txOut, rxOut, asked, obsTx, obsAsk, fanAux>>

\* subscribed with what send_seq is now; resubscribe reports op_resolved too.
ReportSubscribed(r) ==
  /\ rxpc[r] = "placing"
  /\ at' = [at EXCEPT ![r] = sendSeq]
  /\ RxGoto(r, IF maker[r] \in Rx THEN "resolving" ELSE "idle")
  /\ maker' = IF maker[r] \in Rx THEN maker ELSE [maker EXCEPT ![r] = Nobody]
  /\ UNCHANGED <<fan, fanReal, txpc, txOut, rxOut, asked, fanSeen, start, overlap>>

ReportResubscribed(r) ==
  /\ rxpc[r] = "resolving"
  /\ maker' = [maker EXCEPT ![r] = Nobody]
  /\ RxGoto(r, "idle")
  /\ UNCHANGED <<fan, fanReal, txpc, txOut, rxOut, asked, fanSeen, fanAux>>

DropRx(r) ==
  /\ rxpc[r] = "idle" /\ ~Lent(r)
  /\ obsRxs' = obsRxs - 1
  /\ RxGoto(r, "dropping")
  /\ UNCHANGED <<fan, fanReal, txpc, txOut, rxOut, maker, asked, obsTx, obsAsk, fanAux>>

DropRxInner(r) ==
  /\ rxpc[r] = "dropping"
  /\ rx' = rx \ {r}
  /\ RxGoto(r, "gone")
  /\ UNCHANGED <<fan, tail, sendSeq, tx, pos, txpc, txOut, rxOut, maker, asked, fanSeen, fanAux>>

\* watch::Receiver::borrow_and_update marks the value seen and reports nothing.
BorrowAndUpdate(r) ==
  /\ fan = "watch" /\ rxpc[r] = "idle" /\ ~Lent(r) /\ pos[r] # tail
  /\ pos' = [pos EXCEPT ![r] = tail]
  /\ UNCHANGED <<fan, tail, sendSeq, tx, rx, fanPcs, fanSeen, fanAux>>

\* What the real receive does: watch sees the last value, broadcast the next
\* one, or skips to the oldest the ring still holds.
Read(r) ==
  \/ /\ fan = "watch" /\ pos[r] < tail
     /\ pos' = [pos EXCEPT ![r] = tail]
     /\ rxOut' = [rxOut EXCEPT ![r] = "ok"]
  \/ /\ fan = "broadcast" /\ pos[r] < tail /\ tail - pos[r] <= Ring
     /\ pos' = [pos EXCEPT ![r] = @ + 1]
     /\ rxOut' = [rxOut EXCEPT ![r] = "ok"]
  \/ /\ fan = "broadcast" /\ tail - pos[r] > Ring
     /\ pos' = [pos EXCEPT ![r] = tail - Ring]
     /\ rxOut' = [rxOut EXCEPT ![r] = "lagged"]
  \/ /\ pos[r] = tail /\ tx = {}
     /\ rxOut' = [rxOut EXCEPT ![r] = "closed"] /\ pos' = pos

\* broadcast::Receiver::try_recv.
FanTryRecv(r) ==
  /\ fan = "broadcast" /\ rxpc[r] = "idle" /\ ~Lent(r)
  /\ \/ Read(r)
     \/ pos[r] = tail /\ tx # {} /\ rxOut' = [rxOut EXCEPT ![r] = "empty"] /\ pos' = pos
  /\ RxGoto(r, "answering")
  /\ UNCHANGED <<fan, tail, sendSeq, tx, rx, txpc, txOut, maker, asked, fanSeen, fanAux>>

\* Receiver::recv and Receiver::changed build a future.
FanRecv(r) ==
  /\ rxpc[r] = "idle" /\ ~Lent(r)
  /\ RxGoto(r, "polling")
  /\ UNCHANGED <<fan, fanReal, txpc, txOut, rxOut, maker, asked, fanSeen, fanAux>>

FanPollReady(r) ==
  /\ rxpc[r] \in {"polling", "waiting"}
  /\ Read(r)
  /\ RxGoto(r, "answering")
  /\ UNCHANGED <<fan, tail, sendSeq, tx, rx, txpc, txOut, maker, asked, fanSeen, fanAux>>

\* The first pending poll, for want of a value or of the task's budget.
FanPollPending(r) ==
  /\ rxpc[r] = "polling"
  /\ asked' = [asked EXCEPT ![r] = TRUE]
  /\ RxGoto(r, "requesting")
  /\ UNCHANGED <<fan, fanReal, txpc, txOut, rxOut, maker, fanSeen, fanAux>>

FanReportRequested(r) ==
  /\ rxpc[r] = "requesting"
  /\ obsAsk' = [obsAsk EXCEPT ![r] = TRUE]
  /\ RxGoto(r, "waiting")
  /\ UNCHANGED <<fan, fanReal, txpc, txOut, rxOut, maker, asked, obsTx, obsRxs, fanAux>>

FanReportReceived(r) ==
  /\ rxpc[r] = "answering"
  /\ obsAsk' = [obsAsk EXCEPT ![r] = FALSE]
  /\ asked' = [asked EXCEPT ![r] = FALSE]
  /\ rxOut' = [rxOut EXCEPT ![r] = "none"]
  /\ RxGoto(r, "idle")
  /\ UNCHANGED <<fan, fanReal, txpc, txOut, maker, obsTx, obsRxs, fanAux>>

\* Drop of the future: op_dropped if it was requested.
FanDropFuture(r) ==
  /\ rxpc[r] \in {"polling", "waiting"}
  /\ RxGoto(r, IF asked[r] THEN "cancelling" ELSE "idle")
  /\ UNCHANGED <<fan, fanReal, txpc, txOut, rxOut, maker, asked, fanSeen, fanAux>>

FanReportDropped(r) ==
  /\ rxpc[r] = "cancelling"
  /\ obsAsk' = [obsAsk EXCEPT ![r] = FALSE]
  /\ asked' = [asked EXCEPT ![r] = FALSE]
  /\ RxGoto(r, "idle")
  /\ UNCHANGED <<fan, fanReal, txpc, txOut, rxOut, maker, obsTx, obsRxs, fanAux>>

-----------------------------------------------------------------------------
FanTxNext(h) ==
  \/ FanAsk(h) \/ FanReportAsk(h) \/ FanSend(h) \/ FanCount(h) \/ FanReportSent(h)
  \/ CloneTxEnd(h) \/ DropTx(h) \/ DropTxInner(h)
  \/ \E g \in Tx : CloneTx(h, g)
  \/ \E r \in Rx : Subscribe(h, r)

FanRxNext(r) ==
  \/ ReportMade(r) \/ ReportSubscribed(r) \/ ReportResubscribed(r)
  \/ DropRx(r) \/ DropRxInner(r) \/ BorrowAndUpdate(r)
  \/ FanTryRecv(r) \/ FanRecv(r) \/ FanPollReady(r) \/ FanPollPending(r)
  \/ FanReportRequested(r) \/ FanReportReceived(r) \/ FanDropFuture(r) \/ FanReportDropped(r)
  \/ \E q \in Rx : Resubscribe(q, r) \/ CloneRx(q, r)

FanNext == (\E h \in Tx : FanTxNext(h)) \/ \E r \in Rx : FanRxNext(r)

FanSpec == FanInit /\ [][FanNext]_fanVars

-----------------------------------------------------------------------------
(* Properties. *)

\* When no real sender (receiver) is left, the events have said so: a receive
\* that ends in Closed, or a send that is refused, never contradicts a
\* consumer that counts endpoint_cloned and endpoint_dropped.
EndpointsCovered ==
  /\ tx = {} => obsTx = 0
  /\ rx = {} => obsRxs = 0

\* The position a broadcast receiver is reported to start from is where its
\* cursor really starts, unless a send was under way while it subscribed:
\* send_seq is advanced after the real send and read after the real subscribe.
PositionExactWhenQuiet ==
  \A r \in Rx : rxpc[r] \notin {"none", "made", "placing"} /\ fan = "broadcast" /\ ~overlap[r]
                  => at[r] = start[r]

\* A receive that was reported requested is still there, or on its way to the
\* report of its end: no future goes away with its request unanswered.
NoOrphanRequest ==
  \A r \in Rx : obsAsk[r] => rxpc[r] \in {"waiting", "answering", "cancelling"}

\* What a consumer of the events of a watch or broadcast channel relies on.
FanSound == FanTypeOK /\ EndpointsCovered /\ PositionExactWhenQuiet /\ NoOrphanRequest
=============================================================================
