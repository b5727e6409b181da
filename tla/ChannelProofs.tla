---------------------------- MODULE ChannelProofs ----------------------------
(***************************************************************************)
(* Theorems about Channel for any handles, ops, kinds and capacity: a      *)
(* consumer can trust the endpoints it counts and the outcomes it sees,    *)
(* and the events are a behaviour of ChannelTrace.                         *)
(***************************************************************************)
EXTENDS Channel, FiniteSetTheorems, TLAPS

\* The handles the events say exist.
Counted == {h \in Handle : hpc[h] \in {"idle", "consumed"}}

\* Calls whose real operation was a success, reported or not.
Won(S) == {o \in S : obs[o] = "ok" \/ (opc[o] = "answering" /\ out[o] = "ok")}

\* The events say why nothing more is received, or why nothing can be sent.
RecvEnded ==
  \/ obsSenders = 0
  \/ obsClosed
  \/ kind = "oneshot" /\ \E p \in RecvOp : obs[p] = "ok"
SendEnded == obsClosed \/ ~obsRx \/ rpc = "closing"

\* Where a call is tells what was reported of it.
OpInv ==
  \A o \in Op :
    /\ opc[o] \in {"unused", "made", "requesting"} => obs[o] = "none"
    /\ opc[o] \in {"unused", "made"} => ~requested[o]
    /\ opc[o] \in {"requesting", "waiting"} => requested[o]
    /\ opc[o] \in {"waiting", "cancelling"} => obs[o] = "requested"
    /\ opc[o] = "answering" => obs[o] \in {"none", "requested"} /\ out[o] \in Outcome

\* A handle that is sending, or being cloned from, is not dropped; a handle a
\* oneshot consumed left a value, or was refused.
HandleInv ==
  /\ \A h \in Handle : h \in live <=> hpc[h] \in {"cloning", "idle", "dropping"}
  /\ \A o \in SendOp : Active(o) => by[o] \in Counted
  /\ \A g \in Handle : hpc[g] = "cloning" => from[g] \in Handle /\ hpc[from[g]] = "idle"
  /\ \A h \in Handle : hpc[h] = "consumed" =>
       kind = "oneshot" /\ (buf # << >> \/ taken \/ shut)
  /\ kind = "oneshot" => \A h \in Handle : hpc[h] # "cloning"

CountInv == IsFiniteSet(Counted) /\ obsSenders = Cardinality(Counted)

\* A receive keeps the receiver, and only a oneshot leaves one waiting.
RxInv ==
  /\ obsRx <=> rpc \in {"idle", "closing", "ending"}
  /\ \A o \in RecvOp : Active(o) => rpc \in {"idle", "closing"}
  /\ kind = "oneshot" => \A o \in RecvOp \ {RxOp} : opc[o] \in {"unused", "answering", "done"}
  /\ kind # "oneshot" => \A o, p \in RecvOp : Active(o) /\ Active(p) => o = p
  /\ shut => obsClosed \/ rpc \in {"closing", "gone"}

\* A Closed that is about to be reported is explained already.
EndInv ==
  /\ \A o \in RecvOp :
       (opc[o] = "answering" /\ out[o] = "closed") \/ obs[o] = "closed" => RecvEnded
  /\ \A o \in SendOp :
       (opc[o] = "answering" /\ out[o] = "closed") \/ obs[o] = "closed" => SendEnded
  /\ taken => kind = "oneshot" /\ (RecvEnded \/ \E p \in RecvOp : opc[p] = "answering" /\ out[p] = "ok")

\* The buffer holds what was sent and not received.
BufInv ==
  /\ kind = "bounded" => Len(buf) <= Capacity
  /\ rpc # "gone" => Cardinality(Won(SendOp)) - Cardinality(Won(RecvOp)) = Len(buf)
  /\ rpc = "gone" => /\ shut
                     /\ Cardinality(Won(SendOp)) - Cardinality(Won(RecvOp)) >= 0
                     /\ kind = "bounded" =>
                          Cardinality(Won(SendOp)) - Cardinality(Won(RecvOp)) <= Capacity

ChanInv == TypeOK /\ OpInv /\ HandleInv /\ CountInv /\ RxInv /\ EndInv /\ BufInv
-----------------------------------------------------------------------------
\* What the model does with sequences.
LEMMA BufFacts ==
  ASSUME NEW q \in Seq(SendOp)
  PROVE  /\ Len(q) \in Nat /\ (q = << >> <=> Len(q) = 0)
         /\ \A o \in SendOp : /\ Append(q, o) \in Seq(SendOp) /\ Append(q, o) # << >>
                              /\ Len(Append(q, o)) = Len(q) + 1
         /\ q # << >> => Tail(q) \in Seq(SendOp) /\ Len(Tail(q)) = Len(q) - 1
  OBVIOUS

\* The successes are finitely many.
LEMMA WonFinite ==
  /\ IsFiniteSet(Won(SendOp)) /\ Cardinality(Won(SendOp)) \in Nat
  /\ IsFiniteSet(Won(RecvOp)) /\ Cardinality(Won(RecvOp)) \in Nat
<1>1. Won(SendOp) \in SUBSET Op /\ Won(RecvOp) \in SUBSET Op
  BY DEF Won, Op
<1> QED BY <1>1, OpsFinite, FS_Subset, FS_CardinalityType

\* A step that neither succeeds nor empties the buffer.
LEMMA SameBuf ==
  ASSUME ChanInv, Won(SendOp)' = Won(SendOp), Won(RecvOp)' = Won(RecvOp),
         kind' = kind, buf' = buf, rpc' = "gone" <=> rpc = "gone", shut => shut'
  PROVE  BufInv'
  BY DEF ChanInv, BufInv

\* A send that succeeds.
LEMMA PushBuf ==
  ASSUME ChanInv, NEW o \in SendOp, Push(o), o \notin Won(SendOp),
         Won(SendOp)' = Won(SendOp) \cup {o}, Won(RecvOp)' = Won(RecvOp),
         kind' = kind, rpc' = rpc
  PROVE  BufInv'
<1>1. Cardinality(Won(SendOp)') = Cardinality(Won(SendOp)) + 1
  BY WonFinite, FS_AddElement
<1>2. Len(buf) \in Nat /\ Len(buf') = Len(buf) + 1
  BY BufFacts DEF Push, ChanInv, TypeOK
<1>3. rpc # "gone"
  BY DEF Push, ChanInv, BufInv
<1>4. kind = "bounded" => Len(buf) < Capacity
  BY DEF Push
<1> QED BY <1>1, <1>2, <1>3, <1>4, WonFinite, CapacityOK DEF ChanInv, BufInv

\* A receive that succeeds.
LEMMA PopBuf ==
  ASSUME ChanInv, NEW o \in RecvOp, Pop, rpc = "idle", o \notin Won(RecvOp),
         Won(RecvOp)' = Won(RecvOp) \cup {o}, Won(SendOp)' = Won(SendOp),
         kind' = kind, rpc' = rpc
  PROVE  BufInv'
<1>1. Cardinality(Won(RecvOp)') = Cardinality(Won(RecvOp)) + 1
  BY WonFinite, FS_AddElement
<1>2. Len(buf) \in Nat /\ Len(buf') = Len(buf) - 1
  BY BufFacts DEF Pop, ChanInv, TypeOK
<1> QED BY <1>1, <1>2, WonFinite, CapacityOK DEF ChanInv, BufInv

\* The handles that are counted stay the same, or one comes or goes.
LEMMA CountSame ==
  ASSUME ChanInv, Counted' = Counted, obsSenders' = obsSenders
  PROVE  CountInv' /\ obsSenders' \in Nat
  BY DEF ChanInv, CountInv, TypeOK

LEMMA CountUp ==
  ASSUME ChanInv, NEW h, h \notin Counted, Counted' = Counted \cup {h},
         obsSenders' = obsSenders + 1
  PROVE  CountInv' /\ obsSenders' \in Nat
  BY FS_AddElement, FS_CardinalityType DEF ChanInv, CountInv, TypeOK

LEMMA CountDown ==
  ASSUME ChanInv, NEW h, h \in Counted, Counted' = Counted \ {h},
         obsSenders' = obsSenders - 1
  PROVE  CountInv' /\ obsSenders' \in Nat
<1>1. IsFiniteSet(Counted') /\ Cardinality(Counted') = Cardinality(Counted) - 1
  BY FS_RemoveElement DEF ChanInv, CountInv
<1>2. Cardinality(Counted') \in Nat
  BY <1>1, FS_CardinalityType
<1> QED BY <1>1, <1>2 DEF ChanInv, CountInv

\* A counted handle is a sender the consumer knows of.
LEMMA CountedAlive ==
  ASSUME ChanInv, NEW h \in Counted
  PROVE  obsSenders > 0 /\ obsSenders \in Nat
  BY FS_EmptySet, FS_CardinalityType DEF ChanInv, CountInv

\* A channel is born consistent.
LEMMA ChanInvInit == Init => ChanInv
<1> SUFFICES ASSUME Init PROVE ChanInv
  OBVIOUS
<1>0. OpsDistinct /\ HandlesOK
  BY OpsDistinct, HandlesOK
<1>1. Counted = {First} /\ Won(SendOp) = {} /\ Won(RecvOp) = {}
  BY HandlesOK DEF Init, Counted, Won, Op
<1>2. CountInv
  BY <1>1, FS_Singleton DEF CountInv, Init
<1>3. BufInv
  BY <1>1, FS_EmptySet, CapacityOK DEF BufInv, Init
<1>4. TypeOK
  <2>1. shut \in BOOLEAN /\ taken \in BOOLEAN /\ obsRx \in BOOLEAN /\ obsClosed \in BOOLEAN
    BY Zenon DEF Init
  <2>2. requested \in [Op -> BOOLEAN]
    BY DEF Init
  <2>3. /\ hpc \in [Handle -> HandlePC] /\ from \in [Handle -> Handle \cup {None}]
        /\ live \subseteq Handle /\ rpc \in RxPC
    BY HandlesOK DEF Init, HandlePC, RxPC
  <2>4. /\ opc \in [Op -> OpPC] /\ by \in [SendOp -> Handle \cup {None}]
        /\ out \in [Op -> Outcome \cup {"none"}]
        /\ obs \in [Op -> Outcome \cup {"none", "requested", "dropped"}]
    BY DEF Init, OpPC, Outcome
  <2>5. kind \in Kinds /\ buf \in Seq(SendOp) /\ obsSenders \in Nat
    BY DEF Init
  <2> QED BY <2>1, <2>2, <2>3, <2>4, <2>5 DEF TypeOK
<1>5. OpInv
  BY DEF Init, OpInv
<1>6. HandleInv
  BY OpsDistinct, HandlesOK DEF Init, HandleInv, Active, Counted, Op
<1>7. RxInv /\ EndInv
  BY OpsDistinct DEF Init, RxInv, EndInv, Active, RecvEnded, Op
<1> QED BY <1>2, <1>3, <1>4, <1>5, <1>6, <1>7 DEF ChanInv

\* Nothing is left to come: the consumer was told, or is told by what it saw.
LEMMA NothingComes ==
  ASSUME ChanInv, NoMore, rpc = "idle", kind = "oneshot" => ~taken
  PROVE  RecvEnded
<1> USE DEF ChanInv
<1>1. CASE shut
  BY <1>1 DEF RxInv, RecvEnded
<1>2. CASE ~shut
  <2>1. live = {} /\ buf = << >>
    BY <1>2 DEF NoMore
  <2>2. Counted = {}
    BY <1>2, <2>1 DEF HandleInv, Counted
  <2> QED BY <2>2, FS_EmptySet DEF CountInv, RecvEnded
<1> QED BY <1>1, <1>2

\* A oneshot that is taken and not borrowed has reported why.
LEMMA TakenEnded ==
  ASSUME ChanInv, taken, RxFree
  PROVE  RecvEnded
  BY DEF ChanInv, EndInv, RxFree

\* A send call got its answer; the handle and the call's fields apart.
LEMMA SendAnswered ==
  ASSUME ChanInv, NEW o \in SendOp, NEW r \in {"ok", "full", "closed"},
         opc[o] \in {"unused", "made", "waiting"},
         (r = "ok" /\ Push(o)) \/ (r # "ok" /\ UNCHANGED <<buf, shut, taken>>),
         r = "closed" => shut,
         opc' = [opc EXCEPT ![o] = "answering"], out' = [out EXCEPT ![o] = r],
         UNCHANGED <<kind, rpc, requested, seen>>
  PROVE  OpInv' /\ RxInv' /\ EndInv' /\ BufInv'
<1> USE DEF ChanInv
<1>0. SendOp \cap RecvOp = {} /\ o \in Op /\ UNCHANGED <<obs, obsSenders, obsRx, obsClosed>>
      /\ shut' = shut /\ taken' = taken
  BY OpsDistinct DEF Op, seen, Push
<1>1. /\ opc'[o] = "answering" /\ out'[o] = r /\ obs[o] \in {"none", "requested"}
      /\ \A p \in Op \ {o} : opc'[p] = opc[p] /\ out'[p] = out[p]
  BY <1>0 DEF TypeOK, OpInv
<1>2. OpInv'
  BY <1>0, <1>1 DEF OpInv, Outcome
<1>3. RxInv'
  BY <1>0, <1>1 DEF RxInv, Active, Op
<1>4. EndInv'
  <2>1. RecvEnded' = RecvEnded /\ SendEnded' = SendEnded
    BY <1>0 DEF RecvEnded, SendEnded
  <2>2. r = "closed" => SendEnded
    BY DEF RxInv, SendEnded
  <2>3. \A p \in RecvOp : opc'[p] = opc[p] /\ out'[p] = out[p]
    BY <1>0, <1>1 DEF Op
  <2>4. \A p \in SendOp : p # o => opc'[p] = opc[p] /\ out'[p] = out[p]
    BY <1>0, <1>1 DEF Op
  <2> QED BY <1>0, <1>1, <2>1, <2>2, <2>3, <2>4 DEF EndInv
<1>5. BufInv'
  <2>1. Won(RecvOp)' = Won(RecvOp)
    BY <1>0, <1>1 DEF Won, Op
  <2>2. o \notin Won(SendOp)
    BY <1>1 DEF Won
  <2>3. CASE r = "ok"
    <3>1. Won(SendOp)' = Won(SendOp) \cup {o}
      BY <1>0, <1>1, <2>3 DEF Won, Op
    <3> QED BY <2>1, <2>2, <2>3, <3>1, PushBuf
  <2>4. CASE r # "ok"
    <3>1. Won(SendOp)' = Won(SendOp)
      BY <1>0, <1>1, <2>4 DEF Won, Op
    <3> QED BY <1>0, <2>1, <2>4, <3>1, SameBuf
  <2> QED BY <2>3, <2>4
<1> QED BY <1>2, <1>3, <1>4, <1>5

\* A receive got its answer.
LEMMA RecvAnswered ==
  ASSUME ChanInv, NEW o \in RecvOp, NEW r \in {"ok", "closed", "empty"},
         rpc = "idle", opc[o] \in {"unused", "made", "waiting"},
         kind # "oneshot" => \A p \in RecvOp \ {o} : ~Active(p),
         \/ r = "ok" /\ Pop
         \/ r = "closed" /\ NoMore /\ (kind = "oneshot" => ~taken)
         \/ UNCHANGED real /\ (r = "closed" => taken /\ RxFree) /\ r # "ok",
         opc' = [opc EXCEPT ![o] = "answering"], out' = [out EXCEPT ![o] = r],
         UNCHANGED <<kind, hpc, from, rpc, by, requested, seen>>
  PROVE  ChanInv'
<1> USE DEF ChanInv
<1>0. SendOp \cap RecvOp = {} /\ o \in Op /\ UNCHANGED <<obs, obsSenders, obsRx, obsClosed>>
  BY OpsDistinct DEF Op, seen
<1>1. /\ opc'[o] = "answering" /\ out'[o] = r /\ obs[o] \in {"none", "requested"}
      /\ \A p \in Op \ {o} : opc'[p] = opc[p] /\ out'[p] = out[p]
  BY <1>0 DEF TypeOK, OpInv
<1>2. /\ live' = live /\ shut' = shut /\ (taken' \in BOOLEAN) /\ buf' \in Seq(SendOp)
      /\ taken' => taken \/ (kind = "oneshot" /\ (r = "ok" \/ r = "closed"))
      /\ kind = "oneshot" => (taken => taken') /\ (buf = << >> \/ buf' = buf \/ taken')
  <2>1. live' = live /\ shut' = shut
    BY DEF Pop, NoMore, real
  <2>2. buf' \in Seq(SendOp)
    BY BufFacts DEF Pop, NoMore, real, TypeOK
  <2>3. taken' \in BOOLEAN
    BY DEF Pop, NoMore, real, TypeOK
  <2>4. /\ taken' => taken \/ (kind = "oneshot" /\ (r = "ok" \/ r = "closed"))
        /\ kind = "oneshot" => (taken => taken') /\ (buf = << >> \/ buf' = buf \/ taken')
    <3>1. CASE UNCHANGED real
      BY <3>1 DEF real
    <3>2. CASE ~UNCHANGED real
      <4>1. (taken' <=> kind = "oneshot") /\ (r = "ok" \/ r = "closed")
        BY <3>2 DEF Pop, NoMore
      <4> QED BY <4>1
    <3> QED BY <3>1, <3>2
  <2> QED BY <2>1, <2>2, <2>3, <2>4
<1>3. TypeOK'
  <2>1. (opc \in [Op -> OpPC])' /\ (out \in [Op -> Outcome \cup {"none"}])'
    BY DEF TypeOK, OpPC, Outcome
  <2> QED BY <1>0, <1>2, <2>1 DEF TypeOK
<1>4. OpInv'
  BY <1>0, <1>1 DEF OpInv, Outcome
<1>5. HandleInv'
  <2>1. \A p \in SendOp : Active(p)' <=> Active(p)
    BY <1>0, <1>1 DEF Active, Op
  <2>2. kind = "oneshot" /\ (buf # << >> \/ taken \/ shut) => buf' # << >> \/ taken' \/ shut'
    BY <1>2
  <2> QED BY <1>2, <2>1, <2>2 DEF HandleInv, Counted
<1>6. CountInv'
  <2>1. Counted' = Counted
    BY DEF Counted
  <2> QED BY <1>0, <2>1, CountSame
<1>7. RxInv'
  <2>1. \A p \in RecvOp : p # o => opc'[p] = opc[p] /\ (Active(p)' <=> Active(p))
    BY <1>1 DEF Op, Active
  <2>2. kind # "oneshot" => \A p \in RecvOp : Active(p)' => p = o
    BY <2>1
  <2> QED BY <1>0, <1>1, <1>2, <2>1, <2>2 DEF RxInv
<1>8. EndInv'
  <2>1. (RecvEnded' <=> RecvEnded) /\ (SendEnded' <=> SendEnded)
    BY <1>0 DEF RecvEnded, SendEnded
  <2>2. r = "closed" => RecvEnded
    BY NothingComes, TakenEnded
  <2>3. \A p \in RecvOp : p # o => opc'[p] = opc[p] /\ out'[p] = out[p]
    BY <1>1 DEF Op
  <2>4. \A p \in SendOp : opc'[p] = opc[p] /\ out'[p] = out[p]
    BY <1>0, <1>1 DEF Op
  <2>5. taken' => kind' = "oneshot" /\ (RecvEnded' \/ \E p \in RecvOp : opc'[p] = "answering" /\ out'[p] = "ok")
    BY <1>1, <1>2, <2>1, <2>2, <2>3 DEF EndInv
  <2> QED BY <1>0, <1>1, <2>1, <2>2, <2>3, <2>4, <2>5 DEF EndInv
<1>9. BufInv'
  <2>1. Won(SendOp)' = Won(SendOp)
    BY <1>0, <1>1 DEF Won, Op
  <2>2. o \notin Won(RecvOp)
    BY <1>1 DEF Won
  <2>3. CASE r = "ok"
    <3>1. Won(RecvOp)' = Won(RecvOp) \cup {o}
      BY <1>0, <1>1, <2>3 DEF Won, Op
    <3>2. Pop
      BY <2>3
    <3> QED BY <2>1, <2>2, <3>1, <3>2, PopBuf
  <2>4. CASE r # "ok"
    <3>1. Won(RecvOp)' = Won(RecvOp)
      BY <1>0, <1>1, <2>4 DEF Won, Op
    <3>2. buf' = buf
      BY <2>4 DEF NoMore, real
    <3> QED BY <1>2, <2>1, <3>1, <3>2, SameBuf
  <2> QED BY <2>3, <2>4
<1> QED BY <1>3, <1>4, <1>5, <1>6, <1>7, <1>8, <1>9

\* Sender::send.
LEMMA SendStep ==
  ASSUME ChanInv, NEW h \in Handle, NEW o \in SendOp, Send(h, o)
  PROVE  ChanInv'
<1> USE DEF ChanInv
<1>0. SendOp \cap RecvOp = {} /\ RxOp \in RecvOp /\ None \notin Handle
  BY OpsDistinct, HandlesOK
<1>1. CountInv' /\ obsSenders' \in Nat
  <2>1. Counted' = Counted /\ obsSenders' = obsSenders
    BY DEF Send, Step, real, seen, Counted, TypeOK
  <2> QED BY <2>1, CountSame
<1>2. TypeOK'
  BY <1>0, <1>1, BufFacts DEF Send, Step, real, seen, TypeOK, HandlePC, RxPC, OpPC, Outcome,
     Op
<1>3. OpInv'
  BY <1>0 DEF Send, Step, real, seen, TypeOK, OpInv, Outcome, Op
<1>4. HandleInv'
  BY <1>0, BufFacts DEF Send, Step, real, seen, TypeOK, HandleInv, Active, Counted, Op
<1>5. RxInv'
  BY <1>0 DEF Send, Step, real, seen, TypeOK, RxInv, Active, Op
<1>6. EndInv'
  BY <1>0 DEF Send, Step, real, seen, TypeOK, EndInv, OpInv, RecvEnded, SendEnded, Op
<1>7. BufInv'
  <2>1. Won(SendOp)' = Won(SendOp) /\ Won(RecvOp)' = Won(RecvOp)
    BY <1>0 DEF Send, Step, real, seen, TypeOK, OpInv, Won, Op
  <2>2. kind' = kind /\ buf' = buf /\ (rpc' = "gone" <=> rpc = "gone") /\ (shut => shut')
    BY DEF Send, Step, real, seen
  <2> QED BY <2>1, <2>2, SameBuf
<1> QED BY <1>1, <1>2, <1>3, <1>4, <1>5, <1>6, <1>7

\* Sender::try_send.
LEMMA TrySendStep ==
  ASSUME ChanInv, NEW h \in Handle, NEW o \in SendOp, TrySend(h, o)
  PROVE  ChanInv'
<1> USE DEF ChanInv
<1>0. SendOp \cap RecvOp = {} /\ RxOp \in RecvOp /\ None \notin Handle
  BY OpsDistinct, HandlesOK
<1>a. PICK r \in {"ok", "full", "closed"} :
        /\ (r = "ok" /\ Push(o)) \/ (r # "ok" /\ UNCHANGED <<buf, shut, taken>>)
        /\ r = "closed" => shut
        /\ Immediate(h, o, r)
  BY DEF TrySend
<1>b. OpInv' /\ RxInv' /\ EndInv' /\ BufInv'
  BY <1>a, SendAnswered DEF Immediate, Step
<1>c. UNCHANGED <<kind, from, rpc, requested, obs, obsSenders, obsRx, obsClosed>>
      /\ hpc[h] = "idle" /\ by' = [by EXCEPT ![o] = h] /\ out' = [out EXCEPT ![o] = r]
      /\ opc' = [opc EXCEPT ![o] = "answering"]
  BY <1>a DEF Immediate, Step, seen
<1>d. /\ buf' \in Seq(SendOp) /\ (shut \in BOOLEAN)' /\ (taken \in BOOLEAN)'
      /\ r = "ok" => buf' # << >>
      /\ (buf # << >> => buf' # << >>) /\ shut' = shut /\ taken' = taken
  BY <1>a, BufFacts DEF Push, TypeOK
<1>e. live' = live /\ hpc' = hpc
  BY DEF TrySend
<1>1. CountInv' /\ obsSenders' \in Nat
  <2>1. Counted' = Counted /\ obsSenders' = obsSenders
    BY <1>c, <1>e DEF Counted, TypeOK
  <2> QED BY <2>1, CountSame
<1>2. TypeOK'
  <2>1. (live \subseteq Handle)' /\ (hpc \in [Handle -> HandlePC])'
    BY <1>e DEF TypeOK, HandlePC
  <2>2. /\ (opc \in [Op -> OpPC])' /\ (by \in [SendOp -> Handle \cup {None}])'
        /\ (out \in [Op -> Outcome \cup {"none"}])'
    BY <1>c DEF TypeOK, OpPC, Outcome, Op
  <2> QED BY <1>1, <1>c, <1>d, <2>1, <2>2 DEF TypeOK
<1>3. OpInv'
  BY <1>b
<1>4. HandleInv'
  <2>1. Counted' = Counted
    BY <1>c, <1>e DEF Counted, TypeOK
  <2>2. \A k \in Handle : k \in live' <=> hpc'[k] \in {"cloning", "idle", "dropping"}
    BY <1>c, <1>e DEF HandleInv, TypeOK
  <2>3. ASSUME NEW p \in SendOp, Active(p)' PROVE by'[p] \in Counted'
    <3>1. CASE p = o
      BY <1>c, <2>1, <3>1 DEF Counted, TypeOK
    <3>2. CASE p # o
      BY <1>0, <1>c, <2>1, <2>3, <3>2 DEF HandleInv, Active, TypeOK, Op
    <3> QED BY <3>1, <3>2
  <2>4. \A k \in Handle : hpc'[k] = "cloning" => from'[k] \in Handle /\ hpc'[from'[k]] = "idle"
    BY <1>c, <1>e DEF HandleInv, TypeOK
  <2>5. ASSUME NEW k \in Handle, hpc'[k] = "consumed"
        PROVE  kind' = "oneshot" /\ (buf' # << >> \/ taken' \/ shut')
    BY <1>c, <1>d, <1>e, <2>5 DEF HandleInv
  <2>6. kind' = "oneshot" => \A k \in Handle : hpc'[k] # "cloning"
    BY <1>c, <1>e DEF HandleInv, TypeOK
  <2> QED BY <2>2, <2>3, <2>4, <2>5, <2>6 DEF HandleInv
<1>5. RxInv'
  BY <1>b
<1>6. EndInv'
  BY <1>b
<1>7. BufInv'
  BY <1>b
<1> QED BY <1>1, <1>2, <1>3, <1>4, <1>5, <1>6, <1>7

\* UnboundedSender::send.
LEMMA UnboundedSendStep ==
  ASSUME ChanInv, NEW h \in Handle, NEW o \in SendOp, UnboundedSend(h, o)
  PROVE  ChanInv'
<1> USE DEF ChanInv
<1>0. SendOp \cap RecvOp = {} /\ RxOp \in RecvOp /\ None \notin Handle
  BY OpsDistinct, HandlesOK
<1>a. PICK r \in {"ok", "full", "closed"} :
        /\ (r = "ok" /\ Push(o)) \/ (r # "ok" /\ UNCHANGED <<buf, shut, taken>>)
        /\ r = "closed" => shut
        /\ Immediate(h, o, r)
  BY DEF UnboundedSend
<1>b. OpInv' /\ RxInv' /\ EndInv' /\ BufInv'
  BY <1>a, SendAnswered DEF Immediate, Step
<1>c. UNCHANGED <<kind, from, rpc, requested, obs, obsSenders, obsRx, obsClosed>>
      /\ hpc[h] = "idle" /\ by' = [by EXCEPT ![o] = h] /\ out' = [out EXCEPT ![o] = r]
      /\ opc' = [opc EXCEPT ![o] = "answering"]
  BY <1>a DEF Immediate, Step, seen
<1>d. /\ buf' \in Seq(SendOp) /\ (shut \in BOOLEAN)' /\ (taken \in BOOLEAN)'
      /\ r = "ok" => buf' # << >>
      /\ (buf # << >> => buf' # << >>) /\ shut' = shut /\ taken' = taken
  BY <1>a, BufFacts DEF Push, TypeOK
<1>e. live' = live /\ hpc' = hpc
  BY DEF UnboundedSend
<1>1. CountInv' /\ obsSenders' \in Nat
  <2>1. Counted' = Counted /\ obsSenders' = obsSenders
    BY <1>c, <1>e DEF Counted, TypeOK
  <2> QED BY <2>1, CountSame
<1>2. TypeOK'
  <2>1. (live \subseteq Handle)' /\ (hpc \in [Handle -> HandlePC])'
    BY <1>e DEF TypeOK, HandlePC
  <2>2. /\ (opc \in [Op -> OpPC])' /\ (by \in [SendOp -> Handle \cup {None}])'
        /\ (out \in [Op -> Outcome \cup {"none"}])'
    BY <1>c DEF TypeOK, OpPC, Outcome, Op
  <2> QED BY <1>1, <1>c, <1>d, <2>1, <2>2 DEF TypeOK
<1>3. OpInv'
  BY <1>b
<1>4. HandleInv'
  <2>1. Counted' = Counted
    BY <1>c, <1>e DEF Counted, TypeOK
  <2>2. \A k \in Handle : k \in live' <=> hpc'[k] \in {"cloning", "idle", "dropping"}
    BY <1>c, <1>e DEF HandleInv, TypeOK
  <2>3. ASSUME NEW p \in SendOp, Active(p)' PROVE by'[p] \in Counted'
    <3>1. CASE p = o
      BY <1>c, <2>1, <3>1 DEF Counted, TypeOK
    <3>2. CASE p # o
      BY <1>0, <1>c, <2>1, <2>3, <3>2 DEF HandleInv, Active, TypeOK, Op
    <3> QED BY <3>1, <3>2
  <2>4. \A k \in Handle : hpc'[k] = "cloning" => from'[k] \in Handle /\ hpc'[from'[k]] = "idle"
    BY <1>c, <1>e DEF HandleInv, TypeOK
  <2>5. ASSUME NEW k \in Handle, hpc'[k] = "consumed"
        PROVE  kind' = "oneshot" /\ (buf' # << >> \/ taken' \/ shut')
    BY <1>c, <1>d, <1>e, <2>5 DEF HandleInv
  <2>6. kind' = "oneshot" => \A k \in Handle : hpc'[k] # "cloning"
    BY <1>c, <1>e DEF HandleInv, TypeOK
  <2> QED BY <2>2, <2>3, <2>4, <2>5, <2>6 DEF HandleInv
<1>5. RxInv'
  BY <1>b
<1>6. EndInv'
  BY <1>b
<1>7. BufInv'
  BY <1>b
<1> QED BY <1>1, <1>2, <1>3, <1>4, <1>5, <1>6, <1>7

\* oneshot::Sender::send.
LEMMA OneshotSendStep ==
  ASSUME ChanInv, NEW h \in Handle, NEW o \in SendOp, OneshotSend(h, o)
  PROVE  ChanInv'
<1> USE DEF ChanInv
<1>0. SendOp \cap RecvOp = {} /\ RxOp \in RecvOp /\ None \notin Handle
  BY OpsDistinct, HandlesOK
<1>a. PICK r \in {"ok", "full", "closed"} :
        /\ (r = "ok" /\ Push(o)) \/ (r # "ok" /\ UNCHANGED <<buf, shut, taken>>)
        /\ r = "closed" => shut
        /\ Immediate(h, o, r)
        /\ r # "full"
  BY DEF OneshotSend
<1>b. OpInv' /\ RxInv' /\ EndInv' /\ BufInv'
  BY <1>a, SendAnswered DEF Immediate, Step
<1>c. UNCHANGED <<kind, from, rpc, requested, obs, obsSenders, obsRx, obsClosed>>
      /\ hpc[h] = "idle" /\ by' = [by EXCEPT ![o] = h] /\ out' = [out EXCEPT ![o] = r]
      /\ opc' = [opc EXCEPT ![o] = "answering"]
  BY <1>a DEF Immediate, Step, seen
<1>d. /\ buf' \in Seq(SendOp) /\ (shut \in BOOLEAN)' /\ (taken \in BOOLEAN)'
      /\ r = "ok" => buf' # << >>
      /\ (buf # << >> => buf' # << >>) /\ shut' = shut /\ taken' = taken
  BY <1>a, BufFacts DEF Push, TypeOK
<1>e. live' = live \ {h} /\ hpc' = [hpc EXCEPT ![h] = "consumed"] /\ kind = "oneshot"
  BY DEF OneshotSend
<1>1. CountInv' /\ obsSenders' \in Nat
  <2>1. Counted' = Counted /\ obsSenders' = obsSenders
    BY <1>c, <1>e DEF Counted, TypeOK
  <2> QED BY <2>1, CountSame
<1>2. TypeOK'
  <2>1. (live \subseteq Handle)' /\ (hpc \in [Handle -> HandlePC])'
    BY <1>e DEF TypeOK, HandlePC
  <2>2. /\ (opc \in [Op -> OpPC])' /\ (by \in [SendOp -> Handle \cup {None}])'
        /\ (out \in [Op -> Outcome \cup {"none"}])'
    BY <1>c DEF TypeOK, OpPC, Outcome, Op
  <2> QED BY <1>1, <1>c, <1>d, <2>1, <2>2 DEF TypeOK
<1>3. OpInv'
  BY <1>b
<1>4. HandleInv'
  <2>1. Counted' = Counted
    BY <1>c, <1>e DEF Counted, TypeOK
  <2>2. \A k \in Handle : k \in live' <=> hpc'[k] \in {"cloning", "idle", "dropping"}
    BY <1>c, <1>e DEF HandleInv, TypeOK
  <2>3. ASSUME NEW p \in SendOp, Active(p)' PROVE by'[p] \in Counted'
    <3>1. CASE p = o
      BY <1>c, <2>1, <3>1 DEF Counted, TypeOK
    <3>2. CASE p # o
      BY <1>0, <1>c, <2>1, <2>3, <3>2 DEF HandleInv, Active, TypeOK, Op
    <3> QED BY <3>1, <3>2
  <2>4. \A k \in Handle : hpc'[k] = "cloning" => from'[k] \in Handle /\ hpc'[from'[k]] = "idle"
    BY <1>c, <1>e DEF HandleInv, TypeOK
  <2>5. ASSUME NEW k \in Handle, hpc'[k] = "consumed"
        PROVE  kind' = "oneshot" /\ (buf' # << >> \/ taken' \/ shut')
    <3>1. CASE k = h /\ r = "ok"
      BY <1>c, <1>d, <1>e, <3>1
    <3>2. CASE k = h /\ r # "ok"
      BY <1>a, <1>c, <1>d, <1>e, <3>2 DEF OneshotSend
    <3>3. CASE k # h
      BY <1>c, <1>d, <1>e, <2>5, <3>3 DEF HandleInv, TypeOK
    <3> QED BY <3>1, <3>2, <3>3
  <2>6. kind' = "oneshot" => \A k \in Handle : hpc'[k] # "cloning"
    BY <1>c, <1>e DEF HandleInv, TypeOK
  <2> QED BY <2>2, <2>3, <2>4, <2>5, <2>6 DEF HandleInv
<1>5. RxInv'
  BY <1>b
<1>6. EndInv'
  BY <1>b
<1>7. BufInv'
  BY <1>b
<1> QED BY <1>1, <1>2, <1>3, <1>4, <1>5, <1>6, <1>7

\* A sender is cloned.
LEMMA CloneStep ==
  ASSUME ChanInv, NEW h \in Handle, NEW g \in Handle, Clone(h, g)
  PROVE  ChanInv'
<1> USE DEF ChanInv
<1>0. SendOp \cap RecvOp = {} /\ RxOp \in RecvOp /\ None \notin Handle
  BY OpsDistinct, HandlesOK
<1>1. CountInv' /\ obsSenders' \in Nat
  <2>1. Counted' = Counted /\ obsSenders' = obsSenders
    BY DEF Clone, real, seen, Counted, TypeOK
  <2> QED BY <2>1, CountSame
<1>2. TypeOK'
  BY <1>0, <1>1, BufFacts DEF Clone, real, seen, TypeOK, HandlePC, RxPC, OpPC, Outcome, Op
<1>3. OpInv'
  BY <1>0 DEF Clone, real, seen, TypeOK, OpInv, Outcome, Op
<1>4. HandleInv'
  BY <1>0, BufFacts DEF Clone, real, seen, TypeOK, HandleInv, Active, Counted, Op
<1>5. RxInv'
  BY <1>0 DEF Clone, real, seen, TypeOK, RxInv, Active, Op
<1>6. EndInv'
  BY <1>0 DEF Clone, real, seen, TypeOK, EndInv, OpInv, RecvEnded, SendEnded, Op
<1>7. BufInv'
  <2>1. Won(SendOp)' = Won(SendOp) /\ Won(RecvOp)' = Won(RecvOp)
    BY <1>0 DEF Clone, real, seen, TypeOK, OpInv, Won, Op
  <2>2. kind' = kind /\ buf' = buf /\ (rpc' = "gone" <=> rpc = "gone") /\ (shut => shut')
    BY DEF Clone, real, seen
  <2> QED BY <2>1, <2>2, SameBuf
<1> QED BY <1>1, <1>2, <1>3, <1>4, <1>5, <1>6, <1>7

\* endpoint_cloned.
LEMMA ReportCloneStep ==
  ASSUME ChanInv, NEW g \in Handle, ReportClone(g)
  PROVE  ChanInv'
<1> USE DEF ChanInv
<1>0. SendOp \cap RecvOp = {} /\ RxOp \in RecvOp /\ None \notin Handle
  BY OpsDistinct, HandlesOK
<1>a. from[g] \in Counted /\ g \notin Counted /\ Counted' = Counted \cup {g}
  BY DEF ReportClone, HandleInv, Counted, TypeOK
<1>b. obsSenders > 0 /\ obsSenders \in Nat /\ obsSenders' = obsSenders + 1
  BY <1>a, CountedAlive DEF ReportClone
<1>1. CountInv' /\ obsSenders' \in Nat
  BY <1>a, <1>b, CountUp
<1>2. TypeOK'
  BY <1>0, <1>1, BufFacts DEF ReportClone, real, seen, TypeOK, HandlePC, RxPC, OpPC,
     Outcome, Op
<1>3. OpInv'
  BY <1>0 DEF ReportClone, real, seen, TypeOK, OpInv, Outcome, Op
<1>4. HandleInv'
  BY <1>0, BufFacts DEF ReportClone, real, seen, TypeOK, HandleInv, Active, Counted, Op
<1>5. RxInv'
  BY <1>0 DEF ReportClone, real, seen, TypeOK, RxInv, Active, Op
<1>6. EndInv'
  BY <1>0, <1>b DEF ReportClone, real, EndInv, RecvEnded, SendEnded
<1>7. BufInv'
  <2>1. Won(SendOp)' = Won(SendOp) /\ Won(RecvOp)' = Won(RecvOp)
    BY <1>0 DEF ReportClone, real, seen, TypeOK, OpInv, Won, Op
  <2>2. kind' = kind /\ buf' = buf /\ (rpc' = "gone" <=> rpc = "gone") /\ (shut => shut')
    BY DEF ReportClone, real, seen
  <2> QED BY <2>1, <2>2, SameBuf
<1> QED BY <1>1, <1>2, <1>3, <1>4, <1>5, <1>6, <1>7

\* endpoint_dropped of a sender.
LEMMA DropSenderStep ==
  ASSUME ChanInv, NEW h \in Handle, DropSender(h)
  PROVE  ChanInv'
<1> USE DEF ChanInv
<1>0. SendOp \cap RecvOp = {} /\ RxOp \in RecvOp /\ None \notin Handle
  BY OpsDistinct, HandlesOK
<1>a. h \in Counted /\ Counted' = Counted \ {h}
  BY DEF DropSender, HandleFree, Counted, TypeOK
<1>b. obsSenders > 0 /\ obsSenders \in Nat /\ obsSenders' = obsSenders - 1
  BY <1>a, CountedAlive DEF DropSender
<1>1. CountInv' /\ obsSenders' \in Nat
  BY <1>a, <1>b, CountDown
<1>2. TypeOK'
  BY <1>0, <1>1, BufFacts DEF DropSender, HandleFree, real, seen, TypeOK, HandlePC, RxPC,
     OpPC, Outcome, Op
<1>3. OpInv'
  BY <1>0 DEF DropSender, HandleFree, real, seen, TypeOK, OpInv, Outcome, Op
<1>4. HandleInv'
  BY <1>0, BufFacts DEF DropSender, HandleFree, real, seen, TypeOK, HandleInv, Active,
     Counted, Op
<1>5. RxInv'
  BY <1>0 DEF DropSender, HandleFree, real, seen, TypeOK, RxInv, Active, Op
<1>6. EndInv'
  BY <1>0, <1>b DEF DropSender, real, EndInv, RecvEnded, SendEnded
<1>7. BufInv'
  <2>1. Won(SendOp)' = Won(SendOp) /\ Won(RecvOp)' = Won(RecvOp)
    BY <1>0 DEF DropSender, HandleFree, real, seen, TypeOK, OpInv, Won, Op
  <2>2. kind' = kind /\ buf' = buf /\ (rpc' = "gone" <=> rpc = "gone") /\ (shut => shut')
    BY DEF DropSender, HandleFree, real, seen
  <2> QED BY <2>1, <2>2, SameBuf
<1> QED BY <1>1, <1>2, <1>3, <1>4, <1>5, <1>6, <1>7

\* The real sender goes.
LEMMA DropSenderInnerStep ==
  ASSUME ChanInv, NEW h \in Handle, DropSenderInner(h)
  PROVE  ChanInv'
<1> USE DEF ChanInv
<1>0. SendOp \cap RecvOp = {} /\ RxOp \in RecvOp /\ None \notin Handle
  BY OpsDistinct, HandlesOK
<1>1. CountInv' /\ obsSenders' \in Nat
  <2>1. Counted' = Counted /\ obsSenders' = obsSenders
    BY DEF DropSenderInner, real, seen, Counted, TypeOK
  <2> QED BY <2>1, CountSame
<1>2. TypeOK'
  BY <1>0, <1>1, BufFacts DEF DropSenderInner, real, seen, TypeOK, HandlePC, RxPC, OpPC,
     Outcome, Op
<1>3. OpInv'
  BY <1>0 DEF DropSenderInner, real, seen, TypeOK, OpInv, Outcome, Op
<1>4. HandleInv'
  BY <1>0, BufFacts DEF DropSenderInner, real, seen, TypeOK, HandleInv, Active, Counted, Op
<1>5. RxInv'
  BY <1>0 DEF DropSenderInner, real, seen, TypeOK, RxInv, Active, Op
<1>6. EndInv'
  BY <1>0 DEF DropSenderInner, real, seen, TypeOK, EndInv, OpInv, RecvEnded, SendEnded, Op
<1>7. BufInv'
  <2>1. Won(SendOp)' = Won(SendOp) /\ Won(RecvOp)' = Won(RecvOp)
    BY <1>0 DEF DropSenderInner, real, seen, TypeOK, OpInv, Won, Op
  <2>2. kind' = kind /\ buf' = buf /\ (rpc' = "gone" <=> rpc = "gone") /\ (shut => shut')
    BY DEF DropSenderInner, real, seen
  <2> QED BY <2>1, <2>2, SameBuf
<1> QED BY <1>1, <1>2, <1>3, <1>4, <1>5, <1>6, <1>7

\* Receiver::recv.
LEMMA RecvStep ==
  ASSUME ChanInv, NEW o \in RecvOp, Recv(o)
  PROVE  ChanInv'
<1> USE DEF ChanInv
<1>0. SendOp \cap RecvOp = {} /\ RxOp \in RecvOp /\ None \notin Handle
  BY OpsDistinct, HandlesOK
<1>1. CountInv' /\ obsSenders' \in Nat
  <2>1. Counted' = Counted /\ obsSenders' = obsSenders
    BY DEF Recv, RxFree, Step, real, seen, Counted, TypeOK
  <2> QED BY <2>1, CountSame
<1>2. TypeOK'
  BY <1>0, <1>1, BufFacts DEF Recv, RxFree, Step, real, seen, TypeOK, HandlePC, RxPC, OpPC,
     Outcome, Op
<1>3. OpInv'
  BY <1>0 DEF Recv, RxFree, Step, real, seen, TypeOK, OpInv, Outcome, Op
<1>4. HandleInv'
  BY <1>0, BufFacts DEF Recv, RxFree, Step, real, seen, TypeOK, HandleInv, Active, Counted, Op
<1>5. RxInv'
  BY <1>0 DEF Recv, RxFree, Step, real, seen, TypeOK, RxInv, Active, Op
<1>6. EndInv'
  BY <1>0 DEF Recv, RxFree, Step, real, seen, TypeOK, EndInv, OpInv, RecvEnded, SendEnded, Op
<1>7. BufInv'
  <2>1. Won(SendOp)' = Won(SendOp) /\ Won(RecvOp)' = Won(RecvOp)
    BY <1>0 DEF Recv, RxFree, Step, real, seen, TypeOK, OpInv, Won, Op
  <2>2. kind' = kind /\ buf' = buf /\ (rpc' = "gone" <=> rpc = "gone") /\ (shut => shut')
    BY DEF Recv, RxFree, Step, real, seen
  <2> QED BY <2>1, <2>2, SameBuf
<1> QED BY <1>1, <1>2, <1>3, <1>4, <1>5, <1>6, <1>7

\* Receiver::try_recv.
LEMMA TryRecvStep ==
  ASSUME ChanInv, NEW o \in RecvOp, TryRecv(o)
  PROVE  ChanInv'
<1>1. rpc = "idle" /\ opc[o] \in {"unused", "made", "waiting"} /\ o \in RecvOp
  BY DEF TryRecv, RxFree
<1>2. ASSUME kind # "oneshot", NEW p \in RecvOp \ {o} PROVE ~Active(p)
  BY <1>2 DEF TryRecv, RxFree, Pollable, ChanInv, RxInv, Active
<1>3. PICK r \in {"ok", "closed", "empty"} :
        /\ \/ r = "ok" /\ Pop
           \/ r = "closed" /\ NoMore /\ (kind = "oneshot" => ~taken)
           \/ UNCHANGED real /\ (r = "closed" => taken /\ RxFree) /\ r # "ok"
        /\ out' = [out EXCEPT ![o] = r]
  BY DEF TryRecv
<1>4. /\ opc' = [opc EXCEPT ![o] = "answering"]
      /\ UNCHANGED <<kind, hpc, from, rpc, by, requested, seen>>
  BY DEF TryRecv, Step
<1> QED BY <1>1, <1>2, <1>3, <1>4, RecvAnswered

\* oneshot::Receiver::try_recv.
LEMMA OneshotTryRecvStep ==
  ASSUME ChanInv, NEW o \in RecvOp, OneshotTryRecv(o)
  PROVE  ChanInv'
<1>1. rpc = "idle" /\ opc[o] \in {"unused", "made", "waiting"} /\ o \in RecvOp
  BY DEF OneshotTryRecv, RxFree
<1>2. ASSUME kind # "oneshot", NEW p \in RecvOp \ {o} PROVE ~Active(p)
  BY <1>2 DEF OneshotTryRecv, RxFree, Pollable, ChanInv, RxInv, Active
<1>3. PICK r \in {"ok", "closed", "empty"} :
        /\ \/ r = "ok" /\ Pop
           \/ r = "closed" /\ NoMore /\ (kind = "oneshot" => ~taken)
           \/ UNCHANGED real /\ (r = "closed" => taken /\ RxFree) /\ r # "ok"
        /\ out' = [out EXCEPT ![o] = r]
  BY DEF OneshotTryRecv
<1>4. /\ opc' = [opc EXCEPT ![o] = "answering"]
      /\ UNCHANGED <<kind, hpc, from, rpc, by, requested, seen>>
  BY DEF OneshotTryRecv, Step
<1> QED BY <1>1, <1>2, <1>3, <1>4, RecvAnswered

\* The receiver is closed.
LEMMA CloseStep ==
  ASSUME ChanInv, Close
  PROVE  ChanInv'
<1> USE DEF ChanInv
<1>0. SendOp \cap RecvOp = {} /\ RxOp \in RecvOp /\ None \notin Handle
  BY OpsDistinct, HandlesOK
<1>1. CountInv' /\ obsSenders' \in Nat
  <2>1. Counted' = Counted /\ obsSenders' = obsSenders
    BY DEF Close, RxFree, real, seen, Counted, TypeOK
  <2> QED BY <2>1, CountSame
<1>2. TypeOK'
  BY <1>0, <1>1, BufFacts DEF Close, RxFree, real, seen, TypeOK, HandlePC, RxPC, OpPC,
     Outcome, Op
<1>3. OpInv'
  BY <1>0 DEF Close, RxFree, real, seen, TypeOK, OpInv, Outcome, Op
<1>4. HandleInv'
  BY <1>0, BufFacts DEF Close, RxFree, real, seen, TypeOK, HandleInv, Active, Counted, Op
<1>5. RxInv'
  BY <1>0 DEF Close, RxFree, real, seen, TypeOK, RxInv, Active, Op
<1>6. EndInv'
  BY <1>0 DEF Close, RxFree, real, seen, TypeOK, EndInv, OpInv, RecvEnded, SendEnded, Op
<1>7. BufInv'
  <2>1. Won(SendOp)' = Won(SendOp) /\ Won(RecvOp)' = Won(RecvOp)
    BY <1>0 DEF Close, RxFree, real, seen, TypeOK, OpInv, Won, Op
  <2>2. kind' = kind /\ buf' = buf /\ (rpc' = "gone" <=> rpc = "gone") /\ (shut => shut')
    BY DEF Close, RxFree, real, seen
  <2> QED BY <2>1, <2>2, SameBuf
<1> QED BY <1>1, <1>2, <1>3, <1>4, <1>5, <1>6, <1>7

\* channel_closed.
LEMMA ReportCloseStep ==
  ASSUME ChanInv, ReportClose
  PROVE  ChanInv'
<1> USE DEF ChanInv
<1>0. SendOp \cap RecvOp = {} /\ RxOp \in RecvOp /\ None \notin Handle
  BY OpsDistinct, HandlesOK
<1>1. CountInv' /\ obsSenders' \in Nat
  <2>1. Counted' = Counted /\ obsSenders' = obsSenders
    BY DEF ReportClose, real, seen, Counted, TypeOK
  <2> QED BY <2>1, CountSame
<1>2. TypeOK'
  BY <1>0, <1>1, BufFacts DEF ReportClose, real, seen, TypeOK, HandlePC, RxPC, OpPC,
     Outcome, Op
<1>3. OpInv'
  BY <1>0 DEF ReportClose, real, seen, TypeOK, OpInv, Outcome, Op
<1>4. HandleInv'
  BY <1>0, BufFacts DEF ReportClose, real, seen, TypeOK, HandleInv, Active, Counted, Op
<1>5. RxInv'
  BY <1>0 DEF ReportClose, real, seen, TypeOK, RxInv, Active, Op
<1>6. EndInv'
  BY <1>0 DEF ReportClose, real, seen, TypeOK, EndInv, OpInv, RecvEnded, SendEnded, Op
<1>7. BufInv'
  <2>1. Won(SendOp)' = Won(SendOp) /\ Won(RecvOp)' = Won(RecvOp)
    BY <1>0 DEF ReportClose, real, seen, TypeOK, OpInv, Won, Op
  <2>2. kind' = kind /\ buf' = buf /\ (rpc' = "gone" <=> rpc = "gone") /\ (shut => shut')
    BY DEF ReportClose, real, seen
  <2> QED BY <2>1, <2>2, SameBuf
<1> QED BY <1>1, <1>2, <1>3, <1>4, <1>5, <1>6, <1>7

\* The receiver is dropped.
LEMMA DropReceiverStep ==
  ASSUME ChanInv, DropReceiver
  PROVE  ChanInv'
<1> USE DEF ChanInv
<1>0. SendOp \cap RecvOp = {} /\ RxOp \in RecvOp /\ None \notin Handle
  BY OpsDistinct, HandlesOK
<1>a. /\ opc[RxOp] = "waiting" => kind = "oneshot"
      /\ obs' = IF opc[RxOp] = "waiting" THEN [obs EXCEPT ![RxOp] = "dropped"] ELSE obs
  BY <1>0 DEF DropReceiver, RxFree, Active
<1>b. /\ UNCHANGED <<kind, buf, live, shut, taken, hpc, from, obsSenders, obsClosed>>
      /\ (kind = "oneshot" /\ End(RxOp)) \/ (kind # "oneshot" /\ UNCHANGED <<opc, by, requested, out>>)
  BY DEF DropReceiver, real
<1>c. by' = by
  BY <1>0, <1>b DEF End, TypeOK
<1>d. rpc' \in RxPC /\ (obsRx \in BOOLEAN)'
  BY DEF DropReceiver, RxPC, TypeOK
<1>1. CountInv' /\ obsSenders' \in Nat
  <2>1. Counted' = Counted /\ obsSenders' = obsSenders
    BY DEF DropReceiver, RxFree, End, Step, real, seen, Counted, TypeOK
  <2> QED BY <2>1, CountSame
<1>2. TypeOK'
  <2>1. (opc \in [Op -> OpPC])' /\ (out \in [Op -> Outcome \cup {"none"}])'
    BY <1>b DEF End, Step, TypeOK, OpPC, Outcome
  <2>2. (requested \in [Op -> BOOLEAN])'
    BY <1>b DEF End, TypeOK
  <2>3. (obs \in [Op -> Outcome \cup {"none", "requested", "dropped"}])'
    BY <1>0, <1>a DEF TypeOK, Op
  <2> QED BY <1>b, <1>c, <1>d, <2>1, <2>2, <2>3 DEF TypeOK
<1>3. OpInv'
  <2> SUFFICES ASSUME NEW o \in Op
               PROVE  /\ opc'[o] \in {"unused", "made", "requesting"} => obs'[o] = "none"
                      /\ opc'[o] \in {"unused", "made"} => ~requested'[o]
                      /\ opc'[o] \in {"requesting", "waiting"} => requested'[o]
                      /\ opc'[o] \in {"waiting", "cancelling"} => obs'[o] = "requested"
                      /\ opc'[o] = "answering" => obs'[o] \in {"none", "requested"} /\ out'[o] \in Outcome
    BY DEF OpInv
  <2>1. CASE kind = "oneshot" /\ o = RxOp
    BY <1>b, <2>1 DEF End, Step, TypeOK
  <2>2. CASE kind = "oneshot" /\ o # RxOp
    BY <1>a, <1>b, <2>2 DEF End, Step, TypeOK, OpInv
  <2>3. CASE kind # "oneshot"
    BY <1>a, <1>b, <2>3 DEF TypeOK, OpInv
  <2> QED BY <2>1, <2>2, <2>3
<1>4. HandleInv'
  <2>1. \A o \in SendOp : Active(o)' <=> Active(o)
    BY <1>0, <1>b DEF End, Step, Active, TypeOK, Op
  <2> QED BY <1>b, <1>c, <2>1 DEF HandleInv, Counted
<1>5. RxInv'
  BY <1>0, ZenonT(60) DEF DropReceiver, RxFree, End, Step, real, seen, TypeOK, RxInv, Active, Op
<1>6. EndInv'
  BY <1>0, SMTT(60) DEF DropReceiver, RxFree, End, Step, real, seen, TypeOK, EndInv, OpInv, RecvEnded,
     SendEnded, Op
<1>7. BufInv'
  <2>1. Won(SendOp)' = Won(SendOp) /\ Won(RecvOp)' = Won(RecvOp)
    BY <1>0 DEF DropReceiver, RxFree, End, Step, real, seen, TypeOK, OpInv, Won, Op
  <2>2. kind' = kind /\ buf' = buf /\ (rpc' = "gone" <=> rpc = "gone") /\ (shut => shut')
    BY DEF DropReceiver, RxFree, End, Step, real, seen
  <2> QED BY <2>1, <2>2, SameBuf
<1> QED BY <1>1, <1>2, <1>3, <1>4, <1>5, <1>6, <1>7

\* endpoint_dropped of the receiver.
LEMMA ReceiverDroppedStep ==
  ASSUME ChanInv, ReportReceiverDropped
  PROVE  ChanInv'
<1> USE DEF ChanInv
<1>0. SendOp \cap RecvOp = {} /\ RxOp \in RecvOp /\ None \notin Handle
  BY OpsDistinct, HandlesOK
<1>1. CountInv' /\ obsSenders' \in Nat
  <2>1. Counted' = Counted /\ obsSenders' = obsSenders
    BY DEF ReportReceiverDropped, real, seen, Counted, TypeOK
  <2> QED BY <2>1, CountSame
<1>2. TypeOK'
  BY <1>0, <1>1, BufFacts DEF ReportReceiverDropped, real, seen, TypeOK, HandlePC, RxPC,
     OpPC, Outcome, Op
<1>3. OpInv'
  BY <1>0 DEF ReportReceiverDropped, real, seen, TypeOK, OpInv, Outcome, Op
<1>4. HandleInv'
  BY <1>0, BufFacts DEF ReportReceiverDropped, real, seen, TypeOK, HandleInv, Active,
     Counted, Op
<1>5. RxInv'
  BY <1>0 DEF ReportReceiverDropped, real, seen, TypeOK, RxInv, Active, Op
<1>6. EndInv'
  BY <1>0 DEF ReportReceiverDropped, real, seen, TypeOK, EndInv, OpInv, RecvEnded,
     SendEnded, Op
<1>7. BufInv'
  <2>1. Won(SendOp)' = Won(SendOp) /\ Won(RecvOp)' = Won(RecvOp)
    BY <1>0 DEF ReportReceiverDropped, real, seen, TypeOK, OpInv, Won, Op
  <2>2. kind' = kind /\ buf' = buf /\ (rpc' = "gone" <=> rpc = "gone") /\ (shut => shut')
    BY DEF ReportReceiverDropped, real, seen
  <2> QED BY <2>1, <2>2, SameBuf
<1> QED BY <1>1, <1>2, <1>3, <1>4, <1>5, <1>6, <1>7

\* The real receiver goes.
LEMMA ReceiverInnerStep ==
  ASSUME ChanInv, DropReceiverInner
  PROVE  ChanInv'
<1> USE DEF ChanInv
<1>0. SendOp \cap RecvOp = {} /\ RxOp \in RecvOp /\ None \notin Handle
  BY OpsDistinct, HandlesOK
<1>1. CountInv' /\ obsSenders' \in Nat
  <2>1. Counted' = Counted /\ obsSenders' = obsSenders
    BY DEF DropReceiverInner, real, seen, Counted, TypeOK
  <2> QED BY <2>1, CountSame
<1>2. TypeOK'
  BY <1>0, <1>1, BufFacts DEF DropReceiverInner, real, seen, TypeOK, HandlePC, RxPC, OpPC,
     Outcome, Op
<1>3. OpInv'
  BY <1>0 DEF DropReceiverInner, real, seen, TypeOK, OpInv, Outcome, Op
<1>4. HandleInv'
  BY <1>0, BufFacts DEF DropReceiverInner, real, seen, TypeOK, HandleInv, Active, Counted, Op
<1>5. RxInv'
  BY <1>0 DEF DropReceiverInner, real, seen, TypeOK, RxInv, Active, Op
<1>6. EndInv'
  BY <1>0 DEF DropReceiverInner, real, seen, TypeOK, EndInv, OpInv, RecvEnded, SendEnded, Op
<1>7. BufInv'
  <2>1. Won(SendOp)' = Won(SendOp) /\ Won(RecvOp)' = Won(RecvOp)
    BY DEF DropReceiverInner, seen, Won
  <2>2. Len(buf) \in Nat /\ Len(buf') = 0 /\ shut' /\ rpc' = "gone" /\ rpc # "gone" /\ kind' = kind
    BY BufFacts DEF DropReceiverInner, TypeOK
  <2>3. Cardinality(Won(SendOp)) - Cardinality(Won(RecvOp)) = Len(buf)
    BY <2>2 DEF BufInv
  <2>4. kind = "bounded" => Len(buf) <= Capacity
    BY DEF BufInv
  <2> QED BY <2>1, <2>2, <2>3, <2>4, CapacityOK DEF BufInv
<1> QED BY <1>1, <1>2, <1>3, <1>4, <1>5, <1>6, <1>7

\* A pending poll.
LEMMA PollPendingStep ==
  ASSUME ChanInv, NEW o \in Op, PollPending(o)
  PROVE  ChanInv'
<1> USE DEF ChanInv
<1>0. SendOp \cap RecvOp = {} /\ RxOp \in RecvOp /\ None \notin Handle
  BY OpsDistinct, HandlesOK
<1>1. CountInv' /\ obsSenders' \in Nat
  <2>1. Counted' = Counted /\ obsSenders' = obsSenders
    BY DEF PollPending, Pollable, Step, real, seen, Counted, TypeOK
  <2> QED BY <2>1, CountSame
<1>2. TypeOK'
  BY <1>0, <1>1, BufFacts DEF PollPending, Pollable, Step, real, seen, TypeOK, HandlePC,
     RxPC, OpPC, Outcome, Op
<1>3. OpInv'
  BY <1>0 DEF PollPending, Pollable, Step, real, seen, TypeOK, OpInv, Outcome, Op
<1>4. HandleInv'
  BY <1>0, BufFacts DEF PollPending, Pollable, Step, real, seen, TypeOK, HandleInv, Active,
     Counted, Op
<1>5. RxInv'
  BY <1>0 DEF PollPending, Pollable, Step, real, seen, TypeOK, RxInv, Active, Op
<1>6. EndInv'
  BY <1>0 DEF PollPending, Pollable, Step, real, seen, TypeOK, EndInv, OpInv, RecvEnded,
     SendEnded, Op
<1>7. BufInv'
  <2>1. Won(SendOp)' = Won(SendOp) /\ Won(RecvOp)' = Won(RecvOp)
    BY <1>0 DEF PollPending, Pollable, Step, real, seen, TypeOK, OpInv, Won, Op
  <2>2. kind' = kind /\ buf' = buf /\ (rpc' = "gone" <=> rpc = "gone") /\ (shut => shut')
    BY DEF PollPending, Pollable, Step, real, seen
  <2> QED BY <2>1, <2>2, SameBuf
<1> QED BY <1>1, <1>2, <1>3, <1>4, <1>5, <1>6, <1>7

\* A send is ready.
LEMMA PollSendStep ==
  ASSUME ChanInv, NEW o \in Op, PollSend(o)
  PROVE  ChanInv'
<1> USE DEF ChanInv
<1>0. SendOp \cap RecvOp = {} /\ RxOp \in RecvOp /\ None \notin Handle
  BY OpsDistinct, HandlesOK
<1>a. PICK r \in {"ok", "full", "closed"} :
        /\ (r = "ok" /\ Push(o)) \/ (r # "ok" /\ UNCHANGED <<buf, shut, taken>>)
        /\ r = "closed" => shut
        /\ out' = [out EXCEPT ![o] = r]
  BY DEF PollSend
<1>b. OpInv' /\ RxInv' /\ EndInv' /\ BufInv'
  BY <1>a, SendAnswered DEF PollSend, Pollable, Step
<1>1. CountInv' /\ obsSenders' \in Nat
  <2>1. Counted' = Counted /\ obsSenders' = obsSenders
    BY DEF PollSend, Pollable, Push, Step, real, seen, Counted, TypeOK
  <2> QED BY <2>1, CountSame
<1>2. TypeOK'
  BY <1>0, <1>1, BufFacts DEF PollSend, Pollable, Push, Step, real, seen, TypeOK, HandlePC,
     RxPC, OpPC, Outcome, Op
<1>3. OpInv'
  BY <1>b
<1>4. HandleInv'
  BY <1>0, BufFacts DEF PollSend, Pollable, Push, Step, real, seen, TypeOK, HandleInv,
     Active, Counted, Op
<1>5. RxInv'
  BY <1>b
<1>6. EndInv'
  BY <1>b
<1>7. BufInv'
  BY <1>b
<1> QED BY <1>1, <1>2, <1>3, <1>4, <1>5, <1>6, <1>7

\* A receive is ready.
LEMMA PollRecvStep ==
  ASSUME ChanInv, NEW o \in Op, PollRecv(o)
  PROVE  ChanInv'
<1>1. rpc = "idle" /\ opc[o] \in {"unused", "made", "waiting"} /\ o \in RecvOp
  BY DEF PollRecv, Pollable
<1>2. ASSUME kind # "oneshot", NEW p \in RecvOp \ {o} PROVE ~Active(p)
  BY <1>2 DEF PollRecv, RxFree, Pollable, ChanInv, RxInv, Active
<1>3. PICK r \in {"ok", "closed", "empty"} :
        /\ \/ r = "ok" /\ Pop
           \/ r = "closed" /\ NoMore /\ (kind = "oneshot" => ~taken)
           \/ UNCHANGED real /\ (r = "closed" => taken /\ RxFree) /\ r # "ok"
        /\ out' = [out EXCEPT ![o] = r]
  BY DEF PollRecv, Pollable
<1>4. /\ opc' = [opc EXCEPT ![o] = "answering"]
      /\ UNCHANGED <<kind, hpc, from, rpc, by, requested, seen>>
  BY DEF PollRecv, Step
<1> QED BY <1>1, <1>2, <1>3, <1>4, RecvAnswered

\* A future is dropped.
LEMMA DropFutureStep ==
  ASSUME ChanInv, NEW o \in Op, DropFuture(o)
  PROVE  ChanInv'
<1> USE DEF ChanInv
<1>0. SendOp \cap RecvOp = {} /\ RxOp \in RecvOp /\ None \notin Handle
  BY OpsDistinct, HandlesOK
<1>a. /\ UNCHANGED <<kind, buf, live, shut, taken, hpc, from, rpc, obs, obsSenders, obsRx, obsClosed>>
      /\ \/ Step(o, "cancelling") /\ UNCHANGED <<by, requested, out>>
         \/ End(o)
  BY DEF DropFuture, real, seen
<1>1. CountInv' /\ obsSenders' \in Nat
  <2>1. Counted' = Counted /\ obsSenders' = obsSenders
    BY DEF DropFuture, End, Step, real, seen, Counted, TypeOK
  <2> QED BY <2>1, CountSame
<1>2. TypeOK'
  <2>1. /\ (opc \in [Op -> OpPC])' /\ (out \in [Op -> Outcome \cup {"none"}])'
        /\ (by \in [SendOp -> Handle \cup {None}])'
    BY <1>a DEF End, Step, TypeOK, OpPC, Outcome
  <2>2. (requested \in [Op -> BOOLEAN])'
    BY <1>a DEF End, TypeOK
  <2> QED BY <1>a, <2>1, <2>2 DEF TypeOK
<1>3. OpInv'
  BY <1>0 DEF DropFuture, End, Step, real, seen, TypeOK, OpInv, Outcome, Op
<1>4. HandleInv'
  <2>1. ASSUME NEW p \in SendOp, Active(p)' PROVE Active(p) /\ by'[p] = by[p]
    BY <1>a, <2>1 DEF DropFuture, End, Step, Active, TypeOK, Op
  <2> QED BY <1>a, <2>1 DEF HandleInv, Counted
<1>5. RxInv'
  BY <1>0 DEF DropFuture, End, Step, real, seen, TypeOK, RxInv, Active, Op
<1>6. EndInv'
  BY <1>0 DEF DropFuture, End, Step, real, seen, TypeOK, EndInv, OpInv, RecvEnded,
     SendEnded, Op
<1>7. BufInv'
  <2>1. Won(SendOp)' = Won(SendOp) /\ Won(RecvOp)' = Won(RecvOp)
    BY <1>0 DEF DropFuture, End, Step, real, seen, TypeOK, OpInv, Won, Op
  <2>2. kind' = kind /\ buf' = buf /\ (rpc' = "gone" <=> rpc = "gone") /\ (shut => shut')
    BY DEF DropFuture, End, Step, real, seen
  <2> QED BY <2>1, <2>2, SameBuf
<1> QED BY <1>1, <1>2, <1>3, <1>4, <1>5, <1>6, <1>7

\* op_requested.
LEMMA RequestedStep ==
  ASSUME ChanInv, NEW o \in Op, ReportRequested(o)
  PROVE  ChanInv'
<1> USE DEF ChanInv
<1>0. SendOp \cap RecvOp = {} /\ RxOp \in RecvOp /\ None \notin Handle
  BY OpsDistinct, HandlesOK
<1>1. CountInv' /\ obsSenders' \in Nat
  <2>1. Counted' = Counted /\ obsSenders' = obsSenders
    BY DEF ReportRequested, Step, real, seen, Counted, TypeOK
  <2> QED BY <2>1, CountSame
<1>2. TypeOK'
  BY <1>0, <1>1, BufFacts DEF ReportRequested, Step, real, seen, TypeOK, HandlePC, RxPC,
     OpPC, Outcome, Op
<1>3. OpInv'
  BY <1>0 DEF ReportRequested, Step, real, seen, TypeOK, OpInv, Outcome, Op
<1>4. HandleInv'
  BY <1>0, BufFacts DEF ReportRequested, Step, real, seen, TypeOK, HandleInv, Active,
     Counted, Op
<1>5. RxInv'
  BY <1>0 DEF ReportRequested, Step, real, seen, TypeOK, RxInv, Active, Op
<1>6. EndInv'
  BY <1>0 DEF ReportRequested, Step, real, seen, TypeOK, EndInv, OpInv, RecvEnded,
     SendEnded, Op
<1>7. BufInv'
  <2>1. Won(SendOp)' = Won(SendOp) /\ Won(RecvOp)' = Won(RecvOp)
    BY <1>0 DEF ReportRequested, Step, real, seen, TypeOK, OpInv, Won, Op
  <2>2. kind' = kind /\ buf' = buf /\ (rpc' = "gone" <=> rpc = "gone") /\ (shut => shut')
    BY DEF ReportRequested, Step, real, seen
  <2> QED BY <2>1, <2>2, SameBuf
<1> QED BY <1>1, <1>2, <1>3, <1>4, <1>5, <1>6, <1>7

\* op_resolved.
LEMMA AnswerStep ==
  ASSUME ChanInv, NEW o \in Op, ReportAnswer(o)
  PROVE  ChanInv'
<1> USE DEF ChanInv
<1>0. SendOp \cap RecvOp = {} /\ RxOp \in RecvOp /\ None \notin Handle
  BY OpsDistinct, HandlesOK
<1>1. CountInv' /\ obsSenders' \in Nat
  <2>1. Counted' = Counted /\ obsSenders' = obsSenders
    BY DEF ReportAnswer, End, Step, real, seen, Counted, TypeOK
  <2> QED BY <2>1, CountSame
<1>2. TypeOK'
  BY <1>0, <1>1, BufFacts DEF ReportAnswer, End, Step, real, seen, TypeOK, HandlePC, RxPC,
     OpPC, Outcome, Op
<1>3. OpInv'
  BY <1>0 DEF ReportAnswer, End, Step, real, seen, TypeOK, OpInv, Outcome, Op
<1>4. HandleInv'
  BY <1>0, BufFacts DEF ReportAnswer, End, Step, real, seen, TypeOK, HandleInv, Active,
     Counted, Op
<1>5. RxInv'
  BY <1>0 DEF ReportAnswer, End, Step, real, seen, TypeOK, RxInv, Active, Op
<1>6. EndInv'
  BY <1>0 DEF ReportAnswer, End, Step, real, seen, TypeOK, EndInv, OpInv, RecvEnded,
     SendEnded, Op
<1>7. BufInv'
  <2>1. Won(SendOp)' = Won(SendOp) /\ Won(RecvOp)' = Won(RecvOp)
    BY <1>0 DEF ReportAnswer, End, Step, real, seen, TypeOK, OpInv, Won, Op
  <2>2. kind' = kind /\ buf' = buf /\ (rpc' = "gone" <=> rpc = "gone") /\ (shut => shut')
    BY DEF ReportAnswer, End, Step, real, seen
  <2> QED BY <2>1, <2>2, SameBuf
<1> QED BY <1>1, <1>2, <1>3, <1>4, <1>5, <1>6, <1>7

\* op_dropped.
LEMMA DroppedStep ==
  ASSUME ChanInv, NEW o \in Op, ReportDropped(o)
  PROVE  ChanInv'
<1> USE DEF ChanInv
<1>0. SendOp \cap RecvOp = {} /\ RxOp \in RecvOp /\ None \notin Handle
  BY OpsDistinct, HandlesOK
<1>1. CountInv' /\ obsSenders' \in Nat
  <2>1. Counted' = Counted /\ obsSenders' = obsSenders
    BY DEF ReportDropped, End, Step, real, seen, Counted, TypeOK
  <2> QED BY <2>1, CountSame
<1>2. TypeOK'
  BY <1>0, <1>1, BufFacts DEF ReportDropped, End, Step, real, seen, TypeOK, HandlePC, RxPC,
     OpPC, Outcome, Op
<1>3. OpInv'
  BY <1>0 DEF ReportDropped, End, Step, real, seen, TypeOK, OpInv, Outcome, Op
<1>4. HandleInv'
  BY <1>0, BufFacts DEF ReportDropped, End, Step, real, seen, TypeOK, HandleInv, Active,
     Counted, Op
<1>5. RxInv'
  BY <1>0 DEF ReportDropped, End, Step, real, seen, TypeOK, RxInv, Active, Op
<1>6. EndInv'
  BY <1>0 DEF ReportDropped, End, Step, real, seen, TypeOK, EndInv, OpInv, RecvEnded,
     SendEnded, Op
<1>7. BufInv'
  <2>1. Won(SendOp)' = Won(SendOp) /\ Won(RecvOp)' = Won(RecvOp)
    BY <1>0 DEF ReportDropped, End, Step, real, seen, TypeOK, OpInv, Won, Op
  <2>2. kind' = kind /\ buf' = buf /\ (rpc' = "gone" <=> rpc = "gone") /\ (shut => shut')
    BY DEF ReportDropped, End, Step, real, seen
  <2> QED BY <2>1, <2>2, SameBuf
<1> QED BY <1>1, <1>2, <1>3, <1>4, <1>5, <1>6, <1>7

\* Every step keeps the invariant.
LEMMA ChanInvStep == ChanInv /\ [Next]_vars => ChanInv'
<1> SUFFICES ASSUME ChanInv, [Next]_vars PROVE ChanInv'
  OBVIOUS
<1>1. CASE UNCHANGED vars
  <2>1. UNCHANGED <<kind, buf, live, shut, taken, hpc, from, rpc, opc, by, requested, out, obs,
                    obsSenders, obsRx, obsClosed>>
    BY <1>1 DEF vars, real, calls, seen
  <2>2. TypeOK' /\ OpInv' /\ HandleInv' /\ CountInv'
    BY <2>1 DEF ChanInv, TypeOK, OpInv, HandleInv, CountInv, Counted, Active
  <2>3. RxInv' /\ EndInv' /\ BufInv'
    BY <2>1 DEF ChanInv, RxInv, EndInv, BufInv, Won, Active, RecvEnded, SendEnded
  <2> QED BY <2>2, <2>3 DEF ChanInv
<1>2. ASSUME NEW h \in Handle, SenderNext(h) PROVE ChanInv'
  BY <1>2, SendStep, TrySendStep, UnboundedSendStep, OneshotSendStep, CloneStep,
     ReportCloneStep, DropSenderStep, DropSenderInnerStep DEF SenderNext
<1>3. CASE ReceiverNext
  BY <1>3, RecvStep, TryRecvStep, OneshotTryRecvStep, CloseStep, ReportCloseStep,
     DropReceiverStep, ReceiverDroppedStep, ReceiverInnerStep DEF ReceiverNext
<1>4. ASSUME NEW o \in Op, FutureNext(o) PROVE ChanInv'
  BY <1>4, PollPendingStep, PollSendStep, PollRecvStep, DropFutureStep, RequestedStep,
     AnswerStep, DroppedStep DEF FutureNext, Report
<1> QED BY <1>1, <1>2, <1>3, <1>4 DEF Next

\* The events of a channel, counted: what is reported is among what happened.
LEMMA CapacityKept == ChanInv => ReportedWithinCapacity
<1> SUFFICES ASSUME ChanInv PROVE ReportedWithinCapacity
  OBVIOUS
<1> USE DEF ChanInv
<1> DEFINE told(X) == {o \in X : obs[o] = "ok"}
           untold(X) == {o \in X : opc[o] = "answering" /\ out[o] = "ok"}
<1>1. ASSUME NEW X \in {SendOp, RecvOp}
      PROVE  /\ Cardinality(told(X)) \in Nat /\ Cardinality(untold(X)) \in Nat
             /\ IsFiniteSet(untold(X))
             /\ Cardinality(Won(X)) = Cardinality(told(X)) + Cardinality(untold(X))
  <2>1. told(X) \in SUBSET Op /\ untold(X) \in SUBSET Op /\ X \subseteq Op
    BY DEF Op
  <2>2. IsFiniteSet(told(X)) /\ IsFiniteSet(untold(X))
    BY <2>1, OpsFinite, FS_Subset
  <2>3. Won(X) = told(X) \cup untold(X)
    BY DEF Won
  <2>4. told(X) \cap untold(X) = {}
    BY <2>1 DEF OpInv
  <2>5. /\ Cardinality(told(X)) \in Nat /\ Cardinality(untold(X)) \in Nat
        /\ Cardinality(told(X) \cap untold(X)) = 0
    BY <2>2, <2>4, FS_CardinalityType, FS_EmptySet
  <2>6. Cardinality(told(X) \cup untold(X)) =
          Cardinality(told(X)) + Cardinality(untold(X)) - Cardinality(told(X) \cap untold(X))
    BY <2>2, FS_Union
  <2> HIDE DEF told, untold
  <2> QED BY <2>2, <2>3, <2>5, <2>6
<1>2. /\ Cardinality(Won(SendOp)) = Sent + InFlight /\ Sent \in Nat /\ InFlight \in Nat
      /\ Cardinality(Won(RecvOp)) = Received + Cardinality(untold(RecvOp)) /\ Received \in Nat
      /\ Cardinality(untold(RecvOp)) \in Nat
  BY <1>1 DEF Sent, Received, InFlight
<1>3. Cardinality(Won(SendOp)) - Cardinality(Won(RecvOp)) >= 0
  BY BufFacts, WonFinite DEF BufInv, TypeOK
<1>4. kind = "bounded" => Cardinality(Won(SendOp)) - Cardinality(Won(RecvOp)) <= Capacity
  BY DEF BufInv
<1>5. kind = "bounded" => Cardinality(untold(RecvOp)) <= 1
  <2> SUFFICES ASSUME kind = "bounded" PROVE Cardinality(untold(RecvOp)) <= 1
    OBVIOUS
  <2>1. \A o, p \in untold(RecvOp) : o = p
    BY DEF RxInv, Active
  <2>2. CASE untold(RecvOp) = {}
    BY <2>2, FS_EmptySet
  <2>3. ASSUME NEW o \in untold(RecvOp) PROVE Cardinality(untold(RecvOp)) <= 1
    <3>1. untold(RecvOp) = {o}
      BY <2>1
    <3>2. Cardinality({o}) = 1
      BY FS_Singleton
    <3> QED BY <3>1, <3>2
  <2> QED BY <2>2, <2>3
<1> HIDE DEF told, untold
<1> QED BY <1>2, <1>3, <1>4, <1>5, CapacityOK DEF ReportedWithinCapacity

-----------------------------------------------------------------------------
\* Whatever handles are cloned and dropped and whatever calls overlap: a
\* Closed is explained by the events before it, and the reported sends and
\* receives are off by no more than the calls in flight (mpsc.rs, oneshot.rs).
THEOREM ChannelIsSound == Spec => []ChannelSound
<1>1. Spec => []ChanInv
  BY ChanInvInit, ChanInvStep, PTL DEF Spec
<1>2. ChanInv => ChannelSound
  <2> SUFFICES ASSUME ChanInv PROVE TypeOK /\ OutcomesExplained
    BY CapacityKept DEF ChannelSound
  <2> QED BY DEF ChanInv, EndInv, RecvEnded, SendEnded, OutcomesExplained
<1> QED BY <1>1, <1>2, PTL

-----------------------------------------------------------------------------
\* A call that is under way belongs to an endpoint the consumer knows of.
LEMMA CallerAlive ==
  ASSUME ChanInv, NEW o \in Op, Active(o)
  PROVE  Trace!Alive(o)
<1>1. CASE o \in SendOp
  <2>1. by[o] \in Counted
    BY <1>1 DEF ChanInv, HandleInv
  <2> QED BY <1>1, <2>1, CountedAlive DEF Trace!Alive
<1>2. CASE o \notin SendOp
  BY <1>2 DEF Op, ChanInv, RxInv, Trace!Alive
<1> QED BY <1>1, <1>2

\* A report of an op is an event of the trace.
LEMMA ReportIsEvent ==
  ASSUME ChanInv, NEW o \in Op, Report(o)
  PROVE  Trace!Next
<1> USE DEF ChanInv
<1>0. o \in SendOp \cup RecvOp /\ obs \in [Op -> Outcome \cup {"none", "requested", "dropped"}]
  BY DEF Op, TypeOK
<1>1. Trace!Alive(o)
  BY CallerAlive DEF Report, ReportRequested, ReportAnswer, ReportDropped, Active
<1>2. CASE ReportRequested(o)
  <2>1. Trace!OpRequested(o)
    BY <1>0, <1>1, <1>2 DEF ReportRequested, OpInv, Trace!OpRequested
  <2> QED BY <1>0, <2>1 DEF Trace!Next
<1>3. CASE ReportAnswer(o)
  <2>1. out[o] \in {"ok", "closed", "full", "empty"} /\ obs[o] \in {"none", "requested"}
    BY <1>3 DEF ReportAnswer, OpInv, Outcome
  <2>2. o \in RecvOp /\ out[o] = "closed" => Trace!Ended
    BY <1>3 DEF ReportAnswer, EndInv, RecvEnded, Trace!Ended
  <2>3. Trace!OpResolved(o, out[o])
    BY <1>0, <1>1, <1>3, <2>1, <2>2 DEF ReportAnswer, Trace!OpResolved
  <2> QED BY <1>0, <2>1, <2>3 DEF Trace!Next
<1>4. CASE ReportDropped(o)
  <2>1. Trace!OpDropped(o)
    BY <1>0, <1>1, <1>4 DEF ReportDropped, OpInv, Trace!OpDropped
  <2> QED BY <1>0, <2>1 DEF Trace!Next
<1> QED BY <1>2, <1>3, <1>4 DEF Report

\* Every step of the channel is an event or invisible.
LEMMA StepIsEvent ==
  ASSUME ChanInv, [Next]_vars
  PROVE  [Trace!Next]_(Trace!vars)
<1>1. CASE UNCHANGED vars
  BY <1>1 DEF vars, seen, Trace!vars
<1>2. ASSUME NEW h \in Handle, SenderNext(h) PROVE Trace!Next \/ UNCHANGED Trace!vars
  <2>1. CASE ReportClone(h)
    <3>1. from[h] \in Counted /\ kind # "oneshot"
      BY <2>1 DEF ReportClone, ChanInv, HandleInv, Counted
    <3>2. Trace!SenderCloned
      BY <2>1, <3>1, CountedAlive DEF ReportClone, Trace!SenderCloned
    <3> QED BY <3>2 DEF Trace!Next
  <2>2. CASE DropSender(h)
    <3>1. h \in Counted
      BY <2>2 DEF DropSender, HandleFree, Counted
    <3>2. Trace!SenderDropped
      BY <2>2, <3>1, CountedAlive DEF DropSender, Trace!SenderDropped
    <3> QED BY <3>2 DEF Trace!Next
  <2>3. CASE ~ReportClone(h) /\ ~DropSender(h)
    BY <1>2, <2>3 DEF SenderNext, Send, TrySend, UnboundedSend, OneshotSend, Immediate, Clone,
                      DropSenderInner, seen, Trace!vars
  <2> QED BY <2>1, <2>2, <2>3
<1>3. ASSUME ReceiverNext PROVE Trace!Next \/ UNCHANGED Trace!vars
  <2>1. CASE ReportClose
    <3>1. Trace!ChannelClosed
      BY <2>1 DEF ReportClose, ChanInv, RxInv, Trace!ChannelClosed
    <3> QED BY <3>1 DEF Trace!Next
  <2>2. CASE ReportReceiverDropped
    <3>1. Trace!ReceiverDropped
      BY <2>2 DEF ReportReceiverDropped, ChanInv, RxInv, Trace!ReceiverDropped
    <3> QED BY <3>1 DEF Trace!Next
  <2>3. CASE DropReceiver
    <3>1. RxOp \in Op /\ obsRx
      BY <2>3, OpsDistinct DEF DropReceiver, RxFree, Op, ChanInv, RxInv
    <3>2. CASE opc[RxOp] = "waiting"
      <4>1. Trace!Alive(RxOp) /\ obs[RxOp] = "requested"
        BY <3>1, <3>2, CallerAlive DEF Active, ChanInv, OpInv
      <4>2. Trace!OpDropped(RxOp)
        BY <2>3, <3>2, <4>1 DEF DropReceiver, Trace!OpDropped
      <4> QED BY <3>1, <4>2 DEF Trace!Next, Op
    <3>3. CASE opc[RxOp] # "waiting"
      <4>1. Trace!ReceiverDropped
        BY <2>3, <3>1, <3>3 DEF DropReceiver, Trace!ReceiverDropped
      <4> QED BY <4>1 DEF Trace!Next
    <3> QED BY <3>2, <3>3
  <2>4. CASE ~ReportClose /\ ~ReportReceiverDropped /\ ~DropReceiver
    BY <1>3, <2>4 DEF ReceiverNext, Recv, TryRecv, OneshotTryRecv, Close, DropReceiverInner,
       seen,
                      Trace!vars
  <2> QED BY <2>1, <2>2, <2>3, <2>4
<1>4. ASSUME NEW o \in Op, FutureNext(o) PROVE Trace!Next \/ UNCHANGED Trace!vars
  <2>1. CASE Report(o)
    BY <2>1, ReportIsEvent
  <2>2. CASE ~Report(o)
    BY <1>4, <2>2 DEF FutureNext, PollPending, PollSend, PollRecv, DropFuture, seen,
       Trace!vars
  <2> QED BY <2>1, <2>2
<1> QED BY <1>1, <1>2, <1>3, <1>4 DEF Next

\* The events a channel reports are a trace a consumer may rely on: ops are
\* requested at most once and end once, only live endpoints act, and a receive
\* ends in Closed only when the events say why (ChannelTrace).
THEOREM EventsAreATrace == Spec => TraceSpec
<1>1. Init => Trace!Init
  BY KindsOK DEF Init, Trace!Init, Op
<1>2. Spec => []ChanInv
  BY ChanInvInit, ChanInvStep, PTL DEF Spec
<1>3. ChanInv /\ [Next]_vars => [Trace!Next]_(Trace!vars)
  BY StepIsEvent
<1> QED BY <1>1, <1>2, <1>3, PTL DEF Spec, TraceSpec, Trace!Spec
=============================================================================
