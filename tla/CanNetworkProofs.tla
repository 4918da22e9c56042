--------------------------- MODULE CanNetworkProofs ---------------------------
(***************************************************************************)
(* What holds of every CAN network: any number of nodes, any node IDs the  *)
(* build accepts, any back ends, any queue lengths and any host.  Where a  *)
(* theorem needs more of the configuration than cannode_main.c checks      *)
(* (DistinctIds, WireIdsDiffer, AskedPlainly of CanFrames) it says so.        *)
(***************************************************************************)
EXTENDS CanNetwork, TLAPS

-----------------------------------------------------------------------------
(* Identifiers                                                             *)

(* A node ID is one of sixteen multiples of 0x100. *)
LEMMA NodeIdShape ==
  ASSUME NEW n \in Nodes
  PROVE  \E k \in 0 .. 15 : NodeId[n] = 256 * k
<1>1. NodeId[n] \in Nat /\ Masked(NodeId[n]) = NodeId[n]
  BY FramesAssumption
<1>2. ((NodeId[n] \div 256) % 16) \in 0 .. 15
  BY <1>1
<1> QED
  BY <1>1, <1>2 DEF Masked

(* The low byte of an identifier survives the cut to 11 bits, and what is  *)
(* above it is again one of the sixteen, whichever message it is.          *)
LEMMA WireIdShape ==
  ASSUME NEW n \in Nodes, NEW c \in 0 .. 255
  PROVE  \E j \in 0 .. 15 : /\ WireId(n, NodeId[n]) = 256 * j
                            /\ WireId(n, NodeId[n] + c) = 256 * j + c
<1>1. PICK k \in 0 .. 15 : NodeId[n] = 256 * k
  BY NodeIdShape
<1>2. CASE ExtId[n]
  BY <1>1, <1>2 DEF WireId
<1>3. CASE ~ExtId[n]
  <2>1. k % 8 \in 0 .. 15
    BY <1>1
  <2>2. (256 * k + c) % 2048 = 256 * (k % 8) + c /\ (256 * k) % 2048 = 256 * (k % 8)
    OBVIOUS
  <2> QED
    BY <1>1, <1>3, <2>1, <2>2 DEF WireId
<1> QED
  BY <1>2, <1>3

(* Node IDs that differ and fit their format differ on the wire.           *)
LEMMA FittingIdsDiffer == DistinctIds /\ IdsFit => WireIdsDiffer
<1> SUFFICES ASSUME DistinctIds, IdsFit, NEW m \in Nodes, NEW n \in Nodes, m # n
             PROVE  WireId(m, NodeId[m]) # WireId(n, NodeId[n])
  BY DEF WireIdsDiffer
<1>1. ASSUME NEW i \in Nodes PROVE WireId(i, NodeId[i]) = NodeId[i]
  <2>1. PICK k \in 0 .. 15 : NodeId[i] = 256 * k
    BY NodeIdShape
  <2>2. CASE ~ExtId[i]
    <3>1. 256 * k < 2048
      BY <2>1, <2>2 DEF IdsFit
    <3>2. (256 * k) % 2048 = 256 * k
      BY <3>1
    <3> QED
      BY <2>1, <2>2, <3>2 DEF WireId
  <2> QED
    BY <2>2 DEF WireId
<1> QED
  BY <1>1 DEF DistinctIds

(* Without SocketCAN nodes that have extended identifiers nobody can ask   *)
(* one wrongly.                                                            *)
LEMMA PlainSocketAskedPlainly == NoExtendedSocket => AskedPlainly
BY DEF NoExtendedSocket, AskedPlainly, CanHear

(* Nothing a node sends is an LED request for any node. *)
NodeFrames(n) == {HeartbeatFrame(n)} \cup {ButtonFrame(n, s) : s \in Nat}

(* What a node sends is a frame: an identifier below the flag, and a byte. *)
LEMMA NodeFrameShape ==
  ASSUME NEW n \in Nodes, NEW f \in NodeFrames(n)
  PROVE  /\ f \in Frame
         /\ f.ext = ExtId[n]
         /\ \E c \in {CANMSG_HEARTBEAT_ID, CANMSG_BUTTON_ID} : f.id = WireId(n, NodeId[n] + c)
<1>1. ExtId[n] \in BOOLEAN
  BY FramesAssumption
<1>2. \A c \in 0 .. 255 : WireId(n, NodeId[n] + c) \in Nat
  <2> TAKE c \in 0 .. 255
  <2>1. \E j \in 0 .. 15 : /\ WireId(n, NodeId[n]) = 256 * j
                           /\ WireId(n, NodeId[n] + c) = 256 * j + c
    BY WireIdShape
  <2>2. PICK j \in 0 .. 15 : WireId(n, NodeId[n] + c) = 256 * j + c
    BY <2>1
  <2> QED
    BY <2>2
<1>3. CASE f = HeartbeatFrame(n)
  BY <1>1, <1>2, <1>3 DEF HeartbeatFrame, CanFrame, Frame, Payload, Byte, CANMSG_HEARTBEAT_ID
<1>4. ASSUME NEW s \in Nat, f = ButtonFrame(n, s)
      PROVE  /\ f \in Frame
             /\ f.ext = ExtId[n]
             /\ f.id = WireId(n, NodeId[n] + CANMSG_BUTTON_ID)
  <2>1. s % 256 \in 0 .. 255
    OBVIOUS
  <2> QED
    BY <1>1, <1>2, <1>4, <2>1 DEF ButtonFrame, CanFrame, Frame, Payload, Byte, CANMSG_BUTTON_ID
<1> QED
  BY <1>3, <1>4 DEF NodeFrames

(* Its identifier is the node's on the wire and the number of the message. *)
LEMMA FrameIdShape ==
  ASSUME NEW n \in Nodes, NEW f \in NodeFrames(n)
  PROVE  \E j \in 0 .. 15, c \in {1, 2} : /\ WireId(n, NodeId[n]) = 256 * j
                                         /\ f.id = 256 * j + c
<1>1. ASSUME f.id = WireId(n, NodeId[n] + 1)
      PROVE  \E j \in 0 .. 15 : WireId(n, NodeId[n]) = 256 * j /\ f.id = 256 * j + 1
  BY <1>1, WireIdShape
<1>2. ASSUME f.id = WireId(n, NodeId[n] + 2)
      PROVE  \E j \in 0 .. 15 : WireId(n, NodeId[n]) = 256 * j /\ f.id = 256 * j + 2
  BY <1>2, WireIdShape
<1>3. f.id = WireId(n, NodeId[n] + 1) \/ f.id = WireId(n, NodeId[n] + 2)
  BY NodeFrameShape DEF CANMSG_HEARTBEAT_ID, CANMSG_BUTTON_ID
<1> QED
  BY <1>1, <1>2, <1>3

(* No node sends what another takes for an LED request.                    *)
LEMMA NodeFrameNotRequested ==
  ASSUME NEW m \in Nodes, NEW n \in Nodes, NEW f \in NodeFrames(n)
  PROVE  ~Requested(m, f)
<1>1. PICK k \in 0 .. 15 : NodeId[m] = 256 * k
  BY NodeIdShape
<1>2. PICK j \in 0 .. 15, c \in {1, 2} : f.id = 256 * j + c
  BY FrameIdShape
<1>3. 256 * j + c # 256 * k + 3
  OBVIOUS
<1> QED
  BY <1>1, <1>2, <1>3 DEF Requested, CANMSG_LED_ID

(* Of a frame whose identifier can_read leaves alone thread_rx takes for a *)
(* request exactly what the sender means as one.                           *)
LEMMA FilterExact ==
  ASSUME NEW n \in Nodes, NEW f \in Frame, Backend[n] = "sock" => ~f.ext
  PROVE  IsLedRequest(n, f) <=> Requested(n, f)
<1>1. PICK k \in 0 .. 15 : NodeId[n] = 256 * k
  BY NodeIdShape
<1>2. CanReadId(n, f) = f.id
  BY DEF CanReadId
<1>3. f.id \in Nat
  BY DEF Frame
<1>4. f.id = 256 * k + 3 => Masked(f.id) = 256 * k
  <2>1. (256 * k + 3) \div 256 = k /\ k % 16 = k
    OBVIOUS
  <2> QED
    BY <2>1 DEF Masked
<1>5. f.id - 256 * k = 3 <=> f.id = 256 * k + 3
  BY <1>3
<1> QED
  BY <1>1, <1>2, <1>4, <1>5 DEF IsLedRequest, Requested, CANMSG_LED_ID

(* An extended frame that can_read of SocketCAN hands over, flag and all,  *)
(* is never a request.                                                     *)
LEMMA FlaggedNotRequest ==
  ASSUME NEW n \in Nodes, NEW f \in Frame, Backend[n] = "sock", f.ext
  PROVE  ~IsLedRequest(n, f)
<1>1. PICK k \in 0 .. 15 : NodeId[n] = 256 * k
  BY NodeIdShape
<1>2. CanReadId(n, f) = f.id + CAN_EFF_FLAG
  BY DEF CanReadId
<1>3. f.id \in Nat /\ CAN_EFF_FLAG \in Nat /\ CAN_EFF_FLAG >= 4096
  BY FramesAssumption DEF Frame
<1>4. CanReadId(n, f) - NodeId[n] # CANMSG_LED_ID
  BY <1>1, <1>2, <1>3 DEF CANMSG_LED_ID
<1> QED
  BY <1>4, Zenon DEF IsLedRequest

(* What the other side of the bus and the nodes put on it and n can hear.  *)
Audible(n) == {f \in HostFrames \cup UNION {NodeFrames(m) : m \in Nodes} : CanHear(n, f)}

(* If the host asks plainly, n takes for requests what is meant as one.    *)
LEMMA AudibleExact ==
  ASSUME AskedPlainly, NEW n \in Nodes, NEW f \in Audible(n)
  PROVE  IsLedRequest(n, f) <=> Requested(n, f)
<1>1. f \in Frame
  BY NodeFrameShape, FramesAssumption DEF Audible
<1>2. CASE Backend[n] = "sock" /\ f.ext
  <2>1. ~Requested(n, f)
    BY <1>2, NodeFrameNotRequested DEF Audible, AskedPlainly
  <2> QED
    BY <1>1, <1>2, <2>1, FlaggedNotRequest
<1>3. CASE ~(Backend[n] = "sock" /\ f.ext)
  BY <1>1, <1>3, FilterExact
<1> QED
  BY <1>2, <1>3

(* If the host asks a SocketCAN node in extended frames only, the node     *)
(* takes nothing for a request.                                            *)
LEMMA AudibleDeaf ==
  ASSUME NEW n \in Nodes, Backend[n] = "sock",
         \A f \in HostFrames : Requested(n, f) => f.ext,
         NEW f \in Audible(n)
  PROVE  ~IsLedRequest(n, f)
<1>1. f \in Frame
  BY NodeFrameShape, FramesAssumption DEF Audible
<1>2. CASE f.ext
  BY <1>1, <1>2, FlaggedNotRequest
<1>3. CASE ~f.ext
  <2>1. ~Requested(n, f)
    BY <1>3, NodeFrameNotRequested DEF Audible
  <2> QED
    BY <1>1, <1>3, <2>1, FilterExact
<1> QED
  BY <1>2, <1>3

(* Two nodes cannot both be asked by one frame. *)
LEMMA OneLamp ==
  ASSUME DistinctIds, NEW m \in Nodes, NEW n \in Nodes, NEW f,
         Requested(m, f), Requested(n, f)
  PROVE  m = n
<1>1. NodeId[m] \in Nat /\ NodeId[n] \in Nat
  BY FramesAssumption
<1>2. NodeId[m] = NodeId[n]
  BY <1>1 DEF Requested, CANMSG_LED_ID
<1> QED
  BY <1>2 DEF DistinctIds

-----------------------------------------------------------------------------
(* Types                                                                   *)

(* A node shows bytes, and always one.                                     *)
LEMMA ShownBytes ==
  ASSUME NEW n \in Nodes, NEW d \in Payload
  PROVE  Shown(n, d) \in SUBSET Byte /\ Shown(n, d) # {}
<1>1. CanReadData(d) \in SUBSET Byte
  BY DEF CanReadData, Payload
<1>2. CanReadData(d) # {}
  <2>1. 0 \in Byte
    BY DEF Byte
  <2> QED
    BY <2>1 DEF CanReadData
<1>3. \A x \in Byte : (IF Dummy[n] \/ x = 0 THEN x ELSE 1) \in Byte
  BY DEF Byte
<1> QED
  BY <1>1, <1>2, <1>3 DEF Shown

(* The network starts well typed.                                          *)
THEOREM CanInitTypeOK == Init => TypeOK
<1> SUFFICES ASSUME Init PROVE TypeOK
  OBVIOUS
<1> USE DEF Init
<1>1. 0 \in Byte /\ 0 \in Payload /\ \A n \in Nodes : <<>> \in Seq(Frame) /\ Len(<<>>) = 0
  BY DEF Byte, Payload
<1> QED
  BY <1>1, NetworkAssumption DEF TypeOK

(* A frame queued by its node is typed and so is the queue it goes to. *)
LEMMA QueueType ==
  ASSUME TypeOK, NEW n \in Nodes, NEW f \in Frame, Queue(n, f)
  PROVE  txq' \in [Nodes -> Seq(Frame)] /\ \A m \in Nodes : Len(txq'[m]) <= TxLimit
<1>1. txq[n] \in Seq(Frame)
  BY DEF TypeOK
<1>2. Append(txq[n], f) \in Seq(Frame) /\ Len(Append(txq[n], f)) = Len(txq[n]) + 1
  BY <1>1
<1> QED
  BY <1>1, <1>2, NetworkAssumption DEF TypeOK, Queue, Room

(* Takers have room, so their queues stay bounded.                         *)
LEMMA BroadcastType ==
  ASSUME TypeOK, NEW f \in Frame, NEW others, others \subseteq Nodes,
         Broadcast(f, Takers(f, others))
  PROVE  rxq' \in [Nodes -> Seq(Frame)] /\ \A m \in Nodes : Len(rxq'[m]) <= RxLimit
<1>1. ASSUME NEW m \in Nodes
      PROVE  rxq'[m] \in Seq(Frame) /\ Len(rxq'[m]) <= RxLimit
  <2>1. rxq[m] \in Seq(Frame) /\ Len(rxq[m]) <= RxLimit
    BY DEF TypeOK
  <2>2. Append(rxq[m], f) \in Seq(Frame) /\ Len(Append(rxq[m], f)) = Len(rxq[m]) + 1
    BY <2>1
  <2> QED
    BY <2>1, <2>2, NetworkAssumption DEF Broadcast, Takers
<1> QED
  BY <1>1 DEF Broadcast

(* A queue that is read stays a queue.                                     *)
LEMMA TailType ==
  ASSUME NEW q \in Seq(Frame), q # <<>>
  PROVE  Tail(q) \in Seq(Frame) /\ Len(Tail(q)) = Len(q) - 1 /\ Head(q) \in Frame
OBVIOUS

(* Every step keeps the types.                                             *)
THEOREM CanStepTypeOK == TypeOK /\ [Next]_vars => TypeOK'
<1> SUFFICES ASSUME TypeOK, [Next]_vars PROVE TypeOK'
  OBVIOUS
<1> USE NetworkAssumption
<1>1. ASSUME NEW n \in Nodes, Main(n) PROVE TypeOK'
  <2>1. CASE CanInit(n)
    BY <2>1 DEF CanInit, MainStep, TypeOK, buttonVars, lampVars
  <2>2. CASE CreateRxThread(n)
    BY <2>2 DEF CreateRxThread, MainStep, TypeOK, buttonVars, lampVars
  <2>3. CASE CreateButtonThread(n)
    BY <2>3 DEF CreateButtonThread, MainStep, TypeOK, buttonVars, lampVars
  <2>4. CASE BootFails(n)
    BY <2>4 DEF BootFails, MainStep, TypeOK, buttonVars, lampVars
  <2>5. CASE Heartbeat(n)
    <3>1. HeartbeatFrame(n) \in Frame
      BY NodeFrameShape DEF NodeFrames
    <3>2. txq' \in [Nodes -> Seq(Frame)] /\ \A m \in Nodes : Len(txq'[m]) <= TxLimit
      BY <2>5, <3>1, QueueType DEF Heartbeat
    <3> QED
      BY <2>5, <3>2 DEF Heartbeat, MainStep, TypeOK, buttonVars, lampVars
  <2>6. CASE HeartbeatFails(n)
    BY <2>6 DEF HeartbeatFails, MainStep, TypeOK, buttonVars, lampVars
  <2>7. CASE HeartbeatSleep(n)
    BY <2>7 DEF HeartbeatSleep, MainStep, TypeOK, buttonVars, lampVars
  <2> QED
    BY <1>1, <2>1, <2>2, <2>3, <2>4, <2>5, <2>6, <2>7 DEF Main
<1>2. ASSUME NEW n \in Nodes, Rx(n) PROVE TypeOK'
  <2>0. ASSUME CanRead(n)
        PROVE  /\ rxq' \in [Nodes -> Seq(Frame)] /\ \A m \in Nodes : Len(rxq'[m]) <= RxLimit
               /\ Head(rxq[n]) \in Frame
    <3>1. rxq[n] \in Seq(Frame) /\ rxq[n] # <<>>
      BY <2>0 DEF CanRead, TypeOK
    <3> QED
      BY <2>0, <3>1, TailType DEF CanRead, TypeOK
  <2>1. CASE LedInit(n)
    BY <2>1 DEF LedInit, RxStep, TypeOK, buttonVars
  <2>2. CASE LedInitFails(n)
    BY <2>2 DEF LedInitFails, RxStep, TypeOK, buttonVars
  <2>3. CASE IgnoreFrame(n)
    BY <2>3, <2>0 DEF IgnoreFrame, TypeOK, buttonVars, lampVars
  <2>4. CASE LedSet(n)
    <3>1. Head(rxq[n]).data \in Payload
      BY <2>4, <2>0 DEF LedSet, Frame
    <3>2. PICK s \in Shown(n, Head(rxq[n]).data) : led' = [led EXCEPT ![n] = s]
      BY <2>4 DEF LedSet
    <3>3. led' \in [Nodes -> Byte]
      BY <3>1, <3>2, ShownBytes DEF TypeOK
    <3> QED
      BY <2>4, <2>0, <3>3 DEF LedSet, TypeOK, buttonVars
  <2>5. CASE LedSetFails(n)
    BY <2>5, <2>0 DEF LedSetFails, TypeOK, buttonVars
  <2> QED
    BY <1>2, <2>1, <2>2, <2>3, <2>4, <2>5 DEF Rx
<1>3. ASSUME NEW n \in Nodes, Button(n) PROVE TypeOK'
  <2>1. CASE ButtonInit(n)
    BY <2>1 DEF ButtonInit, ButtonStep, TypeOK, lampVars
  <2>2. CASE ButtonInitFails(n)
    BY <2>2 DEF ButtonInitFails, ButtonStep, TypeOK, lampVars
  <2>3. CASE ButtonPoll(n)
    BY <2>3 DEF ButtonPoll, ButtonStep, TypeOK, lampVars
  <2>4. CASE ButtonGet(n)
    BY <2>4 DEF ButtonGet, ButtonStep, TypeOK, lampVars
  <2>5. CASE ButtonGetFails(n)
    BY <2>5 DEF ButtonGetFails, ButtonStep, TypeOK, lampVars
  <2>6. CASE ButtonSend(n)
    <3>1. sample[n] \in Nat /\ ButtonFrame(n, sample[n]) \in Frame
      BY NodeFrameShape DEF NodeFrames, TypeOK
    <3>2. txq' \in [Nodes -> Seq(Frame)] /\ \A m \in Nodes : Len(txq'[m]) <= TxLimit
      BY <2>6, <3>1, QueueType DEF ButtonSend
    <3>3. ButtonFrame(n, sample[n]).data \in Byte
      BY <3>1 DEF ButtonFrame, CanFrame, Byte
    <3>4. reported' \in [Nodes -> Byte]
      BY <2>6, <3>3 DEF ButtonSend, TypeOK
    <3>5. btn' = [btn EXCEPT ![n] = IF Dummy[n] THEN "sleep" ELSE "poll"]
      BY <2>6 DEF ButtonSend, ButtonStep, Resting
    <3>6. UNCHANGED <<main, rxq, button, event, sample, btnLost, rx, led, wanted, ledLost>>
      BY <2>6 DEF ButtonSend, lampVars
    <3> QED
      BY <3>2, <3>4, <3>5, <3>6 DEF TypeOK
  <2>7. CASE ButtonSendFails(n)
    BY <2>7 DEF ButtonSendFails, ButtonStep, Resting, TypeOK, lampVars
  <2> QED
    BY <1>3, <2>1, <2>2, <2>3, <2>4, <2>5, <2>6, <2>7 DEF Button
<1>4. ASSUME NEW n \in Nodes, DummySample(n) PROVE TypeOK'
  BY <1>4 DEF DummySample, ButtonStep, TypeOK, lampVars
<1>5. ASSUME NEW n \in Nodes, Transmit(n) PROVE TypeOK'
  <2>1. txq[n] \in Seq(Frame) /\ txq[n] # <<>>
    BY <1>5 DEF Transmit, TypeOK
  <2>2. txq' \in [Nodes -> Seq(Frame)] /\ \A m \in Nodes : Len(txq'[m]) <= TxLimit
    BY <1>5, <2>1, TailType DEF Transmit, TypeOK
  <2>3. rxq' \in [Nodes -> Seq(Frame)] /\ \A m \in Nodes : Len(rxq'[m]) <= RxLimit
    <3>1. Head(txq[n]) \in Frame
      BY <2>1, TailType
    <3> QED
      BY <1>5, <3>1, BroadcastType DEF Transmit
  <2> QED
    BY <1>5, <2>2, <2>3 DEF Transmit, TypeOK, buttonVars, lampVars
<1>6. ASSUME NEW n \in Nodes, Press(n) PROVE TypeOK'
  BY <1>6 DEF Press, TypeOK, lampVars
<1>7. ASSUME NEW f \in HostFrames, HostSend(f) PROVE TypeOK'
  <2>1. f \in Frame /\ f.data \in Payload
    BY FramesAssumption DEF Frame
  <2>2. rxq' \in [Nodes -> Seq(Frame)] /\ \A m \in Nodes : Len(rxq'[m]) <= RxLimit
    BY <1>7, <2>1, BroadcastType DEF HostSend
  <2>3. wanted' \in [Nodes -> Payload]
    BY <1>7, <2>1 DEF HostSend, TypeOK
  <2> QED
    BY <1>7, <2>2, <2>3 DEF HostSend, TypeOK, buttonVars
<1>8. CASE UNCHANGED vars
  BY <1>8 DEF vars, buttonVars, lampVars, TypeOK
<1> QED
  BY <1>1, <1>2, <1>3, <1>4, <1>5, <1>6, <1>7, <1>8 DEF Next

(* Every variable of every node keeps its type and no driver queue grows   *)
(* past its limit.                                                         *)
THEOREM CanTypeOK == Spec => []TypeOK
  BY CanInitTypeOK, CanStepTypeOK, PTL DEF Spec

-----------------------------------------------------------------------------
(* The two queues of a driver: a queue to the bus holds the node's own     *)
(* frames, a queue from the bus what others sent and the node can hear.    *)

Traffic == \A n \in Nodes : \A k \in DOMAIN txq[n] : txq[n][k] \in NodeFrames(n)

Heard == \A n \in Nodes : \A k \in DOMAIN rxq[n] : rxq[n][k] \in Audible(n)

BusInv == TypeOK /\ Traffic /\ Heard

(* The elements of a queue that takes one more.                            *)
LEMMA AppendElements ==
  ASSUME NEW q \in Seq(Frame), NEW f \in Frame
  PROVE  /\ DOMAIN Append(q, f) = 1 .. Len(q) + 1
         /\ Len(Append(q, f)) = Len(q) + 1
         /\ \A k \in 1 .. Len(q) : Append(q, f)[k] = q[k]
         /\ Append(q, f)[Len(q) + 1] = f
         /\ DOMAIN q = 1 .. Len(q) /\ Len(q) \in Nat
OBVIOUS

(* The elements of a queue that is read.                                   *)
LEMMA TailElements ==
  ASSUME NEW q \in Seq(Frame), q # <<>>
  PROVE  /\ DOMAIN Tail(q) = 1 .. Len(q) - 1
         /\ Len(Tail(q)) = Len(q) - 1
         /\ \A k \in 1 .. Len(q) - 1 : Tail(q)[k] = q[k + 1]
         /\ Head(q) = q[1]
         /\ DOMAIN q = 1 .. Len(q) /\ Len(q) \in Nat \ {0}
OBVIOUS

(* What a step does to the queue to the bus. *)
LEMMA TxStep ==
  ASSUME TypeOK, [Next]_vars
  PROVE  \/ UNCHANGED txq
         \/ \E n \in Nodes : \E f \in NodeFrames(n) : Queue(n, f)
         \/ \E n \in Nodes : Transmit(n)
<1>1. ASSUME NEW n \in Nodes, Main(n)
      PROVE  UNCHANGED txq \/ \E f \in NodeFrames(n) : Queue(n, f)
  <2>1. HeartbeatFrame(n) \in NodeFrames(n)
    BY DEF NodeFrames
  <2> QED
    BY <1>1, <2>1 DEF Main, CanInit, CreateRxThread, CreateButtonThread, BootFails,
                      Heartbeat, HeartbeatFails, HeartbeatSleep
<1>2. ASSUME NEW n \in Nodes, Rx(n) PROVE UNCHANGED txq
  BY <1>2 DEF Rx, LedInit, LedInitFails, IgnoreFrame, LedSet, LedSetFails
<1>3. ASSUME NEW n \in Nodes, Button(n)
      PROVE  UNCHANGED txq \/ \E f \in NodeFrames(n) : Queue(n, f)
  <2>1. ButtonFrame(n, sample[n]) \in NodeFrames(n)
    BY DEF NodeFrames, TypeOK
  <2> QED
    BY <1>3, <2>1 DEF Button, ButtonInit, ButtonInitFails, ButtonPoll, ButtonGet,
                      ButtonGetFails, ButtonSend, ButtonSendFails
<1>4. ASSUME NEW n \in Nodes, DummySample(n) \/ Press(n) PROVE UNCHANGED txq
  BY <1>4 DEF DummySample, Press
<1>5. ASSUME NEW f \in HostFrames, HostSend(f) PROVE UNCHANGED txq
  BY <1>5 DEF HostSend
<1>6. CASE UNCHANGED vars
  BY <1>6 DEF vars
<1> QED
  BY <1>1, <1>2, <1>3, <1>4, <1>5, <1>6 DEF Next

(* What a step does to the queue from the bus and to the LED. *)
LEMMA RxqStep ==
  ASSUME [Next]_vars
  PROVE  \/ UNCHANGED <<rxq, led, wanted, ledLost>>
         \/ \E n \in Nodes : IgnoreFrame(n) \/ LedSet(n) \/ LedSetFails(n)
         \/ \E n \in Nodes : Transmit(n)
         \/ \E f \in HostFrames : HostSend(f)
<1>1. ASSUME NEW n \in Nodes, Main(n) PROVE UNCHANGED <<rxq, led, wanted, ledLost>>
  BY <1>1 DEF Main, CanInit, CreateRxThread, CreateButtonThread, BootFails,
              Heartbeat, HeartbeatFails, HeartbeatSleep, lampVars
<1>2. ASSUME NEW n \in Nodes, LedInit(n) \/ LedInitFails(n)
      PROVE UNCHANGED <<rxq, led, wanted, ledLost>>
  BY <1>2 DEF LedInit, LedInitFails
<1>3. ASSUME NEW n \in Nodes, Button(n) PROVE UNCHANGED <<rxq, led, wanted, ledLost>>
  BY <1>3 DEF Button, ButtonInit, ButtonInitFails, ButtonPoll, ButtonGet,
              ButtonGetFails, ButtonSend, ButtonSendFails, lampVars
<1>4. ASSUME NEW n \in Nodes, DummySample(n) \/ Press(n)
      PROVE  UNCHANGED <<rxq, led, wanted, ledLost>>
  BY <1>4 DEF DummySample, Press, lampVars
<1>5. CASE UNCHANGED vars
  BY <1>5 DEF vars, lampVars
<1> QED
  BY <1>1, <1>2, <1>3, <1>4, <1>5 DEF Next, Rx

(* The queues are empty at first.                                          *)
LEMMA BusInit == Init => BusInv
<1> SUFFICES ASSUME Init PROVE BusInv
  OBVIOUS
<1>1. TypeOK
  BY CanInitTypeOK
<1>2. \A n \in Nodes : DOMAIN txq[n] = {} /\ DOMAIN rxq[n] = {}
  <2>1. <<>> \in Seq(Frame) /\ Len(<<>>) = 0 /\ 1 .. 0 = {}
    OBVIOUS
  <2>2. DOMAIN <<>> = {}
    BY <2>1
  <2> QED
    BY <2>2 DEF Init
<1> QED
  BY <1>1, <1>2 DEF BusInv, Traffic, Heard

(* Every step keeps what the queues hold.                                  *)
LEMMA BusStep == BusInv /\ [Next]_vars => BusInv'
<1> SUFFICES ASSUME BusInv, [Next]_vars PROVE BusInv'
  OBVIOUS
<1>0. TypeOK /\ Traffic /\ Heard
  BY DEF BusInv
<1>1. TypeOK'
  BY <1>0, CanStepTypeOK
<1>2. Traffic'
  <2>1. CASE UNCHANGED txq
    BY <1>0, <2>1 DEF Traffic
  <2>2. ASSUME NEW n \in Nodes, NEW f \in NodeFrames(n), Queue(n, f) PROVE Traffic'
    <3>1. txq[n] \in Seq(Frame) /\ f \in Frame
      BY <1>0, NodeFrameShape DEF TypeOK
    <3>2. ASSUME NEW k \in DOMAIN txq'[n] PROVE txq'[n][k] \in NodeFrames(n)
      <4>1. txq'[n] = Append(txq[n], f)
        BY <1>0, <2>2 DEF Queue, TypeOK
      <4> QED
        BY <1>0, <3>1, <3>2, <4>1, AppendElements DEF Traffic
    <3>3. \A m \in Nodes \ {n} : txq'[m] = txq[m]
      BY <1>0, <2>2 DEF Queue, TypeOK
    <3> QED
      BY <1>0, <3>2, <3>3 DEF Traffic
  <2>3. ASSUME NEW n \in Nodes, Transmit(n) PROVE Traffic'
    <3>1. txq[n] \in Seq(Frame) /\ txq[n] # <<>>
      BY <1>0, <2>3 DEF TypeOK, Transmit
    <3>2. ASSUME NEW k \in DOMAIN txq'[n] PROVE txq'[n][k] \in NodeFrames(n)
      <4>1. txq'[n] = Tail(txq[n])
        BY <1>0, <2>3 DEF Transmit, TypeOK
      <4>2. k \in 1 .. Len(txq[n]) - 1
        BY <3>1, <3>2, <4>1, TailElements
      <4>3. k + 1 \in DOMAIN txq[n] /\ txq'[n][k] = txq[n][k + 1]
        BY <3>1, <4>1, <4>2, TailElements
      <4> QED
        BY <1>0, <4>3 DEF Traffic
    <3>3. \A m \in Nodes \ {n} : txq'[m] = txq[m]
      BY <1>0, <2>3 DEF Transmit, TypeOK
    <3> QED
      BY <1>0, <3>2, <3>3 DEF Traffic
  <2> QED
    BY <1>0, <2>1, <2>2, <2>3, TxStep
<1>3. Heard'
  <2>1. CASE UNCHANGED rxq
    BY <1>0, <2>1 DEF Heard
  <2>2. ASSUME NEW n \in Nodes, CanRead(n) PROVE Heard'
    <3>1. rxq[n] \in Seq(Frame) /\ rxq[n] # <<>>
      BY <1>0, <2>2 DEF TypeOK, CanRead
    <3>2. ASSUME NEW k \in DOMAIN rxq'[n] PROVE rxq'[n][k] \in Audible(n)
      <4>1. rxq'[n] = Tail(rxq[n])
        BY <1>0, <2>2 DEF CanRead, TypeOK
      <4>2. k \in 1 .. Len(rxq[n]) - 1
        BY <3>1, <3>2, <4>1, TailElements
      <4>3. k + 1 \in DOMAIN rxq[n] /\ rxq'[n][k] = rxq[n][k + 1]
        BY <3>1, <4>1, <4>2, TailElements
      <4> QED
        BY <1>0, <4>3 DEF Heard
    <3>3. \A m \in Nodes \ {n} : rxq'[m] = rxq[m]
      BY <1>0, <2>2 DEF CanRead, TypeOK
    <3> QED
      BY <1>0, <3>2, <3>3 DEF Heard
  <2>3. ASSUME NEW f \in Frame, NEW others \in SUBSET Nodes,
               f \in HostFrames \cup UNION {NodeFrames(m) : m \in Nodes},
               Broadcast(f, Takers(f, others))
        PROVE  Heard'
    <3> SUFFICES ASSUME NEW m \in Nodes, NEW k \in DOMAIN rxq'[m]
                 PROVE  rxq'[m][k] \in Audible(m)
      BY DEF Heard
    <3>1. rxq[m] \in Seq(Frame)
      BY <1>0 DEF TypeOK
    <3>2. CASE m \in Takers(f, others)
      <4>1. f \in Audible(m) /\ rxq'[m] = Append(rxq[m], f)
        BY <2>3, <3>2 DEF Takers, Broadcast, Audible
      <4> QED
        BY <1>0, <3>1, <4>1, AppendElements DEF Heard
    <3>3. CASE m \notin Takers(f, others)
      BY <1>0, <2>3, <3>3 DEF Heard, Broadcast
    <3> QED
      BY <3>2, <3>3
  <2>4. ASSUME NEW n \in Nodes, Transmit(n) PROVE Heard'
    <3>1. txq[n] \in Seq(Frame) /\ txq[n] # <<>>
      BY <1>0, <2>4 DEF TypeOK, Transmit
    <3>2. Head(txq[n]) \in Frame /\ Head(txq[n]) \in NodeFrames(n)
      BY <1>0, <3>1, TailType, TailElements DEF Traffic
    <3> QED
      BY <2>3, <2>4, <3>2 DEF Transmit
  <2>5. ASSUME NEW f \in HostFrames, HostSend(f) PROVE Heard'
    BY <2>3, <2>5, FramesAssumption DEF HostSend
  <2> QED
    BY <2>1, <2>2, <2>4, <2>5, RxqStep DEF IgnoreFrame, LedSet, LedSetFails
<1> QED
  BY <1>1, <1>2, <1>3 DEF BusInv

(* A send queue holds frames of its node, a receive queue what the host or *)
(* a node sent and its node can hear.                                      *)
THEOREM CanBusInv == Spec => []BusInv
  BY BusInit, BusStep, PTL DEF Spec

-----------------------------------------------------------------------------
(* Arbitration                                                             *)

(* The identifiers in two send queues differ if the nodes' do.             *)
LEMMA ClashFree == WireIdsDiffer /\ BusInv => NoArbitrationClash
<1> SUFFICES ASSUME WireIdsDiffer, BusInv,
                    NEW m \in Nodes, NEW n \in Nodes, m # n,
                    NEW j \in DOMAIN txq[m], NEW k \in DOMAIN txq[n],
                    txq[m][j].ext = txq[n][k].ext,
                    txq[m][j].id = txq[n][k].id
             PROVE  FALSE
  BY DEF NoArbitrationClash
<1>1. txq[m][j] \in NodeFrames(m) /\ txq[n][k] \in NodeFrames(n)
  BY DEF BusInv, Traffic
<1>2. ExtId[m] = ExtId[n]
  BY <1>1, NodeFrameShape
<1>3. PICK x \in 0 .. 15, c \in {1, 2} : /\ WireId(m, NodeId[m]) = 256 * x
                                         /\ txq[m][j].id = 256 * x + c
  BY <1>1, FrameIdShape
<1>4. PICK y \in 0 .. 15, d \in {1, 2} : /\ WireId(n, NodeId[n]) = 256 * y
                                         /\ txq[n][k].id = 256 * y + d
  BY <1>1, FrameIdShape
<1>5. 256 * x + c = 256 * y + d
  BY <1>3, <1>4
<1>6. x = y
  BY <1>5
<1> QED
  BY <1>2, <1>3, <1>4, <1>6 DEF WireIdsDiffer

(* When the identifiers of different nodes differ on the wire, no two      *)
(* nodes ever compete for the bus with one identifier.  FittingIdsDiffer   *)
(* says which node IDs do.                                                 *)
THEOREM CanNoArbitrationClash ==
  ASSUME WireIdsDiffer
  PROVE  Spec => []NoArbitrationClash
<1>1. BusInv => NoArbitrationClash
  BY ClashFree
<1> QED
  BY <1>1, CanBusInv, PTL

-----------------------------------------------------------------------------
(* The LED.  LampOf says of one node what LampFollowsHost says of all:     *)
(* with q received and not read, d asked for last, s shown and the last    *)
(* request lost in the driver or not.                                      *)

LampOf(n, q, d, s, lost) ==
  /\ \A k \in DOMAIN q :
       Requested(n, q[k]) /\ (\A j \in k + 1 .. Len(q) : ~Requested(n, q[j]))
         => q[k].data = d
  /\ (\A k \in DOMAIN q : ~Requested(n, q[k])) => s \in Shown(n, d) \/ lost

(* LampFollowsHost, one node at a time.                                    *)
LEMMA LampFollowsHostIs ==
  LampFollowsHost <=> \A n \in Nodes : LampOf(n, rxq[n], wanted[n], led[n], ledLost[n])
BY DEF LampFollowsHost, LampOf

(* A frame that asks nothing of the node joins its queue.                  *)
LEMMA LampOther ==
  ASSUME NEW n, NEW q \in Seq(Frame), NEW f \in Frame, NEW d, NEW s, NEW lost,
         ~Requested(n, f), LampOf(n, q, d, s, lost)
  PROVE  LampOf(n, Append(q, f), d, s, lost)
<1>1. /\ DOMAIN Append(q, f) = 1 .. Len(q) + 1 /\ Len(Append(q, f)) = Len(q) + 1
      /\ \A k \in 1 .. Len(q) : Append(q, f)[k] = q[k]
      /\ Append(q, f)[Len(q) + 1] = f
      /\ DOMAIN q = 1 .. Len(q) /\ Len(q) \in Nat
  BY AppendElements
<1>2. ASSUME NEW k \in 1 .. Len(q) + 1, Requested(n, Append(q, f)[k]),
             \A j \in k + 1 .. Len(q) + 1 : ~Requested(n, Append(q, f)[j])
      PROVE  Append(q, f)[k].data = d
  <2>1. k \in 1 .. Len(q) /\ Append(q, f)[k] = q[k]
    BY <1>1, <1>2
  <2>2. \A j \in k + 1 .. Len(q) : ~Requested(n, q[j])
    <3> TAKE j \in k + 1 .. Len(q)
    <3>1. j \in 1 .. Len(q) /\ j \in k + 1 .. Len(q) + 1
      BY <1>1, <2>1
    <3> QED
      BY <1>1, <1>2, <3>1
  <2> QED
    BY <1>1, <1>2, <2>1, <2>2 DEF LampOf
<1>3. ASSUME \A k \in 1 .. Len(q) + 1 : ~Requested(n, Append(q, f)[k])
      PROVE  s \in Shown(n, d) \/ lost
  <2>1. \A k \in 1 .. Len(q) : ~Requested(n, q[k])
    <3> TAKE k \in 1 .. Len(q)
    <3>1. k \in 1 .. Len(q) + 1
      BY <1>1
    <3> QED
      BY <1>1, <1>3, <3>1
  <2> QED
    BY <1>1, <2>1 DEF LampOf
<1> QED
  BY <1>1, <1>2, <1>3 DEF LampOf

(* A request for the node joins its queue.                                 *)
LEMMA LampRequest ==
  ASSUME NEW n, NEW q \in Seq(Frame), NEW f \in Frame, NEW s, NEW lost, Requested(n, f)
  PROVE  LampOf(n, Append(q, f), f.data, s, lost)
<1>1. /\ DOMAIN Append(q, f) = 1 .. Len(q) + 1 /\ Len(Append(q, f)) = Len(q) + 1
      /\ Append(q, f)[Len(q) + 1] = f
      /\ Len(q) \in Nat
  BY AppendElements
<1>2. Len(q) + 1 \in 1 .. Len(q) + 1
  BY <1>1
<1>3. ASSUME NEW k \in 1 .. Len(q) + 1,
             \A j \in k + 1 .. Len(q) + 1 : ~Requested(n, Append(q, f)[j])
      PROVE  k = Len(q) + 1
  <2>1. CASE k < Len(q) + 1
    <3>1. Len(q) + 1 \in k + 1 .. Len(q) + 1
      BY <1>1, <2>1
    <3> QED
      BY <1>1, <1>3, <3>1
  <2> QED
    BY <1>1, <2>1
<1> QED
  BY <1>1, <1>2, <1>3 DEF LampOf

(* The node reads one frame of its queue.                                  *)
LEMMA LampRead ==
  ASSUME NEW n, NEW q \in Seq(Frame), q # <<>>, NEW d, NEW s, NEW lost, NEW s2, NEW lost2,
         LampOf(n, q, d, s, lost),
         \/ Requested(n, Head(q)) /\ (s2 \in Shown(n, Head(q).data) \/ lost2)
         \/ ~Requested(n, Head(q)) /\ s2 = s /\ lost2 = lost
  PROVE  LampOf(n, Tail(q), d, s2, lost2)
<1>1. /\ DOMAIN Tail(q) = 1 .. Len(q) - 1 /\ Len(Tail(q)) = Len(q) - 1
      /\ \A k \in 1 .. Len(q) - 1 : Tail(q)[k] = q[k + 1]
      /\ Head(q) = q[1]
      /\ DOMAIN q = 1 .. Len(q) /\ Len(q) \in Nat \ {0}
  BY TailElements
<1>2. ASSUME NEW k \in 1 .. Len(q) - 1, Requested(n, Tail(q)[k]),
             \A j \in k + 1 .. Len(q) - 1 : ~Requested(n, Tail(q)[j])
      PROVE  Tail(q)[k].data = d
  <2>1. k + 1 \in 1 .. Len(q) /\ Tail(q)[k] = q[k + 1]
    BY <1>1
  <2>2. \A j \in k + 1 + 1 .. Len(q) : ~Requested(n, q[j])
    <3> TAKE j \in k + 1 + 1 .. Len(q)
    <3>1. j - 1 \in 1 .. Len(q) - 1 /\ j - 1 \in k + 1 .. Len(q) - 1 /\ j - 1 + 1 = j
      BY <1>1
    <3>2. Tail(q)[j - 1] = q[j]
      BY <1>1, <3>1
    <3> QED
      BY <1>2, <3>1, <3>2
  <2> QED
    BY <1>1, <1>2, <2>1, <2>2 DEF LampOf
<1>3. ASSUME \A k \in 1 .. Len(q) - 1 : ~Requested(n, Tail(q)[k])
      PROVE  s2 \in Shown(n, d) \/ lost2
  <2>1. \A k \in 2 .. Len(q) : ~Requested(n, q[k])
    <3> TAKE k \in 2 .. Len(q)
    <3>1. k - 1 \in 1 .. Len(q) - 1 /\ k - 1 + 1 = k
      BY <1>1
    <3> QED
      BY <1>1, <1>3, <3>1
  <2>2. 1 \in 1 .. Len(q)
    BY <1>1
  <2>3. CASE Requested(n, Head(q))
    <3>1. q[1].data = d
      BY <1>1, <2>1, <2>2, <2>3 DEF LampOf
    <3> QED
      BY <1>1, <2>3, <3>1
  <2>4. CASE ~Requested(n, Head(q))
    <3>1. \A k \in 1 .. Len(q) : ~Requested(n, q[k])
      BY <1>1, <2>1, <2>4
    <3> QED
      BY <1>1, <2>4, <3>1 DEF LampOf
  <2> QED
    BY <2>3, <2>4
<1> QED
  BY <1>1, <1>2, <1>3 DEF LampOf

(* No request is under way at first.                                       *)
LEMMA LampInit == Init => LampFollowsHost
<1> SUFFICES ASSUME Init, NEW n \in Nodes
             PROVE  LampOf(n, rxq[n], wanted[n], led[n], ledLost[n])
  BY LampFollowsHostIs
<1>1. rxq[n] = <<>> /\ wanted[n] = 0 /\ led[n] = 0
  BY DEF Init
<1>2. DOMAIN rxq[n] = {}
  <2>1. <<>> \in Seq(Frame) /\ Len(<<>>) = 0 /\ 1 .. 0 = {}
    OBVIOUS
  <2> QED
    BY <1>1, <2>1
<1>3. 0 \in Shown(n, 0)
  BY DEF Shown, CanReadData, NoData
<1> QED
  BY <1>1, <1>2, <1>3 DEF LampOf

(* A broadcast leaves the history of requests as LampOf says, whoever the  *)
(* sender is, if wanted follows the requests among what was taken.         *)
LEMMA LampBroadcast ==
  ASSUME TypeOK, LampFollowsHost, UNCHANGED <<led, ledLost>>,
         NEW f \in Frame, NEW others \in SUBSET Nodes,
         Broadcast(f, Takers(f, others)),
         \A n \in Nodes : wanted'[n] = IF n \in Takers(f, others) /\ Requested(n, f)
                                         THEN f.data ELSE wanted[n]
  PROVE  LampFollowsHost'
<1> SUFFICES ASSUME NEW n \in Nodes
             PROVE  LampOf(n, rxq'[n], wanted'[n], led'[n], ledLost'[n])
  BY DEF LampFollowsHost, LampOf
<1>1. LampOf(n, rxq[n], wanted[n], led[n], ledLost[n]) /\ rxq[n] \in Seq(Frame)
  BY LampFollowsHostIs DEF TypeOK
<1>2. CASE n \notin Takers(f, others)
  BY <1>1, <1>2 DEF Broadcast
<1>3. CASE n \in Takers(f, others) /\ Requested(n, f)
  BY <1>1, <1>3, LampRequest DEF Broadcast
<1>4. CASE n \in Takers(f, others) /\ ~Requested(n, f)
  BY <1>1, <1>4, LampOther DEF Broadcast
<1> QED
  BY <1>2, <1>3, <1>4

(* Every step keeps the lamps behind the host.                             *)
LEMMA LampStep ==
  ASSUME AskedPlainly, BusInv, LampFollowsHost, [Next]_vars
  PROVE  LampFollowsHost'
<1>0. TypeOK /\ Traffic /\ Heard
  BY DEF BusInv
<1>1. CASE UNCHANGED <<rxq, led, wanted, ledLost>>
  BY <1>1 DEF LampFollowsHost
<1>2. ASSUME NEW n \in Nodes, IgnoreFrame(n) \/ LedSet(n) \/ LedSetFails(n)
      PROVE  LampFollowsHost'
  <2>1. CanRead(n)
    BY <1>2 DEF IgnoreFrame, LedSet, LedSetFails
  <2>2. rxq[n] \in Seq(Frame) /\ rxq[n] # <<>> /\ rxq' = [rxq EXCEPT ![n] = Tail(rxq[n])]
    BY <1>0, <2>1 DEF CanRead, TypeOK
  <2>3. IsLedRequest(n, Head(rxq[n])) <=> Requested(n, Head(rxq[n]))
    <3>1. Head(rxq[n]) \in Audible(n)
      BY <1>0, <2>2, TailElements DEF Heard
    <3> QED
      BY <3>1, AudibleExact
  <2>4. wanted' = wanted
    BY <1>2 DEF IgnoreFrame, LedSet, LedSetFails, lampVars
  <2>5. \/ Requested(n, Head(rxq[n])) /\ (led'[n] \in Shown(n, Head(rxq[n]).data) \/ ledLost'[n])
        \/ ~Requested(n, Head(rxq[n])) /\ led'[n] = led[n] /\ ledLost'[n] = ledLost[n]
    BY <1>0, <1>2, <2>3 DEF IgnoreFrame, LedSet, LedSetFails, TypeOK, lampVars
  <2>6. \A m \in Nodes \ {n} : led'[m] = led[m] /\ ledLost'[m] = ledLost[m]
    BY <1>0, <1>2 DEF IgnoreFrame, LedSet, LedSetFails, TypeOK, lampVars
  <2> SUFFICES ASSUME NEW m \in Nodes
               PROVE  LampOf(m, rxq'[m], wanted'[m], led'[m], ledLost'[m])
    BY DEF LampFollowsHost, LampOf
  <2>7. LampOf(m, rxq[m], wanted[m], led[m], ledLost[m])
    BY LampFollowsHostIs
  <2>8. CASE m # n
    <3>1. rxq'[m] = rxq[m]
      BY <1>0, <2>2, <2>8 DEF TypeOK
    <3> QED
      BY <2>4, <2>6, <2>7, <2>8, <3>1
  <2>9. CASE m = n
    <3>1. rxq'[n] = Tail(rxq[n])
      BY <1>0, <2>2 DEF TypeOK
    <3>2. LampOf(n, rxq[n], wanted[n], led[n], ledLost[n])
      BY <2>7, <2>9
    <3>3. LampOf(n, Tail(rxq[n]), wanted[n], led'[n], ledLost'[n])
      BY <2>2, <2>5, <3>2, LampRead
    <3> QED
      BY <2>4, <2>9, <3>1, <3>3
  <2> QED
    BY <2>8, <2>9
<1>3. ASSUME NEW n \in Nodes, Transmit(n) PROVE LampFollowsHost'
  <2> DEFINE f == Head(txq[n])
  <2>1. txq[n] \in Seq(Frame) /\ txq[n] # <<>>
    BY <1>0, <1>3 DEF TypeOK, Transmit
  <2>2. f \in Frame
    BY <2>1, TailType
  <2>3. f \in NodeFrames(n)
    BY <1>0, <2>1, TailElements DEF Traffic
  <2>4. \A m \in Nodes : ~Requested(m, f)
    BY <2>3, NodeFrameNotRequested
  <2>5. Broadcast(f, Takers(f, Nodes \ {n})) /\ UNCHANGED <<led, ledLost, wanted>>
    BY <1>3 DEF Transmit, lampVars
  <2> HIDE DEF f
  <2> QED
    BY <1>0, <2>2, <2>4, <2>5, LampBroadcast
<1>4. ASSUME NEW f \in HostFrames, HostSend(f) PROVE LampFollowsHost'
  <2>1. f \in Frame
    BY FramesAssumption
  <2>2. /\ Broadcast(f, Takers(f, Nodes)) /\ UNCHANGED <<led, ledLost>>
        /\ \A n \in Nodes : wanted'[n] = IF n \in Takers(f, Nodes) /\ Requested(n, f)
                                            THEN f.data ELSE wanted[n]
    BY <1>4 DEF HostSend
  <2> QED
    BY <1>0, <2>1, <2>2, LampBroadcast
<1> QED
  BY <1>1, <1>2, <1>3, <1>4, RxqStep

(* If SocketCAN nodes are not asked in extended frames, every LED follows  *)
(* the requests its driver took, in their order and no others.             *)
THEOREM CanLampFollowsHost ==
  ASSUME AskedPlainly
  PROVE  Spec => []LampFollowsHost
<1>1. BusInv /\ LampFollowsHost /\ [Next]_vars => LampFollowsHost'
  BY LampStep
<1> QED
  BY <1>1, LampInit, CanBusInv, PTL DEF Spec

(* A SocketCAN node that is asked in extended frames only never moves its  *)
(* LED, in any network and with any host: the one case that AskedPlainly   *)
(* leaves out is lost whatever happens (cannode_sock.c:113).               *)
THEOREM CanExtendedSocketDeaf ==
  ASSUME NEW n \in Nodes, Backend[n] = "sock",
         \A f \in HostFrames : Requested(n, f) => f.ext
  PROVE  Spec => [](led[n] = 0)
<1>1. Init => led[n] = 0
  BY DEF Init
<1>2. BusInv /\ led[n] = 0 /\ [Next]_vars => (led[n] = 0)'
  <2> SUFFICES ASSUME BusInv, led[n] = 0, [Next]_vars PROVE led'[n] = 0
    OBVIOUS
  <2>0. TypeOK /\ Heard
    BY DEF BusInv
  <2>1. ~LedSet(n)
    <3>1. SUFFICES ASSUME LedSet(n) PROVE FALSE
      OBVIOUS
    <3>2. rxq[n] \in Seq(Frame) /\ rxq[n] # <<>>
      BY <2>0, <3>1 DEF LedSet, CanRead, TypeOK
    <3>3. Head(rxq[n]) \in Audible(n)
      BY <2>0, <3>2, TailElements DEF Heard
    <3> QED
      BY <3>1, <3>3, AudibleDeaf DEF LedSet
  <2>2. ASSUME NEW m \in Nodes, IgnoreFrame(m) \/ LedSet(m) \/ LedSetFails(m)
        PROVE  led'[n] = 0
    BY <2>0, <2>1, <2>2 DEF IgnoreFrame, LedSet, LedSetFails, lampVars, TypeOK
  <2> QED
    BY <2>2, RxqStep DEF Transmit, HostSend, lampVars
<1> QED
  BY <1>1, <1>2, CanBusInv, PTL DEF Spec

-----------------------------------------------------------------------------
(* The buttons.  What thread_button has read and not sent is as current as *)
(* what it has sent when it rests.                                         *)

Booting == {"boot", "create_rx", "create_button"}

ButtonOk(n) ==
  /\ main[n] \in Booting => btn[n] = "none"
  /\ IF Dummy[n]
       THEN /\ sample[n] \in {0, 1}
            /\ btn[n] = "none" => sample[n] = 0 /\ reported[n] = 0
            /\ btn[n] = "sleep" /\ ~btnLost[n] => reported[n] = sample[n]
       ELSE /\ btn[n] \in {"none", "init"} => reported[n] = 0 /\ ~event[n]
            /\ btn[n] = "poll" /\ ~event[n] /\ ~btnLost[n] => reported[n] = button[n] % 256
            /\ btn[n] = "get" => event[n]
            /\ btn[n] = "send" /\ ~event[n] /\ ~btnLost[n] => sample[n] = button[n]

ButtonInv == \A n \in Nodes : ButtonOk(n)

(* A step of one node. *)
ButtonStepOf(n) ==
  \A m \in Nodes \ {n} :
    /\ main'[m] = main[m] /\ btn'[m] = btn[m] /\ button'[m] = button[m] /\ event'[m] = event[m]
    /\ sample'[m] = sample[m] /\ reported'[m] = reported[m] /\ btnLost'[m] = btnLost[m]

(* Steps of others leave thread_button's state alone.                      *)
LEMMA ButtonOthers ==
  ASSUME ButtonInv, NEW n \in Nodes, ButtonStepOf(n), ButtonOk(n)'
  PROVE  ButtonInv'
<1> SUFFICES ASSUME NEW m \in Nodes \ {n} PROVE ButtonOk(m)'
  BY DEF ButtonInv
<1>1. ButtonOk(m)
  BY DEF ButtonInv
<1> QED
  BY <1>1 DEF ButtonOk, ButtonStepOf

(* Nothing is pending at first.                                            *)
LEMMA ButtonInvInit == Init => ButtonInv
BY DEF Init, ButtonInv, ButtonOk

(* Every step keeps what thread_button knows.                              *)
LEMMA ButtonInvStep == TypeOK /\ ButtonInv /\ [Next]_vars => ButtonInv'
<1> SUFFICES ASSUME TypeOK, ButtonInv, [Next]_vars PROVE ButtonInv'
  OBVIOUS
<1> USE NetworkAssumption
<1>1. CASE UNCHANGED <<main, buttonVars>>
  BY <1>1 DEF buttonVars, ButtonInv, ButtonOk
<1>0. ASSUME NEW n \in Nodes
      PROVE  IF Dummy[n] THEN btn[n] \in {"none", "sleep", "send"} ELSE btn[n] # "sleep"
  BY DEF TypeOK
<1>2. ASSUME NEW n \in Nodes, Main(n) PROVE ButtonInv'
  <2>1. CASE CreateButtonThread(n)
    <3>1. /\ ButtonStepOf(n)
          /\ main[n] = "create_button" /\ main'[n] = "beat"
          /\ btn'[n] = IF Dummy[n] THEN "sleep" ELSE "init"
          /\ UNCHANGED <<button[n], event[n], sample[n], reported[n], btnLost[n]>>
      BY <2>1 DEF CreateButtonThread, MainStep, TypeOK, ButtonStepOf
    <3> QED
      BY <1>0, <3>1, ButtonOthers DEF ButtonInv, ButtonOk, Booting
  <2>2. ASSUME UNCHANGED buttonVars, main' = [main EXCEPT ![n] = main'[n]],
               main'[n] \in Booting => main[n] \in Booting
        PROVE  ButtonInv'
    <3>1. ButtonStepOf(n)
      BY <2>2 DEF buttonVars, ButtonStepOf, TypeOK
    <3>2. ButtonOk(n)'
      BY <2>2 DEF buttonVars, ButtonInv, ButtonOk
    <3> QED
      BY <3>1, <3>2, ButtonOthers
  <2>3. ASSUME ~CreateButtonThread(n)
        PROVE  UNCHANGED buttonVars /\ main' = [main EXCEPT ![n] = main'[n]]
    BY <1>2, <2>3 DEF Main, CanInit, CreateRxThread, BootFails, MainStep,
                      Heartbeat, HeartbeatFails, HeartbeatSleep, TypeOK
  <2>4. ASSUME ~CreateButtonThread(n)
        PROVE  main'[n] \in Booting => main[n] \in Booting
    BY <1>2, <2>4 DEF Main, CanInit, CreateRxThread, BootFails, MainStep,
                      Heartbeat, HeartbeatFails, HeartbeatSleep, TypeOK, Booting
  <2> QED
    BY <2>1, <2>2, <2>3, <2>4
<1>3. ASSUME NEW n \in Nodes, Rx(n) PROVE ButtonInv'
  BY <1>1, <1>3 DEF Rx, LedInit, LedInitFails, IgnoreFrame, LedSet, LedSetFails
<1>4. ASSUME NEW n \in Nodes, Button(n) PROVE ButtonInv'
  <2>1. CASE ButtonInit(n)
    <3>1. /\ ButtonStepOf(n)
          /\ btn[n] = "init" /\ btn'[n] = "poll"
          /\ UNCHANGED <<main[n], button[n], event[n], sample[n], reported[n]>>
          /\ 0 % 256 = 0
      BY <2>1 DEF ButtonInit, ButtonStep, TypeOK, ButtonStepOf
    <3>2. btnLost'[n] = (button[n] # 0)
      BY <2>1, Zenon DEF ButtonInit, TypeOK
    <3>3. ~btnLost'[n] => button[n] = 0
      BY <3>2, Zenon
    <3> QED
      BY <1>0, <3>1, <3>3, ButtonOthers DEF ButtonInv, ButtonOk, Booting
  <2>2. CASE ButtonInitFails(n)
    <3>1. /\ ButtonStepOf(n)
          /\ btn[n] = "init" /\ btn'[n] = "exited"
          /\ UNCHANGED <<main[n], button[n], event[n], sample[n], reported[n], btnLost[n]>>
      BY <2>2 DEF ButtonInitFails, ButtonStep, TypeOK, ButtonStepOf
    <3> QED
      BY <1>0, <3>1, ButtonOthers DEF ButtonInv, ButtonOk, Booting
  <2>3. CASE ButtonPoll(n)
    <3>1. /\ ButtonStepOf(n)
          /\ btn[n] = "poll" /\ btn'[n] = "get" /\ event[n]
          /\ UNCHANGED <<main[n], button[n], event[n], sample[n], reported[n], btnLost[n]>>
      BY <2>3 DEF ButtonPoll, ButtonStep, TypeOK, ButtonStepOf
    <3> QED
      BY <1>0, <3>1, ButtonOthers DEF ButtonInv, ButtonOk, Booting
  <2>4. CASE ButtonGet(n)
    <3>1. /\ ButtonStepOf(n)
          /\ btn[n] = "get" /\ btn'[n] = "send"
          /\ sample'[n] = button[n]
          /\ UNCHANGED <<main[n], button[n], reported[n]>>
      BY <2>4 DEF ButtonGet, ButtonStep, TypeOK, ButtonStepOf
    <3> QED
      BY <1>0, <3>1, ButtonOthers DEF ButtonInv, ButtonOk, Booting
  <2>5. CASE ButtonGetFails(n)
    <3>1. /\ ButtonStepOf(n)
          /\ btn[n] = "get" /\ btn'[n] = "send" /\ btnLost'[n]
          /\ sample'[n] = 0
          /\ UNCHANGED <<main[n], button[n], reported[n]>>
      BY <2>5 DEF ButtonGetFails, ButtonStep, TypeOK, ButtonStepOf
    <3> QED
      BY <1>0, <3>1, ButtonOthers DEF ButtonInv, ButtonOk, Booting
  <2>6. CASE ButtonSend(n)
    <3>1. /\ ButtonStepOf(n)
          /\ btn[n] = "send" /\ btn'[n] = IF Dummy[n] THEN "sleep" ELSE "poll"
          /\ reported'[n] = sample[n] % 256
          /\ UNCHANGED <<main[n], button[n], event[n], sample[n], btnLost[n]>>
          /\ 0 % 256 = 0 /\ 1 % 256 = 1
      BY <2>6 DEF ButtonSend, ButtonStep, Resting, ButtonFrame, CanFrame, TypeOK, ButtonStepOf
    <3> QED
      BY <1>0, <3>1, ButtonOthers DEF ButtonInv, ButtonOk, Booting
  <2>7. CASE ButtonSendFails(n)
    <3>1. /\ ButtonStepOf(n)
          /\ btn[n] = "send" /\ btn'[n] = IF Dummy[n] THEN "sleep" ELSE "poll"
          /\ btnLost'[n]
          /\ UNCHANGED <<main[n], button[n], event[n], sample[n], reported[n]>>
      BY <2>7 DEF ButtonSendFails, ButtonStep, Resting, TypeOK, ButtonStepOf
    <3> QED
      BY <1>0, <3>1, ButtonOthers DEF ButtonInv, ButtonOk, Booting
  <2> QED
    BY <1>4, <2>1, <2>2, <2>3, <2>4, <2>5, <2>6, <2>7 DEF Button
<1>5. ASSUME NEW n \in Nodes, DummySample(n) PROVE ButtonInv'
  <2>1. /\ ButtonStepOf(n)
        /\ btn[n] = "sleep" /\ btn'[n] = "send"
        /\ sample'[n] \in {0, 1}
        /\ UNCHANGED <<main[n], button[n], event[n], reported[n]>>
    BY <1>5 DEF DummySample, ButtonStep, TypeOK, ButtonStepOf
  <2> QED
    BY <1>0, <2>1, ButtonOthers DEF ButtonInv, ButtonOk, Booting
<1>6. ASSUME NEW n \in Nodes, Transmit(n) PROVE ButtonInv'
  BY <1>1, <1>6 DEF Transmit
<1>7. ASSUME NEW n \in Nodes, Press(n) PROVE ButtonInv'
  <2>1. /\ ButtonStepOf(n)
        /\ ~Dummy[n]
        /\ btn[n] \in {"poll", "get", "send"} => event'[n]
        /\ btn[n] \in {"none", "init"} => ~event'[n]
        /\ UNCHANGED <<main[n], btn[n], sample[n], reported[n], btnLost[n]>>
    BY <1>7 DEF Press, TypeOK, ButtonStepOf
  <2> QED
    BY <2>1, ButtonOthers DEF ButtonInv, ButtonOk, Booting
<1>8. ASSUME NEW f \in HostFrames, HostSend(f) PROVE ButtonInv'
  BY <1>1, <1>8 DEF HostSend
<1>9. CASE UNCHANGED vars
  BY <1>1, <1>9 DEF vars
<1> QED
  BY <1>2, <1>3, <1>4, <1>5, <1>6, <1>7, <1>8, <1>9 DEF Next

(* thread_button loses no change between poll, read and send.              *)
THEOREM CanReportsCurrent == Spec => []ReportsCurrent
<1>1. ButtonInv => ReportsCurrent
  BY DEF ButtonInv, ButtonOk, ReportsCurrent, Resting
<1> QED
  BY <1>1, ButtonInvInit, ButtonInvStep, CanTypeOK, PTL DEF Spec

-----------------------------------------------------------------------------
(* The refinement                                                          *)

(* The meaning of a frame is a letter.                                     *)
LEMMA LetterType ==
  ASSUME NEW n \in Nodes, NEW f \in Frame
  PROVE  /\ Letter(n, f) \in SUBSET Byte
         /\ Letter(n, f) # {} <=> Requested(n, f)
<1>1. f.data \in Payload
  BY DEF Frame
<1>2. Shown(n, f.data) \in SUBSET Byte /\ Shown(n, f.data) # {}
  BY <1>1, ShownBytes
<1> QED
  BY <1>2 DEF Letter

(* The meaning of a queue is a queue of letters.                           *)
LEMMA LettersType ==
  ASSUME NEW n \in Nodes, NEW q \in Seq(Frame)
  PROVE  /\ Letters(n, q) \in Seq(SUBSET Byte)
         /\ Len(Letters(n, q)) = Len(q)
         /\ DOMAIN Letters(n, q) = 1 .. Len(q)
<1>1. DOMAIN q = 1 .. Len(q) /\ Len(q) \in Nat /\ \A k \in 1 .. Len(q) : q[k] \in Frame
  OBVIOUS
<1>2. Letters(n, q) \in [1 .. Len(q) -> SUBSET Byte]
  BY <1>1, LetterType DEF Letters
<1>3. Letters(n, q) \in Seq(SUBSET Byte)
  BY <1>1, <1>2
<1> QED
  BY <1>1, <1>2, <1>3

(* A frame appended is a letter appended.                                  *)
LEMMA LettersAppend ==
  ASSUME NEW n \in Nodes, NEW q \in Seq(Frame), NEW f \in Frame
  PROVE  Letters(n, Append(q, f)) = Append(Letters(n, q), Letter(n, f))
<1> DEFINE A == Letters(n, Append(q, f))
           B == Append(Letters(n, q), Letter(n, f))
<1>1. Append(q, f) \in Seq(Frame) /\ Len(Append(q, f)) = Len(q) + 1
  OBVIOUS
<1>2. A \in Seq(SUBSET Byte) /\ Len(A) = Len(q) + 1 /\ DOMAIN A = 1 .. Len(q) + 1
  BY <1>1, LettersType
<1>3. Letters(n, q) \in Seq(SUBSET Byte) /\ Len(Letters(n, q)) = Len(q)
  BY LettersType
<1>4. B \in Seq(SUBSET Byte) /\ Len(B) = Len(q) + 1
  BY <1>3, LetterType
<1>5. ASSUME NEW k \in 1 .. Len(q) + 1 PROVE A[k] = B[k]
  <2>1. A[k] = Letter(n, Append(q, f)[k])
    BY <1>1, AppendElements DEF Letters
  <2>2. CASE k = Len(q) + 1
    BY <1>3, <2>1, <2>2, AppendElements
  <2>3. CASE k \in 1 .. Len(q)
    <3>1. Append(q, f)[k] = q[k] /\ Letters(n, q)[k] = Letter(n, q[k])
      BY <2>3, AppendElements DEF Letters
    <3>2. B[k] = Letters(n, q)[k]
      BY <1>3, <2>3
    <3> QED
      BY <2>1, <3>1, <3>2
  <2>4. Len(q) \in Nat
    OBVIOUS
  <2>5. k = Len(q) + 1 \/ k \in 1 .. Len(q)
    BY <2>4
  <2> QED
    BY <2>2, <2>3, <2>5
<1> HIDE DEF A, B
<1> QED
  <2>1. A = B
    BY <1>2, <1>4, <1>5
  <2> QED
    BY <2>1 DEF A, B

(* A frame read is a letter read.                                          *)
LEMMA LettersTail ==
  ASSUME NEW n \in Nodes, NEW q \in Seq(Frame), q # <<>>
  PROVE  /\ Letters(n, q) # <<>>
         /\ Head(Letters(n, q)) = Letter(n, Head(q))
         /\ Letters(n, Tail(q)) = Tail(Letters(n, q))
<1> DEFINE L == Letters(n, q)
           A == Letters(n, Tail(q))
           B == Tail(Letters(n, q))
<1>1. Tail(q) \in Seq(Frame) /\ Len(Tail(q)) = Len(q) - 1 /\ Len(q) \in Nat \ {0}
  OBVIOUS
<1>2. A \in Seq(SUBSET Byte) /\ Len(A) = Len(q) - 1
  BY <1>1, LettersType
<1>3. L \in Seq(SUBSET Byte) /\ Len(L) = Len(q)
  BY LettersType
<1>4. \A k \in 1 .. Len(q) : L[k] = Letter(n, q[k])
  BY TailElements DEF Letters
<1>5. \A k \in 1 .. Len(q) - 1 : A[k] = Letter(n, q[k + 1])
  BY TailElements DEF Letters
<1> HIDE DEF L, A
<1>6. L # <<>> /\ Head(L) = L[1]
  BY <1>1, <1>3
<1>7. Tail(L) \in Seq(SUBSET Byte) /\ Len(Tail(L)) = Len(q) - 1
      /\ \A k \in 1 .. Len(q) - 1 : Tail(L)[k] = L[k + 1]
  BY <1>1, <1>3, <1>6
<1>8. \A k \in 1 .. Len(q) - 1 : A[k] = Tail(L)[k]
  <2> TAKE k \in 1 .. Len(q) - 1
  <2>1. k + 1 \in 1 .. Len(q)
    BY <1>1
  <2> QED
    BY <1>4, <1>5, <1>7, <2>1
<1>9. A = Tail(L)
  BY <1>2, <1>7, <1>8
<1>10. Head(q) = q[1] /\ 1 \in 1 .. Len(q)
  BY <1>1
<1> QED
  BY <1>4, <1>6, <1>9, <1>10 DEF A, L

(* Initial states map to initial states.                                   *)
LEMMA LampInitImplements == Init => Lamp!Init
<1> SUFFICES ASSUME Init PROVE Lamp!Init
  OBVIOUS
<1>1. led \in [Nodes -> Byte]
  BY DEF Init, Byte
<1>2. \A n \in Nodes : Letters(n, rxq[n]) = <<>>
  <2> TAKE n \in Nodes
  <2>1. rxq[n] = <<>> /\ <<>> \in Seq(Frame) /\ Len(<<>>) = 0
    BY DEF Init
  <2>2. Letters(n, <<>>) \in Seq(SUBSET Byte) /\ Len(Letters(n, <<>>)) = 0
    BY <2>1, LettersType
  <2> QED
    BY <2>1, <2>2
<1>3. \A n \in Nodes : Running(n)
  BY DEF Init, Running
<1> QED
  BY <1>1, <1>2, <1>3, Zenon DEF Lamp!Init

(* A broadcast is one arrival. *)
LEMMA ArriveImplements ==
  ASSUME DistinctIds, TypeOK, UNCHANGED <<led, main>>,
         NEW f \in Frame, NEW others \in SUBSET Nodes,
         Broadcast(f, Takers(f, others))
  PROVE  Lamp!Arrive(Takers(f, others))
<1> DEFINE S == Takers(f, others)
           L(n) == Letters(n, rxq[n])
<1>0. S \subseteq Nodes
  BY DEF Takers
<1>1. \A n \in Nodes : rxq[n] \in Seq(Frame) /\ L(n) \in Seq(SUBSET Byte)
  BY LettersType DEF TypeOK
<1>2. \A n \in Nodes : Letters(n, rxq'[n]) =
                        IF n \in S THEN Append(L(n), Letter(n, f)) ELSE L(n)
  BY <1>1, LettersAppend DEF Broadcast
<1>3. \A n \in S : /\ Len(Letters(n, rxq'[n])) = Len(L(n)) + 1
                    /\ Letters(n, rxq'[n])[Len(L(n)) + 1] = Letter(n, f)
  <2> TAKE n \in S
  <2>1. L(n) \in Seq(SUBSET Byte) /\ Letter(n, f) \in SUBSET Byte
    BY <1>0, <1>1, LetterType
  <2>2. Letters(n, rxq'[n]) = Append(L(n), Letter(n, f))
    BY <1>0, <1>2
  <2> QED
    BY <2>1, <2>2
<1>4. \A n \in S : Letter(n, f) \in Lamp!Letter
  BY <1>0, LetterType DEF Lamp!Letter
<1>5. \A m, n \in S : Letter(m, f) # {} /\ Letter(n, f) # {} => m = n
  BY <1>0, LetterType, OneLamp
<1>6. \A n \in Nodes : Running(n)' = Running(n)
  BY DEF Running
<1>7. led' = led /\ [n \in Nodes |-> Running(n)]' = [n \in Nodes |-> Running(n)]
  BY <1>6
<1>8. [n \in Nodes |-> Letters(n, rxq[n])]' =
        [n \in Nodes |-> IF n \in S THEN Append(L(n), Letter(n, f)) ELSE L(n)]
  BY <1>2
<1> HIDE DEF S
<1>9. \A n \in S : /\ [m \in Nodes |-> Letters(m, rxq[m])][n] = L(n)
                    /\ [m \in Nodes |-> Letters(m, rxq[m])]'[n] = Letters(n, rxq'[n])
  BY <1>0
<1> DEFINE lamps == [n \in Nodes |-> Letters(n, rxq[n])]
           new(n) == lamps'[n][Len(lamps[n]) + 1]
<1>10. \A n \in S : Len(lamps'[n]) = Len(lamps[n]) + 1 /\ new(n) = Letter(n, f)
  BY <1>3, <1>9
<1>11. lamps' = [n \in Nodes |-> IF n \in S THEN Append(lamps[n], new(n)) ELSE lamps[n]]
  BY <1>8, <1>10
<1>12. \A m, n \in S : new(m) # {} /\ new(n) # {} => m = n
  BY <1>5, <1>10
<1>13. \A n \in S : Len(lamps'[n]) = Len(lamps[n]) + 1 /\ new(n) \in Lamp!Letter
  BY <1>4, <1>10
<1>14. Lamp!Arrive(S)
  BY <1>7, <1>11, <1>12, <1>13, Zenon DEF Lamp!Arrive
<1> QED
  BY <1>14 DEF S

(* A read of thread_rx is a read of the letter the frame stands for. *)
LEMMA ReadImplements ==
  ASSUME AskedPlainly, BusInv, NEW n \in Nodes,
         IgnoreFrame(n) \/ LedSet(n) \/ LedSetFails(n)
  PROVE  Lamp!Read(n)
<1> DEFINE lamps == [m \in Nodes |-> Letters(m, rxq[m])]
<1>0. TypeOK /\ Heard
  BY DEF BusInv
<1>1. CanRead(n) /\ main' = main
  BY DEF IgnoreFrame, LedSet, LedSetFails
<1>2. rxq[n] \in Seq(Frame) /\ rxq[n] # <<>> /\ rxq' = [rxq EXCEPT ![n] = Tail(rxq[n])]
  BY <1>0, <1>1 DEF CanRead, TypeOK
<1>3. Head(rxq[n]) \in Frame /\ Head(rxq[n]) \in Audible(n)
  BY <1>0, <1>2, TailElements, TailType DEF Heard
<1>4. IsLedRequest(n, Head(rxq[n])) <=> Letter(n, Head(rxq[n])) # {}
  BY <1>3, AudibleExact, LetterType
<1>5. /\ lamps[n] # <<>>
      /\ Head(lamps[n]) = Letter(n, Head(rxq[n]))
      /\ Letters(n, rxq'[n]) = Tail(lamps[n])
  BY <1>0, <1>2, LettersTail DEF TypeOK
<1>6. lamps' = [lamps EXCEPT ![n] = Tail(lamps[n])]
  <2>1. \A m \in Nodes : Letters(m, rxq'[m]) = IF m = n THEN Tail(lamps[n]) ELSE lamps[m]
    BY <1>0, <1>2, <1>5 DEF TypeOK
  <2> QED
    BY <2>1
<1>7. Running(n) /\ [m \in Nodes |-> Running(m)]' = [m \in Nodes |-> Running(m)]
  BY <1>1 DEF CanRead, Running
<1>8. \/ \E s \in Head(lamps[n]) : led' = [led EXCEPT ![n] = s]
      \/ led' = led
  <2>1. CASE LedSet(n)
    <3>1. Head(lamps[n]) = Shown(n, Head(rxq[n]).data)
      BY <1>3, <1>4, <1>5, <2>1, LetterType DEF LedSet, Letter
    <3> QED
      BY <2>1, <3>1 DEF LedSet
  <2>2. CASE IgnoreFrame(n) \/ LedSetFails(n)
    BY <2>2 DEF IgnoreFrame, LedSetFails, lampVars
  <2> QED
    BY <2>1, <2>2
<1>9. [m \in Nodes |-> Running(m)][n]
  BY <1>7
<1> QED
  BY <1>5, <1>6, <1>7, <1>8, <1>9 DEF Lamp!Read

(* Every step maps to a step of the lamps or a stutter.                    *)
LEMMA LampStepImplements ==
  ASSUME AskedPlainly, DistinctIds, BusInv, [Next]_vars
  PROVE  [Lamp!Next]_(Lamp!lampvars)
<1>0. TypeOK
  BY DEF BusInv
<1>1. ASSUME UNCHANGED <<rxq, led, main>> PROVE UNCHANGED Lamp!lampvars
  <2>1. \A n \in Nodes : Running(n)' = Running(n)
    BY <1>1 DEF Running
  <2> QED
    BY <1>1, <2>1 DEF Lamp!lampvars
<1>2. ASSUME NEW n \in Nodes, Main(n) PROVE Lamp!Die(n) \/ UNCHANGED Lamp!lampvars
  <2>1. UNCHANGED <<rxq, led>> /\ main' = [main EXCEPT ![n] = main'[n]] /\ main[n] # "exited"
    BY <1>0, <1>2 DEF Main, CanInit, CreateRxThread, CreateButtonThread, BootFails,
                 Heartbeat, HeartbeatFails, HeartbeatSleep, MainStep, lampVars, TypeOK
  <2>2. CASE main'[n] = "exited"
    <3>1. \A m \in Nodes : Running(m)' = IF m = n THEN FALSE ELSE Running(m)
      BY <1>0, <2>1, <2>2 DEF Running, TypeOK
    <3>2. [m \in Nodes |-> Running(m)]' =
             [[m \in Nodes |-> Running(m)] EXCEPT ![n] = FALSE]
      BY <3>1, Zenon
    <3>3. [m \in Nodes |-> Letters(m, rxq[m])]' = [m \in Nodes |-> Letters(m, rxq[m])]
      BY <2>1
    <3> QED
      BY <2>1, <3>2, <3>3 DEF Lamp!Die
  <2>3. CASE main'[n] # "exited"
    <3>1. \A m \in Nodes : Running(m)' = Running(m)
      BY <1>0, <2>1, <2>3 DEF Running, TypeOK
    <3> QED
      BY <2>1, <3>1 DEF Lamp!lampvars
  <2> QED
    BY <2>2, <2>3
<1>3. ASSUME NEW n \in Nodes, Rx(n) PROVE Lamp!Read(n) \/ UNCHANGED Lamp!lampvars
  <2>1. CASE LedInit(n) \/ LedInitFails(n)
    BY <1>1, <2>1 DEF LedInit, LedInitFails
  <2>2. CASE IgnoreFrame(n) \/ LedSet(n) \/ LedSetFails(n)
    BY <2>2, ReadImplements
  <2> QED
    BY <1>3, <2>1, <2>2 DEF Rx
<1>4. ASSUME NEW n \in Nodes, Button(n) \/ DummySample(n) \/ Press(n)
      PROVE  UNCHANGED Lamp!lampvars
  BY <1>1, <1>4 DEF Button, ButtonInit, ButtonInitFails, ButtonPoll, ButtonGet,
                    ButtonGetFails, ButtonSend, ButtonSendFails, DummySample, Press, lampVars
<1>5. ASSUME NEW n \in Nodes, Transmit(n)
      PROVE  \E S \in SUBSET Nodes : Lamp!Arrive(S)
  <2> DEFINE f == Head(txq[n])
             S == Takers(f, Nodes \ {n})
  <2>1. f \in Frame
    BY <1>0, <1>5, TailType DEF TypeOK, Transmit
  <2>2. Broadcast(f, S) /\ UNCHANGED <<led, main>>
    BY <1>5 DEF Transmit, lampVars
  <2>3. S \in SUBSET Nodes
    BY DEF Takers
  <2> HIDE DEF f
  <2>4. Lamp!Arrive(S)
    BY <1>0, <2>1, <2>2, ArriveImplements
  <2> QED
    BY <2>3, <2>4
<1>6. ASSUME NEW f \in HostFrames, HostSend(f)
      PROVE  \E S \in SUBSET Nodes : Lamp!Arrive(S)
  <2> DEFINE S == Takers(f, Nodes)
  <2>1. f \in Frame
    BY FramesAssumption
  <2>2. Broadcast(f, S) /\ UNCHANGED <<led, main>>
    BY <1>6 DEF HostSend
  <2>3. S \in SUBSET Nodes
    BY DEF Takers
  <2>4. Lamp!Arrive(S)
    BY <1>0, <2>1, <2>2, ArriveImplements
  <2> QED
    BY <2>3, <2>4
<1>7. CASE UNCHANGED vars
  BY <1>1, <1>7 DEF vars, lampVars
<1> QED
  BY <1>2, <1>3, <1>4, <1>5, <1>6, <1>7, Zenon DEF Next, Lamp!Next

(* If SocketCAN nodes are not asked in extended frames and node IDs        *)
(* differ, the network is a set of remote lamps.                           *)
THEOREM CanImplementsLamp ==
  ASSUME AskedPlainly, DistinctIds
  PROVE  Spec => ImplementsLamp
<1>1. BusInv /\ [Next]_vars => [Lamp!Next]_(Lamp!lampvars)
  BY LampStepImplements
<1> QED
  BY <1>1, LampInitImplements, CanBusInv, PTL DEF Spec, ImplementsLamp, Lamp!Spec

=============================================================================
