------------------------------- MODULE CanFrames -------------------------------
(***************************************************************************)
(* CAN identifiers and frames of apps/mini_cannode: how a node numbers its *)
(* messages (cannode.h), how the two back ends, the CAN character device   *)
(* and SocketCAN, turn a message into a frame and back (cannode_char.c,    *)
(* cannode_sock.c), and which frames thread_rx takes for an LED request.   *)
(* Every node is built with a configuration of its own.                    *)
(***************************************************************************)
EXTENDS Integers

CONSTANTS
  Nodes,
  NodeId,         \* CONFIG_RAILAB_MINIMAL_CANNODE_NODEID of each node
  Backend,        \* "char" or "sock"
  ExtId,          \* is it built with CONFIG_CAN_EXTID or CONFIG_NET_CAN_EXTID
  CAN_EFF_FLAG,   \* the flag bit of an extended can_id: 2^31
  HostFrames      \* what the other side of the bus may send

CANMSG_HEARTBEAT_ID == 1
CANMSG_BUTTON_ID == 2
CANMSG_LED_ID == 3
Byte == 0 .. 255

(* id & CANMSG_NODEID_MASK, the mask being 0xf00 *)
Masked(id) == ((id \div 256) % 16) * 256

(* The one byte the nodes exchange; a frame may come without data. *)
NoData == -1
Payload == Byte \cup {NoData}

Frame == [id : Nat, ext : BOOLEAN, data : Payload]

(***************************************************************************)
(* The second conjunct is the #if at the top of cannode_main.c.  An        *)
(* identifier has at most 29 bits, below the flag and not overlapping it;  *)
(* those of a node are below 0x1000.                                       *)
(***************************************************************************)
ASSUME FramesAssumption ==
  /\ NodeId \in [Nodes -> Nat]
  /\ \A n \in Nodes : Masked(NodeId[n]) = NodeId[n]
  /\ Backend \in [Nodes -> {"char", "sock"}]
  /\ ExtId \in [Nodes -> BOOLEAN]
  /\ CAN_EFF_FLAG \in Nat /\ CAN_EFF_FLAG >= 4096
  /\ HostFrames \subseteq Frame
  /\ \A f \in HostFrames : f.id < CAN_EFF_FLAG

(* What the build does not check and a network needs: node IDs differ.     *)
DistinctIds == \A m, n \in Nodes : NodeId[m] = NodeId[n] => m = n

-----------------------------------------------------------------------------
(* can_send: an identifier goes out whole when extended and in 11 bits     *)
(* when not.                                                               *)
WireId(n, id) == IF ExtId[n] THEN id ELSE id % 2048

CanFrame(n, id, data) == [id |-> WireId(n, id), ext |-> ExtId[n], data |-> data]

(* Mutant: the node ID is left out. *)
HeartbeatFrameNoNode(n) == CanFrame(n, CANMSG_HEARTBEAT_ID, 0)

(* heartbeat_msg; the time stamp is not modelled *)
HeartbeatFrame(n) == CanFrame(n, NodeId[n] + CANMSG_HEARTBEAT_ID, 0)

(* button_msg; data[0] is a byte *)
ButtonFrame(n, sample) == CanFrame(n, NodeId[n] + CANMSG_BUTTON_ID, sample % 256)

(* A controller without extended identifiers takes no extended frame. *)
CanHear(n, f) == f.ext => ExtId[n]

(* can_read: the identifier of a received frame.  The character device has *)
(* a field for it; a SocketCAN can_id keeps the flag of an extended frame. *)
CanReadId(n, f) ==
  IF Backend[n] = "sock" /\ f.ext THEN f.id + CAN_EFF_FLAG ELSE f.id

(* can_read: what data[0] of the message may be.  The data are copied      *)
(* whatever the length: of a frame without data, what the stack held.      *)
CanReadData(d) == IF d = NoData THEN Byte ELSE {d}

(* Mutant: the message is looked for in the low byte of any frame. *)
IsLedRequestOfAnyone(n, f) == CanReadId(n, f) % 256 = CANMSG_LED_ID

(* Mutant: the message is the low byte, whatever stands above the node ID. *)
IsLedRequestLowByte(n, f) ==
  LET id == CanReadId(n, f)
  IN  Masked(id) = NodeId[n] /\ id % 256 = CANMSG_LED_ID

(* thread_rx: the frame is addressed to n and asks it to set its LED. *)
IsLedRequest(n, f) ==
  LET id == CanReadId(n, f)
  IN  Masked(id) = NodeId[n] /\ id - NodeId[n] = CANMSG_LED_ID

(* What a sender means by an LED request for n. *)
Requested(n, f) == f.id = NodeId[n] + CANMSG_LED_ID

-----------------------------------------------------------------------------
(* What else the build does not check.  What a node sends is told apart    *)
(* from what another sends in the same format: so it is if the node IDs    *)
(* differ and those of nodes without extended identifiers have 11 bits.    *)
WireIdsDiffer ==
  \A m, n \in Nodes :
    m # n /\ ExtId[m] = ExtId[n] => WireId(m, NodeId[m]) # WireId(n, NodeId[n])

IdsFit == \A n \in Nodes : ~ExtId[n] => NodeId[n] < 2048

(* The host asks no SocketCAN node in extended frames it would hear: so it *)
(* is if no SocketCAN node is built with extended identifiers.             *)
AskedPlainly ==
  \A n \in Nodes, f \in HostFrames :
    Backend[n] = "sock" /\ CanHear(n, f) /\ Requested(n, f) => ~f.ext

NoExtendedSocket == \A n \in Nodes : Backend[n] = "sock" => ~ExtId[n]

=============================================================================
