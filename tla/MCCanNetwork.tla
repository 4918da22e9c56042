----------------------------- MODULE MCCanNetwork -----------------------------
(* Networks of one and two nodes, with the node IDs and back ends of the     *)
(* repository's board configurations.                                        *)
EXTENDS CanNetwork, TLC

CONSTANTS a, b

(* The extended flag stands above every identifier the host uses. *)
EffFlag == 536870912

OneNode == {a}
TwoNodes == {a, b}
OneExtended == a :> TRUE
NoneExtended == (a :> FALSE) @@ (b :> FALSE)
BothDummy == (a :> TRUE) @@ (b :> TRUE)

(* One node with drivers and the default node ID, a character device with   *)
(* extended identifiers.                                                    *)
OneReal == a :> FALSE
OneId == a :> 256
OneChar == a :> "char"

(* The default node ID with a character device and, with SocketCAN, the     *)
(* node ID of sim cannode_sock; both without extended identifiers.          *)
PairIds == (a :> 256) @@ (b :> 512)
CharAndSock == (a :> "char") @@ (b :> "sock")

(* qemu-armv7a cannode_sock (0x400, extended). *)
OneDummy == a :> TRUE
QemuSockId == a :> 1024
OneSock == a :> "sock"

F(id, ext, data) == [id |-> id, ext |-> ext, data |-> data]

MCButtonStates == {0, 1}

(* Requests for the node in either state and one without data, an           *)
(* identifier with the same low bits, and a request for a node that is not  *)
(* there.                                                                   *)
NodeRequests ==
  {F(259, TRUE, 0), F(259, TRUE, 2), F(259, TRUE, NoData),
   F(4096 + 259, TRUE, 1), F(515, FALSE, 1)}

(* A request for b, which a hears too, and one that neither hears.          *)
PairRequests == {F(515, FALSE, 1), F(4096 + 515, TRUE, 2)}

QemuRequests == {F(1027, TRUE, 1)}

=============================================================================
