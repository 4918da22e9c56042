------------------------------ MODULE CanNetwork ------------------------------
(***************************************************************************)
(* A CAN network of nodes running apps/mini_cannode/cannode_main.c.  Each  *)
(* node has three threads: main opens the interface, starts the others and *)
(* sends a heartbeat; thread_rx sets the LED; thread_button reports the    *)
(* buttons.  A node without the drivers (CONFIG_..._DUMMY) prints what it  *)
(* would light and draws its button at random.                             *)
(*                                                                         *)
(* The driver of a node holds a bounded queue of frames to send and one of *)
(* frames received; the bus delivers a frame to every node that is up.     *)
(* Time is not modelled: a sleep may take any time.                        *)
(***************************************************************************)
EXTENDS CanFrames, Sequences

CONSTANTS
  Dummy,          \* is the node built with the dummy LED and button
  ButtonStates,   \* what a read of the buttons may return
  RxLimit,        \* frames the driver keeps for a reader
  TxLimit         \* frames the driver keeps for the bus

VARIABLES
  main, rx, btn,  \* where the three threads of each node are
  txq, rxq,       \* the queues of its driver
  led,            \* its LED, or the last request it printed
  button, event,  \* its buttons, and has the driver seen them change
  sample,         \* thread_button: sample, and sample_last of the dummy
  (* History, which no action reads: *)
  wanted,         \* data of the last LED request the node's driver took
  reported,       \* data of the last button frame the node queued
  ledLost,        \* the last LED request failed in the LED driver
  btnLost         \* thread_button did not read or send the last change

buttonVars == <<btn, button, event, sample, reported, btnLost>>
lampVars == <<rx, led, wanted, ledLost>>
vars == <<main, txq, rxq, buttonVars, lampVars>>

ASSUME NetworkAssumption ==
  /\ Dummy \in [Nodes -> BOOLEAN]
  /\ ButtonStates \subseteq Nat /\ 0 \in ButtonStates
  /\ RxLimit \in Nat \ {0}
  /\ TxLimit \in Nat \ {0}

-----------------------------------------------------------------------------
(* The task group of a node lives until its main returns. *)
Running(n) == main[n] # "exited"

(* The interface is open: the driver queues what it hears. *)
Up(n) == main[n] \notin {"boot", "exited"}

MainStep(n, from, to) == main[n] = from /\ main' = [main EXCEPT ![n] = to]
RxStep(n, from, to) == Running(n) /\ rx[n] = from /\ rx' = [rx EXCEPT ![n] = to]
ButtonStep(n, from, to) == Running(n) /\ btn[n] = from /\ btn' = [btn EXCEPT ![n] = to]

(* A send waits for a place in the queue of the driver. *)
Room(n) == Len(txq[n]) < TxLimit
Queue(n, f) == Room(n) /\ txq' = [txq EXCEPT ![n] = Append(@, f)]

(* The nodes whose driver takes frame f, sent by someone else: the others  *)
(* are down, deaf to it or full.                                           *)
Takers(f, others) ==
  {n \in others : Up(n) /\ CanHear(n, f) /\ Len(rxq[n]) < RxLimit}

Broadcast(f, takers) ==
  rxq' = [n \in Nodes |-> IF n \in takers THEN Append(rxq[n], f) ELSE rxq[n]]

-----------------------------------------------------------------------------
(* main                                                                    *)

Init ==
  /\ main = [n \in Nodes |-> "boot"]
  /\ rx = [n \in Nodes |-> "none"]
  /\ btn = [n \in Nodes |-> "none"]
  /\ txq = [n \in Nodes |-> <<>>]
  /\ rxq = [n \in Nodes |-> <<>>]
  /\ led = [n \in Nodes |-> 0]
  /\ button = [n \in Nodes |-> 0]
  /\ event = [n \in Nodes |-> FALSE]
  /\ sample = [n \in Nodes |-> 0]
  /\ wanted = [n \in Nodes |-> 0]
  /\ reported = [n \in Nodes |-> 0]
  /\ ledLost = [n \in Nodes |-> FALSE]
  /\ btnLost = [n \in Nodes |-> FALSE]

CanInit(n) ==
  /\ MainStep(n, "boot", "create_rx")
  /\ UNCHANGED <<txq, rxq, buttonVars, lampVars>>

CreateRxThread(n) ==
  /\ MainStep(n, "create_rx", "create_button")
  /\ rx' = [rx EXCEPT ![n] = IF Dummy[n] THEN "read" ELSE "init"]
  /\ UNCHANGED <<txq, rxq, buttonVars, led, wanted, ledLost>>

(* Mutant: the dummy thread is built beside the driver. *)
CreateDummyThread(n) ==
  /\ MainStep(n, "create_button", "beat")
  /\ btn' = [btn EXCEPT ![n] = "sleep"]
  /\ UNCHANGED <<txq, rxq, button, event, sample, reported, btnLost, lampVars>>

CreateButtonThread(n) ==
  /\ MainStep(n, "create_button", "beat")
  /\ btn' = [btn EXCEPT ![n] = IF Dummy[n] THEN "sleep" ELSE "init"]
  /\ UNCHANGED <<txq, rxq, button, event, sample, reported, btnLost, lampVars>>

(* can_init or a pthread_create failed: return -1. *)
BootFails(n) ==
  /\ \E here \in {"boot", "create_rx", "create_button"} : MainStep(n, here, "exited")
  /\ UNCHANGED <<txq, rxq, buttonVars, lampVars>>

Heartbeat(n) ==
  /\ MainStep(n, "beat", "sleep")
  /\ Queue(n, HeartbeatFrame(n))
  /\ UNCHANGED <<rxq, buttonVars, lampVars>>

(* The send failed: return -1, and the threads go with main. *)
HeartbeatFails(n) ==
  /\ MainStep(n, "beat", "exited")
  /\ UNCHANGED <<txq, rxq, buttonVars, lampVars>>

HeartbeatSleep(n) ==
  /\ MainStep(n, "sleep", "beat")
  /\ UNCHANGED <<txq, rxq, buttonVars, lampVars>>

-----------------------------------------------------------------------------
(* thread_rx                                                               *)

LedInit(n) ==
  /\ RxStep(n, "init", "read")
  /\ UNCHANGED <<main, txq, rxq, buttonVars, led, wanted, ledLost>>

LedInitFails(n) ==
  /\ RxStep(n, "init", "exited")
  /\ UNCHANGED <<main, txq, rxq, buttonVars, led, wanted, ledLost>>

(* What node n may show for a request with data d: an LED is on or off, a  *)
(* printed request shows the byte.                                         *)
Shown(n, d) == {IF Dummy[n] \/ x = 0 THEN x ELSE 1 : x \in CanReadData(d)}

CanRead(n) ==
  /\ Running(n) /\ rx[n] = "read"
  /\ rxq[n] # <<>>
  /\ rxq' = [rxq EXCEPT ![n] = Tail(@)]

IgnoreFrame(n) ==
  /\ CanRead(n)
  /\ ~IsLedRequest(n, Head(rxq[n]))
  /\ UNCHANGED <<main, txq, buttonVars, lampVars>>

(* Mutant: the queue is read from its end. *)
LedSetNewestFirst(n) ==
  /\ CanRead(n)
  /\ IsLedRequest(n, Head(rxq[n]))
  /\ \E s \in Shown(n, rxq[n][Len(rxq[n])].data) : led' = [led EXCEPT ![n] = s]
  /\ ledLost' = [ledLost EXCEPT ![n] = FALSE]
  /\ UNCHANGED <<main, txq, buttonVars, rx, wanted>>

(* Mutant: only a request to light it moves the LED. *)
LedSetNeverOff(n) ==
  /\ CanRead(n)
  /\ IsLedRequest(n, Head(rxq[n]))
  /\ led' = IF Head(rxq[n]).data = 0 THEN led ELSE [led EXCEPT ![n] = 1]
  /\ ledLost' = [ledLost EXCEPT ![n] = FALSE]
  /\ UNCHANGED <<main, txq, buttonVars, rx, wanted>>

LedSet(n) ==
  /\ CanRead(n)
  /\ IsLedRequest(n, Head(rxq[n]))
  /\ \E s \in Shown(n, Head(rxq[n]).data) : led' = [led EXCEPT ![n] = s]
  /\ ledLost' = [ledLost EXCEPT ![n] = FALSE]
  /\ UNCHANGED <<main, txq, buttonVars, rx, wanted>>

(* The ioctl failed; its error is printed. *)
LedSetFails(n) ==
  /\ ~Dummy[n]
  /\ CanRead(n)
  /\ IsLedRequest(n, Head(rxq[n]))
  /\ ledLost' = [ledLost EXCEPT ![n] = TRUE]
  /\ UNCHANGED <<main, txq, buttonVars, rx, led, wanted>>

-----------------------------------------------------------------------------
(* thread_button                                                           *)

(* The button may already be down: no change, so no event. *)
ButtonInit(n) ==
  /\ ButtonStep(n, "init", "poll")
  /\ btnLost' = [btnLost EXCEPT ![n] = button[n] # 0]
  /\ UNCHANGED <<main, txq, rxq, button, event, sample, reported, lampVars>>

ButtonInitFails(n) ==
  /\ ButtonStep(n, "init", "exited")
  /\ UNCHANGED <<main, txq, rxq, button, event, sample, reported, btnLost, lampVars>>

ButtonPoll(n) ==
  /\ ButtonStep(n, "poll", "get")
  /\ event[n]
  /\ UNCHANGED <<main, txq, rxq, button, event, sample, reported, btnLost, lampVars>>

(* The read takes the state of the buttons and clears the event. *)
ButtonGet(n) ==
  /\ ButtonStep(n, "get", "send")
  /\ sample' = [sample EXCEPT ![n] = button[n]]
  /\ event' = [event EXCEPT ![n] = FALSE]
  /\ btnLost' = [btnLost EXCEPT ![n] = FALSE]
  /\ UNCHANGED <<main, txq, rxq, button, reported, lampVars>>

(* The read failed: button_get returns the 0 it started from. *)
ButtonGetFails(n) ==
  /\ ButtonStep(n, "get", "send")
  /\ sample' = [sample EXCEPT ![n] = 0]
  /\ btnLost' = [btnLost EXCEPT ![n] = TRUE]
  /\ UNCHANGED <<main, txq, rxq, button, event, reported, lampVars>>

(* The dummy goes on only when the state it drew is a new one, which is    *)
(* its last from then on, sent or not.                                     *)
DummySample(n) ==
  /\ ButtonStep(n, "sleep", "send")
  /\ \E s \in {0, 1} \ {sample[n]} : sample' = [sample EXCEPT ![n] = s]
  /\ btnLost' = [btnLost EXCEPT ![n] = FALSE]
  /\ UNCHANGED <<main, txq, rxq, button, event, reported, lampVars>>

Resting(n) == IF Dummy[n] THEN "sleep" ELSE "poll"

(* Mutant: the buttons are flushed after a report. *)
ButtonSendFlushes(n) ==
  /\ ButtonStep(n, "send", Resting(n))
  /\ Queue(n, ButtonFrame(n, sample[n]))
  /\ reported' = [reported EXCEPT ![n] = ButtonFrame(n, sample[n]).data]
  /\ event' = [event EXCEPT ![n] = FALSE]
  /\ UNCHANGED <<main, rxq, button, sample, btnLost, lampVars>>

ButtonSend(n) ==
  /\ ButtonStep(n, "send", Resting(n))
  /\ Queue(n, ButtonFrame(n, sample[n]))
  /\ reported' = [reported EXCEPT ![n] = ButtonFrame(n, sample[n]).data]
  /\ UNCHANGED <<main, rxq, button, event, sample, btnLost, lampVars>>

(* The error is printed and the report is not tried again. *)
ButtonSendFails(n) ==
  /\ ButtonStep(n, "send", Resting(n))
  /\ btnLost' = [btnLost EXCEPT ![n] = TRUE]
  /\ UNCHANGED <<main, txq, rxq, button, event, sample, reported, lampVars>>

-----------------------------------------------------------------------------
(* The world outside: the bus, the host and whoever presses the buttons    *)

Transmit(n) ==
  /\ txq[n] # <<>>
  /\ txq' = [txq EXCEPT ![n] = Tail(@)]
  /\ Broadcast(Head(txq[n]), Takers(Head(txq[n]), Nodes \ {n}))
  /\ UNCHANGED <<main, buttonVars, lampVars>>

HostSend(f) ==
  LET takers == Takers(f, Nodes)
  IN  /\ Broadcast(f, takers)
      /\ wanted' = [n \in Nodes |-> IF n \in takers /\ Requested(n, f)
                                      THEN f.data ELSE wanted[n]]
      /\ UNCHANGED <<main, txq, buttonVars, rx, led, ledLost>>

(* A change of the buttons is an event for whoever has the device open. *)
Press(n) ==
  /\ ~Dummy[n]
  /\ \E s \in ButtonStates \ {button[n]} : button' = [button EXCEPT ![n] = s]
  /\ event' = [event EXCEPT ![n] = btn[n] \in {"poll", "get", "send"}]
  /\ UNCHANGED <<main, txq, rxq, btn, sample, reported, btnLost, lampVars>>

-----------------------------------------------------------------------------

Main(n) == CanInit(n) \/ CreateRxThread(n) \/ CreateButtonThread(n) \/ BootFails(n)
             \/ Heartbeat(n) \/ HeartbeatFails(n) \/ HeartbeatSleep(n)

Rx(n) == LedInit(n) \/ LedInitFails(n) \/ IgnoreFrame(n) \/ LedSet(n) \/ LedSetFails(n)

Button(n) == ButtonInit(n) \/ ButtonInitFails(n) \/ ButtonPoll(n) \/ ButtonGet(n)
               \/ ButtonGetFails(n) \/ ButtonSend(n) \/ ButtonSendFails(n)

Next ==
  \/ \E n \in Nodes : Main(n) \/ Rx(n) \/ Button(n) \/ DummySample(n)
                       \/ Transmit(n) \/ Press(n)
  \/ \E f \in HostFrames : HostSend(f)

Spec == Init /\ [][Next]_vars

(***************************************************************************)
(* The threads of a node have one priority and each runs on; the bus is    *)
(* idle most of the time, so it carries every frame in the end.  A send is *)
(* done with, well or badly, only when there is a place in the queue: main *)
(* and thread_button take turns at it, hence SF, since the other may have  *)
(* it meanwhile.  A full queue holds a sender up; it never has to fail.    *)
(* Nothing makes the host send or a button move.                           *)
(***************************************************************************)
MainSend(n) == Heartbeat(n) \/ HeartbeatFails(n)
MainElse(n) == CanInit(n) \/ CreateRxThread(n) \/ CreateButtonThread(n)
                 \/ BootFails(n) \/ HeartbeatSleep(n)

Report(n) == ButtonSend(n) \/ ButtonSendFails(n)
ButtonElse(n) == ButtonInit(n) \/ ButtonInitFails(n) \/ ButtonPoll(n)
                   \/ ButtonGet(n) \/ ButtonGetFails(n)

Fairness ==
  \A n \in Nodes :
    /\ WF_vars(MainElse(n)) /\ SF_vars(Room(n) /\ MainSend(n))
    /\ WF_vars(Rx(n))
    /\ WF_vars(ButtonElse(n)) /\ SF_vars(Room(n) /\ Report(n))
    /\ WF_vars(Transmit(n))

FairSpec == Spec /\ Fairness

-----------------------------------------------------------------------------
(* Properties                                                              *)

(* Type invariant: the threads of a node are where its build lets them be, *)
(* the queues of its driver are bounded, and what it shows and reports are *)
(* bytes.                                                                  *)
TypeOK ==
  /\ main \in [Nodes -> {"boot", "create_rx", "create_button", "beat", "sleep", "exited"}]
  /\ rx \in [Nodes -> {"none", "init", "read", "exited"}]
  /\ btn \in [Nodes -> {"none", "init", "poll", "get", "send", "sleep", "exited"}]
  /\ \A n \in Nodes : IF Dummy[n] THEN rx[n] # "init" /\ btn[n] \in {"none", "sleep", "send"}
                                    ELSE btn[n] # "sleep"
  /\ txq \in [Nodes -> Seq(Frame)] /\ \A n \in Nodes : Len(txq[n]) <= TxLimit
  /\ rxq \in [Nodes -> Seq(Frame)] /\ \A n \in Nodes : Len(rxq[n]) <= RxLimit
  /\ led \in [Nodes -> Byte]
  /\ button \in [Nodes -> ButtonStates]
  /\ event \in [Nodes -> BOOLEAN]
  /\ sample \in [Nodes -> Nat]
  /\ wanted \in [Nodes -> Payload]
  /\ reported \in [Nodes -> Byte]
  /\ ledLost \in [Nodes -> BOOLEAN]
  /\ btnLost \in [Nodes -> BOOLEAN]

(* The LED request n will come to last, or has come to last, is the last   *)
(* one the host sent that its driver took: requests are neither reordered  *)
(* nor confused with another node's or with the traffic between nodes      *)
(* (thread_rx, cannode_main.c:273-306).                                    *)
LampFollowsHost ==
  \A n \in Nodes :
    LET request(k) == Requested(n, rxq[n][k])
        last(k) == request(k) /\ \A j \in k + 1 .. Len(rxq[n]) : ~request(j)
    IN  /\ \A k \in DOMAIN rxq[n] : last(k) => rxq[n][k].data = wanted[n]
        /\ (\A k \in DOMAIN rxq[n] : ~request(k))
             => led[n] \in Shown(n, wanted[n]) \/ ledLost[n]

(* To the host every node is one lamp with a queue of letters, each the    *)
(* states asked of the lamp, none if it is none of its business.           *)
Letter(n, f) == IF Requested(n, f) THEN Shown(n, f.data) ELSE {}

Letters(n, q) == [k \in DOMAIN q |-> Letter(n, q[k])]

Lamp == INSTANCE RemoteLamp
  WITH States <- Byte,
       lamp <- led,
       letters <- [n \in Nodes |-> Letters(n, rxq[n])],
       alive <- [n \in Nodes |-> Running(n)]

(* The two back ends, the identifiers and the filter of thread_rx          *)
(* implement such lamps (cannode_main.c:246-323).                          *)
ImplementsLamp == Lamp!Spec

(* No two nodes ever have a frame of one identifier to send: on a CAN bus  *)
(* the identifier decides who goes first, and two senders of one           *)
(* identifier with different data destroy each other's frame               *)
(* (cannode_main.c:201, :221).                                             *)
NoArbitrationClash ==
  \A m, n \in Nodes : m # n =>
    \A j \in DOMAIN txq[m], k \in DOMAIN txq[n] :
      txq[m][j].ext = txq[n][k].ext => txq[m][j].id # txq[n][k].id

(* Whenever thread_button rests with nothing to do and has lost nothing,   *)
(* the network has the present state of its buttons: no change slips in    *)
(* between poll, read and send (cannode_main.c:366-386, :424-445).         *)
ReportsCurrent ==
  \A n \in Nodes :
    btn[n] = Resting(n) /\ ~event[n] /\ ~btnLost[n] =>
      reported[n] = (IF Dummy[n] THEN sample[n] ELSE button[n] % 256)

(* The LED ends up as the host last asked, if the host leaves it at that   *)
(* and thread_rx lives (cannode_main.c:269-320).                           *)
LampSettles ==
  \A n \in Nodes : \A d \in {f.data : f \in HostFrames} :
    <>[](Running(n) /\ rx[n] = "read" /\ wanted[n] = d)
      => <>[](led[n] \in Shown(n, d) \/ ledLost[n])

(* Buttons that are left alone are reported as they are, unless the driver *)
(* fails (cannode_main.c:362-392).                                         *)
ButtonSettles ==
  \A n \in Nodes : \A s \in ButtonStates :
    <>[](Running(n) /\ btn[n] \in {"poll", "get", "send"} /\ button[n] = s)
      => <>[](reported[n] = s % 256) \/ []<>btnLost[n]

=============================================================================
