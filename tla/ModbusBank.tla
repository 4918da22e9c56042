------------------------------ MODULE ModbusBank ------------------------------
(***************************************************************************)
(* What a Modbus master may rely on: the slave is one bank of registers.   *)
(* A scan of the ADC enters the bank whole, a reply is a copy of the bank  *)
(* at one instant and a write of several registers is one change.  The     *)
(* threads, the mutex and the loops of modbusslave_main.c do not exist at  *)
(* this level; ModbusSlaveHistory shows that they implement it.            *)
(***************************************************************************)
EXTENDS ModbusRegisters

VARIABLES
  input, holding,   \* the two register structures
  request,          \* the call being served, or NoRequest
  answer            \* what the last call returned

bankVars == <<input, holding, request, answer>>

(* The register maps of the comment at modbusslave_main.c:83-108: the      *)
(* value of register number a.                                             *)
InputRegister(in, a) ==
  LET nth(group) == a - 3 - group * ADC_SAMPLES    \* channel within a group
  IN  CASE a = 1 -> in.status
        [] a = 2 -> in.cntr
        [] nth(0) \in Channel -> in.now[nth(0)] % WORD
        [] nth(1) \in Channel -> in.min[nth(1)] % WORD
        [] nth(2) \in Channel -> in.max[nth(2)] % WORD
        [] OTHER -> in.avg[nth(3)] % WORD

HoldingRegister(hold, a) == IF a = 31 THEN hold.interval ELSE hold.rst_stats

RegisterValue(fn, in, hold, a) ==
  IF fn = "input" THEN InputRegister(in, a) ELSE HoldingRegister(hold, a)

(* A register on the wire, as Modbus has it: the high byte first.          *)
RegisterBytes(v) == <<v \div BYTE, v % BYTE>>

RegisterFrom(bytes) == bytes[1] * BYTE + bytes[2]

-----------------------------------------------------------------------------

NoAnswer == [err |-> "none", words |-> <<>>]

(* The answer to r, as the bank stands. *)
Answer(r) ==
  [err |-> IF InRange(r) THEN "MB_ENOERR" ELSE "MB_ENOREG",
   words |-> IF InRange(r) /\ r.fn # "write"
               THEN [n \in 1 .. r.nregs |->
                       RegisterBytes(RegisterValue(r.fn, input, holding, r.address + n - 1))]
               ELSE <<>>]

(* The holding registers after r: those it writes have the values it sent. *)
Written(r) ==
  LET value(a, old) == IF a \in r.address .. r.address + r.nregs - 1
                         THEN RegisterFrom(r.data[a - r.address + 1]) ELSE old
  IN  IF InRange(r) /\ r.fn = "write"
        THEN [interval |-> value(31, holding.interval),
              rst_stats |-> value(32, holding.rst_stats)]
        ELSE holding

(* The bank after a scan that measured mv, with the statistics restarted   *)
(* first if that is pending.                                               *)
Scanned(in, mv) ==
  [status |-> in.status, cntr |-> in.cntr,
   now |-> mv,
   min |-> [c \in Channel |-> MIN(mv[c], in.min[c])],
   max |-> [c \in Channel |-> MAX(mv[c], in.max[c])],
   avg |-> [c \in Channel |-> Ema(in.avg[c], mv[c])]]

Restarted == IF holding.rst_stats # 0 THEN ResetStats(input) ELSE input

-----------------------------------------------------------------------------

Init ==
  /\ input = ZeroInput
  /\ holding = ZeroHolding
  /\ request = NoRequest
  /\ answer = NoAnswer

Boot ==
  /\ input' = ZeroInput
  /\ holding' = [ZeroHolding EXCEPT !.interval = INTERVAL_DEFAULT_US]
  /\ UNCHANGED <<request, answer>>

Ready ==
  /\ input' = [ResetStats(input) EXCEPT !.status = 1]
  /\ UNCHANGED <<holding, request, answer>>

Tick ==
  /\ input' = [input EXCEPT !.cntr = (@ + 1) % WORD]
  /\ UNCHANGED <<holding, request, answer>>

(* Any millivolts may be measured. *)
Scan ==
  /\ input'.now \in [Channel -> Int16]
  /\ input' = Scanned(Restarted, input'.now)
  /\ holding' = [holding EXCEPT !.rst_stats = 0]
  /\ UNCHANGED <<request, answer>>

Call(r) ==
  /\ request = NoRequest
  /\ request' = r
  /\ answer' = NoAnswer
  /\ UNCHANGED <<input, holding>>

Return ==
  /\ request # NoRequest
  /\ answer' = Answer(request)
  /\ holding' = Written(request)
  /\ request' = NoRequest
  /\ UNCHANGED input

Next == Boot \/ Ready \/ Tick \/ Scan \/ Return \/ \E r \in Requests : Call(r)

Spec == Init /\ [][Next]_bankVars

=============================================================================
