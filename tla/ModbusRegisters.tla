--------------------------- MODULE ModbusRegisters ---------------------------
(***************************************************************************)
(* The register image of the Modbus slave (apps/mini_modbusslave): the     *)
(* packed structures behind the input and the holding registers, the word  *)
(* view the FreeModBus callbacks take of them, the byte order on the wire  *)
(* and the arithmetic that turns ADC samples into statistics.  There is no *)
(* state here: ModbusSlave (the threads) and ModbusBank (what a master may *)
(* rely on) are both written with these operators.                         *)
(***************************************************************************)
EXTENDS Integers, Sequences

CONSTANTS
  ADC_SAMPLES,          \* channels of one scan: 4 in the source
  ADC_RAW_MAX,          \* full scale of the converter: 4095
  ADC_REF_MILIVOLT,     \* the voltage it stands for: 3300
  INTERVAL_DEFAULT_US,  \* sampling interval after boot: 10000
  BYTE,                 \* values of a byte: 256; a register is two bytes
  Garbage,              \* millivolts an unread sample[] slot may convert to
  Requests,             \* the calls FreeModBus may make, see IsRequest
  NoRequest

WORD == BYTE * BYTE
Byte == 0 .. BYTE - 1
Word == 0 .. WORD - 1
INT16_MAX == (WORD \div 2) - 1
INT16_MIN == -(WORD \div 2)
Int16 == INT16_MIN .. INT16_MAX
Channel == 0 .. ADC_SAMPLES - 1
EMA_ALPHA_SHIFT == 2

(***************************************************************************)
(* Byte width is even (a register halves into INT16_MIN..-1 and            *)
(* 0..INT16_MAX) and the converted full scale fits in an int16_t.          *)
(***************************************************************************)
ASSUME RegistersAssumption ==
  /\ ADC_SAMPLES \in Nat \ {0}
  /\ ADC_RAW_MAX \in Nat \ {0}
  /\ BYTE \in Nat \ {0} /\ BYTE % 2 = 0
  /\ ADC_REF_MILIVOLT \in 0 .. INT16_MAX
  /\ INTERVAL_DEFAULT_US \in Word
  /\ Garbage \subseteq Int16 /\ Garbage # {}

MIN(a, b) == IF a < b THEN a ELSE b
MAX(a, b) == IF a > b THEN a ELSE b

-----------------------------------------------------------------------------
(* The two packed structures.                                              *)

InputRegs ==
  [status : {0, 1}, cntr : Word,
   now : [Channel -> Int16], min : [Channel -> Int16],
   max : [Channel -> Int16], avg : [Channel -> Int16]]

HoldingRegs == [interval : Word, rst_stats : Word]

ZeroInput ==
  LET zeros == [c \in Channel |-> 0]
  IN  [status |-> 0, cntr |-> 0,
       now |-> zeros, min |-> zeros, max |-> zeros, avg |-> zeros]

ZeroHolding == [interval |-> 0, rst_stats |-> 0]

(* ptr[k], where ptr is the address of the input structure taken as an     *)
(* array of uint16_t.                                                      *)
InputWord(in, k) ==
  IF k = 0 THEN in.status
  ELSE IF k = 1 THEN in.cntr
  ELSE LET field == <<in.now, in.min, in.max, in.avg>>[(k - 2) \div ADC_SAMPLES + 1]
       IN  field[(k - 2) % ADC_SAMPLES] % WORD

HoldingWord(hold, k) == IF k = 0 THEN hold.interval ELSE hold.rst_stats

SetHoldingWord(hold, k, w) ==
  IF k = 0 THEN [hold EXCEPT !.interval = w] ELSE [hold EXCEPT !.rst_stats = w]

MODBUS_REG_INPUT_START == 1
MODBUS_REG_INPUT_NREGS == 2 + 4 * ADC_SAMPLES    \* 18 for the four channels
MODBUS_REG_HOLDING_START == 31
MODBUS_REG_HOLDING_NREGS == 2

-----------------------------------------------------------------------------
(* Byte order.  htobe16 and be16toh swap the bytes of a word on the        *)
(* little-endian targets the repository builds for.                        *)

Swap16(w) == (w % BYTE) * BYTE + (w \div BYTE)

(* Mutant: the bytes of a word go out in the order of the machine. *)
WireBytesHost(w) == <<w % BYTE, w \div BYTE>>

(* The two bytes appended to a reply for the register value w. *)
WireBytes(w) == <<Swap16(w) % BYTE, Swap16(w) \div BYTE>>

(* The register value assembled from two received bytes: the first store   *)
(* and the |= of the second, whose bits are disjoint.                      *)
WireWord(b) == Swap16(b[1]) + Swap16(b[2] * BYTE)

-----------------------------------------------------------------------------
(* ADC arithmetic.                                                         *)

ADC_RAW_TO_MILIVOLT(raw) == (raw * ADC_REF_MILIVOLT) \div ADC_RAW_MAX

(* What sample[c].am_data holds before the first read() that fills it. *)
Unread == -1

(* The values that storing a sample may produce: one for a sample that was *)
(* read, anything of Garbage for a slot that never was.                    *)
Milivolts(raw) == IF raw = Unread THEN Garbage ELSE {ADC_RAW_TO_MILIVOLT(raw)}

(* Mutant: the old average is not taken off. *)
EmaAccumulates(avg, now) == avg + (now \div 2 ^ EMA_ALPHA_SHIFT)

(* Mutant: a division, which rounds towards zero. *)
EmaTruncates(avg, now) ==
  IF now < avg THEN avg - ((avg - now) \div 2 ^ EMA_ALPHA_SHIFT)
               ELSE avg + ((now - avg) \div 2 ^ EMA_ALPHA_SHIFT)

Ema(avg, now) == avg + ((now - avg) \div 2 ^ EMA_ALPHA_SHIFT)

(* Mutant: the maximum survives a reset. *)
ResetKeepsMax(in) ==
  [in EXCEPT !.min = [c \in Channel |-> INT16_MAX], !.avg = [c \in Channel |-> 0]]

(* Mutant: the loop stops one channel early. *)
ResetSkipsLast(in) ==
  [in EXCEPT !.min = [c \in Channel |-> IF c < ADC_SAMPLES - 1 THEN INT16_MAX ELSE @[c]],
             !.max = [c \in Channel |-> IF c < ADC_SAMPLES - 1 THEN INT16_MIN ELSE @[c]],
             !.avg = [c \in Channel |-> IF c < ADC_SAMPLES - 1 THEN 0 ELSE @[c]]]

(* adc_reset_stats() *)
ResetStats(in) ==
  [status |-> in.status, cntr |-> in.cntr, now |-> in.now,
   min |-> [c \in Channel |-> INT16_MAX],
   max |-> [c \in Channel |-> INT16_MIN],
   avg |-> [c \in Channel |-> 0]]

(* One pass of the store loop: the statistics of channel c take in mv. *)
Store(in, c, mv) ==
  [status |-> in.status, cntr |-> in.cntr,
   now |-> [in.now EXCEPT ![c] = mv],
   min |-> [in.min EXCEPT ![c] = MIN(mv, in.min[c])],
   max |-> [in.max EXCEPT ![c] = MAX(mv, in.max[c])],
   avg |-> [in.avg EXCEPT ![c] = Ema(in.avg[c], mv)]]

-----------------------------------------------------------------------------
(* The calls of the register and coil callbacks.                            *)

(* A request names the callback and carries its arguments; data holds the  *)
(* byte pairs of a write.                                                  *)
RegisterFn == {"input", "read", "write"}
CoilFn == {"coils", "discrete"}

IsRequest(r) ==
  /\ r.fn \in RegisterFn \cup CoilFn
  /\ r.address \in Nat
  /\ r.nregs \in Nat \ {0}
  /\ r.data \in Seq(Byte \X Byte)
  /\ r.fn = "write" => Len(r.data) = r.nregs

ASSUME RequestsAssumption ==
  /\ \A r \in Requests : IsRequest(r)
  /\ NoRequest \notin Requests

First(r) == IF r.fn = "input" THEN MODBUS_REG_INPUT_START
                              ELSE MODBUS_REG_HOLDING_START

RegCount(r) == IF r.fn = "input" THEN MODBUS_REG_INPUT_NREGS
                                 ELSE MODBUS_REG_HOLDING_NREGS

(* Mutant: only the first register is checked. *)
InRangeFirstOnly(r) ==
  /\ r.fn \in RegisterFn
  /\ r.address \in First(r) .. First(r) + RegCount(r) - 1

(* The bounds check both register callbacks open with. *)
InRange(r) ==
  /\ r.fn \in RegisterFn
  /\ r.address >= First(r)
  /\ r.address + r.nregs <= First(r) + RegCount(r)

=============================================================================
