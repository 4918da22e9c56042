------------------------- MODULE ModbusRegistersProofs -------------------------
(***************************************************************************)
(* Lemmas about the register image: every operator of ModbusRegisters      *)
(* stays within its C type, for every width of a byte and every number of  *)
(* channels.                                                               *)
(***************************************************************************)
EXTENDS ModbusRegisters, TLAPS

(* A register of BYTE * BYTE values halves into the negative and the       *)
(* non-negative values of an int16_t.                                      *)
LEMMA Widths ==
  /\ BYTE \in Nat /\ BYTE >= 2
  /\ WORD \in Nat /\ WORD = BYTE * BYTE /\ WORD >= 4
  /\ INT16_MAX \in Nat /\ INT16_MIN = -INT16_MAX - 1
  /\ WORD = 2 * (INT16_MAX + 1) /\ INT16_MAX >= 1
<1> DEFINE half == BYTE \div 2
<1>1. BYTE \in Nat /\ half \in Nat \ {0} /\ BYTE = 2 * half
  BY RegistersAssumption
<1>2. WORD = 4 * (half * half)
  BY <1>1 DEF WORD
<1>3. half * half \in Nat /\ half * half >= 1
  BY <1>1
<1>4. WORD \div 2 = 2 * (half * half)
  BY <1>2, <1>3
<1> QED
  BY <1>1, <1>2, <1>3, <1>4 DEF INT16_MAX, INT16_MIN, WORD

(* Rows of N channels, laid end to end: where word q * N + c lies. *)
LEMMA RowMajor ==
  ASSUME NEW N \in Nat \ {0}, NEW q \in Nat, NEW c \in 0 .. N - 1
  PROVE  /\ (q * N + c) \div N = q
         /\ (q * N + c) % N = c
OBVIOUS

(* A word split into its two bytes. *)
LEMMA WordBytes ==
  ASSUME NEW w \in Word
  PROVE  /\ w \div BYTE \in Byte
         /\ w % BYTE \in Byte
         /\ w = (w \div BYTE) * BYTE + (w % BYTE)
<1>1. w \in Nat /\ BYTE \in Nat \ {0} /\ w < BYTE * BYTE
  BY Widths DEF Word
<1>2. w = BYTE * (w \div BYTE) + (w % BYTE) /\ w % BYTE \in 0 .. BYTE - 1
  BY <1>1
<1>3. w \div BYTE \in Nat
  BY <1>1
<1>4. w \div BYTE < BYTE
  BY <1>1, <1>2, <1>3
<1> QED
  BY <1>1, <1>2, <1>3, <1>4 DEF Byte

(* The reply carries the high byte of a register first. *)
LEMMA WireBytesBigEndian ==
  ASSUME NEW w \in Word
  PROVE  /\ WireBytes(w) = <<w \div BYTE, w % BYTE>>
         /\ WireBytes(w) \in Byte \X Byte
<1> DEFINE hi == w \div BYTE
           lo == w % BYTE
<1>1. hi \in 0 .. BYTE - 1 /\ lo \in Nat /\ BYTE \in Nat \ {0}
  BY WordBytes, Widths DEF Byte
<1>2. (lo * BYTE + hi) \div BYTE = lo /\ (lo * BYTE + hi) % BYTE = hi
  BY <1>1, RowMajor
<1> QED
  BY <1>2, WordBytes DEF WireBytes, Swap16

(* Two received bytes make the register they were made from, so a value    *)
(* written by a master is the value it reads back.                         *)
LEMMA WireWordBigEndian ==
  ASSUME NEW b \in Byte \X Byte
  PROVE  /\ WireWord(b) = b[1] * BYTE + b[2]
         /\ WireWord(b) \in Word
<1>1. b[1] \in 0 .. BYTE - 1 /\ b[2] \in 0 .. BYTE - 1 /\ BYTE \in Nat \ {0}
  BY Widths DEF Byte
<1>2. (0 * BYTE + b[1]) \div BYTE = 0 /\ (0 * BYTE + b[1]) % BYTE = b[1]
  BY <1>1, RowMajor
<1>3. Swap16(b[1]) = b[1] * BYTE
  BY <1>1, <1>2 DEF Swap16
<1>4. (b[2] * BYTE + 0) \div BYTE = b[2] /\ (b[2] * BYTE + 0) % BYTE = 0
  BY <1>1, RowMajor
<1>5. b[2] * BYTE \in Nat
  BY <1>1
<1>6. Swap16(b[2] * BYTE) = b[2]
  BY <1>1, <1>4, <1>5 DEF Swap16
<1>7. WireWord(b) = b[1] * BYTE + b[2]
  BY <1>3, <1>6 DEF WireWord
<1>8. b[1] * BYTE <= (BYTE - 1) * BYTE
  BY <1>1
<1>9. b[1] * BYTE + b[2] \in 0 .. BYTE * BYTE - 1
  BY <1>1, <1>8
<1> QED
  BY <1>7, <1>9 DEF Word, WORD

(* A negative millivolt is sent as its two's complement, a register value. *)
LEMMA Int16AsWord ==
  ASSUME NEW x \in Int16
  PROVE  x % WORD \in Word
BY Widths DEF Int16, Word

(* A master that puts the two bytes together and takes the sign back has   *)
(* the millivolts again.                                                   *)
LEMMA Int16OnWire ==
  ASSUME NEW x \in Int16
  PROVE  LET b == WireBytes(x % WORD)
             w == b[1] * BYTE + b[2]
         IN  (IF w > INT16_MAX THEN w - WORD ELSE w) = x
<1> DEFINE y == x % WORD
<1>1. y \in Word
  BY Int16AsWord
<1>2. WireBytes(y) = <<y \div BYTE, y % BYTE>>
  BY <1>1, WireBytesBigEndian
<1>3. WireBytes(y)[1] * BYTE + WireBytes(y)[2] = y
  BY <1>1, <1>2, WordBytes
<1>4. (IF y > INT16_MAX THEN y - WORD ELSE y) = x
  <2>1. x \in Int /\ INT16_MIN <= x /\ x <= INT16_MAX
    BY Widths DEF Int16
  <2>2. CASE x >= 0
    <3>1. y = x
      BY Widths, <2>1, <2>2
    <3> QED
      BY Widths, <2>1, <3>1
  <2>3. CASE x < 0
    <3>1. y = x + WORD
      BY Widths, <2>1, <2>3
    <3> QED
      BY Widths, <2>1, <2>3, <3>1
  <2> QED
    BY <2>1, <2>2, <2>3
<1> HIDE DEF y
<1>5. LET b == WireBytes(y)
          w == b[1] * BYTE + b[2]
      IN  (IF w > INT16_MAX THEN w - WORD ELSE w) = x
  BY <1>3, <1>4
<1> QED
  BY <1>5 DEF y

(* The shift of the moving average, floor division for a negative          *)
(* difference too, stays between the old average and the new sample.       *)
LEMMA EmaBetween ==
  ASSUME NEW lo \in Int, NEW hi \in Int, NEW avg \in lo .. hi, NEW now \in lo .. hi
  PROVE  Ema(avg, now) \in lo .. hi
<1>1. 2 ^ EMA_ALPHA_SHIFT = 4
  BY DEF EMA_ALPHA_SHIFT
<1> QED
  BY <1>1 DEF Ema

(* A raw value up to full scale converts without overflow. *)
LEMMA MilivoltsInt16 ==
  ASSUME NEW raw \in (0 .. ADC_RAW_MAX) \cup {Unread},
         NEW mv \in Milivolts(raw)
  PROVE  mv \in Int16
<1>1. CASE raw = Unread
  BY <1>1, RegistersAssumption DEF Milivolts
<1>2. CASE raw # Unread
  <2>1. raw \in 0 .. ADC_RAW_MAX /\ ADC_RAW_MAX \in Nat \ {0}
        /\ ADC_REF_MILIVOLT \in Nat /\ ADC_REF_MILIVOLT <= INT16_MAX
    BY <1>2, RegistersAssumption, Widths
  <2>2. raw * ADC_REF_MILIVOLT \in 0 .. ADC_RAW_MAX * ADC_REF_MILIVOLT
    BY <2>1
  <2>3. (raw * ADC_REF_MILIVOLT) \div ADC_RAW_MAX \in 0 .. ADC_REF_MILIVOLT
    BY <2>1, <2>2
  <2> QED
    BY <1>2, <2>1, <2>3, Widths DEF Milivolts, ADC_RAW_TO_MILIVOLT, Int16
<1> QED
  BY <1>1, <1>2

(* Every word of the input structure is a register value. *)
LEMMA InputWordIsWord ==
  ASSUME NEW in \in InputRegs, NEW k \in 0 .. MODBUS_REG_INPUT_NREGS - 1
  PROVE  InputWord(in, k) \in Word
<1> DEFINE q == (k - 2) \div ADC_SAMPLES
           c == (k - 2) % ADC_SAMPLES
<1>1. CASE k \in {0, 1}
  BY <1>1, Widths DEF InputWord, InputRegs, Word
<1>2. CASE k \notin {0, 1}
  <2>1. k - 2 \in 0 .. 4 * ADC_SAMPLES - 1 /\ ADC_SAMPLES \in Nat \ {0}
    BY <1>2, RegistersAssumption DEF MODBUS_REG_INPUT_NREGS
  <2>2. c \in Channel /\ q \in Nat /\ k - 2 = ADC_SAMPLES * q + c
    BY <2>1 DEF Channel
  <2>3. q < 4
    BY <2>1, <2>2 DEF Channel
  <2>4. <<in.now, in.min, in.max, in.avg>>[q + 1] \in [Channel -> Int16]
    BY <2>2, <2>3 DEF InputRegs
  <2>5. <<in.now, in.min, in.max, in.avg>>[q + 1][c] \in Int16
    BY <2>2, <2>4
  <2>6. InputWord(in, k) = <<in.now, in.min, in.max, in.avg>>[q + 1][c] % WORD
    BY <1>2 DEF InputWord
  <2> QED
    BY <2>5, <2>6, Int16AsWord
<1> QED
  BY <1>1, <1>2

(* A reset and a stored sample leave every field in its type. *)
LEMMA ResetStatsType ==
  ASSUME NEW in \in InputRegs
  PROVE  ResetStats(in) \in InputRegs
BY Widths DEF ResetStats, InputRegs, Int16

(* A second counted.                                                       *)
LEMMA TickType ==
  ASSUME NEW in \in InputRegs
  PROVE  [in EXCEPT !.cntr = (@ + 1) % WORD] \in InputRegs
<1>1. (in.cntr + 1) % WORD \in Word
  BY Widths DEF InputRegs, Word
<1> QED
  BY <1>1 DEF InputRegs

(* The device ready.                                                       *)
LEMMA ReadyType ==
  ASSUME NEW in \in InputRegs
  PROVE  [in EXCEPT !.status = 1] \in InputRegs
BY DEF InputRegs

(* A sample stored.                                                        *)
LEMMA StoreType ==
  ASSUME NEW in \in InputRegs, NEW c \in Channel, NEW mv \in Int16
  PROVE  Store(in, c, mv) \in InputRegs
<1>1. in.now[c] \in Int16 /\ in.min[c] \in Int16
      /\ in.max[c] \in Int16 /\ in.avg[c] \in Int16
  BY DEF InputRegs
<1>2. MIN(mv, in.min[c]) \in Int16 /\ MAX(mv, in.max[c]) \in Int16
  BY <1>1 DEF MIN, MAX
<1>3. Ema(in.avg[c], mv) \in Int16
  <2>1. INT16_MIN \in Int /\ INT16_MAX \in Int
    BY Widths
  <2> QED
    BY <1>1, <2>1, EmaBetween DEF Int16
<1>4. /\ [in.now EXCEPT ![c] = mv] \in [Channel -> Int16]
      /\ [in.min EXCEPT ![c] = MIN(mv, in.min[c])] \in [Channel -> Int16]
      /\ [in.max EXCEPT ![c] = MAX(mv, in.max[c])] \in [Channel -> Int16]
      /\ [in.avg EXCEPT ![c] = Ema(in.avg[c], mv)] \in [Channel -> Int16]
  BY <1>2, <1>3 DEF InputRegs
<1> QED
  BY <1>4 DEF Store, InputRegs

(* A holding register written.                                             *)
LEMMA SetHoldingWordType ==
  ASSUME NEW hold \in HoldingRegs, NEW k \in {0, 1}, NEW w \in Word
  PROVE  SetHoldingWord(hold, k, w) \in HoldingRegs
BY DEF SetHoldingWord, HoldingRegs

(* The structures after memset.                                            *)
LEMMA ZeroTypes == ZeroInput \in InputRegs /\ ZeroHolding \in HoldingRegs
BY Widths DEF ZeroInput, ZeroHolding, InputRegs, HoldingRegs, Int16, Word

=============================================================================
