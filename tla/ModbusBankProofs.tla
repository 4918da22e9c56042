--------------------------- MODULE ModbusBankProofs ---------------------------
(***************************************************************************)
(* The slave implements the register bank.  CommitInv says how far the     *)
(* owner of the mutex has gone from the committed registers: how much of a *)
(* scan is stored, how many words of a write have landed.                  *)
(***************************************************************************)
EXTENDS ModbusHistoryProofs

-----------------------------------------------------------------------------
(* The bank's operators are the slave's.                                   *)

(* The definitions the bank brings along are the same as those of the      *)
(* slave.                                                                  *)
LEMMA BankRegisters ==
  /\ Bank!Channel = Channel /\ Bank!WORD = WORD /\ Bank!Int16 = Int16
  /\ Bank!ZeroInput = ZeroInput /\ Bank!ZeroHolding = ZeroHolding
  /\ \A in : Bank!ResetStats(in) = ResetStats(in)
  /\ \A r : Bank!InRange(r) = InRange(r)
  /\ \A x, y : Bank!MIN(x, y) = MIN(x, y) /\ Bank!MAX(x, y) = MAX(x, y)
                 /\ Bank!Ema(x, y) = Ema(x, y)
<1>1. Bank!Channel = Channel /\ Bank!WORD = WORD
  BY DEF Bank!Channel, Channel, Bank!WORD, WORD
<1>2. Bank!INT16_MAX = INT16_MAX /\ Bank!INT16_MIN = INT16_MIN
  BY <1>1 DEF Bank!INT16_MAX, INT16_MAX, Bank!INT16_MIN, INT16_MIN
<1>3. Bank!Int16 = Int16
  BY <1>2 DEF Bank!Int16, Int16
<1>4. Bank!ZeroInput = ZeroInput /\ Bank!ZeroHolding = ZeroHolding
  BY <1>1 DEF Bank!ZeroInput, ZeroInput, Bank!ZeroHolding, ZeroHolding
<1>5. \A in : Bank!ResetStats(in) = ResetStats(in)
  BY <1>1, <1>2 DEF Bank!ResetStats, ResetStats
<1>6. \A r : Bank!InRange(r) = InRange(r)
  BY DEF Bank!InRange, InRange, Bank!RegisterFn, RegisterFn, Bank!First, First,
     Bank!RegCount, RegCount, Bank!MODBUS_REG_INPUT_START, MODBUS_REG_INPUT_START,
     Bank!MODBUS_REG_INPUT_NREGS, MODBUS_REG_INPUT_NREGS, Bank!MODBUS_REG_HOLDING_START,
     MODBUS_REG_HOLDING_START, Bank!MODBUS_REG_HOLDING_NREGS, MODBUS_REG_HOLDING_NREGS
<1>7. \A x, y : Bank!MIN(x, y) = MIN(x, y) /\ Bank!MAX(x, y) = MAX(x, y)
                  /\ Bank!Ema(x, y) = Ema(x, y)
  BY DEF Bank!MIN, MIN, Bank!MAX, MAX, Bank!Ema, Ema, Bank!EMA_ALPHA_SHIFT, EMA_ALPHA_SHIFT
<1> QED
  BY <1>1, <1>3, <1>4, <1>5, <1>6, <1>7

(* The swaps and shifts of the callbacks are the byte order of the bank.   *)
LEMMA ByteOrder ==
  /\ \A w \in Word : Bank!RegisterBytes(w) = WireBytes(w)
  /\ \A b \in Byte \X Byte : Bank!RegisterFrom(b) = WireWord(b)
BY WireBytesBigEndian, WireWordBigEndian DEF Bank!RegisterBytes, Bank!RegisterFrom

(* Word k of the packed input structure is the register the documentation  *)
(* numbers k + 1, and likewise for the holding registers from 31.          *)
LEMMA Documented ==
  ASSUME NEW in \in InputRegs, NEW hold \in HoldingRegs
  PROVE  /\ \A k \in 0 .. MODBUS_REG_INPUT_NREGS - 1 :
              Bank!RegisterValue("input", in, hold, k + 1) = InputWord(in, k)
         /\ \A k \in {0, 1} :
              Bank!RegisterValue("read", in, hold, k + 31) = HoldingWord(hold, k)
<1>1. ASSUME NEW k \in 0 .. MODBUS_REG_INPUT_NREGS - 1
      PROVE  Bank!InputRegister(in, k + 1) = InputWord(in, k)
  <2> DEFINE q == (k - 2) \div ADC_SAMPLES
             c == (k - 2) % ADC_SAMPLES
             nth(group) == (k + 1) - 3 - group * ADC_SAMPLES
  <2>0. ADC_SAMPLES \in Nat \ {0} /\ k \in Nat
    BY RegistersAssumption
  <2>a. Bank!InputRegister(in, k + 1) =
          CASE k + 1 = 1 -> in.status
            [] k + 1 = 2 -> in.cntr
            [] nth(0) \in Channel -> in.now[nth(0)] % WORD
            [] nth(1) \in Channel -> in.min[nth(1)] % WORD
            [] nth(2) \in Channel -> in.max[nth(2)] % WORD
            [] OTHER -> in.avg[nth(3)] % WORD
    BY BankRegisters DEF Bank!InputRegister
  <2>1. CASE k = 0
    BY <2>0, <2>a, <2>1 DEF InputWord, Channel
  <2>2. CASE k = 1
    BY <2>0, <2>a, <2>2 DEF InputWord, Channel
  <2>3. CASE k \notin {0, 1}
    <3>1. k - 2 \in 0 .. 4 * ADC_SAMPLES - 1
      BY <2>0, <2>3 DEF MODBUS_REG_INPUT_NREGS
    <3>2. c \in Channel /\ q \in Nat /\ k - 2 = ADC_SAMPLES * q + c
      BY <2>0, <3>1 DEF Channel
    <3>3. q < 4
      BY <2>0, <3>1, <3>2 DEF Channel
    <3>4. InputWord(in, k) = <<in.now, in.min, in.max, in.avg>>[q + 1][c] % WORD
      BY <2>3 DEF InputWord
    <3>5. CASE q = 0
      <4>1. nth(0) = c /\ nth(1) \notin Channel
            /\ nth(2) \notin Channel
        BY <2>0, <3>1, <3>2, <3>5 DEF Channel
      <4> QED
        BY <2>0, <2>a, <2>3, <3>2, <3>4, <3>5, <4>1
    <3>6. CASE q = 1
      <4>1. nth(1) = c /\ nth(0) \notin Channel
            /\ nth(2) \notin Channel
        BY <2>0, <3>1, <3>2, <3>6 DEF Channel
      <4> QED
        BY <2>0, <2>a, <2>3, <3>2, <3>4, <3>6, <4>1
    <3>7. CASE q = 2
      <4>1. nth(2) = c /\ nth(0) \notin Channel
            /\ nth(1) \notin Channel
        BY <2>0, <3>1, <3>2, <3>7 DEF Channel
      <4> QED
        BY <2>0, <2>a, <2>3, <3>2, <3>4, <3>7, <4>1
    <3>8. CASE q = 3
      <4>1. nth(3) = c /\ nth(0) \notin Channel
            /\ nth(1) \notin Channel
            /\ nth(2) \notin Channel
        BY <2>0, <3>1, <3>2, <3>8 DEF Channel
      <4> QED
        BY <2>0, <2>a, <2>3, <3>2, <3>4, <3>8, <4>1
    <3> QED
      BY <3>2, <3>3, <3>5, <3>6, <3>7, <3>8
  <2> QED
    BY <2>1, <2>2, <2>3
<1>2. ASSUME NEW k \in {0, 1}
      PROVE  Bank!HoldingRegister(hold, k + 31) = HoldingWord(hold, k)
  BY DEF Bank!HoldingRegister, HoldingWord
<1> QED
  BY <1>1, <1>2 DEF Bank!RegisterValue

-----------------------------------------------------------------------------
(* From the committed registers to the current ones.                       *)

(* Holding register a after the first WordsDone words of a write. *)
Cell(a, old) ==
  IF a \in request.address .. request.address + WordsDone - 1
    THEN Bank!RegisterFrom(request.data[a - request.address + 1]) ELSE old

PartWritten ==
  [interval |-> Cell(31, committed.holding.interval),
   rst_stats |-> Cell(32, committed.holding.rst_stats)]

Base == IF committed.holding.rst_stats # 0 THEN ResetStats(committed.input)
                                           ELSE committed.input

(* The first i channels of the scan are in, the others are as they were.   *)
PartScanned ==
  /\ holding = [committed.holding EXCEPT !.rst_stats = 0]
  /\ input.status = Base.status /\ input.cntr = Base.cntr
  /\ \A c \in Channel :
       IF c < i
         THEN /\ input.min[c] = MIN(input.now[c], Base.min[c])
              /\ input.max[c] = MAX(input.now[c], Base.max[c])
              /\ input.avg[c] = Ema(Base.avg[c], input.now[c])
         ELSE /\ input.min[c] = Base.min[c]
              /\ input.max[c] = Base.max[c]
              /\ input.avg[c] = Base.avg[c]

CommitInv ==
  /\ pc["adc"] = "store" => PartScanned
  /\ pc["adc"] # "store" => input = committed.input
  /\ pc["adc"] # "store" /\ pc["modbus"] # "copy" => holding = committed.holding
  /\ pc["modbus"] = "copy" => holding = IF request.fn = "write" THEN PartWritten
                                        ELSE committed.holding
  /\ ReplyIsSnapshot

BInv == SInv /\ CommitInv

(* Whenever the mutex is free there is nothing between the two. *)
LEMMA CommitFree ==
  ASSUME SInv, lock' = Nobody, History, (IInv)'
  PROVE  CommitInv'
<1>1. committed' = [input |-> input', holding |-> holding']
  BY DEF History
<1>2. pc'["adc"] # "store" /\ pc'["modbus"] # "copy"
  BY SlaveAssumption DEF IInv, LockInv, InSection, Threads
<1> QED
  BY <1>1, <1>2 DEF CommitInv, ReplyIsSnapshot

(* A step that leaves the registers alone, and the callback and the scan   *)
(* if there is one under way.                                              *)
LEMMA CommitFrame ==
  ASSUME BInv, committed' = committed, input' = input, holding' = holding, i' = i,
         pc'["adc"] = "store" <=> pc["adc"] = "store",
         pc'["modbus"] = "copy" <=> pc["modbus"] = "copy",
         pc["modbus"] = "copy" => UNCHANGED callVars
  PROVE  CommitInv'
<1>1. Base' = Base
  BY DEF Base
<1>2. pc'["adc"] = "store" => PartScanned'
  BY <1>1 DEF BInv, CommitInv, PartScanned
<1>3. pc'["modbus"] = "copy" =>
        /\ holding' = IF request'.fn = "write" THEN PartWritten' ELSE committed'.holding
        /\ ReplyIsSnapshot'
  <2> SUFFICES ASSUME pc["modbus"] = "copy", UNCHANGED <<request, index, buffer>>
               PROVE  /\ holding' = IF request'.fn = "write" THEN PartWritten'
                                                             ELSE committed'.holding
                      /\ ReplyIsSnapshot'
    BY DEF callVars
  <2>1. WordsDone' = WordsDone
    BY DEF WordsDone
  <2>2. PartWritten' = PartWritten
    BY <2>1 DEF PartWritten, Cell
  <2> QED
    BY <2>2 DEF BInv, CommitInv, ReplyIsSnapshot
<1> QED
  BY <1>2, <1>3 DEF BInv, CommitInv, ReplyIsSnapshot

(* The mutex keeps the callback and the scan apart. *)
LEMMA Exclusive ==
  ASSUME IInv
  PROVE  /\ pc["modbus"] = "copy" => lock = "modbus" /\ pc["adc"] \notin {"ready", "reset", "store"}
         /\ pc["main"] = "count" => lock = "main" /\ pc["modbus"] # "copy"
                                      /\ pc["adc"] \notin {"ready", "reset", "store"}
         /\ pc["adc"] \in {"ready", "reset", "store"} => lock = "adc" /\ pc["modbus"] # "copy"
         /\ lock = Nobody => pc["modbus"] # "copy" /\ pc["adc"] \notin {"ready", "reset", "store"}
BY SlaveAssumption DEF IInv, LockInv, InSection, Threads

(* main's steps keep the committed bank in line.                           *)
LEMMA CommitMain ==
  ASSUME BInv, Main, History, lock' # Nobody
  PROVE  CommitInv'
<1>1. committed' = committed
  BY DEF History
<1> QED
  BY <1>1, CommitFrame DEF Main, DeviceInitialize, CreateModbusThread, CreateAdcThread,
     BootFails, MainLock, MainCount, Release, Step, adcVars, callVars, BInv, SInv, IInv,
     TypeOK, PcOK, BootInv, Threads

(* So do the callbacks.                                                    *)
LEMMA CommitModbus ==
  ASSUME BInv, Modbus, History, IInv', lock' # Nobody
  PROVE  CommitInv'
<1>a. /\ IInv /\ TypeOK /\ PcOK
      /\ input \in InputRegs /\ holding \in HoldingRegs
      /\ pc["modbus"] \in {"call", "copy"} => IsRequest(request)
  BY RequestType DEF BInv, SInv, IInv, TypeOK
<1>b. committed' = committed
  BY DEF History
<1>c. First(request) \in Nat
  BY DEF First, MODBUS_REG_INPUT_START, MODBUS_REG_HOLDING_START
<1>1. CASE ModbusInitialize \/ ModbusInitFails \/ RejectCoils
           \/ \E r \in Requests : PollRequest(r)
  BY <1>1, <1>a, <1>b, CommitFrame DEF ModbusInitialize, ModbusInitFails, RejectCoils,
     PollRequest, Step, PcOK, Threads, adcVars, callVars
<1>2. CASE CbLock
  <2>1. /\ lock = Nobody /\ input' = input /\ holding' = holding /\ request' = request
        /\ pc'["modbus"] = "copy" /\ pc'["adc"] = pc["adc"] /\ pc["modbus"] = "call"
        /\ buffer' = buffer
        /\ index' = request.address - First(request)
    BY <1>2, <1>a DEF CbLock, Acquire, Step, PcOK, Threads, adcVars
  <2>2. pc["adc"] # "store"
    BY <1>a, <2>1, Exclusive
  <2>3. input = committed.input /\ holding = committed.holding
    BY <2>1, <2>2 DEF BInv, CommitInv
  <2>4. WordsDone' = 0
    <3>1. WordsDone' = index' - (request.address - First(request))
      BY <2>1 DEF WordsDone, First
    <3> QED
      BY <1>a, <1>c, <2>1, <3>1 DEF IsRequest
  <2>5. PartWritten' = committed.holding
    <3>1. ~(31 \in request.address .. request.address + 0 - 1)
          /\ ~(32 \in request.address .. request.address + 0 - 1)
      BY <1>a, <2>1 DEF IsRequest
    <3>2. committed.holding \in HoldingRegs
      BY <1>a, <2>3
    <3> QED
      BY <1>b, <2>1, <2>4, <3>1, <3>2 DEF PartWritten, Cell, HoldingRegs
  <2>6. ReplyIsSnapshot'
    BY <1>a, <2>1 DEF ReplyIsSnapshot, IInv, CallInv
  <2> QED
    BY <1>b, <2>1, <2>2, <2>3, <2>5, <2>6 DEF CommitInv
<1>3. CASE CbReadWord
  <2>1. /\ pc' = pc /\ pc["modbus"] = "copy" /\ request.fn \in {"input", "read"}
        /\ InRange(request) /\ WordsDone < request.nregs
        /\ input' = input /\ holding' = holding /\ request' = request
        /\ buffer' = Append(buffer, WireBytes(WordAt(index)))
    BY <1>3 DEF CbReadWord, Copying
  <2>2. pc["adc"] # "store"
    BY <1>a, <2>1, Exclusive
  <2>3. input = committed.input /\ holding = committed.holding
    BY <2>1, <2>2 DEF BInv, CommitInv
  <2>4. index \in 0 .. RegCount(request) - 1 /\ Len(buffer) = WordsDone
        /\ buffer \in Seq(Byte \X Byte)
    BY <1>a, <2>1, InBounds DEF AccessInBounds, IInv, CallInv, TypeOK
  <2>5. WordAt(index) = Bank!RegisterValue(request.fn, input, holding,
                                           request.address + WordsDone)
    <3>1. request.address + WordsDone = index + First(request)
      BY <1>a, <1>c, <2>1, <2>4 DEF WordsDone, IsRequest, TypeOK
    <3>2. CASE request.fn = "input"
      BY <1>a, <2>4, <3>1, <3>2, Documented DEF WordAt, First, RegCount,
         MODBUS_REG_INPUT_START
    <3>3. CASE request.fn = "read"
      <4>1. index \in {0, 1} /\ First(request) = 31
        BY <2>4, <3>3 DEF First, RegCount, MODBUS_REG_HOLDING_START, MODBUS_REG_HOLDING_NREGS
      <4>2. WordAt(index) = HoldingWord(holding, index)
        BY <3>3 DEF WordAt
      <4>3. Bank!RegisterValue("read", input, holding, index + 31) = HoldingWord(holding, index)
        BY <1>a, <4>1, Documented
      <4> QED
        BY <3>1, <3>3, <4>1, <4>2, <4>3
    <3> QED
      BY <2>1, <3>2, <3>3
  <2>6. ReplyIsSnapshot'
    <3> SUFFICES ASSUME NEW n \in 1 .. Len(buffer')
                 PROVE  buffer'[n] = Bank!RegisterBytes(
                          Bank!RegisterValue(request.fn, input, holding,
                                             request.address + n - 1))
      BY <1>b, <2>1, <2>3 DEF ReplyIsSnapshot
    <3>1. CASE n = Len(buffer) + 1
      <4>1. buffer'[n] = Bank!RegisterBytes(WordAt(index))
        <5>1. buffer'[n] = WireBytes(WordAt(index))
          BY <2>1, <2>4, <3>1
        <5>2. WordAt(index) \in Word
          BY <1>a, <2>1, <2>4, WordAtIsWord
        <5> QED
          BY <5>1, <5>2, ByteOrder
      <4>2. request.address + n - 1 = request.address + WordsDone
        BY <1>a, <2>1, <2>4, <3>1 DEF IsRequest
      <4> QED
        BY <2>5, <4>1, <4>2
    <3>2. CASE n # Len(buffer) + 1
      <4>1. n \in 1 .. Len(buffer) /\ buffer'[n] = buffer[n]
        <5> DEFINE w == WireBytes(WordAt(index))
        <5>1. buffer' = Append(buffer, w) /\ buffer \in Seq(Byte \X Byte)
              /\ Len(buffer') = Len(buffer) + 1
          BY <2>1, <2>4
        <5> HIDE DEF w
        <5> QED
          BY <3>2, <5>1
      <4>2. ReplyIsSnapshot
        BY DEF BInv, CommitInv
      <4>3. buffer[n] = Bank!RegisterBytes(
                          Bank!RegisterValue(request.fn, committed.input,
                                             committed.holding, request.address + n - 1))
        BY <2>1, <4>1, <4>2 DEF ReplyIsSnapshot
      <4> QED
        BY <2>3, <4>1, <4>3
    <3> QED
      BY <3>1, <3>2
  <2> QED
    BY <1>b, <2>1, <2>2, <2>3, <2>6 DEF CommitInv
<1>4. CASE CbWriteWord
  <2>1. /\ pc' = pc /\ pc["modbus"] = "copy" /\ request.fn = "write"
        /\ InRange(request) /\ WordsDone < request.nregs
        /\ input' = input /\ request' = request
        /\ holding' = SetHoldingWord(holding, index, WireWord(request.data[WordsDone + 1]))
    BY <1>4 DEF CbWriteWord, Copying
  <2>2. pc["adc"] # "store"
    BY <1>a, <2>1, Exclusive
  <2>3. input = committed.input /\ holding = PartWritten
    BY <2>1, <2>2 DEF BInv, CommitInv
  <2>4. index \in {0, 1} /\ WordsDone \in Nat /\ request.address \in Nat
        /\ request.address + WordsDone = 31 + index
    <3>1. index \in {0, 1} /\ First(request) = 31
      BY <1>a, <2>1, InBounds DEF AccessInBounds, First, RegCount,
         MODBUS_REG_HOLDING_START, MODBUS_REG_HOLDING_NREGS
    <3>2. WordsDone \in Nat /\ request.address \in Nat
      BY <1>a, <2>1 DEF IInv, CallInv, IsRequest
    <3> QED
      BY <3>1, <3>2 DEF WordsDone
  <2>5. WordsDone' = WordsDone + 1
    BY <1>4, <1>a, <2>1, CopyAdvances DEF CbWriteWord
  <2>a. WireWord(request.data[WordsDone + 1])
          = Bank!RegisterFrom(request.data[WordsDone + 1])
    <3>1. request.data[WordsDone + 1] \in Byte \X Byte
      BY <1>a, <1>c, <2>1, <2>4 DEF IsRequest
    <3> QED
      BY <3>1, ByteOrder
  <2>6. holding' = PartWritten'
    <3> DEFINE old(a) == IF a = 31 THEN committed.holding.interval
                                   ELSE committed.holding.rst_stats
    <3>1. \A a \in {31, 32} :
            Cell(a, old(a))' =
              IF a = 31 + index THEN Bank!RegisterFrom(request.data[WordsDone + 1])
                                ELSE Cell(a, old(a))
      <4> SUFFICES ASSUME NEW a \in {31, 32}
                   PROVE  Cell(a, old(a))' =
                            IF a = 31 + index
                              THEN Bank!RegisterFrom(request.data[WordsDone + 1])
                              ELSE Cell(a, old(a))
        OBVIOUS
      <4>1. Cell(a, old(a))' =
              IF a \in request.address .. request.address + (WordsDone + 1) - 1
                THEN Bank!RegisterFrom(request.data[a - request.address + 1]) ELSE old(a)
        BY <1>b, <2>1, <2>5 DEF Cell
      <4>2. CASE a = 31 + index
        <5>1. a \in request.address .. request.address + (WordsDone + 1) - 1
              /\ a - request.address + 1 = WordsDone + 1
          BY <2>4, <4>2
        <5> QED
          BY <4>1, <4>2, <5>1
      <4>3. CASE a # 31 + index
        <5>1. a \in request.address .. request.address + (WordsDone + 1) - 1
              <=> a \in request.address .. request.address + WordsDone - 1
          BY <2>4, <4>3
        <5> QED
          BY <4>1, <4>3, <5>1 DEF Cell
      <4> QED
        BY <4>2, <4>3
    <3>2. PartWritten' = [interval |-> Cell(31, old(31))', rst_stats |-> Cell(32, old(32))']
      BY DEF PartWritten
    <3>3. PartWritten = [interval |-> Cell(31, old(31)), rst_stats |-> Cell(32, old(32))]
      BY DEF PartWritten
    <3> HIDE DEF old
    <3> QED
      BY <2>1, <2>3, <2>4, <2>a, <3>1, <3>2, <3>3 DEF SetHoldingWord
  <2>7. ReplyIsSnapshot'
    BY <2>1 DEF ReplyIsSnapshot
  <2> QED
    BY <1>b, <2>1, <2>2, <2>3, <2>6, <2>7 DEF CommitInv
<1>5. CASE CbUnlock
  BY <1>5 DEF CbUnlock, Release
<1> QED
  BY <1>1, <1>2, <1>3, <1>4, <1>5 DEF Modbus, ModbusServe

(* So does thread_adc.                                                     *)
LEMMA CommitAdc ==
  ASSUME BInv, Adc, History, lock' # Nobody
  PROVE  CommitInv'
<1>a. /\ IInv /\ PcOK /\ i \in 0 .. ADC_SAMPLES
      /\ input \in InputRegs /\ holding \in HoldingRegs
      /\ committed.input \in InputRegs /\ committed.holding \in HoldingRegs
  BY DEF BInv, SInv, IInv, TypeOK, PublishedInv
<1>b. committed' = committed
  BY DEF History
<1>1. CASE AdcOpen \/ AdcOpenFails \/ AdcInitLock \/ AdcLock
           \/ \E n \in 0 .. ADC_SAMPLES : AdcRead(n)
  BY <1>1, <1>a, <1>b, CommitFrame DEF AdcOpen, AdcOpenFails, AdcInitLock, AdcLock, AdcRead,
     Step, PcOK, Threads, adcVars, callVars
<1>2. CASE AdcReady \/ AdcUnlock
  BY <1>2 DEF AdcReady, AdcUnlock, Release
<1>3. CASE AdcReset
  <2>1. /\ pc["adc"] = "reset" /\ pc'["adc"] = "store" /\ pc'["modbus"] = pc["modbus"]
        /\ i' = 0
        /\ input' = IF holding.rst_stats # 0 THEN ResetStats(input) ELSE input
        /\ holding' = IF holding.rst_stats # 0 THEN [holding EXCEPT !.rst_stats = 0]
                                               ELSE holding
    BY <1>3, <1>a DEF AdcReset, Step, PcOK, Threads
  <2>2. pc["modbus"] # "copy" /\ input = committed.input /\ holding = committed.holding
    BY <1>a, <2>1, Exclusive DEF BInv, CommitInv
  <2>3. input' = Base /\ Base' = Base
    BY <1>b, <2>1, <2>2 DEF Base
  <2>4. holding' = [committed.holding EXCEPT !.rst_stats = 0]
    BY <1>a, <2>1, <2>2 DEF HoldingRegs
  <2>5. PartScanned'
    BY <1>b, <2>1, <2>3, <2>4 DEF PartScanned, Channel
  <2> QED
    BY <2>1, <2>2, <2>5 DEF CommitInv, ReplyIsSnapshot
<1>4. CASE AdcStore
  <2>1. /\ pc["adc"] = "store" /\ pc' = pc /\ i' = i + 1 /\ i \in Channel
        /\ holding' = holding
        /\ \E mv \in Milivolts(sample[i]) : input' = Store(input, i, mv)
    BY <1>4, <1>a, RegistersAssumption DEF AdcStore, Channel
  <2>2. PICK mv \in Milivolts(sample[i]) : input' = Store(input, i, mv)
    BY <2>1
  <2>3. pc["modbus"] # "copy" /\ PartScanned
    BY <1>a, <2>1, Exclusive DEF BInv, CommitInv
  <2>4. /\ input'.status = input.status /\ input'.cntr = input.cntr
        /\ input'.now[i] = mv
        /\ input'.min[i] = MIN(mv, input.min[i]) /\ input'.max[i] = MAX(mv, input.max[i])
        /\ input'.avg[i] = Ema(input.avg[i], mv)
        /\ \A d \in Channel : d # i =>
             /\ input'.now[d] = input.now[d] /\ input'.min[d] = input.min[d]
             /\ input'.max[d] = input.max[d] /\ input'.avg[d] = input.avg[d]
    BY <1>a, <2>1, <2>2 DEF Store, InputRegs
  <2>5. Base' = Base
    BY <1>b DEF Base
  <2>6. PartScanned'
    <3>1. \A c \in Channel : (c < i' /\ c # i => c < i) /\ (~(c < i') => ~(c < i) /\ c # i)
      BY <1>a, <2>1 DEF Channel
    <3>2. i < i' /\ ~(i < i)
      BY <1>a, <2>1
    <3> QED
      BY <1>b, <2>1, <2>3, <2>4, <2>5, <3>1, <3>2 DEF PartScanned
  <2> QED
    BY <2>1, <2>3, <2>6 DEF CommitInv, ReplyIsSnapshot
<1> QED
  BY <1>1, <1>2, <1>3, <1>4 DEF Adc

(* Every step keeps the invariant.                                         *)
LEMMA NextBInv == BInv /\ [HNext]_hvars => BInv'
<1> SUFFICES ASSUME BInv, [HNext]_hvars PROVE BInv'
  OBVIOUS
<1>1. SInv' /\ IInv'
  BY NextSInv DEF BInv, SInv
<1>2. CASE UNCHANGED hvars
  <2>1. CommitInv'
    BY <1>2, CommitFrame DEF hvars, vars, adcVars, callVars
  <2> QED
    BY <1>1, <2>1 DEF BInv
<1>3. CASE HNext /\ lock' = Nobody
  BY <1>1, <1>3, CommitFree DEF BInv, HNext
<1>4. CASE HNext /\ lock' # Nobody
  <2>1. CASE Halted
    BY <1>1, <1>4, <2>1, CommitFrame DEF Halted, vars, adcVars, callVars, BInv, HNext, History
  <2> QED
    BY <1>1, <1>4, <2>1, CommitMain, CommitModbus, CommitAdc DEF HNext, Next, BInv
<1> QED
  BY <1>2, <1>3, <1>4

(* The invariant holds at first.                                           *)
LEMMA InitBInv == HInit => BInv
BY InitSInv DEF HInit, Init, BInv, CommitInv, ReplyIsSnapshot

(* The inductive invariant: what the owner of the mutex has made of the    *)
(* committed bank so far.                                                  *)
THEOREM BankBInv == HSpec => []BInv
BY InitBInv, NextBInv, PTL DEF HSpec

(* No reply mixes two scans or two writes. *)
THEOREM SlaveReplyIsSnapshot == HSpec => []ReplyIsSnapshot
<1>1. BInv => ReplyIsSnapshot
  BY DEF BInv, CommitInv
<1> QED
  BY <1>1, BankBInv, PTL

(* What a master makes of register 3 + group * ADC_SAMPLES + c of a reply. *)
LEMMA ReceivedValue ==
  ASSUME BInv, pc["modbus"] = "copy", request.fn = "input",
         NEW c \in Channel, NEW group \in 0 .. 2,
         Copied(3 + group * ADC_SAMPLES + c)
  PROVE  Received(3 + group * ADC_SAMPLES + c) =
           <<committed.input.now, committed.input.min, committed.input.max>>[group + 1][c]
<1> DEFINE in == committed.input
           a == 3 + group * ADC_SAMPLES + c
           k == 2 + group * ADC_SAMPLES + c
           n == a - request.address + 1
           x == <<in.now, in.min, in.max>>[group + 1][c]
<1>1. /\ ADC_SAMPLES \in Nat \ {0} /\ c \in 0 .. ADC_SAMPLES - 1
      /\ in \in InputRegs /\ committed.holding \in HoldingRegs
  BY RegistersAssumption DEF Channel, BInv, SInv, PublishedInv
<1>2. request.address \in Nat /\ n \in 1 .. Len(buffer)
  BY RequestType DEF BInv, SInv, IInv, TypeOK, IsRequest, Copied
<1>3. group * ADC_SAMPLES \in Nat /\ k \in 0 .. MODBUS_REG_INPUT_NREGS - 1
  BY <1>1 DEF MODBUS_REG_INPUT_NREGS
<1>4. a = k + 1 /\ request.address + n - 1 = k + 1
  BY <1>1, <1>2, <1>3
<1>5. buffer[n] = WireBytes(InputWord(in, k))
  <2>1. buffer[n] = Bank!RegisterBytes(
                      Bank!RegisterValue("input", in, committed.holding, k + 1))
    BY <1>2, <1>4 DEF BInv, CommitInv, ReplyIsSnapshot
  <2>2. InputWord(in, k) \in Word
    BY <1>1, <1>3, InputWordIsWord
  <2> QED
    BY <1>1, <1>3, <2>1, <2>2, Documented, ByteOrder
<1>6. InputWord(in, k) = x % WORD
  <2>1. (group * ADC_SAMPLES + c) \div ADC_SAMPLES = group
        /\ (group * ADC_SAMPLES + c) % ADC_SAMPLES = c
    BY <1>1, RowMajor
  <2>2. k - 2 = group * ADC_SAMPLES + c /\ k # 0 /\ k # 1
    BY <1>1, <1>3
  <2>3. InputWord(in, k) = <<in.now, in.min, in.max, in.avg>>[group + 1][c] % WORD
    BY <2>1, <2>2 DEF InputWord
  <2>4. group \in {0, 1, 2}
    OBVIOUS
  <2> QED
    BY <2>3, <2>4
<1>7. x \in Int16
  <2>1. group \in {0, 1, 2}
    OBVIOUS
  <2> QED
    BY <1>1, <2>1 DEF InputRegs
<1> HIDE DEF x
<1>8. Received(a) = LET b == WireBytes(x % WORD)
                        w == b[1] * BYTE + b[2]
                    IN  IF w > INT16_MAX THEN w - WORD ELSE w
  BY <1>5, <1>6 DEF Received
<1>9. Received(a) = x
  BY <1>7, <1>8, Int16OnWire
<1> QED
  BY <1>9 DEF x

(* Whatever happens while a reply is built, now lies between min and max   *)
(* in it, for every channel it carries.                                    *)
THEOREM SlaveReplyConsistent == HSpec => []ReplyConsistent
<1>1. BInv => ReplyConsistent
  <2> DEFINE in == committed.input
             reg(group, c) == 3 + group * ADC_SAMPLES + c
             seen == {c \in Channel : Copied(reg(0, c)) /\ Copied(reg(2, c))}
  <2> SUFFICES ASSUME BInv, pc["modbus"] = "copy", request.fn = "input"
               PROVE  \/ \A c \in seen : Received(reg(1, c)) = INT16_MAX
                                         /\ Received(reg(2, c)) = INT16_MIN
                      \/ \A c \in seen : Received(reg(1, c)) <= Received(reg(0, c))
                                         /\ Received(reg(0, c)) <= Received(reg(2, c))
    BY DEF ReplyConsistent
  <2>1. ASSUME NEW c \in seen
        PROVE  /\ c \in Channel
               /\ Received(reg(0, c)) = in.now[c]
               /\ Received(reg(1, c)) = in.min[c]
               /\ Received(reg(2, c)) = in.max[c]
    <3>1. c \in Channel /\ Copied(reg(0, c)) /\ Copied(reg(2, c))
      OBVIOUS
    <3>2. Copied(reg(1, c))
      <4>1. ADC_SAMPLES \in Nat /\ c \in Nat /\ request.address \in Nat
            /\ Len(buffer) \in Nat
        BY <3>1, RegistersAssumption, RequestType
        DEF Channel, BInv, SInv, IInv, TypeOK, IsRequest
      <4> QED
        BY <3>1, <4>1 DEF Copied
    <3>3. 0 \in 0 .. 2 /\ 1 \in 0 .. 2 /\ 2 \in 0 .. 2
      OBVIOUS
    <3>4. ASSUME NEW group \in 0 .. 2, Copied(reg(group, c))
          PROVE  Received(reg(group, c)) = <<in.now, in.min, in.max>>[group + 1][c]
      BY <3>1, <3>4, ReceivedValue
    <3> QED
      BY <3>1, <3>2, <3>3, <3>4
  <2>2. CASE in.status = 0
    <3>1. \A c \in Channel : in.now[c] = 0 /\ in.min[c] = 0 /\ in.max[c] = 0
      BY <2>2 DEF BInv, SInv, PublishedInv, Zeroed, ZeroInput
    <3> QED
      BY <2>1, <3>1
  <2>3. CASE in.status = 1
    BY <2>1, <2>3 DEF BInv, SInv, PublishedInv, Whole, Fresh, Settled
  <2>4. in.status \in {0, 1}
    BY DEF BInv, SInv, PublishedInv, InputRegs
  <2> QED
    BY <2>2, <2>3, <2>4
<1> QED
  BY <1>1, BankBInv, PTL

-----------------------------------------------------------------------------
(* The refinement.                                                         *)

BankStep == [Bank!Next]_(Bank!bankVars)

(* Inside a critical section, or without touching the registers, a step    *)
(* commits nothing.                                                        *)
LEMMA NothingCommitted ==
  ASSUME BInv, History,
         lock' # Nobody \/ (lock = Nobody /\ input' = input /\ holding' = holding)
  PROVE  committed' = committed
<1>1. CASE lock' # Nobody
  BY <1>1 DEF History
<1>2. CASE lock = Nobody /\ input' = input /\ holding' = holding /\ lock' = Nobody
  <2>1. committed' = [input |-> input, holding |-> holding]
    BY <1>2 DEF History
  <2>2. input = committed.input /\ holding = committed.holding
    BY <1>2, Exclusive DEF BInv, SInv, CommitInv
  <2>3. committed = [input |-> committed.input, holding |-> committed.holding]
    BY DEF BInv, SInv, PublishedInv
  <2> QED
    BY <2>1, <2>2, <2>3
<1> QED
  BY <1>1, <1>2

(* A step that commits nothing and answers nothing is a stutter of the     *)
(* bank.                                                                   *)
LEMMA Stutters ==
  ASSUME committed' = committed, request' = request,
         request = NoRequest => mberr' = mberr /\ buffer' = buffer
  PROVE  BankStep
BY DEF BankStep, Bank!bankVars

(* main's steps are Boot, Tick or stutters.                                *)
LEMMA MainRefines ==
  ASSUME BInv, History, Main
  PROVE  BankStep
<1>a. /\ IInv /\ TypeOK /\ PcOK /\ holding \in HoldingRegs
  BY DEF BInv, SInv, IInv, TypeOK
<1>1. CASE DeviceInitialize
  <2>1. /\ committed'.input = ZeroInput
        /\ committed'.holding = [ZeroHolding EXCEPT !.interval = INTERVAL_DEFAULT_US]
        /\ UNCHANGED callVars
    BY <1>1 DEF DeviceInitialize, History
  <2>2. Bank!Boot
    BY <2>1, BankRegisters DEF Bank!Boot, callVars
  <2> QED
    BY <2>2 DEF BankStep, Bank!Next
<1>2. CASE MainCount
  <2>1. /\ committed'.input = [input EXCEPT !.cntr = (@ + 1) % WORD]
        /\ committed'.holding = holding
        /\ UNCHANGED callVars
    BY <1>2 DEF MainCount, Release, History
  <2>2. input = committed.input /\ holding = committed.holding
    BY <1>2, <1>a, Exclusive DEF MainCount, Step, BInv, CommitInv
  <2>3. Bank!Tick
    BY <2>1, <2>2, BankRegisters DEF Bank!Tick, callVars
  <2> QED
    BY <2>3 DEF BankStep, Bank!Next
<1>3. CASE CreateModbusThread \/ CreateAdcThread \/ BootFails \/ MainLock
  <2>1. /\ input' = input /\ holding' = holding
        /\ lock' # Nobody \/ lock' = lock
        /\ UNCHANGED callVars
    BY <1>3, SlaveAssumption DEF CreateModbusThread, CreateAdcThread, BootFails, MainLock,
       Acquire, Threads
  <2>2. committed' = committed
    BY <2>1, NothingCommitted
  <2> QED
    BY <2>1, <2>2, Stutters DEF callVars
<1> QED
  BY <1>1, <1>2, <1>3 DEF Main

(* thread_adc's are Ready, Scan or stutters.                               *)
LEMMA AdcRefines ==
  ASSUME BInv, History, Adc, IInv'
  PROVE  BankStep
<1>a. /\ IInv /\ PcOK /\ i \in 0 .. ADC_SAMPLES /\ input \in InputRegs
      /\ holding \in HoldingRegs /\ committed.input \in InputRegs
      /\ committed.holding \in HoldingRegs
  BY DEF BInv, SInv, IInv, TypeOK, PublishedInv
<1>b. UNCHANGED callVars
  BY DEF Adc, AdcOpen, AdcOpenFails, AdcInitLock, AdcReady, AdcRead, AdcLock, AdcReset,
     AdcStore, AdcUnlock
<1>1. CASE AdcReady
  <2>1. /\ committed'.input = [ResetStats(input) EXCEPT !.status = 1]
        /\ committed'.holding = holding
    BY <1>1 DEF AdcReady, Release, History
  <2>2. input = committed.input /\ holding = committed.holding
    BY <1>1, <1>a, Exclusive DEF AdcReady, Step, BInv, CommitInv
  <2>3. Bank!Ready
    BY <1>b, <2>1, <2>2, BankRegisters DEF Bank!Ready, callVars
  <2> QED
    BY <2>3 DEF BankStep, Bank!Next
<1>2. CASE AdcUnlock
  <2>1. /\ committed'.input = input /\ committed'.holding = holding
        /\ pc["adc"] = "store" /\ i = ADC_SAMPLES
    BY <1>2 DEF AdcUnlock, Release, Step, History
  <2>2. PartScanned
    BY <2>1 DEF BInv, CommitInv
  <2>3. Bank!Restarted = Base
    BY BankRegisters DEF Bank!Restarted, Base
  <2>4. Base \in InputRegs
    BY <1>a, ResetStatsType DEF Base
  <2>5. input = Bank!Scanned(Base, input.now)
    <3>1. /\ input.min = [c \in Channel |-> MIN(input.now[c], Base.min[c])]
          /\ input.max = [c \in Channel |-> MAX(input.now[c], Base.max[c])]
          /\ input.avg = [c \in Channel |-> Ema(Base.avg[c], input.now[c])]
      BY <1>a, <2>1, <2>2 DEF PartScanned, InputRegs, Channel
    <3>2. input = [status |-> Base.status, cntr |-> Base.cntr, now |-> input.now,
                   min |-> input.min, max |-> input.max, avg |-> input.avg]
      BY <1>a, <2>2 DEF PartScanned, InputRegs
    <3>3. Bank!Scanned(Base, input.now) =
            [status |-> Base.status, cntr |-> Base.cntr, now |-> input.now,
             min |-> [c \in Channel |-> MIN(input.now[c], Base.min[c])],
             max |-> [c \in Channel |-> MAX(input.now[c], Base.max[c])],
             avg |-> [c \in Channel |-> Ema(Base.avg[c], input.now[c])]]
      BY BankRegisters DEF Bank!Scanned
    <3> QED
      BY <3>1, <3>2, <3>3
  <2>6. input.now \in [Channel -> Int16]
    BY <1>a DEF InputRegs
  <2>7. Bank!Scan
    BY <1>b, <2>1, <2>2, <2>3, <2>5, <2>6, BankRegisters DEF Bank!Scan, PartScanned, callVars
  <2> QED
    BY <2>7 DEF BankStep, Bank!Next
<1>3. CASE AdcOpen \/ AdcOpenFails \/ AdcInitLock \/ AdcLock \/ AdcReset \/ AdcStore
           \/ \E n \in 0 .. ADC_SAMPLES : AdcRead(n)
  <2>1. lock' # Nobody \/ (lock' = lock /\ input' = input /\ holding' = holding)
    <3>1. CASE AdcReset \/ AdcStore
      <4>1. lock' = lock /\ lock = "adc"
        BY <1>a, <3>1, Exclusive DEF AdcReset, AdcStore, Step
      <4> QED
        BY <4>1, SlaveAssumption DEF Threads
    <3>2. CASE ~(AdcReset \/ AdcStore)
      BY <1>3, <3>2, SlaveAssumption DEF AdcOpen, AdcOpenFails, AdcInitLock, AdcLock, AdcRead,
         Acquire, Threads
    <3> QED
      BY <3>1, <3>2
  <2>2. committed' = committed
    BY <2>1, NothingCommitted
  <2> QED
    BY <1>b, <2>2, Stutters DEF callVars
<1> QED
  BY <1>1, <1>2, <1>3 DEF Adc

(* The words of a complete reply are the bank's answer. *)
LEMMA AnswerComplete ==
  ASSUME BInv, pc["modbus"] = "copy", InRange(request) => WordsDone = request.nregs
  PROVE  Bank!Answer(request) =
           [err |-> IF InRange(request) THEN "MB_ENOERR" ELSE "MB_ENOREG", words |-> buffer]
<1> DEFINE value(n) == Bank!RegisterBytes(
                         Bank!RegisterValue(request.fn, committed.input,
                                            committed.holding, request.address + n - 1))
<1>1. /\ buffer \in Seq(Byte \X Byte) /\ request.fn \in RegisterFn
      /\ Len(buffer) = IF request.fn = "write" THEN 0 ELSE WordsDone
      /\ ~InRange(request) => WordsDone = 0
      /\ IsRequest(request)
  BY RequestType DEF BInv, SInv, IInv, TypeOK, CallInv
<1>2. CASE InRange(request) /\ request.fn # "write"
  <2>1. Len(buffer) = request.nregs /\ request.nregs \in Nat
    BY <1>1, <1>2 DEF IsRequest
  <2>2. \A n \in 1 .. Len(buffer) : buffer[n] = value(n)
    BY <1>2 DEF BInv, CommitInv, ReplyIsSnapshot
  <2> HIDE DEF value
  <2>3. buffer = [n \in 1 .. request.nregs |-> value(n)]
    BY <1>1, <2>1, <2>2
  <2> QED
    BY <1>2, <2>3, BankRegisters DEF Bank!Answer, value
<1>3. CASE ~(InRange(request) /\ request.fn # "write")
  <2>1. buffer = <<>>
    BY <1>1, <1>3
  <2> QED
    BY <1>3, <2>1, BankRegisters DEF Bank!Answer
<1> QED
  BY <1>2, <1>3

(* A complete write has changed the registers it names and no other. *)
LEMMA WriteComplete ==
  ASSUME BInv, pc["modbus"] = "copy", InRange(request) => WordsDone = request.nregs
  PROVE  Bank!Written(request) = holding
<1>1. /\ holding = IF request.fn = "write" THEN PartWritten ELSE committed.holding
      /\ ~InRange(request) => WordsDone = 0
      /\ IsRequest(request)
      /\ committed.holding \in HoldingRegs
  BY RequestType DEF BInv, SInv, IInv, CallInv, CommitInv, PublishedInv
<1>2. CASE InRange(request) /\ request.fn = "write"
  BY <1>1, <1>2, BankRegisters DEF Bank!Written, PartWritten, Cell
<1>3. CASE ~InRange(request) /\ request.fn = "write"
  <2>1. PartWritten = committed.holding
    <3>1. ~(31 \in request.address .. request.address + 0 - 1)
          /\ ~(32 \in request.address .. request.address + 0 - 1)
      BY <1>1 DEF IsRequest
    <3> QED
      BY <1>1, <1>3, <3>1 DEF PartWritten, Cell, HoldingRegs
  <2> QED
    BY <1>1, <1>3, <2>1, BankRegisters DEF Bank!Written
<1>4. CASE request.fn # "write"
  BY <1>1, <1>4, BankRegisters DEF Bank!Written
<1> QED
  BY <1>2, <1>3, <1>4

(* thread_modbus's are Call, Return or stutters.                           *)
LEMMA ModbusRefines ==
  ASSUME BInv, History, Modbus
  PROVE  BankStep
<1>a. /\ IInv /\ TypeOK /\ PcOK
      /\ pc["modbus"] \in {"call", "copy"} <=> request # NoRequest
      /\ pc["modbus"] \in {"call", "copy"} => IsRequest(request)
  BY RequestType DEF BInv, SInv, IInv, TypeOK
<1>1. CASE \E r \in Requests : PollRequest(r)
  <2>1. PICK r \in Requests : PollRequest(r)
    BY <1>1
  <2>2. /\ request = NoRequest /\ request' = r /\ request' # NoRequest
        /\ lock' = lock /\ input' = input /\ holding' = holding
    BY <1>a, <2>1, RequestsAssumption DEF PollRequest, Step
  <2>3. committed' = committed
    BY <2>2, NothingCommitted
  <2>4. Bank!Call(r)
    BY <2>2, <2>3 DEF Bank!Call, Bank!NoAnswer
  <2> QED
    BY <2>4 DEF BankStep, Bank!Next
<1>2. CASE RejectCoils
  <2>1. /\ pc["modbus"] = "call" /\ request.fn \in CoilFn /\ buffer' = buffer
        /\ mberr' = "MB_ENOREG" /\ request' = NoRequest
        /\ lock' = lock /\ input' = input /\ holding' = holding
    BY <1>2 DEF RejectCoils, Step
  <2>2. committed' = committed
    BY <2>1, NothingCommitted
  <2>3. buffer = <<>> /\ ~InRange(request)
    BY <1>a, <2>1 DEF IInv, CallInv, InRange, RegisterFn, CoilFn
  <2>4. Bank!Answer(request) = [err |-> "MB_ENOREG", words |-> <<>>]
        /\ Bank!Written(request) = committed.holding
    BY <2>3, BankRegisters DEF Bank!Answer, Bank!Written
  <2>5. Bank!Return
    BY <1>a, <2>1, <2>2, <2>3, <2>4 DEF Bank!Return
  <2> QED
    BY <2>5 DEF BankStep, Bank!Next
<1>3. CASE CbUnlock
  <2>1. /\ pc["modbus"] = "copy"
        /\ InRange(request) => WordsDone = request.nregs
        /\ mberr' = IF InRange(request) THEN "MB_ENOERR" ELSE "MB_ENOREG"
        /\ request' = NoRequest /\ buffer' = buffer
        /\ committed'.input = input /\ committed'.holding = holding
    BY <1>3 DEF CbUnlock, Step, Release, History
  <2>2. input = committed.input
    BY <1>a, <2>1, Exclusive DEF BInv, CommitInv
  <2>3. Bank!Return
    BY <1>a, <2>1, <2>2, AnswerComplete, WriteComplete DEF Bank!Return
  <2> QED
    BY <2>3 DEF BankStep, Bank!Next
<1>4. CASE ModbusInitialize \/ ModbusInitFails \/ CbLock \/ CbReadWord \/ CbWriteWord
  <2>1. /\ request' = request
        /\ request = NoRequest => mberr' = mberr /\ buffer' = buffer
        /\ lock' # Nobody \/ (lock' = lock /\ input' = input /\ holding' = holding)
    <3>1. CASE CbReadWord \/ CbWriteWord
      <4>1. request' = request /\ lock' = lock /\ pc["modbus"] = "copy"
        BY <3>1 DEF CbReadWord, CbWriteWord, Copying
      <4> QED
        BY <1>a, <4>1, Exclusive, SlaveAssumption DEF Threads
    <3>2. CASE ModbusInitialize \/ ModbusInitFails \/ CbLock
      BY <3>2, SlaveAssumption DEF ModbusInitialize, ModbusInitFails, CbLock, Acquire,
         Threads, callVars
    <3> QED
      BY <1>4, <3>1, <3>2
  <2>2. committed' = committed
    BY <2>1, NothingCommitted
  <2> QED
    BY <2>1, <2>2, Stutters
<1> QED
  BY <1>1, <1>2, <1>3, <1>4 DEF Modbus, ModbusServe

(* A master cannot tell the slave from one bank of registers: scans,       *)
(* replies and writes are atomic and follow the documented register map.   *)
THEOREM SlaveImplementsBank == HSpec => ImplementsBank
<1>1. HInit => Bank!Init
  <2> SUFFICES ASSUME HInit PROVE Bank!Init
    OBVIOUS
  <2>1. committed.input = ZeroInput /\ committed.holding = ZeroHolding
        /\ request = NoRequest /\ mberr = "none" /\ buffer = <<>>
    BY DEF HInit, Init
  <2> QED
    BY <2>1, BankRegisters DEF Bank!Init, Bank!NoAnswer
<1>2. BInv /\ BInv' /\ [HNext]_hvars => [Bank!Next]_(Bank!bankVars)
  <2> SUFFICES ASSUME BInv, BInv', [HNext]_hvars PROVE BankStep
    BY DEF BankStep
  <2>1. CASE UNCHANGED hvars \/ (Halted /\ History)
    <3>1. CASE UNCHANGED hvars
      BY <3>1, Stutters DEF hvars, vars, callVars
    <3>2. CASE Halted /\ History
      <4>1. lock' = lock /\ input' = input /\ holding' = holding /\ UNCHANGED callVars
        BY <3>2 DEF Halted, vars, callVars
      <4>2. committed' = committed
        BY <3>2, <4>1, NothingCommitted
      <4> QED
        BY <4>1, <4>2, Stutters DEF callVars
    <3> QED
      BY <2>1, <3>1, <3>2
  <2>2. IInv'
    BY DEF BInv, SInv
  <2> QED
    BY <2>1, <2>2, MainRefines, ModbusRefines, AdcRefines DEF HNext, Next
<1> QED
  BY <1>1, <1>2, BankBInv, PTL DEF HSpec, ImplementsBank, Bank!Spec

=============================================================================
