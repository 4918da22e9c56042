--------------------------- MODULE ModbusSlaveProofs ---------------------------
(***************************************************************************)
(* Safety of the threads of the Modbus slave, for every number of          *)
(* channels, every register width and every set of requests.               *)
(***************************************************************************)
EXTENDS ModbusSlave, ModbusRegistersProofs

(* What is left of a callback is where its index says; this is what makes  *)
(* TypeOK inductive: a word that is not in the structure is no Word.       *)
CallInv ==
  /\ pc["modbus"] = "call" => buffer = <<>>
  /\ pc["modbus"] = "copy" =>
       /\ request.fn \in RegisterFn
       /\ WordsDone \in 0 .. request.nregs
       /\ ~InRange(request) => WordsDone = 0
       /\ Len(buffer) = IF request.fn = "write" THEN 0 ELSE WordsDone

LockInv ==
  /\ \A t \in Threads : InSection(t) => lock = t
  /\ lock # Nobody => InSection(lock)

(* The threads do not run before main has created them. *)
BootInv ==
  /\ pc["main"] \in {"boot", "create_modbus"} => pc["modbus"] = "none"
  /\ pc["main"] \in {"boot", "create_modbus", "create_adc"} => pc["adc"] = "none"

IInv == TypeOK /\ CallInv /\ LockInv /\ BootInv

(* A request has the parts a callback needs.                               *)
LEMMA RequestType ==
  ASSUME TypeOK, pc["modbus"] \in {"call", "copy"}
  PROVE  IsRequest(request)
BY RequestsAssumption DEF TypeOK

(* The bounds check of the callbacks keeps the index inside the structure. *)
LEMMA InBounds ==
  ASSUME IInv
  PROVE  AccessInBounds
<1> SUFFICES ASSUME pc["modbus"] = "copy", InRange(request), WordsDone < request.nregs
             PROVE  index \in 0 .. RegCount(request) - 1
  BY DEF AccessInBounds
<1>1. IsRequest(request)
  BY RequestType DEF IInv
<1>2. First(request) \in Nat /\ RegCount(request) \in Nat
  BY RegistersAssumption DEF First, RegCount, MODBUS_REG_INPUT_START,
     MODBUS_REG_INPUT_NREGS, MODBUS_REG_HOLDING_START, MODBUS_REG_HOLDING_NREGS
<1> QED
  BY <1>1, <1>2 DEF IInv, TypeOK, CallInv, WordsDone, InRange, IsRequest

(* A word in bounds is a register value.                                   *)
LEMMA WordAtIsWord ==
  ASSUME TypeOK, request.fn \in {"input", "read"},
         index \in 0 .. RegCount(request) - 1
  PROVE  WordAt(index) \in Word
BY InputWordIsWord DEF TypeOK, WordAt, RegCount, HoldingWord, HoldingRegs

(* The invariant holds at first.                                           *)
LEMMA InitIInv == Init => IInv
<1> SUFFICES ASSUME Init PROVE IInv
  OBVIOUS
<1>1. pc \in [Threads -> {"none", "boot"}]
      /\ pc["main"] = "boot" /\ pc["modbus"] = "none" /\ pc["adc"] = "none"
  BY DEF Init, Threads
<1>2. PcOK
  BY <1>1 DEF PcOK
<1>3. TypeOK
  BY <1>1, <1>2, ZeroTypes, Widths, RegistersAssumption, RequestsAssumption
  DEF Init, TypeOK, RawWord, Word
<1>4. CallInv /\ LockInv /\ BootInv
  BY <1>1, SlaveAssumption DEF Init, CallInv, LockInv, BootInv, InSection, Threads
<1> QED
  BY <1>3, <1>4 DEF IInv

(* One turn of the loop of a callback. *)
LEMMA CopyAdvances ==
  ASSUME TypeOK, NEW fns, Copying(fns), request' = request
  PROVE  WordsDone' = WordsDone + 1 /\ index' \in Int
<1>1. IsRequest(request) /\ index \in Int
  BY RequestType DEF Copying, TypeOK
<1>2. First(request) \in Nat
  BY DEF First, MODBUS_REG_INPUT_START, MODBUS_REG_HOLDING_START
<1>3. index' = index + 1
  BY DEF Copying
<1>4. WordsDone' = index' - (request.address - First(request))
  BY DEF WordsDone, First
<1>5. WordsDone = index - (request.address - First(request))
  BY DEF WordsDone
<1> QED
  BY <1>1, <1>2, <1>3, <1>4, <1>5 DEF IsRequest

(* One lemma for each thread.                                              *)
LEMMA MainIInv == IInv /\ Main => IInv'
<1> SUFFICES ASSUME IInv, Main PROVE IInv'
  OBVIOUS
<1> USE SlaveAssumption DEF IInv, CallInv, LockInv, BootInv, TypeOK, PcOK, InSection, Threads,
        adcVars, callVars, Step, WordsDone
<1>1. CASE DeviceInitialize
  <2>1. [ZeroHolding EXCEPT !.interval = INTERVAL_DEFAULT_US] \in HoldingRegs
    BY ZeroTypes, RegistersAssumption DEF HoldingRegs
  <2> QED
    BY <1>1, <2>1, ZeroTypes DEF DeviceInitialize
<1>2. CASE CreateModbusThread
  BY <1>2 DEF CreateModbusThread
<1>3. CASE CreateAdcThread
  BY <1>3 DEF CreateAdcThread
<1>4. CASE BootFails
  BY <1>4 DEF BootFails
<1>5. CASE MainLock
  BY <1>5 DEF MainLock, Acquire
<1>6. CASE MainCount
  BY <1>6, TickType DEF MainCount, Release
<1> QED
  BY <1>1, <1>2, <1>3, <1>4, <1>5, <1>6 DEF Main

(* thread_modbus keeps the invariant.                                      *)
LEMMA ModbusIInv == IInv /\ Modbus => IInv'
<1> SUFFICES ASSUME IInv, Modbus PROVE IInv'
  OBVIOUS
<1>a. pc["modbus"] \in {"call", "copy"} => IsRequest(request)
  BY RequestType DEF IInv
<1>b. First(request) \in Nat
  BY DEF First, MODBUS_REG_INPUT_START, MODBUS_REG_HOLDING_START
<1> USE SlaveAssumption DEF IInv, CallInv, LockInv, BootInv, TypeOK, PcOK, InSection, Threads,
        adcVars, callVars, Step
<1>1. CASE ModbusInitialize
  BY <1>1 DEF ModbusInitialize, WordsDone
<1>2. CASE ModbusInitFails
  BY <1>2 DEF ModbusInitFails, WordsDone
<1>3. CASE \E r \in Requests : PollRequest(r)
  BY <1>3, RequestsAssumption DEF PollRequest
<1>4. CASE CbLock
  <2>1. index' \in Int /\ WordsDone' = 0
    BY <1>4, <1>a, <1>b DEF CbLock, WordsDone, IsRequest
  <2> QED
    BY <1>4, <1>a, <2>1 DEF CbLock, Acquire, IsRequest
<1>5. CASE RejectCoils
  BY <1>5 DEF RejectCoils
<1>6. CASE CbReadWord
  <2>1. AccessInBounds
    BY InBounds
  <2>2. WordAt(index) \in Word
    BY <1>6, <2>1, WordAtIsWord DEF CbReadWord, Copying, AccessInBounds
  <2>3. WireBytes(WordAt(index)) \in Byte \X Byte
    BY <2>2, WireBytesBigEndian
  <2>4. buffer' \in Seq(Byte \X Byte) /\ Len(buffer') = Len(buffer) + 1
    BY <1>6, <2>3 DEF CbReadWord
  <2>5. WordsDone' = WordsDone + 1 /\ index' \in Int
    BY <1>6, CopyAdvances DEF CbReadWord
  <2> QED
    BY <1>6, <1>a, <2>4, <2>5 DEF CbReadWord, Copying, IsRequest
<1>7. CASE CbWriteWord
  <2>1. index \in {0, 1}
    BY <1>7, InBounds DEF CbWriteWord, Copying, AccessInBounds, RegCount,
       MODBUS_REG_HOLDING_NREGS
  <2>2. request.data[WordsDone + 1] \in Byte \X Byte
    BY <1>7, <1>a DEF CbWriteWord, Copying, IsRequest
  <2>3. holding' \in HoldingRegs
    BY <1>7, <2>1, <2>2, WireWordBigEndian, SetHoldingWordType DEF CbWriteWord
  <2>4. WordsDone' = WordsDone + 1 /\ index' \in Int
    BY <1>7, CopyAdvances DEF CbWriteWord
  <2> QED
    BY <1>7, <1>a, <2>3, <2>4 DEF CbWriteWord, Copying, IsRequest
<1>8. CASE CbUnlock
  BY <1>8, RequestsAssumption DEF CbUnlock, Release
<1> QED
  BY <1>1, <1>2, <1>3, <1>4, <1>5, <1>6, <1>7, <1>8 DEF Modbus, ModbusServe

(* thread_adc keeps the invariant.                                         *)
LEMMA AdcIInv == IInv /\ Adc => IInv'
<1> SUFFICES ASSUME IInv, Adc PROVE IInv'
  OBVIOUS
<1> USE SlaveAssumption DEF IInv, CallInv, LockInv, BootInv, TypeOK, PcOK, InSection, Threads,
        adcVars, callVars, Step, WordsDone
<1>1. CASE AdcOpen
  BY <1>1 DEF AdcOpen
<1>2. CASE AdcOpenFails
  BY <1>2 DEF AdcOpenFails
<1>3. CASE AdcInitLock
  BY <1>3 DEF AdcInitLock, Acquire
<1>4. CASE AdcReady
  BY <1>4, ResetStatsType, ReadyType DEF AdcReady, Release
<1>5. CASE \E n \in 0 .. ADC_SAMPLES : AdcRead(n)
  <2> PICK n \in 0 .. ADC_SAMPLES : AdcRead(n)
    BY <1>5
  <2>1. sample' \in [Channel -> RawWord]
    BY DEF AdcRead, RawWord
  <2> QED
    BY <2>1 DEF AdcRead
<1>6. CASE AdcLock
  BY <1>6 DEF AdcLock, Acquire
<1>7. CASE AdcReset
  <2>1. holding' \in HoldingRegs
    <3>1. 0 \in Word
      BY Widths DEF Word
    <3>2. [holding EXCEPT !.rst_stats = 0] \in HoldingRegs
      BY <3>1 DEF HoldingRegs
    <3> QED
      BY <1>7, <3>2 DEF AdcReset
  <2>2. input' \in InputRegs
    BY <1>7, ResetStatsType DEF AdcReset
  <2> QED
    BY <1>7, <2>1, <2>2, RegistersAssumption DEF AdcReset
<1>8. CASE AdcStore
  <2>1. i \in Channel
    BY <1>8, RegistersAssumption DEF AdcStore, Channel
  <2>2. sample[i] \in (0 .. ADC_RAW_MAX) \cup {Unread}
    BY <2>1 DEF RawWord
  <2>3. input' \in InputRegs
    <3>1. PICK mv \in Milivolts(sample[i]) : input' = Store(input, i, mv)
      BY <1>8 DEF AdcStore
    <3>2. mv \in Int16
      BY <2>2, MilivoltsInt16
    <3> QED
      BY <2>1, <3>1, <3>2, StoreType
  <2> QED
    BY <1>8, <2>1, <2>3, RegistersAssumption DEF AdcStore, Channel
<1>9. CASE AdcUnlock
  BY <1>9 DEF AdcUnlock, Release, HoldingRegs
<1> QED
  BY <1>1, <1>2, <1>3, <1>4, <1>5, <1>6, <1>7, <1>8, <1>9 DEF Adc

(* Every step keeps the invariant.                                         *)
LEMMA NextIInv == IInv /\ [Next]_vars => IInv'
<1> SUFFICES ASSUME IInv, [Next]_vars PROVE IInv'
  OBVIOUS
<1>1. CASE UNCHANGED vars
  BY <1>1 DEF vars, adcVars, callVars, IInv, TypeOK, PcOK, CallInv, LockInv, BootInv,
     InSection, WordsDone
<1> QED
  BY <1>1, MainIInv, ModbusIInv, AdcIInv DEF Next, Halted

(* The inductive invariant: types, mutual exclusion and bounds together.   *)
THEOREM SlaveIInv == Spec => []IInv
BY InitIInv, NextIInv, PTL DEF Spec

(* The variables keep the types of the C program. *)
THEOREM SlaveTypeOK == Spec => []TypeOK
<1>1. IInv => TypeOK
  BY DEF IInv
<1> QED
  BY <1>1, SlaveIInv, PTL

(* The mutex protects what it is meant to protect. *)
THEOREM SlaveMutualExclusion == Spec => []MutualExclusion
<1>1. IInv => MutualExclusion
  BY DEF IInv, LockInv, MutualExclusion
<1> QED
  BY <1>1, SlaveIInv, PTL

(* No address and no count a master may send makes a callback leave the    *)
(* structure it serves.                                                    *)
THEOREM SlaveAccessInBounds == Spec => []AccessInBounds
<1>1. IInv => AccessInBounds
  BY InBounds
<1> QED
  BY <1>1, SlaveIInv, PTL

=============================================================================
