------------------------------ MODULE ModbusSlave ------------------------------
(***************************************************************************)
(* The three threads of apps/mini_modbusslave/modbusslave_main.c and the   *)
(* structure g_modbus they share under one mutex: main counts seconds,     *)
(* thread_modbus polls FreeModBus, which calls the register callbacks, and *)
(* thread_adc folds the samples of the ADC into the input registers.       *)
(*                                                                         *)
(* Register words are copied one per step and channels are stored one per  *)
(* step, so whatever the mutex does not forbid is interleaved.  Time is    *)
(* not modelled: sleep() and usleep() may take any time.                   *)
(***************************************************************************)
EXTENDS ModbusRegisters

CONSTANTS
  RawSamples,   \* raw values the ADC may deliver
  MaxCount,     \* bound: main stops counting here; WORD is no bound
  Nobody        \* the owner of a free mutex

VARIABLES
  pc,           \* where each thread is
  lock,         \* owner of g_modbus.lock
  input,        \* g_modbus.input
  holding,      \* g_modbus.holding
  sample, i,    \* thread_adc: sample[].am_data and the loop index
  interval,     \* thread_adc: what it passes to usleep()
  request,      \* thread_modbus: the call in progress, or NoRequest
  index,        \* the callback's index into the structure
  buffer,       \* the byte pairs appended to the reply
  mberr         \* what the last callback returned

adcVars == <<sample, i, interval>>
callVars == <<request, index, buffer, mberr>>
vars == <<pc, lock, input, holding, adcVars, callVars>>

Threads == {"main", "modbus", "adc"}

ASSUME SlaveAssumption ==
  /\ RawSamples \subseteq 0 .. ADC_RAW_MAX
  /\ MaxCount \in 0 .. WORD
  /\ Nobody \notin Threads

-----------------------------------------------------------------------------
(* Once main has returned the task group is gone, its threads with it.     *)
Running == pc["main"] # "exited"

(* Thread t goes from one place to another. *)
Step(t, from, to) ==
  /\ Running
  /\ pc[t] = from
  /\ pc' = [pc EXCEPT ![t] = to]

(* pthread_mutex_lock and pthread_mutex_unlock *)
Acquire(t) == lock = Nobody /\ lock' = t
Release(t) == lock = t /\ lock' = Nobody

-----------------------------------------------------------------------------
(* main                                                                    *)

Init ==
  /\ pc = [main |-> "boot", modbus |-> "none", adc |-> "none"]
  /\ lock = Nobody
  /\ input = ZeroInput
  /\ holding = ZeroHolding
  /\ sample = [c \in Channel |-> Unread]
  /\ i = 0
  /\ interval = 0
  /\ request = NoRequest
  /\ index = 0
  /\ buffer = <<>>
  /\ mberr = "none"

DeviceInitialize ==
  /\ Step("main", "boot", "create_modbus")
  /\ input' = ZeroInput
  /\ holding' = [ZeroHolding EXCEPT !.interval = INTERVAL_DEFAULT_US]
  /\ lock' = Nobody
  /\ UNCHANGED <<adcVars, callVars>>

CreateModbusThread ==
  /\ Running
  /\ pc["main"] = "create_modbus"
  /\ pc' = [pc EXCEPT !["main"] = "create_adc", !["modbus"] = "init"]
  /\ UNCHANGED <<lock, input, holding, adcVars, callVars>>

CreateAdcThread ==
  /\ Running
  /\ pc["main"] = "create_adc"
  /\ pc' = [pc EXCEPT !["main"] = "loop", !["adc"] = "open"]
  /\ UNCHANGED <<lock, input, holding, adcVars, callVars>>

(* pthread_mutex_init or a pthread_create failed: return -1. *)
BootFails ==
  /\ \E here \in {"boot", "create_modbus", "create_adc"} : Step("main", here, "exited")
  /\ UNCHANGED <<lock, input, holding, adcVars, callVars>>

MainLock ==
  /\ Step("main", "loop", "count")
  /\ input.cntr < MaxCount
  /\ Acquire("main")
  /\ UNCHANGED <<input, holding, adcVars, callVars>>

MainCount ==
  /\ Step("main", "count", "loop")
  /\ input' = [input EXCEPT !.cntr = (@ + 1) % WORD]
  /\ Release("main")
  /\ UNCHANGED <<holding, adcVars, callVars>>

-----------------------------------------------------------------------------
(* thread_modbus and the callbacks FreeModBus makes from eMBPoll           *)

ModbusInitialize ==
  /\ Step("modbus", "init", "poll")
  /\ UNCHANGED <<lock, input, holding, adcVars, callVars>>

ModbusInitFails ==
  /\ Step("modbus", "init", "exited")
  /\ UNCHANGED <<lock, input, holding, adcVars, callVars>>

PollRequest(r) ==
  /\ Step("modbus", "poll", "call")
  /\ request' = r
  /\ buffer' = <<>>
  /\ mberr' = "none"
  /\ UNCHANGED <<lock, input, holding, adcVars, index>>

(* Mutant: the callback copies without the mutex. *)
CbNoLock ==
  /\ Step("modbus", "call", "copy")
  /\ request.fn \in RegisterFn
  /\ index' = request.address - First(request)
  /\ UNCHANGED <<lock, input, holding, adcVars, request, buffer, mberr>>

(* The code computes index only for a range it accepts; for any other it   *)
(* is never used.                                                          *)
CbLock ==
  /\ Step("modbus", "call", "copy")
  /\ request.fn \in RegisterFn
  /\ Acquire("modbus")
  /\ index' = request.address - First(request)
  /\ UNCHANGED <<input, holding, adcVars, request, buffer, mberr>>

(* eMBRegCoilsCB, eMBRegDiscreteCB *)
RejectCoils ==
  /\ Step("modbus", "call", "poll")
  /\ request.fn \in CoilFn
  /\ mberr' = "MB_ENOREG"
  /\ request' = NoRequest
  /\ UNCHANGED <<lock, input, holding, adcVars, index, buffer>>

WordsDone == index - (request.address - First(request))

Copying(fns) ==
  /\ Running
  /\ pc["modbus"] = "copy"
  /\ request.fn \in fns
  /\ InRange(request)
  /\ WordsDone < request.nregs
  /\ index' = index + 1

(* ptr[index], in the structure the callback serves. *)
WordAt(k) == IF request.fn = "input" THEN InputWord(input, k)
                                     ELSE HoldingWord(holding, k)

CbReadWord ==
  /\ Copying({"input", "read"})
  /\ buffer' = Append(buffer, WireBytes(WordAt(index)))
  /\ UNCHANGED <<pc, lock, input, holding, adcVars, request, mberr>>

(* Mutant: the words of a write go to the start of the structure. *)
CbWriteFromStart ==
  /\ Copying({"write"})
  /\ holding' = SetHoldingWord(holding, WordsDone, WireWord(request.data[WordsDone + 1]))
  /\ UNCHANGED <<pc, lock, input, adcVars, request, buffer, mberr>>

CbWriteWord ==
  /\ Copying({"write"})
  /\ holding' = SetHoldingWord(holding, index, WireWord(request.data[WordsDone + 1]))
  /\ UNCHANGED <<pc, lock, input, adcVars, request, buffer, mberr>>

(* Mutant: a range that is refused returns at once, with the mutex held. *)
CbUnlockIfServed ==
  /\ Step("modbus", "copy", "poll")
  /\ InRange(request) => WordsDone = request.nregs
  /\ mberr' = IF InRange(request) THEN "MB_ENOERR" ELSE "MB_ENOREG"
  /\ request' = NoRequest
  /\ IF InRange(request) THEN Release("modbus") ELSE UNCHANGED lock
  /\ UNCHANGED <<input, holding, adcVars, index, buffer>>

CbUnlock ==
  /\ Step("modbus", "copy", "poll")
  /\ InRange(request) => WordsDone = request.nregs
  /\ mberr' = IF InRange(request) THEN "MB_ENOERR" ELSE "MB_ENOREG"
  /\ request' = NoRequest
  /\ Release("modbus")
  /\ UNCHANGED <<input, holding, adcVars, index, buffer>>

-----------------------------------------------------------------------------
(* thread_adc                                                              *)

AdcOpen ==
  /\ Step("adc", "open", "init")
  /\ UNCHANGED <<lock, input, holding, adcVars, callVars>>

AdcOpenFails ==
  /\ Step("adc", "open", "exited")
  /\ UNCHANGED <<lock, input, holding, adcVars, callVars>>

AdcInitLock ==
  /\ Step("adc", "init", "ready")
  /\ Acquire("adc")
  /\ UNCHANGED <<input, holding, adcVars, callVars>>

AdcReady ==
  /\ Step("adc", "ready", "read")
  /\ input' = [ResetStats(input) EXCEPT !.status = 1]
  /\ Release("adc")
  /\ UNCHANGED <<holding, adcVars, callVars>>

(* The read returns the first n samples of a scan.  A failed trigger or    *)
(* read is n = 0: its error is printed and the loop goes on.               *)
AdcRead(n) ==
  /\ Step("adc", "read", "lock")
  /\ \E raw \in [Channel -> RawSamples] :
       sample' = [c \in Channel |-> IF c < n THEN raw[c] ELSE sample[c]]
  /\ UNCHANGED <<lock, input, holding, i, interval, callVars>>

AdcLock ==
  /\ Step("adc", "lock", "reset")
  /\ Acquire("adc")
  /\ UNCHANGED <<input, holding, adcVars, callVars>>

(* Mutant: the request is taken off before it is looked at. *)
AdcResetTakesOffFirst ==
  /\ Step("adc", "reset", "store")
  /\ holding' = [holding EXCEPT !.rst_stats = 0]
  /\ input' = IF holding'.rst_stats # 0 THEN ResetStats(input) ELSE input
  /\ i' = 0
  /\ UNCHANGED <<lock, sample, interval, callVars>>

AdcReset ==
  /\ Step("adc", "reset", "store")
  /\ IF holding.rst_stats # 0
       THEN /\ input' = ResetStats(input)
            /\ holding' = [holding EXCEPT !.rst_stats = 0]
       ELSE UNCHANGED <<input, holding>>
  /\ i' = 0
  /\ UNCHANGED <<lock, sample, interval, callVars>>

(* Mutant: one pass too many, i <= ADC_SAMPLES.  What it does to the words *)
(* behind the arrays is left out.                                          *)
AdcStoreOneMore ==
  /\ Running
  /\ pc["adc"] = "store"
  /\ i <= ADC_SAMPLES
  /\ IF i \in Channel THEN \E mv \in Milivolts(sample[i]) : input' = Store(input, i, mv)
                      ELSE UNCHANGED input
  /\ i' = i + 1
  /\ UNCHANGED <<pc, lock, holding, sample, interval, callVars>>

AdcStore ==
  /\ Running
  /\ pc["adc"] = "store"
  /\ i < ADC_SAMPLES
  /\ \E mv \in Milivolts(sample[i]) : input' = Store(input, i, mv)
  /\ i' = i + 1
  /\ UNCHANGED <<pc, lock, holding, sample, interval, callVars>>

(* Mutant: the interval in use is never updated. *)
AdcUnlockKeepsInterval ==
  /\ Step("adc", "store", "read")
  /\ i = ADC_SAMPLES
  /\ Release("adc")
  /\ UNCHANGED <<input, holding, adcVars, callVars>>

AdcUnlock ==
  /\ Step("adc", "store", "read")
  /\ i = ADC_SAMPLES
  /\ interval' = holding.interval
  /\ Release("adc")
  /\ UNCHANGED <<input, holding, sample, i, callVars>>

-----------------------------------------------------------------------------

Main == DeviceInitialize \/ CreateModbusThread \/ CreateAdcThread \/ BootFails
          \/ MainLock \/ MainCount

ModbusServe == ModbusInitialize \/ ModbusInitFails \/ CbLock \/ RejectCoils
                 \/ CbReadWord \/ CbWriteWord \/ CbUnlock

Modbus == ModbusServe \/ \E r \in Requests : PollRequest(r)

Adc == AdcOpen \/ AdcOpenFails \/ AdcInitLock \/ AdcReady
         \/ (\E n \in 0 .. ADC_SAMPLES : AdcRead(n))
         \/ AdcLock \/ AdcReset \/ AdcStore \/ AdcUnlock

(* The program is over, or main alone is left and at its bound. *)
Halted ==
  /\ \/ ~Running
     \/ pc["modbus"] = "exited" /\ pc["adc"] = "exited" /\ input.cntr = MaxCount
  /\ UNCHANGED vars

Next == Main \/ Modbus \/ Adc \/ Halted

Spec == Init /\ [][Next]_vars

(***************************************************************************)
(* The threads have one priority and a mutex hands itself to the longest   *)
(* waiter, so a thread runs on and gets the mutex in the end (SF: the      *)
(* mutex is taken and freed meanwhile).  The ADC is assumed to complete or *)
(* fail every read.  Nothing makes a master send a request.                *)
(***************************************************************************)
Fairness ==
  /\ WF_vars(Main) /\ SF_vars(MainLock)
  /\ WF_vars(ModbusServe) /\ SF_vars(CbLock)
  /\ WF_vars(Adc) /\ SF_vars(AdcInitLock) /\ SF_vars(AdcLock)

-----------------------------------------------------------------------------
(* Properties                                                              *)

RawWord == RawSamples \cup {Unread}

PcOK ==
  /\ pc \in [Threads -> {"none", "exited", "boot", "create_modbus", "create_adc",
                          "loop", "count", "init", "poll", "call", "copy", "open",
                          "ready", "read", "lock", "reset", "store"}]
  /\ pc["main"] \in {"boot", "create_modbus", "create_adc", "loop", "count", "exited"}
  /\ pc["modbus"] \in {"none", "init", "poll", "call", "copy", "exited"}
  /\ pc["adc"] \in {"none", "open", "init", "ready", "read", "lock", "reset",
                     "store", "exited"}

(* Type invariant: every variable of modbusslave_main.c holds a value of   *)
(* its C type, and a request is pending exactly while its callback runs.   *)
TypeOK ==
  /\ PcOK
  /\ lock \in Threads \cup {Nobody}
  /\ input \in InputRegs
  /\ holding \in HoldingRegs
  /\ sample \in [Channel -> RawWord]
  /\ i \in 0 .. ADC_SAMPLES
  /\ interval \in Word
  /\ request \in Requests \cup {NoRequest}
  /\ request # NoRequest <=> pc["modbus"] \in {"call", "copy"}
  /\ index \in Int
  /\ buffer \in Seq(Byte \X Byte)
  /\ mberr \in {"none", "MB_ENOERR", "MB_ENOREG"}

(* The critical sections of the three threads. *)
InSection(t) == pc[t] \in {"count", "copy", "ready", "reset", "store"}

(* At most one thread is between lock and unlock, and the mutex knows it.  *)
MutualExclusion == \A t \in Threads : InSection(t) => lock = t

(* The word a callback is about to copy lies inside the structure ptr      *)
(* points to (modbusslave_main.c:488-500, :533-563), whatever address and  *)
(* register count the master sends.                                        *)
AccessInBounds ==
  pc["modbus"] = "copy" /\ InRange(request) /\ WordsDone < request.nregs
    => index \in 0 .. RegCount(request) - 1

(* thread_adc is past its initialisation and can be waiting for a sample. *)
Sampling == pc["adc"] \in {"read", "lock", "reset", "store"}

(* A channel whose statistics were reset and took no sample in since.      *)
Fresh(in, c) == in.min[c] = INT16_MAX /\ in.max[c] = INT16_MIN /\ in.avg[c] = 0

StatsReset == \A c \in Channel : Fresh(input, c)

(* A write of 0 to the reset register is under way.                        *)
Withdrawing ==
  /\ request # NoRequest
  /\ request.fn = "write" /\ InRange(request)
  /\ \E n \in 1 .. request.nregs :
       request.address + n - 1 = 32 /\ WireWord(request.data[n]) = 0

(* Once the master has stopped writing 0 to the reset register, every      *)
(* reset it asks for is carried out: min, max and avg of all channels      *)
(* start anew, and it is not enough that the flag is taken off             *)
(* (modbusslave_main.c:351-357).                                           *)
ResetServed ==
  <>[]~Withdrawing => <>[](Sampling /\ holding.rst_stats # 0 => <>StatsReset)

(* Once the device is past its boot every call is answered: the mutex      *)
(* taken once a second by main and at each scan by thread_adc never        *)
(* starves a callback, and no earlier call, refused or not, has left it    *)
(* locked (modbusslave_main.c:486-513, :532-575).                          *)
CallAnswered ==
  pc["main"] \in {"loop", "count"} /\ pc["modbus"] \in {"call", "copy"}
    ~> pc["modbus"] = "poll"

(* A sampling interval the master leaves alone is the one thread_adc ends  *)
(* up sleeping for (modbusslave_main.c:379-387).                           *)
IntervalAdopted ==
  \A v \in Word :
    <>[](Sampling /\ holding.interval = v) => <>[](interval = v)

-----------------------------------------------------------------------------
(* What the comments of the source say and the code does not do            *)

(* modbusslave_main.c:107: "Reset ADC samples when written value greater   *)
(* than 0".  The reset is a flag that thread_adc looks at in its next      *)
(* scan, and a write of 0 that comes first takes it off again.             *)
WrittenResetServed == Sampling /\ holding.rst_stats # 0 ~> StatsReset

=============================================================================
