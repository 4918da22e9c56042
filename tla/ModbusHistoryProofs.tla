-------------------------- MODULE ModbusHistoryProofs --------------------------
(***************************************************************************)
(* The slave publishes exact statistics and implements the register bank,  *)
(* for every number of channels, every register width and every set of     *)
(* requests.  The invariant of ModbusSlaveProofs is strengthened with what *)
(* the statistics mean (StatsInv, WholeInv) and with how far the owner of  *)
(* the mutex has gone from the committed registers (CommitInv).            *)
(***************************************************************************)
EXTENDS ModbusSlaveHistory, ModbusSlaveProofs

StatsInv ==
  /\ measured \in [Channel -> SUBSET Int16]
  /\ input.status = 1 <=> Sampling
  /\ StatsExact

(* The average of a channel lies between 0 and its samples. *)
AvgOK(in) ==
  \A c \in Channel : MIN(0, in.min[c]) <= in.avg[c] /\ in.avg[c] <= MAX(0, in.max[c])

Zeroed(in) ==
  in.now = ZeroInput.now /\ in.min = ZeroInput.min
    /\ in.max = ZeroInput.max /\ in.avg = ZeroInput.avg

Settled(in, c) == in.min[c] <= in.now[c] /\ in.now[c] <= in.max[c]

Whole(in) == (\A c \in Channel : Fresh(in, c)) \/ (\A c \in Channel : Settled(in, c))

WholeInv ==
  /\ input.status = 0 => Zeroed(input)
  /\ AvgOK(input)
  /\ pc["adc"] \in {"read", "lock", "reset"} => Whole(input)
  /\ pc["adc"] = "store" => \A c \in Channel : c < i => Settled(input, c)

(* The same of the committed registers. *)
PublishedInv ==
  /\ committed = [input |-> committed.input, holding |-> committed.holding]
  /\ committed.input \in InputRegs
  /\ committed.holding \in HoldingRegs
  /\ committed.input.status = 0 => Zeroed(committed.input)
  /\ committed.input.status = 1 => Whole(committed.input)
  /\ AvgOK(committed.input)

SInv == IInv /\ StatsInv /\ WholeInv /\ PublishedInv

-----------------------------------------------------------------------------
(* Statistics.                                                             *)

(* A sample taken in extends the extremes.                                 *)
LEMMA StoreExtremes ==
  ASSUME NEW lo \in Int16, NEW hi \in Int16, NEW S \in SUBSET Int16, NEW mv \in Int16,
         Extremes(lo, hi, S)
  PROVE  Extremes(MIN(mv, lo), MAX(mv, hi), S \cup {mv})
<1>1. INT16_MAX \in Int /\ INT16_MIN \in Int
  BY Widths
<1>2. CASE S = {}
  BY <1>1, <1>2 DEF Extremes, MIN, MAX, Int16
<1>3. CASE S # {}
  <2>a. \A x \in Int16 : x \in Int
    BY <1>1 DEF Int16
  <2>1. lo \in S /\ hi \in S /\ (\A x \in S : x \in Int /\ lo <= x /\ x <= hi)
    BY <2>a, <1>3 DEF Extremes
  <2>2. lo \in Int /\ hi \in Int /\ mv \in Int
    BY <1>1 DEF Int16
  <2>3. CASE mv < lo
    BY <2>1, <2>2, <2>3 DEF Extremes, MIN, MAX
  <2>4. CASE mv > hi
    BY <2>1, <2>2, <2>4 DEF Extremes, MIN, MAX
  <2>5. CASE lo <= mv /\ mv <= hi
    BY <2>1, <2>2, <2>5 DEF Extremes, MIN, MAX
  <2> QED
    BY <2>2, <2>3, <2>4, <2>5
<1> QED
  BY <1>2, <1>3

(* A sample taken in keeps the average within the range.                   *)
LEMMA StoreAvg ==
  ASSUME NEW in \in InputRegs, NEW c \in Channel, NEW mv \in Int16, AvgOK(in)
  PROVE  AvgOK(Store(in, c, mv)) /\ Settled(Store(in, c, mv), c)
<1> DEFINE out == Store(in, c, mv)
<1>1. INT16_MAX \in Int /\ INT16_MIN \in Int
  BY Widths
<1>2. /\ in.now[c] \in Int /\ in.min[c] \in Int /\ in.max[c] \in Int
      /\ in.avg[c] \in Int /\ mv \in Int
  BY <1>1 DEF InputRegs, Int16
<1>3. /\ out.now[c] = mv
      /\ out.min[c] = MIN(mv, in.min[c])
      /\ out.max[c] = MAX(mv, in.max[c])
      /\ out.avg[c] = Ema(in.avg[c], mv)
  BY DEF Store, InputRegs
<1>4. ASSUME NEW d \in Channel, d # c
      PROVE  out.min[d] = in.min[d] /\ out.max[d] = in.max[d] /\ out.avg[d] = in.avg[d]
  BY <1>4 DEF Store, InputRegs
<1>5. Settled(out, c)
  BY <1>2, <1>3 DEF Settled, MIN, MAX
<1>6. MIN(0, out.min[c]) <= out.avg[c] /\ out.avg[c] <= MAX(0, out.max[c])
  <2> DEFINE lo == MIN(0, out.min[c])
             hi == MAX(0, out.max[c])
  <2>1. lo \in Int /\ hi \in Int
    BY <1>2, <1>3 DEF MIN, MAX
  <2>2. mv \in lo .. hi
    BY <1>2, <1>3 DEF MIN, MAX
  <2>3. in.avg[c] \in lo .. hi
    BY <1>2, <1>3 DEF AvgOK, MIN, MAX
  <2>4. Ema(in.avg[c], mv) \in lo .. hi
    BY <2>1, <2>2, <2>3, EmaBetween
  <2> QED
    BY <1>3, <2>1, <2>4
<1> QED
  BY <1>4, <1>5, <1>6 DEF AvgOK

(* A reset makes every channel fresh.                                      *)
LEMMA ResetFresh ==
  ASSUME NEW in \in InputRegs
  PROVE  /\ \A c \in Channel : Fresh(ResetStats(in), c)
         /\ AvgOK(ResetStats(in))
         /\ \A c \in Channel : Extremes(ResetStats(in).min[c], ResetStats(in).max[c], {})
BY Widths DEF ResetStats, Fresh, AvgOK, Extremes, MIN, MAX

(* What the actions other than those of thread_adc leave alone.            *)
LEMMA OthersKeepStats ==
  ASSUME SInv, \/ Main \/ Modbus \/ UNCHANGED vars
  PROVE  /\ pc'["adc"] = pc["adc"] \/ (pc["adc"] = "none" /\ pc'["adc"] = "open")
         /\ i' = i
         /\ \/ input' = input
            \/ input' = [input EXCEPT !.cntr = (@ + 1) % WORD]
            \/ input' = ZeroInput /\ pc["adc"] = "none"
<1> USE DEF SInv, IInv, TypeOK, PcOK, BootInv, Step, adcVars, callVars, Threads
<1>1. CASE Main
  BY <1>1 DEF Main, DeviceInitialize, CreateModbusThread, CreateAdcThread, BootFails,
     MainLock, MainCount
<1>2. CASE Modbus
  BY <1>2 DEF Modbus, ModbusServe, ModbusInitialize, ModbusInitFails, PollRequest, CbLock,
     RejectCoils, CbReadWord, CbWriteWord, CbUnlock, Copying
<1>3. CASE UNCHANGED vars
  BY <1>3 DEF vars
<1> QED
  BY <1>1, <1>2, <1>3

(* The statistics as the invariants see them. *)
SameStats ==
  /\ input'.status = input.status /\ input'.now = input.now
  /\ input'.min = input.min /\ input'.max = input.max /\ input'.avg = input.avg
  /\ measured' = measured

(* The invariant reads the statistics only.                                *)
LEMMA SameStatsKeep ==
  ASSUME SInv, SameStats, i' = i, Sampling' <=> Sampling,
         pc'["adc"] = "store" => pc["adc"] = "store" \/ i' = 0,
         pc'["adc"] \in {"read", "lock", "reset"} => Whole(input)
  PROVE  (StatsInv /\ WholeInv)'
<1>1. StatsInv'
  BY DEF SInv, StatsInv, SameStats, StatsExact
<1>2. WholeInv'
  <2>1. AvgOK(input')
    BY DEF SInv, WholeInv, SameStats, AvgOK
  <2>2. Whole(input) => Whole(input')
    BY DEF SameStats, Whole, Fresh, Settled
  <2>3. input'.status = 0 => Zeroed(input')
    BY DEF SInv, WholeInv, SameStats, Zeroed
  <2>4. pc'["adc"] = "store" => \A c \in Channel : c < i' => Settled(input', c)
    BY DEF SInv, WholeInv, SameStats, Settled, Channel
  <2> QED
    BY <2>1, <2>2, <2>3, <2>4 DEF WholeInv
<1> QED
  BY <1>1, <1>2

(* Steps of the other threads keep the invariant.                          *)
LEMMA OthersStats ==
  ASSUME SInv, History, Main \/ Modbus \/ UNCHANGED vars
  PROVE  (StatsInv /\ WholeInv)'
<1>1. /\ pc'["adc"] = pc["adc"] \/ (pc["adc"] = "none" /\ pc'["adc"] = "open")
      /\ i' = i
      /\ \/ input' = input
         \/ input' = [input EXCEPT !.cntr = (@ + 1) % WORD]
         \/ input' = ZeroInput /\ pc["adc"] = "none"
  BY OthersKeepStats
<1>2. ~Resetting /\ ~Storing
  BY <1>1 DEF Resetting, Storing, SInv, IInv, TypeOK
<1>3. measured' = measured
  BY <1>2 DEF History
<1>4. input'.status = input.status /\ input'.now = input.now
      /\ input'.min = input.min /\ input'.max = input.max /\ input'.avg = input.avg
  <2>1. CASE input' = input
    BY <2>1
  <2>2. CASE input' = [input EXCEPT !.cntr = (@ + 1) % WORD]
    BY <2>2 DEF SInv, IInv, TypeOK, InputRegs
  <2>3. CASE input' = ZeroInput /\ pc["adc"] = "none"
    BY <2>3 DEF SInv, IInv, TypeOK, InputRegs, StatsInv, WholeInv, Sampling, Zeroed, ZeroInput
  <2> QED
    BY <1>1, <2>1, <2>2, <2>3
<1> QED
  BY <1>1, <1>3, <1>4, SameStatsKeep DEF SameStats, Sampling, SInv, WholeInv

(* Steps of thread_adc keep the invariant.                                 *)
LEMMA AdcStats ==
  ASSUME SInv, History, Adc
  PROVE  (StatsInv /\ WholeInv)'
<1>a. /\ input \in InputRegs /\ i \in 0 .. ADC_SAMPLES /\ PcOK
      /\ measured \in [Channel -> SUBSET Int16]
      /\ ADC_SAMPLES \in Nat \ {0}
  BY RegistersAssumption DEF SInv, IInv, TypeOK, StatsInv
<1>1. CASE AdcOpen \/ AdcOpenFails \/ AdcInitLock \/ AdcLock \/ AdcUnlock
           \/ \E n \in 0 .. ADC_SAMPLES : AdcRead(n)
  <2>1. /\ input' = input /\ i' = i
        /\ Sampling' <=> Sampling
        /\ pc'["adc"] # "store"
        /\ pc'["adc"] = "read" => pc["adc"] = "store" /\ i = ADC_SAMPLES
        /\ pc'["adc"] \in {"lock", "reset"} => pc["adc"] \in {"read", "lock"}
        /\ ~Resetting
    BY <1>1, <1>a DEF AdcOpen, AdcOpenFails, AdcInitLock, AdcLock, AdcUnlock, AdcRead,
       Step, adcVars, PcOK, Threads, Sampling, Resetting
  <2>2. measured' = measured
    BY <2>1, <1>a DEF History, Storing
  <2>3. pc'["adc"] \in {"read", "lock", "reset"} => Whole(input)
    BY <2>1, <1>a DEF SInv, WholeInv, Whole, Channel
  <2> QED
    BY <2>1, <2>2, <2>3, SameStatsKeep DEF SameStats
<1>2. CASE AdcReady
  <2>1. /\ input'.status = 1
        /\ \A c \in Channel : Fresh(input', c)
        /\ \A c \in Channel : Extremes(input'.min[c], input'.max[c], {})
    <3> DEFINE r == ResetStats(input)
    <3>1. r \in InputRegs
      BY <1>a, ResetStatsType
    <3>2. input' = [r EXCEPT !.status = 1]
      BY <1>2 DEF AdcReady
    <3> HIDE DEF r
    <3>3. input'.status = 1 /\ input'.min = r.min /\ input'.max = r.max /\ input'.avg = r.avg
      BY <3>1, <3>2 DEF InputRegs
    <3> QED
      BY <1>a, <3>3, ResetFresh DEF r, Fresh
  <2>2. pc["adc"] = "ready" /\ pc'["adc"] = "read"
    BY <1>2, <1>a DEF AdcReady, Step, PcOK, Threads
  <2>3. measured' = [c \in Channel |-> {}]
    BY <2>2 DEF History, Resetting
  <2> QED
    <3>1. StatsInv'
      BY <2>1, <2>2, <2>3 DEF StatsInv, StatsExact, Sampling
    <3>2. WholeInv'
      <4>1. AvgOK(input')
        BY <2>1, Widths DEF AvgOK, Fresh, MIN, MAX
      <4> QED
        BY <2>1, <2>2, <4>1 DEF WholeInv, Whole
    <3> QED
      BY <3>1, <3>2
<1>3. CASE AdcReset
  <2>1. pc["adc"] = "reset" /\ pc'["adc"] = "store" /\ i' = 0
    BY <1>3, <1>a DEF AdcReset, Step, PcOK, Threads
  <2>2. CASE holding.rst_stats = 0
    <3>1. input' = input /\ ~Resetting
      BY <1>3, <2>1, <2>2 DEF AdcReset, Resetting
    <3>2. measured' = measured
      BY <2>1, <3>1, <1>a DEF History, Storing
    <3>3. StatsInv'
      BY <2>1, <3>1, <3>2 DEF SInv, StatsInv, StatsExact, Sampling
    <3>4. WholeInv'
      BY <2>1, <3>1 DEF SInv, WholeInv, StatsInv, Sampling, Channel
    <3> QED
      BY <3>3, <3>4
  <2>3. CASE holding.rst_stats # 0
    <3>1. input' = ResetStats(input) /\ Resetting
      BY <1>3, <2>1, <2>3 DEF AdcReset, Resetting
    <3>2. measured' = [c \in Channel |-> {}]
      BY <3>1 DEF History
    <3>3. input'.status = 1
      BY <2>1, <3>1 DEF ResetStats, SInv, StatsInv, Sampling
    <3>4. StatsInv'
      BY <1>a, <2>1, <3>1, <3>2, <3>3, ResetFresh DEF StatsInv, StatsExact, Sampling
    <3>5. WholeInv'
      BY <1>a, <2>1, <3>1, <3>3, ResetFresh DEF WholeInv, Channel
    <3> QED
      BY <3>4, <3>5
  <2> QED
    BY <2>2, <2>3
<1>4. CASE AdcStore
  <2>1. /\ pc["adc"] = "store" /\ pc'["adc"] = "store" /\ i' = i + 1 /\ i \in Channel
        /\ \E mv \in Milivolts(sample[i]) : input' = Store(input, i, mv)
    BY <1>4, <1>a DEF AdcStore, Channel
  <2>2. PICK mv \in Milivolts(sample[i]) : input' = Store(input, i, mv)
    BY <2>1
  <2>3. mv \in Int16
    BY <2>1, MilivoltsInt16, SlaveAssumption DEF SInv, IInv, TypeOK, RawWord
  <2>4. /\ input'.status = input.status /\ input'.now[i] = mv
        /\ input'.min[i] = MIN(mv, input.min[i]) /\ input'.max[i] = MAX(mv, input.max[i])
        /\ \A d \in Channel : d # i =>
             input'.min[d] = input.min[d] /\ input'.max[d] = input.max[d]
               /\ input'.now[d] = input.now[d]
    BY <1>a, <2>1, <2>2 DEF Store, InputRegs
  <2>5. measured' = [measured EXCEPT ![i] = @ \cup {mv}]
    BY <2>1, <2>4 DEF History, Resetting, Storing
  <2>6. input.status = 1
    BY <2>1 DEF SInv, StatsInv, Sampling
  <2>7. \A c \in Channel : Extremes(input'.min[c], input'.max[c], measured'[c])
    <3> SUFFICES ASSUME NEW c \in Channel
                 PROVE  Extremes(input'.min[c], input'.max[c], measured'[c])
      OBVIOUS
    <3>1. Extremes(input.min[c], input.max[c], measured[c])
      BY <2>6 DEF SInv, StatsInv, StatsExact
    <3>2. CASE c = i
      <4>1. input.min[c] \in Int16 /\ input.max[c] \in Int16
        BY <1>a DEF InputRegs
      <4>2. measured'[c] = measured[c] \cup {mv} /\ measured[c] \in SUBSET Int16
        BY <1>a, <2>5, <3>2
      <4> QED
        BY <2>3, <2>4, <3>1, <3>2, <4>1, <4>2, StoreExtremes
    <3>3. CASE c # i
      BY <1>a, <2>4, <2>5, <3>1, <3>3
    <3> QED
      BY <3>2, <3>3
  <2>8. StatsInv'
    BY <1>a, <2>1, <2>3, <2>4, <2>5, <2>6, <2>7 DEF StatsInv, StatsExact, Sampling
  <2>9. AvgOK(input') /\ Settled(input', i)
    BY <1>a, <2>1, <2>2, <2>3, StoreAvg DEF SInv, WholeInv
  <2>10. WholeInv'
    <3>1. \A c \in Channel : c < i' => Settled(input', c)
      BY <1>a, <2>1, <2>4, <2>9 DEF SInv, WholeInv, Settled, Channel
    <3> QED
      BY <2>1, <2>4, <2>6, <2>9, <3>1 DEF WholeInv
  <2> QED
    BY <2>8, <2>10
<1> QED
  BY <1>1, <1>2, <1>3, <1>4 DEF Adc

(* A release publishes what the critical section made of the registers. *)
LEMMA PublishedStep ==
  ASSUME SInv, History, (IInv /\ StatsInv /\ WholeInv)'
  PROVE  PublishedInv'
<1>1. CASE lock' # Nobody
  BY <1>1 DEF History, SInv, PublishedInv
<1>2. CASE lock' = Nobody
  <2>1. committed' = [input |-> input', holding |-> holding']
    BY <1>2 DEF History
  <2>2. pc'["adc"] \notin {"reset", "store"} /\ input' \in InputRegs /\ holding' \in HoldingRegs
    BY <1>2, SlaveAssumption DEF IInv, TypeOK, LockInv, InSection, Threads
  <2>3. input'.status = 1 => Whole(input')
    BY <2>2 DEF StatsInv, WholeInv, Sampling
  <2> QED
    BY <2>1, <2>2, <2>3 DEF PublishedInv, WholeInv
<1> QED
  BY <1>1, <1>2

(* Every step keeps the invariant.                                         *)
LEMMA NextSInv == SInv /\ [HNext]_hvars => SInv'
<1> SUFFICES ASSUME SInv, [HNext]_hvars PROVE SInv'
  OBVIOUS
<1>1. CASE HNext
  <2>1. IInv'
    BY <1>1, NextIInv DEF SInv, HNext
  <2>2. (StatsInv /\ WholeInv)'
    BY <1>1, OthersStats, AdcStats DEF HNext, Next, Halted
  <2> QED
    BY <1>1, <2>1, <2>2, PublishedStep DEF SInv, HNext
<1>2. CASE UNCHANGED hvars
  BY <1>2 DEF hvars, vars, adcVars, callVars, SInv, IInv, TypeOK, PcOK, CallInv, LockInv,
     BootInv, InSection, WordsDone, StatsInv, Sampling, StatsExact, WholeInv, PublishedInv
<1> QED
  BY <1>1, <1>2

(* The invariant holds at first.                                           *)
LEMMA InitSInv == HInit => SInv
<1> SUFFICES ASSUME HInit PROVE SInv
  OBVIOUS
<1>1. IInv /\ input = ZeroInput /\ holding = ZeroHolding /\ pc["adc"] = "none"
  BY InitIInv DEF HInit, Init
<1>2. Zeroed(input) /\ AvgOK(input) /\ input.status = 0
  BY <1>1 DEF Zeroed, AvgOK, ZeroInput, MIN, MAX
<1>3. StatsInv /\ WholeInv
  BY <1>1, <1>2 DEF HInit, StatsInv, WholeInv, StatsExact, Sampling
<1>4. PublishedInv
  BY <1>1, <1>2, ZeroTypes DEF HInit, PublishedInv
<1> QED
  BY <1>1, <1>3, <1>4 DEF SInv

(* The inductive invariant of the statistics.                              *)
THEOREM HistorySInv == HSpec => []SInv
BY InitSInv, NextSInv, PTL DEF HSpec

(* min and max are exactly the extremes of the samples since the reset. *)
THEOREM SlaveStatsExact == HSpec => []StatsExact
<1>1. SInv => StatsExact
  BY DEF SInv, StatsInv
<1> QED
  BY <1>1, HistorySInv, PTL

(* The published average stays within the range of its samples and 0. *)
THEOREM SlaveAverageWithinRange == HSpec => []AverageWithinRange
<1>1. SInv => AverageWithinRange
  BY DEF SInv, PublishedInv, AvgOK, AverageWithinRange
<1> QED
  BY <1>1, HistorySInv, PTL

(* A master never sees part of a reset, nor statistics before status. *)
THEOREM SlavePublishedWhole == HSpec => []PublishedWhole
<1>1. SInv => PublishedWhole
  <2> SUFFICES ASSUME SInv PROVE PublishedWhole
    OBVIOUS
  <2> DEFINE in == committed.input
  <2>1. in \in InputRegs /\ in.status \in {0, 1}
    BY DEF SInv, PublishedInv, InputRegs
  <2>2. in.status = 0 => [in EXCEPT !.cntr = 0] = ZeroInput
    <3> SUFFICES ASSUME in.status = 0 PROVE [in EXCEPT !.cntr = 0] = ZeroInput
      OBVIOUS
    <3>1. in = [status |-> 0, cntr |-> in.cntr, now |-> ZeroInput.now, min |-> ZeroInput.min,
                max |-> ZeroInput.max, avg |-> ZeroInput.avg]
      BY <2>1 DEF SInv, PublishedInv, Zeroed, InputRegs
    <3> QED
      BY <3>1 DEF ZeroInput
  <2>3. in.status = 1 => Whole(in)
    BY DEF SInv, PublishedInv
  <2> QED
    BY <2>1, <2>2, <2>3 DEF PublishedWhole, Whole, Fresh, Settled
<1> QED
  BY <1>1, HistorySInv, PTL

(* What the shift does to an average.                                      *)
LEMMA EmaTracks ==
  ASSUME NEW avg \in Int, NEW now \in Int
  PROVE  Tracks(avg, Ema(avg, now), now)
<1> DEFINE step == (now - avg) \div 4
<1>1. 2 ^ EMA_ALPHA_SHIFT = 4
  BY DEF EMA_ALPHA_SHIFT
<1>2. step \in Int /\ 4 * step <= now - avg /\ now - avg < 4 * step + 4
  OBVIOUS
<1>3. Ema(avg, now) = avg + step
  BY <1>1 DEF Ema
<1> HIDE DEF step
<1>4. CASE step < 0
  BY <1>2, <1>3, <1>4 DEF Tracks
<1>5. CASE step = 0
  BY <1>1, <1>2, <1>3, <1>5 DEF Tracks
<1>6. CASE step > 0
  BY <1>2, <1>3, <1>6 DEF Tracks
<1> QED
  BY <1>2, <1>4, <1>5, <1>6

(* The loop index grows only when a channel is stored.                     *)
LEMMA StoringIsStore ==
  ASSUME SInv, HNext, Storing
  PROVE  AdcStore
<1>1. i \in 0 .. ADC_SAMPLES /\ ADC_SAMPLES \in Nat
  BY RegistersAssumption DEF SInv, IInv, TypeOK
<1>2. i' # i
  BY <1>1 DEF Storing
<1>3. Adc
  BY <1>2, OthersKeepStats DEF HNext, Next, Halted
<1> QED
  BY <1>1, <1>2, <1>3 DEF Storing, Adc, AdcOpen, AdcOpenFails, AdcInitLock, AdcReady,
     AdcRead, AdcLock, AdcReset, AdcUnlock, adcVars

(* The average moves towards every sample and never past it.               *)
THEOREM SlaveAverageTracks == HSpec => AverageTracks
<1>1. SInv /\ [HNext]_hvars =>
        [Storing => Tracks(input.avg[i], input'.avg[i], input'.now[i])]_hvars
  <2> SUFFICES ASSUME SInv, HNext, Storing
               PROVE  Tracks(input.avg[i], input'.avg[i], input'.now[i])
    OBVIOUS
  <2>1. input \in InputRegs /\ i \in 0 .. ADC_SAMPLES /\ ADC_SAMPLES \in Nat
    BY RegistersAssumption DEF SInv, IInv, TypeOK
  <2>2. AdcStore
    BY StoringIsStore
  <2>3. PICK mv \in Milivolts(sample[i]) : input' = Store(input, i, mv)
    BY <2>2 DEF AdcStore
  <2>4. i \in Channel
    BY <2>1, <2>2 DEF AdcStore, Channel
  <2>5. mv \in Int16
    BY <2>3, <2>4, MilivoltsInt16, SlaveAssumption DEF SInv, IInv, TypeOK, RawWord
  <2>6. input'.now[i] = mv /\ input'.avg[i] = Ema(input.avg[i], mv)
    BY <2>1, <2>3, <2>4 DEF Store, InputRegs
  <2>7. mv \in Int /\ input.avg[i] \in Int
    BY <2>1, <2>4, <2>5, Widths DEF InputRegs, Int16
  <2> QED
    BY <2>6, <2>7, EmaTracks
<1> QED
  BY <1>1, HistorySInv, PTL DEF HSpec, AverageTracks


-----------------------------------------------------------------------------
(* Failed reads.  What is in sample[] is what the ADC delivered last, or   *)
(* what the stack held.                                                    *)
DeliveredInv == sample \in [Channel -> RawSamples \cup {Unread}]

(* Only a read of the ADC writes to sample[].                              *)
LEMMA SampleStep ==
  ASSUME IInv, [Next]_vars
  PROVE  sample' = sample \/ \E n \in 0 .. ADC_SAMPLES : AdcRead(n)
<1>1. CASE Main \/ Modbus \/ UNCHANGED vars
  BY <1>1 DEF Main, DeviceInitialize, CreateModbusThread, CreateAdcThread, BootFails,
     MainLock, MainCount, Modbus, ModbusServe, ModbusInitialize, ModbusInitFails, PollRequest,
     CbLock, RejectCoils, CbReadWord, CbWriteWord, CbUnlock, vars, adcVars
<1>2. CASE Adc
  BY <1>2 DEF Adc, AdcOpen, AdcOpenFails, AdcInitLock, AdcReady, AdcLock, AdcReset,
     AdcStore, AdcUnlock, adcVars
<1> QED
  BY <1>1, <1>2 DEF Next, Halted

(* Every step keeps what sample[] may hold.                                *)
LEMMA DeliveredStep ==
  ASSUME IInv, DeliveredInv, [Next]_vars
  PROVE  /\ DeliveredInv'
         /\ \A c \in Channel : sample[c] # Unread => sample'[c] # Unread
<1>1. CASE sample' = sample
  BY <1>1 DEF DeliveredInv
<1>2. ASSUME NEW n \in 0 .. ADC_SAMPLES, AdcRead(n)
      PROVE  /\ DeliveredInv'
             /\ \A c \in Channel : sample[c] # Unread => sample'[c] # Unread
  <2>1. PICK raw \in [Channel -> RawSamples] :
          sample' = [c \in Channel |-> IF c < n THEN raw[c] ELSE sample[c]]
    BY <1>2 DEF AdcRead
  <2>2. \A x \in RawSamples : x # Unread
    BY SlaveAssumption, RegistersAssumption DEF Unread
  <2> QED
    BY <2>1, <2>2 DEF DeliveredInv
<1> QED
  BY <1>1, <1>2, SampleStep

(* Once the ADC delivered a sample of a channel, every later value that is *)
(* stored for that channel is a sample it delivered, the latest: however   *)
(* many reads fail, the garbage of modbusslave_main.c:341-377 is over with *)
(* the first one that succeeds.                                            *)
THEOREM SlaveGarbageAtFirstOnly ==
  HSpec => [][\A c \in Channel : sample[c] # Unread =>
                /\ sample'[c] # Unread
                /\ Storing /\ i = c =>
                     /\ input'.now[c] = ADC_RAW_TO_MILIVOLT(sample[c])
                     /\ sample[c] \in RawSamples]_hvars
<1>1. HInit => DeliveredInv
  BY DEF HInit, Init, DeliveredInv
<1>2. SInv /\ DeliveredInv /\ [HNext]_hvars => DeliveredInv'
  <2> SUFFICES ASSUME SInv, DeliveredInv, [HNext]_hvars PROVE DeliveredInv'
    OBVIOUS
  <2>1. [Next]_vars
    BY DEF HNext, hvars
  <2> QED
    BY <2>1, DeliveredStep DEF SInv
<1>3. SInv /\ DeliveredInv /\ [HNext]_hvars =>
        [\A c \in Channel : sample[c] # Unread =>
           /\ sample'[c] # Unread
           /\ Storing /\ i = c =>
                /\ input'.now[c] = ADC_RAW_TO_MILIVOLT(sample[c])
                /\ sample[c] \in RawSamples]_hvars
  <2> SUFFICES ASSUME SInv, DeliveredInv, HNext, NEW c \in Channel, sample[c] # Unread
               PROVE  /\ sample'[c] # Unread
                      /\ Storing /\ i = c =>
                           /\ input'.now[c] = ADC_RAW_TO_MILIVOLT(sample[c])
                           /\ sample[c] \in RawSamples
    OBVIOUS
  <2>1. sample'[c] # Unread
    BY DeliveredStep DEF SInv, HNext
  <2>2. ASSUME Storing, i = c
        PROVE  input'.now[c] = ADC_RAW_TO_MILIVOLT(sample[c])
    <3>1. AdcStore /\ input \in InputRegs
      BY <2>2, StoringIsStore DEF SInv, IInv, TypeOK
    <3>2. PICK mv \in Milivolts(sample[c]) : input' = Store(input, c, mv)
      BY <2>2, <3>1 DEF AdcStore
    <3>3. mv = ADC_RAW_TO_MILIVOLT(sample[c])
      BY <3>2 DEF Milivolts
    <3> QED
      BY <3>1, <3>2, <3>3 DEF Store, InputRegs
  <2>3. sample[c] \in RawSamples
    BY DEF DeliveredInv
  <2> QED
    BY <2>1, <2>2, <2>3
<1> QED
  BY <1>1, <1>2, <1>3, HistorySInv, PTL DEF HSpec

=============================================================================
