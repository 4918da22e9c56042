-------------------------- MODULE ModbusSlaveHistory --------------------------
(***************************************************************************)
(* ModbusSlave with two history variables, which no action reads, and      *)
(* the properties that need them: the slave implements ModbusBank, and the *)
(* statistics it publishes are those of the samples it took.               *)
(***************************************************************************)
EXTENDS ModbusSlave

VARIABLES
  committed,    \* g_modbus as the last owner of the mutex left it
  measured      \* the millivolts channel c took in since its last reset

hvars == <<vars, committed, measured>>

HInit ==
  /\ Init
  /\ committed = [input |-> input, holding |-> holding]
  /\ measured = [c \in Channel |-> {}]

(* This step of thread_adc runs adc_reset_stats(). *)
Resetting ==
  \/ pc["adc"] = "ready" /\ pc'["adc"] = "read"
  \/ pc["adc"] = "reset" /\ pc'["adc"] = "store" /\ holding.rst_stats # 0

(* This step stores a sample: nothing else makes i grow. *)
Storing == i' = i + 1

History ==
  /\ committed' = IF lock' = Nobody THEN [input |-> input', holding |-> holding']
                                    ELSE committed
  /\ measured' = IF Resetting THEN [c \in Channel |-> {}]
                 ELSE IF Storing THEN [measured EXCEPT ![i] = @ \cup {input'.now[i]}]
                 ELSE measured

HNext == Next /\ History

HSpec == HInit /\ [][HNext]_hvars

HFairSpec == HSpec /\ Fairness

-----------------------------------------------------------------------------

(* The bank a master sees: the committed registers, and an answer once the *)
(* callback has returned.                                                  *)
Bank == INSTANCE ModbusBank
  WITH input <- committed.input,
       holding <- committed.holding,
       answer <- [err |-> IF request = NoRequest THEN mberr ELSE "none",
                  words |-> IF request = NoRequest THEN buffer ELSE <<>>]

(* To the master the threads are one bank: scans, replies and writes are   *)
(* each one step, and replies follow the documented register map           *)
(* (modbusslave_main.c:83-108).                                            *)
ImplementsBank == Bank!Spec

(* The words copied so far are those of one instant, the last time the     *)
(* mutex was free, each the documented register with its high byte first:  *)
(* no reply mixes two scans or two writes (eMBRegInputCB,                  *)
(* eMBRegHoldingCB).                                                       *)
ReplyIsSnapshot ==
  pc["modbus"] = "copy" /\ request.fn # "write" =>
    \A n \in 1 .. Len(buffer) :
      buffer[n] = Bank!RegisterBytes(Bank!RegisterValue(request.fn, committed.input,
                                       committed.holding, request.address + n - 1))

(* What min and max of a channel must be once it took in the values S.     *)
Extremes(lo, hi, S) ==
  IF S = {} THEN lo = INT16_MAX /\ hi = INT16_MIN
  ELSE lo \in S /\ hi \in S /\ \A x \in S : lo <= x /\ x <= hi

(* From the moment the device reports that it is ready, min and max are    *)
(* the extremes of exactly the samples taken since the last reset          *)
(* (adc_reset_stats and the store loop of thread_adc).                     *)
StatsExact ==
  input.status = 1 =>
    \A c \in Channel : Extremes(input.min[c], input.max[c], measured[c])

(* The published average never leaves the range the samples span together  *)
(* with the 0 it starts from: the shift of a negative difference neither   *)
(* overshoots nor overflows the int16_t (modbusslave_main.c:367-376).      *)
AverageWithinRange ==
  committed.input.status = 1 =>
    \A c \in Channel :
      LET in == committed.input
      IN  MIN(0, in.min[c]) <= in.avg[c] /\ in.avg[c] <= MAX(0, in.max[c])

(* No master sees statistics before the device is ready, and a ready       *)
(* device never shows one half of a reset: a channel is reset in all three *)
(* statistics or in none, and with it every other channel.                 *)
PublishedWhole ==
  LET in == committed.input
      settled(c) == in.min[c] <= in.now[c] /\ in.now[c] <= in.max[c]
  IN  IF in.status = 0 THEN [in EXCEPT !.cntr = 0] = ZeroInput
      ELSE (\A c \in Channel : Fresh(in, c)) \/ (\A c \in Channel : settled(c))

(* An average goes from old to new towards a sample, or is close below it  *)
(* and stays.                                                              *)
Tracks(old, new, now) ==
  \/ now <= new /\ new < old
  \/ old < new /\ new < now
  \/ new = old /\ old <= now /\ now < old + 2 ^ EMA_ALPHA_SHIFT

(* The average follows the samples: it never overshoots one, a lower       *)
(* sample always takes it down, and a higher one takes it up unless it is  *)
(* less than 2 ^ EMA_ALPHA_SHIFT above.  So a steady signal that fell is   *)
(* reached and one that rose is not quite (modbusslave_main.c:367-376).    *)
AverageTracks ==
  [][Storing => Tracks(input.avg[i], input'.avg[i], input'.now[i])]_hvars

(* What a master makes of register a of the reply, high byte first and the *)
(* sign taken back.                                                        *)
Copied(a) == a - request.address + 1 \in 1 .. Len(buffer)

Received(a) ==
  LET bytes == buffer[a - request.address + 1]
      word == bytes[1] * BYTE + bytes[2]
  IN  IF word > INT16_MAX THEN word - WORD ELSE word

(* A reply that carries now, min and max of some channels carries          *)
(* now within min and max for each of them, or the marks of a reset for    *)
(* all of them, whatever scans, resets and seconds go by while it is built *)
(* (eMBRegInputCB against adc_reset_stats and the loop of thread_adc).     *)
ReplyConsistent ==
  LET reg(group, c) == 3 + group * ADC_SAMPLES + c
      now(c) == Received(reg(0, c))
      min(c) == Received(reg(1, c))
      max(c) == Received(reg(2, c))
      seen == {c \in Channel : Copied(reg(0, c)) /\ Copied(reg(2, c))}
  IN  pc["modbus"] = "copy" /\ request.fn = "input" =>
        \/ \A c \in seen : min(c) = INT16_MAX /\ max(c) = INT16_MIN
        \/ \A c \in seen : min(c) <= now(c) /\ now(c) <= max(c)

-----------------------------------------------------------------------------
(* What the comments of the source say and the code does not do            *)

(* modbusslave_main.c:131: now is the "Sample now in mV".  A read that     *)
(* fails is reported and its sample[] is stored all the same.              *)
OnlySamplesStored ==
  \A c \in Channel : measured[c] \subseteq {ADC_RAW_TO_MILIVOLT(raw) : raw \in RawSamples}

=============================================================================
