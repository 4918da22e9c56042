---------------------------- MODULE MCModbusSlave ----------------------------
(* Small instances of the Modbus slave: a byte of 4 values makes a register *)
(* of 16 and an int16_t of -8..7, so the sentinels, the sign of a register  *)
(* on the wire and the wrap of the counter are all within reach.            *)
EXTENDS ModbusSlaveHistory

Req(fn, address, nregs, data) ==
  [fn |-> fn, address |-> address, nregs |-> nregs, data |-> data]

(* Register values as a master sends them: the high byte first. *)
Wire(values) == [n \in 1 .. Len(values) |-> <<values[n] \div BYTE, values[n] % BYTE>>]

MCRawSamples == {0, 2}
MCGarbage == {INT16_MIN}

(* One channel: all the registers at once, a write of both holding          *)
(* registers, both values of the reset flag, a range that runs off the end  *)
(* and one that starts before the structure, a coil.                        *)
AllRequests ==
  {Req("input", 1, 6, <<>>), Req("input", 6, 2, <<>>), Req("input", 0, 1, <<>>),
   Req("read", 31, 2, <<>>), Req("write", 31, 2, Wire(<<6, 1>>)),
   Req("write", 32, 1, Wire(<<0>>)), Req("write", 32, 2, Wire(<<1, 1>>)),
   Req("coils", 1, 1, <<>>)}

(* Two channels, with a byte of 2 values: a read that spans the groups, the *)
(* reset, and a counter that wraps.                                         *)
TwoChannelRequests ==
  {Req("input", 3, 8, <<>>), Req("write", 32, 1, Wire(<<1>>))}

(* For liveness: an interval, a reset, a write that withdraws it, a range   *)
(* that is refused.                                                         *)
LiveRequests ==
  {Req("write", 31, 2, Wire(<<1, 1>>)), Req("write", 32, 1, Wire(<<0>>)),
   Req("input", 1, 1, <<>>), Req("input", 0, 1, <<>>), Req("discrete", 1, 1, <<>>)}

(* A reset that is asked for and taken back.                                *)
ResetRequests == {Req("write", 32, 1, Wire(<<1>>)), Req("write", 32, 1, Wire(<<0>>))}

=============================================================================
