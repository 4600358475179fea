------------------------------ MODULE Session -------------------------------
(***************************************************************************)
(* One application, its driver and one device, from start to end.  The two *)
(* processes share nothing but the pipes of Link.                          *)
(***************************************************************************)
EXTENDS Driver, Firmware

vars == <<linkVars, driverVars, deviceVars>>

\* The pins a call names exist on the device.
ASSUME PinsAssumption ==
    \A c \in Calls : /\ c.op \in PinOps => c.pin_id \in Pins
                     /\ c.op \in MaskOps => c.mask \in SUBSET Pins

Init == LinkInit /\ DriverInit /\ DeviceInit

\* Both processes are over, or the device waits for a driver that gave up.
Finished ==
    /\ \/ DriverGone /\ DeviceGone
       \/ drv = "failed" /\ dev = "open_out"
    /\ UNCHANGED vars

Next ==
    \/ DriverNext /\ UNCHANGED deviceVars
    \/ DeviceNext /\ UNCHANGED driverVars
    \/ Finished

Spec == Init /\ [][Next]_vars

(***************************************************************************)
(* Fairness: the kernel schedules both processes and completes the opens   *)
(* and reads that can complete.  Nothing makes the application call or     *)
(* close, starts the device, or kills a process.                           *)
(***************************************************************************)
Fairness ==
    /\ WF_vars((DriverOpens \/ DriverReturns) /\ UNCHANGED deviceVars)
    /\ WF_vars(DeviceRuns /\ UNCHANGED driverVars)

FairSpec == Spec /\ Fairness

-----------------------------------------------------------------------------
\* Every variable holds a value of the C type it stands for.
TypeOK == LinkTypeOK /\ DriverTypeOK /\ DeviceTypeOK

\* Packets in the pipes or in the device's hands.
InFlight == Len(driver2device) + Len(device2driver)
              + (IF req = NoPacket THEN 0 ELSE 1)

(***************************************************************************)
(* connection_read drops whatever follows the first packet and read_reply  *)
(* does not compare reply ids, so a second packet would be lost or taken   *)
(* for another call's reply.  There never is one: a packet is on its way   *)
(* only while the call it belongs to is pending, and it is alone.          *)
(***************************************************************************)
StopAndWait ==
    /\ InFlight <= 1
    /\ InFlight = 1 => call # NoCall

\* Driver and device open the two FIFOs in orders that meet: when both are blocked
\* in open(), the end one of them waits for has been opened.
OpensMeet ==
    (drv \in {"open_in", "open_out"} /\ dev \in {"open_in", "open_out"}) =>
       \/ (IF drv = "open_in" THEN "dev_out" ELSE "dev_in") \in opened
       \/ (IF dev = "open_in" THEN "drv_out" ELSE "drv_in") \in opened

\* A packet always fits the buffer connection_read decodes it from: BUFF_SIZE
\* bytes, header and checksum included (the comment above BUFF_SIZE).
PacketsFit ==
    \A pipe \in {driver2device, device2driver} :
        \A k \in DOMAIN pipe : packet_bytes_nb(pipe[k]) <= BUFF_SIZE

\* A request is answered, or the caller learns that the device is gone: the
\* driver does not stay in read_reply for ever, unless it waits for a reset.
Answered == (drv = "waiting" /\ call.op # "reset") ~> drv # "waiting"

\* A device whose driver is gone stops, by end of file or by a failed write.
DeviceStops == (DriverGone /\ dev # "start") ~> DeviceGone

\* driver.h: "Send a reset signal to the device, after it, the connection is
\* reinitialized": a reset that the device receives returns to the application.
ResetReturns == (drv = "waiting" /\ call.op = "reset") ~> drv # "waiting"

\* A call returning to the application.
Returns(op) == call.op = op /\ call' = NoCall

\* The pins a call names.
Named(c) == IF c.op \in PinOps THEN {c.pin_id} ELSE c.mask

\* What a 16-bit value says when n bits of it are read: "val16 % 2^n" (failsafe.h).
Modulo(val, n) == val \cap 0 .. n - 1

\* What a call tells about pins is what the device holds.  driver.h of get_type_mask:
\* "types[k] = type(pin i, i-th bits used in the mask)", and of get_failsafe: "Get the
\* failsafe state of the device", which test_communication.c reads back by a mask "to
\* check that everything has been received well".  Nothing is asked of disabled pins,
\* which have no value.
ReadBackExact ==
    [][/\ Returns("get_type_mask") =>
            out'.types = [p \in call.mask |-> device.pins_type[p]]
       /\ (Returns("get_failsafe") \/ Returns("get_failsafe_mask")) =>
            \A p \in enabled(device.failsafe, Named(call)) :
               /\ out'.types[p] = device.failsafe.pin_state[p]
               /\ out'.vals[p] = device.failsafe.pin_value[p]]_vars

\* What a call asks for is what the device holds when it returns.  README.md:
\* "ensuring that values are written and received as expected", which
\* test_communication.c asserts for a mask of 8-bit pins; driver.h of set_failsafe:
\* "Set the failsafe state of the device", where failsafe.h admits values wider than
\* their type.
StoredExact ==
    [][/\ Returns("write_value_mask") =>
            \A p \in call.mask : device.pins_val[p] = call.values[p]
       /\ (Returns("set_failsafe") \/ Returns("set_failsafe_mask")) =>
            \A p \in Named(call) :
               LET asked == IF call.op \in PinOps THEN call.val ELSE call.values[p]
                   n     == get_type_bits_nb(call.type)
               IN  /\ device.failsafe.pin_state[p] = call.type
                   /\ Modulo(device.failsafe.pin_value[p], n) = Modulo(asked, n)]_vars

=============================================================================
