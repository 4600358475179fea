------------------------------ MODULE Firmware ------------------------------
(***************************************************************************)
(* The device: mainloop of src/firmware/firmware.c and the handlers of     *)
(* src/firmware/src/firmware_packet_process.c, as the process that stands  *)
(* for the board on a host (the build without EMBEDDED).                   *)
(***************************************************************************)
EXTENDS Link, Failsafe

CONSTANTS
    NB_PINS,       \* number of pins, 16 in the code
    IdModulus,     \* reply ids live below it: 256 for the uint8_t of the code
    IdRestart      \* where they restart after a wrap, 16 in the code

ASSUME FirmwareAssumption ==
    /\ NB_PINS \in UINT8 \ {0}
    /\ IdModulus \in Nat /\ IdModulus <= 256
    /\ IdRestart \in 0 .. IdModulus - 1

VARIABLES
    device,        \* device->state and device->failsafe of every pin
    ID,            \* the next reply id
    req            \* the request being served

deviceVars == <<device, ID, req>>

NoPacket == [cmd |-> 16]

Pins == 0 .. NB_PINS - 1

device_protocol_version == {0}                \* 1 on the device's side
pins_mask_type == ToBits(1 + 2 + 4 + 8 + 16)  \* every pin can take the five types

DeviceState ==
    [pins_type : [Pins -> PinType], pins_val : [Pins -> Word],
     failsafe : FailsafeOf(Pins)]

DeviceTypeOK ==
    /\ device \in DeviceState
    /\ ID \in Nat /\ ID < IdModulus
    /\ req \in Packet \cup {NoPacket}

\* init_device_content.
DeviceInit ==
    /\ device = [pins_type |-> [p \in Pins |-> PIN_TYPE_DIGITAL],
                 pins_val  |-> [p \in Pins |-> {}],
                 failsafe  |-> new_failsafe(Pins)]
    /\ ID = 0
    /\ req = NoPacket

-----------------------------------------------------------------------------
(* init_communication: the device opens its output first, the driver its   *)
(* input first, and each open of a FIFO blocks until the other end's open. *)

\* mkfifo twice (EEXIST is accepted), then open( DEV2DRIV_FILENAME ) is entered.
init_communication ==
    /\ dev = "start"
    /\ fifos' = TRUE
    /\ dev' = "open_out"
    /\ opened' = opened \cup {"dev_out"}
    /\ UNCHANGED <<drv, pipes, deviceVars>>

\* It returns, and open( DRIV2DEV_FILENAME ) is entered.
open_out_done ==
    /\ dev = "open_out"
    /\ "drv_in" \in opened
    /\ dev' = "open_in"
    /\ opened' = opened \cup {"dev_in"}
    /\ UNCHANGED <<drv, fifos, pipes, deviceVars>>

\* The second open returns.
open_in_done ==
    /\ dev = "open_in"
    /\ "drv_out" \in opened
    /\ dev' = "loop"
    /\ UNCHANGED <<drv, fifos, opened, pipes, deviceVars>>

-----------------------------------------------------------------------------
(* mainloop.                                                               *)

\* connection_read returns a packet, whose checksum is right (see packet).
mainloop_read ==
    /\ dev = "loop"
    /\ driver2device # << >>
    /\ req' = Head(driver2device)
    /\ driver2device' = unread(driver2device)
    /\ dev' = "serving"
    /\ UNCHANGED <<drv, fifos, opened, device2driver, device, ID>>

\* Mutant of mainloop_end: end of file is taken for a packet to wait for.
mainloop_end_never ==
    /\ dev = "loop"
    /\ DriverGone
    /\ driver2device = << >>
    /\ UNCHANGED <<linkVars, deviceVars>>

\* End of file: connection_read fails, mainloop returns, end_communication
\* closes the connection and unlinks both FIFOs.
mainloop_end ==
    /\ dev = "loop"
    /\ DriverGone
    /\ driver2device = << >>
    /\ dev' = "ended"
    /\ fifos' = FALSE
    /\ UNCHANGED <<drv, opened, pipes, deviceVars>>

serving(cmd) == dev = "serving" /\ req.cmd = cmd

\* The handler sends nothing and mainloop goes on.
no_reply ==
    /\ dev' = "loop"
    /\ req' = NoPacket
    /\ UNCHANGED <<drv, fifos, opened, pipes, ID>>

\* Mutant of next_reply_id: the wrap is not seen.
next_reply_id_nowrap == ID + 1

\* get_reply_id returns ID and steps it.
next_reply_id == IF ID + 1 = IdModulus THEN IdRestart ELSE ID + 1

(***************************************************************************)
(* The handler ends with send_packet of a packet whose first byte is a     *)
(* fresh reply id, and mainloop goes on.  Writing to a driver that is gone *)
(* kills the device (SIGPIPE), its FIFOs staying behind.                   *)
(***************************************************************************)
send_reply(cmd, size, data) ==
    /\ IF DriverGone
         THEN dev' = "killed" /\ UNCHANGED device2driver
         ELSE /\ dev' = "loop"
              /\ device2driver' = connection_write(device2driver,
                    packet(cmd, REP_CODE_SUCCESS, size, byte(0, ToBits(ID)) \cup data))
    /\ req' = NoPacket
    /\ ID' = next_reply_id
    /\ UNCHANGED <<drv, fifos, opened, driver2device>>

reply_get_caps ==
    /\ serving(CMD_GET_CAPS)
    /\ send_reply(CMD_GET_CAPS, NB_PINS + 2,
                  byte(1, ToBits(NB_PINS))
                    \cup UNION {byte(p + 2, pins_mask_type) : p \in Pins})
    /\ UNCHANGED device

\* The body is empty: nothing is reset and nothing is answered.
reply_reset ==
    /\ serving(CMD_RESET)
    /\ no_reply
    /\ UNCHANGED device

\* Mutant of reply_ping: the handler forgets to send.
reply_ping_silent ==
    /\ serving(CMD_PING)
    /\ no_reply
    /\ UNCHANGED device

reply_ping ==
    /\ serving(CMD_PING)
    /\ send_reply(CMD_GET_CAPS, 2, byte(1, device_protocol_version))
    /\ UNCHANGED device

\* The pin or the pins a request names, given the memory behind its data.
requested_pin(data)  == FromBits(read_bit_value(data, 0, PINS_NO_BITS_NB))
requested_pins(data) == read_mask(data, 0, NB_PINS)

reply_read_pin(data) ==
    LET val_bits == get_type_bits_nb(param_type(req))
        val      == device.pins_val[requested_pin(data)]
    IN  send_reply(CMD_READ, BITS2BYTES(REPLY_ID_BITS_NB + val_bits),
                   write_bit_value({}, REPLY_ID_BITS_NB, val, val_bits))

reply_read_mask(data) ==
    LET val_bits == get_type_bits_nb(param_type(req))
        m        == requested_pins(data)
    IN  send_reply(CMD_READ,
                   BITS2BYTES(REPLY_ID_BITS_NB
                                + mask_nb_pins_used(m, NB_PINS) * val_bits),
                   write_value_list({}, REPLY_ID_BITS_NB, m, device.pins_val, val_bits))

reply_read ==
    /\ serving(CMD_READ)
    /\ \E junk \in HeapJunk :
         LET data == received(req, junk)
         IN  IF use_mask(req) THEN reply_read_mask(data) ELSE reply_read_pin(data)
    /\ UNCHANGED device

\* A write to one pin also switches its type.
treat_write_pin(data) ==
    LET pin_id   == requested_pin(data)
        pin_type == param_type(req)
        val      == read_bit_value(data, PINS_NO_BITS_NB, get_type_bits_nb(pin_type))
    IN  [device EXCEPT !.pins_type[pin_id] = pin_type, !.pins_val[pin_id] = val]

\* A write to a mask keeps the types, and reads each value into a uint8_t.
treat_write_mask(data) ==
    LET m      == requested_pins(data)
        values == read_value_list(data, NB_PINS, m, get_type_bits_nb(param_type(req)))
    IN  [device EXCEPT !.pins_val = store(@, [p \in m |-> to_uint8(values[p])])]

treat_write(data) ==
    IF use_mask(req) THEN treat_write_mask(data) ELSE treat_write_pin(data)

reply_write ==
    /\ serving(CMD_WRITE)
    /\ \E junk \in HeapJunk : device' = treat_write(received(req, junk))
    /\ send_reply(CMD_WRITE, 1, {})

reply_get_type_pin(data) ==
    send_reply(CMD_SET_TYPE, 1 + BITS2BYTES(PIN_TYPE_BITS_NB),
               write_bit_value({}, REPLY_ID_BITS_NB,
                               device.pins_type[requested_pin(data)], PIN_TYPE_BITS_NB))

\* For an empty mask BITS2BYTES_unsigned(0) bytes are allocated, and the size
\* that goes into the 16 bits of the header is 1.
reply_get_type_mask(data) ==
    LET m == requested_pins(data)
    IN  send_reply(CMD_SET_TYPE,
                   1 + BITS2BYTES_unsigned(mask_nb_pins_used(m, NB_PINS)
                                             * PIN_TYPE_BITS_NB),
                   write_value_list({}, REPLY_ID_BITS_NB, m,
                                    device.pins_type, PIN_TYPE_BITS_NB))

reply_get_type ==
    /\ serving(CMD_GET_TYPE)
    /\ \E junk \in HeapJunk :
         LET data == received(req, junk)
         IN  IF use_mask(req) THEN reply_get_type_mask(data)
             ELSE reply_get_type_pin(data)
    /\ UNCHANGED device

treat_set_type(data) ==
    LET m == requested_pins(data)
    IN  IF use_mask(req)
          THEN [device EXCEPT !.pins_type =
                   store(@, read_value_list(data, NB_PINS, m, PIN_TYPE_BITS_NB))]
          ELSE [device EXCEPT !.pins_type[requested_pin(data)] =
                   read_bit_value(data, PINS_NO_BITS_NB, PIN_TYPE_BITS_NB)]

reply_set_type ==
    /\ serving(CMD_SET_TYPE)
    /\ \E junk \in HeapJunk : device' = treat_set_type(received(req, junk))
    /\ send_reply(CMD_SET_TYPE, 1, {})

\* The size of the reply is a uint8_t.
reply_get_failsafe_pin(data) ==
    LET pin_id   == requested_pin(data)
        pin_type == device.failsafe.pin_state[pin_id]
        val_bits == get_type_bits_nb(pin_type)
    IN  send_reply(CMD_SET_TYPE, 3 + BITS2BYTES(PIN_TYPE_BITS_NB + val_bits),
                   write_bit_value({}, REPLY_ID_BITS_NB, device.failsafe.timeout,
                                   TIMEOUT_BITS_NB)
                     \cup write_bit_value({}, 24, pin_type, PIN_TYPE_BITS_NB)
                     \cup write_bit_value({}, 27, device.failsafe.pin_value[pin_id],
                                          val_bits))

reply_get_failsafe_mask(data) ==
    LET m == requested_pins(data)
    IN  send_reply(CMD_SET_TYPE,
                   (3 + BITS2BYTES(failsafe_nb_bits(device.failsafe, m))) % 256,
                   write_bit_value({}, REPLY_ID_BITS_NB, device.failsafe.timeout,
                                   TIMEOUT_BITS_NB)
                     \cup write_failsafe(24, device.failsafe, m))

reply_get_failsafe ==
    /\ serving(CMD_GET_FAILSAFE)
    /\ \E junk \in HeapJunk :
         LET data == received(req, junk)
         IN  IF use_mask(req) THEN reply_get_failsafe_mask(data)
             ELSE reply_get_failsafe_pin(data)
    /\ UNCHANGED device

\* The pins named follow the timeout, and their values follow the pins.
treat_set_failsafe(data) ==
    LET timeout  == read_bit_value(data, 0, TIMEOUT_BITS_NB)
        type     == param_type(req)
        val_bits == get_type_bits_nb(type)
        m        == IF use_mask(req) THEN read_mask(data, TIMEOUT_BITS_NB, NB_PINS)
                    ELSE {FromBits(read_bit_value(data, TIMEOUT_BITS_NB, PINS_NO_BITS_NB))}
        first    == TIMEOUT_BITS_NB + (IF use_mask(req) THEN NB_PINS ELSE PINS_NO_BITS_NB)
    IN  [device EXCEPT !.failsafe =
            store_failsafe(@, timeout, [p \in m |-> type],
                           read_value_list(data, first, m, val_bits))]

reply_set_failsafe ==
    /\ serving(CMD_SET_FAILSAFE)
    /\ \E junk \in HeapJunk : device' = treat_set_failsafe(received(req, junk))
    /\ send_reply(CMD_SET_TYPE, 1, {})

\* The process is killed; the kernel closes its ends, nobody unlinks the FIFOs.
DeviceKilled ==
    /\ Crashes
    /\ dev \in {"loop", "serving"}
    /\ dev' = "killed"
    /\ UNCHANGED <<drv, fifos, opened, pipes, deviceVars>>

-----------------------------------------------------------------------------
\* What the process does by itself.
DeviceRuns ==
    \/ open_out_done \/ open_in_done
    \/ mainloop_read \/ mainloop_end
    \/ reply_get_caps \/ reply_reset \/ reply_ping
    \/ reply_read \/ reply_write \/ reply_get_type \/ reply_set_type
    \/ reply_get_failsafe \/ reply_set_failsafe

DeviceNext == init_communication \/ DeviceRuns \/ DeviceKilled

=============================================================================
