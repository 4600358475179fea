------------------------------- MODULE Driver -------------------------------
(***************************************************************************)
(* The driver library (src/driver/driver.c) in the application's process.  *)
(* Every API function sends one request and blocks in read_reply; what it  *)
(* does with the reply, the mirror of the device it keeps in the           *)
(* connection included, is one action, since the process has one thread    *)
(* and nobody else sees its memory.                                        *)
(***************************************************************************)
EXTENDS Link, Failsafe

CONSTANT
    Calls       \* the calls the application may make

PinOps  == {"generic_read", "generic_write", "get_type", "set_type",
            "get_failsafe", "set_failsafe"}
MaskOps == {"read_value_mask", "write_value_mask", "get_type_mask", "set_type_mask",
            "get_failsafe_mask", "set_failsafe_mask"}

\* What the prototypes of driver.h admit.
WellFormed(c) ==
    /\ c.op \in {"get_caps", "reset", "ping"} \cup PinOps \cup MaskOps
    /\ c.op \in PinOps => c.pin_id \in PinIds
    /\ c.op \in {"generic_read", "generic_write"} => c.pin_mode \in PinType
    /\ c.op \in {"generic_write", "set_failsafe"} => c.val \in Word
    /\ c.op \in MaskOps => c.mask \in SUBSET PinIds
    /\ c.op \in {"set_type", "read_value_mask", "write_value_mask",
                 "set_failsafe", "set_failsafe_mask"} => c.type \in PinType
    /\ c.op \in {"set_failsafe", "set_failsafe_mask"} => c.timeout \in Word
    /\ c.op \in {"write_value_mask", "set_failsafe_mask"}
         => c.values \in [c.mask -> Word]
    /\ c.op = "set_type_mask" => c.values \in [c.mask -> PinType]

ASSUME CallsAssumption == \A c \in Calls : WellFormed(c)

VARIABLES
    conn,       \* struct connection: nb_pins, caps and mirror of the device
    call,       \* the API call in progress
    out,        \* what the last call returned through its out-parameter
    version     \* what the last ping returned

driverVars == <<conn, call, out, version>>

NoCall == [op |-> "none"]

\* The values and the types of pins, and the timeout, a call returns.
NoOut        == [vals |-> << >>, types |-> << >>, timeout |-> {}]
Vals(vals)   == [vals |-> vals, types |-> << >>, timeout |-> {}]
Types(types) == [vals |-> << >>, types |-> types, timeout |-> {}]

OutputOK(o) ==
    /\ DOMAIN o.vals \in SUBSET PinIds /\ DOMAIN o.types \in SUBSET PinIds
    /\ o \in [vals : [DOMAIN o.vals -> Word], types : [DOMAIN o.types -> Word],
              timeout : Word]

\* connection_open: no pin is known and the arrays are NULL.
NoCaps == [nb_pins |-> 0, pins_mask_type |-> << >>, pins_type |-> << >>,
           pins_val |-> << >>, failsafe |-> new_failsafe({})]

protocol_version == {}    \* 0 on the driver's side

PinArray(nb_pins, S) == [0 .. nb_pins - 1 -> S]

\* The arrays of the connection have nb_pins entries, the number that came in the
\* reply of get_caps, or none.
Connection(nb_pins) ==
    [nb_pins : {nb_pins}, pins_mask_type : PinArray(nb_pins, Octet),
     pins_type : PinArray(nb_pins, PinType), pins_val : PinArray(nb_pins, Word),
     failsafe : FailsafeOf(0 .. nb_pins - 1)]

DriverTypeOK ==
    /\ conn.nb_pins \in UINT8 /\ conn \in Connection(conn.nb_pins)
    /\ call \in Calls \cup {NoCall}
    /\ OutputOK(out)
    /\ version \in Octet

DriverInit ==
    /\ conn = NoCaps
    /\ call = NoCall
    /\ out = NoOut
    /\ version = {}

-----------------------------------------------------------------------------
(* The requests: first half of each API function.                          *)

get_caps_request == packet(CMD_GET_CAPS, {}, 0, {})

reset_request == packet(CMD_RESET, {}, 0, {})

ping_request ==
    packet(CMD_PING, {}, 1, write_bit_value({}, 0, protocol_version, 8))

\* A pin id as it is written at the start of the data.
pin_id_bits(pin_id) == write_bit_value({}, 0, ToBits(pin_id), PINS_NO_BITS_NB)

generic_read_request(c) ==
    packet(CMD_READ, type_param(c.pin_mode, USE_PIN_ID), 1, pin_id_bits(c.pin_id))

read_value_mask_request(c) ==
    packet(CMD_READ, type_param(c.type, USE_MASK), BITS2BYTES(conn.nb_pins),
           write_mask({}, c.mask, conn.nb_pins))

\* Mutant of generic_write_request: the buffer is sized for the value alone.
generic_write_request_short(c) ==
    LET val_size == get_type_bits_nb(c.pin_mode)
    IN  packet(CMD_WRITE, type_param(c.pin_mode, USE_PIN_ID), BITS2BYTES(val_size),
               write_bit_value(pin_id_bits(c.pin_id), PINS_NO_BITS_NB,
                               c.val, val_size))

generic_write_request(c) ==
    LET val_size == get_type_bits_nb(c.pin_mode)
    IN  packet(CMD_WRITE, type_param(c.pin_mode, USE_PIN_ID),
               BITS2BYTES(PINS_NO_BITS_NB + val_size),
               write_bit_value(pin_id_bits(c.pin_id), PINS_NO_BITS_NB,
                               c.val, val_size))

write_value_mask_request(c) ==
    LET value_bits == get_type_bits_nb(c.type)
        data_bits  == conn.nb_pins
                        + mask_nb_pins_used(c.mask, conn.nb_pins) * value_bits
    IN  packet(CMD_WRITE, type_param(c.type, USE_MASK), BITS2BYTES_unsigned(data_bits),
               write_value_list(write_mask({}, c.mask, conn.nb_pins),
                                conn.nb_pins, c.mask, c.values, value_bits))

get_type_request(c) ==
    packet(CMD_GET_TYPE, USE_PIN_ID, 1, pin_id_bits(c.pin_id))

\* data_bits = nb_pins - 1 ("TODO check: why -1?"): the last pin is never asked for.
get_type_mask_request(c) ==
    LET data_bits == conn.nb_pins - 1
    IN  packet(CMD_GET_TYPE, USE_MASK, BITS2BYTES_unsigned(data_bits),
               write_mask({}, c.mask, data_bits))

set_type_request(c) ==
    packet(CMD_SET_TYPE, USE_PIN_ID, BITS2BYTES(PINS_NO_BITS_NB + PIN_TYPE_BITS_NB),
           write_bit_value(pin_id_bits(c.pin_id), PINS_NO_BITS_NB,
                           c.type, PIN_TYPE_BITS_NB))

set_type_mask_request(c) ==
    LET data_bits_nb == conn.nb_pins
                     + PIN_TYPE_BITS_NB * mask_nb_pins_used(c.mask, conn.nb_pins)
    IN  packet(CMD_SET_TYPE, USE_MASK, BITS2BYTES(data_bits_nb),
               write_value_list(write_mask({}, c.mask, conn.nb_pins),
                                conn.nb_pins, c.mask, c.values, PIN_TYPE_BITS_NB))

get_failsafe_request(c) ==
    packet(CMD_GET_FAILSAFE, USE_PIN_ID, 1, pin_id_bits(c.pin_id))

\* The size counts three bits for each pin of the mask; what is written is the
\* mask, one bit for each pin of the device.
get_failsafe_mask_request(c) ==
    LET data_bits == mask_nb_pins_used(c.mask, conn.nb_pins) * PIN_TYPE_BITS_NB
    IN  packet(CMD_GET_FAILSAFE, USE_MASK, BITS2BYTES_unsigned(data_bits),
               write_mask({}, c.mask, conn.nb_pins))

\* The size counts PINS_NO_BYTES_NB, one bit, for the eight bits of the pin.
set_failsafe_request(c) ==
    LET type_bits == get_type_bits_nb(c.type)
    IN  packet(CMD_SET_FAILSAFE, type_param(c.type, USE_PIN_ID),
               BITS2BYTES(TIMEOUT_BITS_NB + 1 + type_bits),
               write_bit_value({}, 0, c.timeout, TIMEOUT_BITS_NB)
                 \cup write_bit_value({}, 16, ToBits(c.pin_id), PINS_NO_BITS_NB)
                 \cup write_bit_value({}, 24, c.val, type_bits))

set_failsafe_mask_request(c) ==
    LET val_bits == get_type_bits_nb(c.type)
        head     == TIMEOUT_BITS_NB + conn.nb_pins
    IN  packet(CMD_SET_FAILSAFE, type_param(c.type, USE_MASK),
               BITS2BYTES(head + mask_nb_pins_used(c.mask, conn.nb_pins) * val_bits),
               write_value_list(write_bit_value({}, 0, c.timeout, TIMEOUT_BITS_NB)
                                  \cup {16 + p : p \in write_mask({}, c.mask, conn.nb_pins)},
                                head, c.mask, c.values, val_bits))

request(c) ==
    CASE c.op = "get_caps"         -> get_caps_request
      [] c.op = "reset"            -> reset_request
      [] c.op = "ping"             -> ping_request
      [] c.op = "generic_read"     -> generic_read_request(c)
      [] c.op = "read_value_mask"  -> read_value_mask_request(c)
      [] c.op = "generic_write"    -> generic_write_request(c)
      [] c.op = "write_value_mask" -> write_value_mask_request(c)
      [] c.op = "get_type"         -> get_type_request(c)
      [] c.op = "get_type_mask"    -> get_type_mask_request(c)
      [] c.op = "set_type"         -> set_type_request(c)
      [] c.op = "set_type_mask"    -> set_type_mask_request(c)
      [] c.op = "get_failsafe"      -> get_failsafe_request(c)
      [] c.op = "get_failsafe_mask" -> get_failsafe_mask_request(c)
      [] c.op = "set_failsafe"      -> set_failsafe_request(c)
      [] c.op = "set_failsafe_mask" -> set_failsafe_mask_request(c)

-----------------------------------------------------------------------------
(* Opening and closing: connection_open and connection_close.              *)

\* Mutant of connection_open_in: the driver opens its output first.
connection_open_in_swapped ==
    /\ drv = "start"
    /\ IF fifos THEN drv' = "open_out" /\ opened' = opened \cup {"drv_out"}
                ELSE drv' = "failed" /\ UNCHANGED opened
    /\ UNCHANGED <<dev, fifos, pipes, driverVars>>

\* open( in_filename, O_RDONLY ) is entered, or fails on a missing file.
connection_open_in ==
    /\ drv = "start"
    /\ IF fifos THEN drv' = "open_in" /\ opened' = opened \cup {"drv_in"}
                ELSE drv' = "failed" /\ UNCHANGED opened
    /\ UNCHANGED <<dev, fifos, pipes, driverVars>>

\* It returns, and open( out_filename, O_WRONLY ) is entered.
connection_open_out ==
    /\ drv = "open_in"
    /\ "dev_out" \in opened
    /\ drv' = "open_out"
    /\ opened' = opened \cup {"drv_out"}
    /\ UNCHANGED <<dev, fifos, pipes, driverVars>>

\* The second open returns.
connection_opened ==
    /\ drv = "open_out"
    /\ "dev_in" \in opened
    /\ drv' = "idle"
    /\ UNCHANGED <<dev, fifos, opened, pipes, driverVars>>

connection_close ==
    /\ drv = "idle"
    /\ drv' = "closed"
    /\ conn' = NoCaps
    /\ UNCHANGED <<dev, fifos, opened, pipes, call, out, version>>

-----------------------------------------------------------------------------
(* The calls.                                                              *)

\* A mask is built with new_mask( c->caps.nb_pins ), so after get_caps.
Callable(c) ==
    /\ c \in Calls
    /\ c.op \in MaskOps => conn.nb_pins # 0

\* Mutant of send_packet: the call does not wait for the previous one's reply.
send_packet_eager(c) ==
    /\ drv \in {"idle", "waiting"}
    /\ Callable(c)
    /\ IF DeviceGone
         THEN drv' = "killed" /\ UNCHANGED <<call, driver2device>>
         ELSE /\ drv' = "waiting"
              /\ call' = c
              /\ driver2device' = connection_write(driver2device, request(c))
    /\ UNCHANGED <<dev, fifos, opened, device2driver, conn, out, version>>

\* The application calls the API: the request is sent, then read_reply blocks.
\* Nobody ignores SIGPIPE: writing to a device that is gone kills the process.
send_packet(c) ==
    /\ drv = "idle"
    /\ Callable(c)
    /\ IF DeviceGone
         THEN drv' = "killed" /\ UNCHANGED <<call, driver2device>>
         ELSE /\ drv' = "waiting"
              /\ call' = c
              /\ driver2device' = connection_write(driver2device, request(c))
    /\ UNCHANGED <<dev, fifos, opened, device2driver, conn, out, version>>

\* read_reply returns; reply code, reply id and checksum change nothing.
read_reply(op) ==
    /\ drv = "waiting"
    /\ call.op = op
    /\ device2driver # << >>
    /\ device2driver' = unread(device2driver)
    /\ UNCHANGED <<dev, fifos, opened, driver2device>>

Reply == Head(device2driver)

\* End of file on the pipe: "Failed to read a packet" and exit(1).
read_reply_failed ==
    /\ drv = "waiting"
    /\ DeviceGone
    /\ device2driver = << >>
    /\ drv' = "exited"
    /\ UNCHANGED <<dev, fifos, opened, pipes, driverVars>>

\* The API function returns to the application.
Return ==
    /\ drv' = "idle"
    /\ call' = NoCall

\* The function stores into c->state.pins_state or c->failsafe before it returns,
\* which are null pointers until get_caps has been called.
ReturnStoring(newConn, result) ==
    /\ IF conn.nb_pins = 0
         THEN drv' = "killed" /\ UNCHANGED <<conn, call, out>>
         ELSE Return /\ conn' = newConn /\ out' = result
    /\ UNCHANGED version

\* connection_init_resources: fresh arrays, the values left as malloc gave them.
connection_init_resources(nb_pins, junk) ==
    [nb_pins |-> nb_pins,
     pins_mask_type |-> [p \in 0 .. nb_pins - 1 |-> {}],
     pins_type |-> [p \in 0 .. nb_pins - 1 |-> PIN_TYPE_DISABLED],
     pins_val |-> [p \in 0 .. nb_pins - 1 |-> to_uint16(junk)],
     failsafe |-> new_failsafe(0 .. nb_pins - 1)]

\* read_device_caps: the bytes that follow nb_pins are the types of each pin.
read_device_caps(c, data) ==
    [c EXCEPT !.pins_mask_type =
        [p \in 0 .. c.nb_pins - 1 |-> byte_at(data, p + 2)]]

get_caps ==
    /\ read_reply("get_caps")
    /\ \E junk \in HeapJunk :
         LET data    == received(Reply, junk)
             nb_pins == FromBits(read_bit_value(data, REPLY_ID_BITS_NB, PINS_NO_BITS_NB))
         IN  conn' = read_device_caps(connection_init_resources(nb_pins, junk), data)
    /\ Return
    /\ out' = NoOut
    /\ UNCHANGED version

reset ==
    /\ read_reply("reset")
    /\ Return
    /\ out' = NoOut
    /\ UNCHANGED <<conn, version>>

ping ==
    /\ read_reply("ping")
    /\ \E junk \in HeapJunk :
         version' = to_uint8(read_bit_value(received(Reply, junk), 8, VERSION_BITS_NB))
    /\ Return
    /\ out' = NoOut
    /\ UNCHANGED conn

\* generic_read, under digital_read, analogic_read, pwm8_read and pwm16_read.
generic_read ==
    /\ read_reply("generic_read")
    /\ \E junk \in HeapJunk :
         LET val  == read_bit_value(received(Reply, junk), REPLY_ID_BITS_NB,
                                    get_type_bits_nb(call.pin_mode))
             read == [p \in {call.pin_id} |-> val]
         IN  ReturnStoring([conn EXCEPT !.pins_val = store(@, read)], Vals(read))

read_value_mask ==
    /\ read_reply("read_value_mask")
    /\ \E junk \in HeapJunk :
         LET read == read_value_list(received(Reply, junk), REPLY_ID_BITS_NB,
                                     call.mask, get_type_bits_nb(call.type))
         IN  ReturnStoring([conn EXCEPT !.pins_val = store(@, read)], Vals(read))

\* generic_write, under digital_write, analogic_write, pwm8_write and pwm16_write:
\* the mirror takes the value asked for, whatever the reply says, and not the type.
generic_write ==
    /\ read_reply("generic_write")
    /\ LET written == [p \in {call.pin_id} |-> call.val]
       IN  ReturnStoring([conn EXCEPT !.pins_val = store(@, written)], NoOut)

\* Mutant of write_value_mask: the mirror is not told of the values.
write_value_mask_unsaved ==
    /\ read_reply("write_value_mask")
    /\ ReturnStoring(conn, NoOut)

write_value_mask ==
    /\ read_reply("write_value_mask")
    /\ ReturnStoring([conn EXCEPT !.pins_val = store(@, call.values)], NoOut)

get_type ==
    /\ read_reply("get_type")
    /\ \E junk \in HeapJunk :
         LET type == read_bit_value(received(Reply, junk), REPLY_ID_BITS_NB,
                                    PIN_TYPE_BITS_NB)
             read == [p \in {call.pin_id} |-> type]
         IN  ReturnStoring([conn EXCEPT !.pins_type = store(@, read)], Types(read))

get_type_mask ==
    /\ read_reply("get_type_mask")
    /\ \E junk \in HeapJunk :
         LET types == read_value_list(received(Reply, junk), REPLY_ID_BITS_NB,
                                      call.mask, PIN_TYPE_BITS_NB)
         IN  ReturnStoring([conn EXCEPT !.pins_type = store(@, types)], Types(types))

set_type ==
    /\ read_reply("set_type")
    /\ LET written == [p \in {call.pin_id} |-> call.type]
       IN  ReturnStoring([conn EXCEPT !.pins_type = store(@, written)], NoOut)

set_type_mask ==
    /\ read_reply("set_type_mask")
    /\ ReturnStoring([conn EXCEPT !.pins_type = store(@, call.values)], NoOut)

\* The mirror is left alone ("TODO treat timeout").
get_failsafe ==
    /\ read_reply("get_failsafe")
    /\ \E junk \in HeapJunk :
         LET data == received(Reply, junk)
             type == read_type(data, REPLY_ID_BITS_NB + TIMEOUT_BITS_NB)
             val  == read_bit_value(data, 27, get_type_bits_nb(type))
         IN  out' = [vals |-> [p \in {call.pin_id} |-> val],
                     types |-> [p \in {call.pin_id} |-> type], timeout |-> {}]
    /\ Return
    /\ UNCHANGED <<conn, version>>

\* The timeout goes to the application only.
get_failsafe_mask ==
    /\ read_reply("get_failsafe_mask")
    /\ \E junk \in HeapJunk :
         LET data    == received(Reply, junk)
             offset  == REPLY_ID_BITS_NB + TIMEOUT_BITS_NB
             timeout == read_bit_value(data, REPLY_ID_BITS_NB, TIMEOUT_BITS_NB)
             states  == read_failsafe_states(data, offset, call.mask)
             values  == read_failsafe_values(data, offset, call.mask)
         IN  ReturnStoring([conn EXCEPT !.failsafe =
                               store_failsafe(@, @.timeout, states, values)],
                           [vals |-> values, types |-> states, timeout |-> timeout])

set_failsafe ==
    /\ read_reply("set_failsafe")
    /\ LET state == [p \in {call.pin_id} |-> call.type]
           value == [p \in {call.pin_id} |-> call.val]
       IN  ReturnStoring([conn EXCEPT !.failsafe =
                             store_failsafe(@, call.timeout, state, value)], NoOut)

set_failsafe_mask ==
    /\ read_reply("set_failsafe_mask")
    /\ LET states == [p \in call.mask |-> call.type]
       IN  ReturnStoring([conn EXCEPT !.failsafe =
                             store_failsafe(@, call.timeout, states, call.values)], NoOut)

\* The process is killed; the kernel closes its ends of the pipes.
DriverKilled ==
    /\ Crashes
    /\ drv \in {"idle", "waiting"}
    /\ drv' = "killed"
    /\ UNCHANGED <<dev, fifos, opened, pipes, driverVars>>

-----------------------------------------------------------------------------
\* The steps the process takes by itself, once the application has called it.
DriverOpens == connection_open_out \/ connection_opened

DriverReturns ==
    \/ get_caps \/ reset \/ ping
    \/ generic_read \/ read_value_mask \/ generic_write \/ write_value_mask
    \/ get_type \/ get_type_mask \/ set_type \/ set_type_mask
    \/ get_failsafe \/ get_failsafe_mask \/ set_failsafe \/ set_failsafe_mask
    \/ read_reply_failed

\* The steps the application or its user decides on.
ApplicationNext ==
    \/ connection_open_in \/ connection_close
    \/ \E c \in Calls : send_packet(c)
    \/ DriverKilled

DriverNext == DriverOpens \/ DriverReturns \/ ApplicationNext

=============================================================================
