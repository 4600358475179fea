------------------------------ MODULE Protocol ------------------------------
(***************************************************************************)
(* Packets, commands and pin types (src/include/protocol.h and             *)
(* src/src/protocol.c).  A packet keeps its header split into command and  *)
(* parameter; its data is a bit buffer in the sense of BitUtils.           *)
(***************************************************************************)
EXTENDS BitUtils

\* Pin types: 3-bit numbers, as sets of bits.
PinType           == SUBSET (0..2)
PIN_TYPE_DIGITAL  == {}
PIN_TYPE_ANALOG8  == {0}
PIN_TYPE_ANALOG16 == {1}
PIN_TYPE_PWM8     == {0, 1}
PIN_TYPE_PWM16    == {2}
PIN_TYPE_DISABLED == {0, 1, 2}
PIN_TYPE_BITS_NB  == 3

CMD_GET_CAPS == 0
CMD_RESET    == 1
CMD_PING     == 2
CMD_READ     == 3
CMD_WRITE    == 4
CMD_GET_TYPE == 5
CMD_SET_TYPE == 6
CMD_GET_FAILSAFE == 7
CMD_SET_FAILSAFE == 8

REP_CODE_SUCCESS == {}
REPLY_ID_BITS_NB == 8
PINS_NO_BITS_NB  == 8
VERSION_BITS_NB  == 8
OVERHEAD_SIZE    == 4

\* The lowest bit of the parameter says how the pins are named.
USE_PIN_ID == {}
USE_MASK   == {0}

\* Width of the values of a type; an unknown type has no value at all.
get_type_bits_nb(pin_type) ==
    CASE pin_type = PIN_TYPE_DIGITAL -> 1
      [] pin_type \in {PIN_TYPE_ANALOG8, PIN_TYPE_PWM8} -> 8
      [] pin_type \in {PIN_TYPE_ANALOG16, PIN_TYPE_PWM16} -> 16
      [] OTHER -> 0

\* (pin_type << 1) + how, and its two readers.
type_param(pin_type, how) == {j + 1 : j \in pin_type} \cup how
param_type(p) == {j \in 0..2 : j + 1 \in p.param}
use_mask(p)   == 0 \in p.param

Packet == [cmd : 0..15, param : SUBSET (0..3), size : UINT16, data : SUBSET Nat]

\* Mutant of packet: the size is not kept in 16 bits.
packet_wide(cmd, param, size, data) ==
    [cmd |-> cmd, param |-> param, size |-> size, data |-> data]

(***************************************************************************)
(* set_packet_header, then packet_write on one side and packet_read on the *)
(* other: the size is a uint16_t, and exactly size bytes of data travel.   *)
(* The checksum is computed by send_packet and the pipe is reliable, so it *)
(* is always the right one on arrival and is not kept.                     *)
(***************************************************************************)
packet(cmd, param, size, data) ==
    LET size16 == size % 65536
    IN  [cmd |-> cmd, param |-> param, size |-> size16,
         data |-> {i \in data : i \div 8 < size16}]

\* packet_bytes_nb.
packet_bytes_nb(p) == p.size + OVERHEAD_SIZE

=============================================================================
