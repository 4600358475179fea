------------------------------ MODULE Contract ------------------------------
(***************************************************************************)
(* The calls under which the driver and the device together are the remote *)
(* registers of module RemotePins.  Each clause of WithinContract leaves   *)
(* out arguments the prototypes admit and the code does not serve;         *)
(* README.md says what happens outside.                                    *)
(***************************************************************************)
EXTENDS Session

CONSTANT
    Class       \* the type each pin of the device is used as

Width(p) == get_type_bits_nb(Class[p])

Fits(val, size) == val \subseteq 0 .. size - 1

FitsFailsafe(val, type) ==
    LET width == get_type_bits_nb(type)
    IN  Fits(val, IF width = 16 THEN 9 ELSE width)

\* A reset has no effect and is never answered; a pin is read and written with one
\* width; a value fits that width; a list of values has 8-bit pins at most (the
\* device reads each into a uint8_t); the type of the last pin is not asked for with
\* a mask.  Of the failsafe states: set_failsafe serves no digital pin, whose value
\* is not sent; 16-bit values stay below 2^9, the bits that are read back right at
\* every offset; a mask is asked for with so many pins that three bits for each leave
\* room for the whole mask, and with at most 100, whose states always fit a reply the
\* size of which is a uint8_t.
WithinContract(c) ==
    /\ c.op # "reset"
    /\ c.op \in {"generic_read", "generic_write"} =>
         get_type_bits_nb(c.pin_mode) = Width(c.pin_id)
    /\ c.op = "generic_write" => Fits(c.val, Width(c.pin_id))
    /\ c.op \in {"read_value_mask", "write_value_mask"} =>
         \A p \in c.mask : get_type_bits_nb(c.type) = Width(p)
    /\ c.op = "write_value_mask" =>
         \A p \in c.mask : Width(p) <= 8 /\ Fits(c.values[p], Width(p))
    /\ c.op = "get_type_mask" => NB_PINS - 1 \notin c.mask
    /\ c.op = "set_failsafe" =>
         get_type_bits_nb(c.type) # 1 /\ FitsFailsafe(c.val, c.type)
    /\ c.op = "set_failsafe_mask" =>
         \A p \in c.mask : FitsFailsafe(c.values[p], c.type)
    /\ c.op = "get_failsafe_mask" =>
         /\ c.mask # {} /\ NB_PINS <= 8 * BITS2BYTES(PIN_TYPE_BITS_NB * Cardinality(c.mask))
         /\ Cardinality(c.mask) <= 100

\* With 9 pins, or 17, the 8, or 16, bits of mask that get_type_mask sends end with
\* a byte and the device reads the last bit of the mask behind the packet.
ASSUME ContractAssumption ==
    /\ Class \in [Pins -> PinType]
    /\ NB_PINS % 8 # 1
    /\ \A c \in Calls : WithinContract(c)

-----------------------------------------------------------------------------
\* A call has taken effect once its request has left the driver's pipe and the
\* device's hands.
Remote == INSTANCE RemotePins WITH
    pins      <- device,
    pending   <- call,
    performed <- call # NoCall /\ driver2device = << >> /\ req = NoPacket,
    answer    <- out

\* Driver, pipes and device implement the remote registers: every call takes
\* effect once, as a whole, on the pins it names and on no other, and returns what
\* the pins hold, whatever the processes' interleaving and whoever is killed.
ImplementsRemotePins == Remote!RSpec

=============================================================================
