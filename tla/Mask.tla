-------------------------------- MODULE Mask --------------------------------
(***************************************************************************)
(* Pin masks (src/src/mask.c) and the value lists that go with them (the   *)
(* list helpers of src/src/bit_utils.c).  A mask, bool[nb_pins] in the     *)
(* code, is the set of its pins.  The arrays of values that accompany a    *)
(* mask hold the value of its k-th pin at index k; here they are functions *)
(* on the pins of the mask, and mask_index gives k back where the layout   *)
(* of a packet needs it.                                                   *)
(***************************************************************************)
EXTENDS Protocol, FiniteSets

\* A pin id is below nb_pins, a uint8_t.
PinIds == {p \in Nat : p < 255}

\* mask_nb_pins_used: the uint8_t counter cannot wrap, a mask has at most 255 pins.
mask_nb_pins_used(m, mask_length) == Cardinality({p \in m : p < mask_length})

\* Rank of pin in the loops over mask_next_pin_used.
mask_index(m, pin) == Cardinality({q \in m : q < pin})

\* write_mask: one bit per pin, from the start of the buffer.
write_mask(buffer, m, mask_length) == buffer \cup {p \in m : p < mask_length}

\* read_mask.
read_mask(buffer, offset, mask_length) ==
    {p \in 0 .. mask_length - 1 : offset + p \in buffer}

\* Where the value of a pin of the mask lies in a list that starts at offset.
value_offset(offset, m, pin, value_size) ==
    offset + value_size * mask_index(m, pin)

\* write_value_list: each write only adds one-bits, so the writes add up.
write_value_list(buffer, offset, m, values, value_size) ==
    buffer \cup UNION {write_bit_value({}, value_offset(offset, m, p, value_size),
                                       values[p], value_size) : p \in m}

\* read_value_list.
read_value_list(buffer, offset, m, value_size) ==
    [p \in m |-> read_bit_value(buffer, value_offset(offset, m, p, value_size),
                                value_size)]

\* f with the entries of g in place of its own: the loops that store a list.
store(f, g) == [p \in DOMAIN f |-> IF p \in DOMAIN g THEN g[p] ELSE f[p]]

=============================================================================
