------------------------------ MODULE Failsafe ------------------------------
(***************************************************************************)
(* Failsafe states (src/src/failsafe.c): a timeout, and for each pin the   *)
(* type and the value it is to take when the driver is silent for longer.  *)
(* In packets they lie one after the other, each as wide as its type says. *)
(***************************************************************************)
EXTENDS Mask

TIMEOUT_BITS_NB == 16

\* struct failsafe, for the pins of S; pin_state is a uint8_t.
FailsafeOf(S) ==
    [timeout : Word, pin_state : [S -> Octet], pin_value : [S -> Word]]

new_failsafe(S) ==
    [timeout |-> {}, pin_state |-> [p \in S |-> PIN_TYPE_DISABLED],
     pin_value |-> [p \in S |-> {}]]

\* f with the state and the value of some pins replaced: the loops, and the
\* assignments to one pin, that store into pins_failsafe.
store_failsafe(f, timeout, states, values) ==
    [timeout |-> timeout, pin_state |-> store(f.pin_state, states),
     pin_value |-> store(f.pin_value, values)]

\* The pins of S that are written at all.
enabled(f, S) == {p \in S : f.pin_state[p] # PIN_TYPE_DISABLED}

\* The bits that the types and values of the enabled pins of S take.
enabled_bits(f, S) ==
    LET N(w) == Cardinality({p \in enabled(f, S) : get_type_bits_nb(f.pin_state[p]) = w})
    IN  PIN_TYPE_BITS_NB * (N(0) + N(1) + N(8) + N(16)) + N(1) + 8 * N(8) + 16 * N(16)

\* failsafe_nb_bits of the failsafe that sub_failsafe cuts out for the mask m.
failsafe_nb_bits(f, m) == 16 + Cardinality(m) + enabled_bits(f, m)

\* write_failsafe of the same: disabled pins take no place, the others follow
\* each other in the order of the pins.
write_failsafe(offset, f, m) ==
    UNION {LET at   == offset + enabled_bits(f, {q \in m : q < p})
               type == f.pin_state[p]
           IN  write_bit_value({}, at, type, PIN_TYPE_BITS_NB)
                 \cup write_bit_value({}, at + PIN_TYPE_BITS_NB, f.pin_value[p],
                                      get_type_bits_nb(type))
             : p \in enabled(f, m)}

read_type(buffer, offset) ==
    to_uint8(read_bit_value(buffer, offset, PIN_TYPE_BITS_NB))

\* Where read_failsafe finds its n-th entry: every entry says how long it is.
entry_offset(buffer, offset, n) ==
    LET at[k \in 0 .. n] ==
          IF k = 0 THEN offset
          ELSE LET prev == at[k - 1]
               IN  prev + PIN_TYPE_BITS_NB + get_type_bits_nb(read_type(buffer, prev))
    IN  at[n]

\* read_failsafe: one entry for every pin of m, whether or not it was written.
read_failsafe_states(buffer, offset, m) ==
    [p \in m |-> read_type(buffer, entry_offset(buffer, offset, mask_index(m, p)))]

read_failsafe_values(buffer, offset, m) ==
    [p \in m |->
        LET at == entry_offset(buffer, offset, mask_index(m, p))
        IN  read_bit_value(buffer, at + PIN_TYPE_BITS_NB,
                           get_type_bits_nb(read_type(buffer, at)))]

=============================================================================
