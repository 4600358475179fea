----------------------------- MODULE RemotePins -----------------------------
(***************************************************************************)
(* What driver.h promises an application, with neither packets nor         *)
(* processes: the pins of a remote device are registers, a call takes      *)
(* effect on them once and as a whole between its invocation and its       *)
(* return, and returns what they hold.  A call may also never return.      *)
(***************************************************************************)
EXTENDS Failsafe

CONSTANTS
    Calls,      \* the calls an application may make, as in module Driver
    Pins        \* the pins of the device

VARIABLES
    pins,       \* type and value of every pin, and the failsafe states
    pending,    \* the call in progress, or NoCall
    performed,  \* whether it has taken effect
    answer      \* what the last call returned

rvars == <<pins, pending, performed, answer>>

NoCall   == [op |-> "none"]
NoAnswer == [vals |-> << >>, types |-> << >>, timeout |-> {}]

\* One pin with one value.
Only(p, v) == [q \in {p} |-> v]

\* The values c stores on pins, the types, and the failsafe states.
NewVals(c) ==
    CASE c.op = "generic_write"    -> Only(c.pin_id, c.val)
      [] c.op = "write_value_mask" -> c.values
      [] OTHER                     -> << >>
NewTypes(c) ==
    CASE c.op = "generic_write" -> Only(c.pin_id, c.pin_mode)
      [] c.op = "set_type"      -> Only(c.pin_id, c.type)
      [] c.op = "set_type_mask" -> c.values
      [] OTHER                  -> << >>
NewFailsafe(c, f) ==
    CASE c.op = "set_failsafe" ->
           store_failsafe(f, c.timeout, Only(c.pin_id, c.type), Only(c.pin_id, c.val))
      [] c.op = "set_failsafe_mask" ->
           store_failsafe(f, c.timeout, [p \in c.mask |-> c.type], c.values)
      [] OTHER -> f

\* What c returns when the pins are s: f restricted to the pins it names.
Named(c) ==
    IF c.op \in {"generic_read", "get_type", "get_failsafe"} THEN {c.pin_id} ELSE c.mask
Of(f, c) == [p \in Named(c) |-> f[p]]
Answer(c, s) ==
    CASE c.op \in {"generic_read", "read_value_mask"} ->
           [NoAnswer EXCEPT !.vals = Of(s.pins_val, c)]
      [] c.op \in {"get_type", "get_type_mask"} ->
           [NoAnswer EXCEPT !.types = Of(s.pins_type, c)]
      [] c.op \in {"get_failsafe", "get_failsafe_mask"} ->
           [vals |-> Of(s.failsafe.pin_value, c), types |-> Of(s.failsafe.pin_state, c),
            timeout |-> IF c.op = "get_failsafe" THEN {} ELSE s.failsafe.timeout]
      [] OTHER -> NoAnswer

\* A mask of failsafe states is answered for when none of its pins is disabled.
Answerable(c, s) ==
    c.op = "get_failsafe_mask" =>
       \A p \in c.mask : s.failsafe.pin_state[p] # PIN_TYPE_DISABLED

RInit ==
    /\ pins = [pins_type |-> [p \in Pins |-> PIN_TYPE_DIGITAL],
               pins_val  |-> [p \in Pins |-> {}],
               failsafe  |-> new_failsafe(Pins)]
    /\ pending = NoCall
    /\ performed = FALSE
    /\ answer = NoAnswer

Invoke(c) ==
    /\ pending = NoCall
    /\ pending' = c
    /\ performed' = FALSE
    /\ UNCHANGED <<pins, answer>>

Perform ==
    /\ pending # NoCall
    /\ ~performed
    /\ performed' = TRUE
    /\ pins' = [pins_type |-> store(pins.pins_type, NewTypes(pending)),
                pins_val  |-> store(pins.pins_val, NewVals(pending)),
                failsafe  |-> NewFailsafe(pending, pins.failsafe)]
    /\ UNCHANGED <<pending, answer>>

Return ==
    /\ pending # NoCall
    /\ performed
    /\ pending' = NoCall
    /\ performed' = FALSE
    /\ Answerable(pending, pins) => answer' = Answer(pending, pins)
    /\ UNCHANGED pins

RNext == (\E c \in Calls : Invoke(c)) \/ Perform \/ Return

RSpec == RInit /\ [][RNext]_rvars

=============================================================================
