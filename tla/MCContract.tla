----------------------------- MODULE MCContract -----------------------------
(* Values of the constants of Contract and Mirror for TLC.  A behavior     *)
(* makes the calls of one family: values, types and failsafe states are    *)
(* kept apart in the code but for the type a write switches.               *)
EXTENDS Mirror, TLC

\* Memory nobody initialised: all zeros, or ones in the first bytes.
MCHeapJunk == {{}, 0..63}

\* Two pins of each width where it matters; the last pin and pins on both sides
\* of a byte boundary among them.
MCClass == [p \in Pins |->
    CASE p = 0 -> PIN_TYPE_PWM16
      [] p = 3 -> PIN_TYPE_ANALOG16
      [] p \in {6, 7, NB_PINS - 1} -> PIN_TYPE_PWM8
      [] OTHER -> PIN_TYPE_DIGITAL]

Op(op) == [op |-> op]
Read(p, mode) == [op |-> "generic_read", pin_id |-> p, pin_mode |-> mode]
Write(p, mode, v) ==
    [op |-> "generic_write", pin_id |-> p, pin_mode |-> mode, val |-> v]
ReadMask(m, type) == [op |-> "read_value_mask", mask |-> m, type |-> type]
WriteMask(type, values) ==
    [op |-> "write_value_mask", mask |-> DOMAIN values, type |-> type,
     values |-> values]
GetType(p) == [op |-> "get_type", pin_id |-> p]
GetTypeMask(m) == [op |-> "get_type_mask", mask |-> m]
SetType(p, type) == [op |-> "set_type", pin_id |-> p, type |-> type]
SetTypeMask(types) ==
    [op |-> "set_type_mask", mask |-> DOMAIN types, values |-> types]

GetFailsafe(p) == [op |-> "get_failsafe", pin_id |-> p]
GetFailsafeMask(m) == [op |-> "get_failsafe_mask", mask |-> m]
SetFailsafe(p, type, timeout, v) ==
    [op |-> "set_failsafe", pin_id |-> p, type |-> type, timeout |-> timeout,
     val |-> v]
SetFailsafeMask(type, timeout, values) ==
    [op |-> "set_failsafe_mask", mask |-> DOMAIN values, type |-> type,
     timeout |-> timeout, values |-> values]

\* Values: 16-bit ones with the end bits set, 8-bit ones, a mask of three 8-bit
\* pins and one of three digital pins.
MCValueCalls ==
    {Op("get_caps"), Op("ping"),
     Write(0, PIN_TYPE_PWM16, {0, 8, 15}), Read(0, PIN_TYPE_PWM16),
     Write(7, PIN_TYPE_PWM8, {0, 7}), Read(7, PIN_TYPE_PWM8),
     Write(1, PIN_TYPE_DIGITAL, {0}), ReadMask({1, 2, 4}, PIN_TYPE_DIGITAL),
     ReadMask({0, 3}, PIN_TYPE_ANALOG16),
     WriteMask(PIN_TYPE_DIGITAL, (1 :> {} @@ 2 :> {0} @@ 4 :> {0})),
     WriteMask(PIN_TYPE_PWM8, (6 :> {0} @@ 7 :> {} @@ NB_PINS - 1 :> {1, 7})),
     ReadMask({6, 7, NB_PINS - 1}, PIN_TYPE_ANALOG8)}

\* Types: of one pin and of pins whose 3-bit fields lie across bytes.
MCTypeCalls ==
    {Op("get_caps"), Op("ping"),
     Write(7, PIN_TYPE_PWM8, {3}), GetType(7), SetType(7, PIN_TYPE_ANALOG8),
     SetTypeMask((0 :> PIN_TYPE_PWM16 @@ 7 :> PIN_TYPE_DISABLED
                    @@ NB_PINS - 1 :> PIN_TYPE_PWM8)),
     SetTypeMask([p \in {1, 2, 3, 4, 6} |-> PIN_TYPE_ANALOG16]),
     GetTypeMask({}), GetTypeMask({0, 3, 6, 7}), GetType(NB_PINS - 1)}

\* Failsafe states: of one pin, of masks of each width, a pin that is disabled again,
\* and a mask whose pins may be disabled, or not, when it is asked for.
MCFailsafeCalls ==
    {Op("get_caps"),
     SetFailsafe(5, PIN_TYPE_PWM8, {0, 15}, {1, 7}),
     SetFailsafe(0, PIN_TYPE_DISABLED, {3}, {}),
     SetFailsafe(3, PIN_TYPE_ANALOG16, {0, 9}, {0, 8}),
     SetFailsafeMask(PIN_TYPE_PWM8, {0, 9}, (3 :> {} @@ 5 :> {7} @@ 7 :> {0})),
     SetFailsafeMask(PIN_TYPE_ANALOG16, {3},
                     (0 :> {0, 7, 8} @@ 5 :> {1, 8} @@ NB_PINS - 1 :> 0..8)),
     SetFailsafeMask(PIN_TYPE_DIGITAL, {3}, (0 :> {0} @@ NB_PINS - 1 :> {0})),
     GetFailsafe(0), GetFailsafe(5), GetFailsafeMask({0, 3, 5, NB_PINS - 1})}

MCCalls == MCValueCalls \cup MCTypeCalls \cup MCFailsafeCalls

VARIABLE family     \* the calls this behavior makes

MCInit == MInit /\ family \in {MCValueCalls, MCTypeCalls, MCFailsafeCalls}
MCNext == MNext /\ call' \in family \cup {NoCall} /\ UNCHANGED family
MCSpec == MCInit /\ [][MCNext]_<<vars, known, family>>

=============================================================================
