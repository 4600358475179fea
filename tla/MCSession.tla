----------------------------- MODULE MCSession ------------------------------
(* Values of the constants of Session for TLC.                             *)
EXTENDS Session, TLC

\* Memory nobody initialised: all zeros, or ones in the first bytes.
MCHeapJunk == {{}, 0..63}

Read(p, mode) == [op |-> "generic_read", pin_id |-> p, pin_mode |-> mode]
Write(p, mode, v) ==
    [op |-> "generic_write", pin_id |-> p, pin_mode |-> mode, val |-> v]
WriteMask(type, values) ==
    [op |-> "write_value_mask", mask |-> DOMAIN values, type |-> type,
     values |-> values]
GetTypeMask(m) == [op |-> "get_type_mask", mask |-> m]
SetType(p, type) == [op |-> "set_type", pin_id |-> p, type |-> type]
GetFailsafe(p) == [op |-> "get_failsafe", pin_id |-> p]
GetFailsafeMask(m) == [op |-> "get_failsafe_mask", mask |-> m]
SetFailsafe(p, type, v) ==
    [op |-> "set_failsafe", pin_id |-> p, type |-> type, timeout |-> {0, 9},
     val |-> v]
SetFailsafeMask(type, values) ==
    [op |-> "set_failsafe_mask", mask |-> DOMAIN values, type |-> type,
     timeout |-> {0, 9}, values |-> values]

LastPin == NB_PINS - 1

\* Every kind of packet, with arguments outside the contract too: a value wider than
\* its type, masks that are empty or hold the last pin, a reset.  Most of the calls that
\* store leave the device as it was, so that the run tells apart where the two processes
\* are and little else.
MCAllCalls ==
    {[op |-> "get_caps"], [op |-> "reset"], [op |-> "ping"],
     Read(0, PIN_TYPE_ANALOG16), Write(0, PIN_TYPE_PWM8, 0..15),
     GetTypeMask({0, LastPin}), GetTypeMask({}), SetType(LastPin, PIN_TYPE_DIGITAL),
     GetFailsafe(0), GetFailsafeMask({}),
     [SetFailsafe(0, PIN_TYPE_DISABLED, {}) EXCEPT !.timeout = {}]}

\* One call for each of the statements of driver.h the code departs from.
MCResetCalls    == {[op |-> "get_caps"], [op |-> "reset"]}
MCTypeMaskCalls == {[op |-> "get_caps"], SetType(LastPin, PIN_TYPE_PWM8),
                    GetTypeMask({0, LastPin})}
MCWriteCalls    == {[op |-> "get_caps"],
                    WriteMask(PIN_TYPE_ANALOG16, (0 :> {0} @@ 1 :> {0, 9}))}

\* Failsafe states that are set and read back: an enabled pin behind a disabled one, a
\* 16-bit value behind the three bits of its type, a mask that needs more bits than
\* three for each of its pins.
MCDisabledMaskCalls == {[op |-> "get_caps"], GetFailsafeMask({0, 1, 2}),
                        SetFailsafeMask(PIN_TYPE_PWM8, (1 :> {0} @@ 2 :> {0, 7}))}
MCWideStateCalls    == {[op |-> "get_caps"], GetFailsafe(3),
                        SetFailsafe(3, PIN_TYPE_ANALOG16, {0, 8, 14})}
MCShortMaskCalls    == {[op |-> "get_caps"], GetFailsafeMask({LastPin}),
                        SetFailsafe(LastPin, PIN_TYPE_PWM8, {0, 7})}

\* A failsafe of one bit for one pin, and for two when one value is wider than its type.
MCDigitalCalls      == {[op |-> "get_caps"], SetFailsafe(3, PIN_TYPE_DIGITAL, {0})}
MCOverWideCalls     == {[op |-> "get_caps"],
                        SetFailsafeMask(PIN_TYPE_DIGITAL, (0 :> {} @@ 1 :> {1}))}

=============================================================================
