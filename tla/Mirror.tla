------------------------------- MODULE Mirror -------------------------------
(***************************************************************************)
(* What the mirror of the device in struct connection is good for between  *)
(* calls.  The driver has no other use for the reply of a write than that  *)
(* it came, so the mirror is right only about what a call has told it, and *)
(* until a call the mirror does not follow changes it: a history variable  *)
(* keeps account.                                                          *)
(***************************************************************************)
EXTENDS Contract

VARIABLE known     \* what an application may take from the mirror

Nothing == [vals |-> {}, types |-> {}, failsafe |-> {}, timeout |-> FALSE]

\* A read or a write of values tells them.
KnownVals(c) ==
    IF c.op \in {"generic_read", "read_value_mask", "generic_write", "write_value_mask"}
      THEN known.vals \cup Named(c) ELSE known.vals

\* A write to one pin that switches its type on the device does not tell the mirror.
KnownTypes(c) ==
    CASE c.op \in {"get_type", "get_type_mask", "set_type", "set_type_mask"} ->
           known.types \cup Named(c)
      [] c.op = "generic_write" ->
           {p \in known.types : p = c.pin_id => conn.pins_type[p] = c.pin_mode}
      [] OTHER -> known.types

\* get_failsafe leaves the mirror alone, and so does get_failsafe_mask the timeout;
\* a mask that names a disabled pin leaves garbage behind.
KnownFailsafe(c) ==
    CASE c.op \in {"set_failsafe", "set_failsafe_mask"} -> known.failsafe \cup Named(c)
      [] c.op = "get_failsafe_mask" ->
           IF Remote!Answerable(c, device) THEN known.failsafe \cup c.mask
                                           ELSE known.failsafe \ c.mask
      [] OTHER -> known.failsafe

\* What is known once c has returned: get_caps starts with fresh arrays.
KnownAfter(c) ==
    IF c.op = "get_caps" THEN Nothing
    ELSE [vals     |-> KnownVals(c),
          types    |-> KnownTypes(c),
          failsafe |-> KnownFailsafe(c),
          timeout  |-> known.timeout \/ c.op \in {"set_failsafe", "set_failsafe_mask"}]

MInit == Init /\ known = Nothing

MNext ==
    /\ Next
    /\ known' = IF call # NoCall /\ call' = NoCall THEN KnownAfter(call) ELSE known

MSpec == MInit /\ [][MNext]_<<vars, known>>

-----------------------------------------------------------------------------
\* Between two calls the mirror of every known entry is what the device holds, as
\* test_communication.c asserts of the entries it has just written ("After a
\* successful set, all stored values should be adapted").
MirrorAgrees ==
    drv = "idle" =>
       /\ \A p \in known.vals : conn.pins_val[p] = device.pins_val[p]
       /\ \A p \in known.types : conn.pins_type[p] = device.pins_type[p]
       /\ \A p \in known.failsafe :
             /\ conn.failsafe.pin_state[p] = device.failsafe.pin_state[p]
             /\ conn.failsafe.pin_value[p] = device.failsafe.pin_value[p]
       /\ known.timeout => conn.failsafe.timeout = device.failsafe.timeout

=============================================================================
