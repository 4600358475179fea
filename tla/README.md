# A TLA+ development of ProjetSE

ProjetSE drives the pins of a remote board. An application links the driver library
(`src/driver/driver.c`); the board, or on a host a second process, runs the firmware
(`src/firmware/`). They exchange packets of packed bits over two named pipes (the host
build) or a serial line (the EMBEDDED build). This directory models both: the packing
of bits, the packets, the two processes and what they promise together, processes that come
and go around the pipes, and the interrupt and the blocking read of the serial line.

Paths below are relative to the repository (`src/` holds `driver/`, `firmware/`, `src/`,
`include/`); line numbers are those of this commit.

## 1. Inventory

| component | code | state | operations |
|---|---|---|---|
| bit packing | `src/bit_utils.c` | none | `write_bit_value`, `read_bit_value`, value lists, display |
| protocol | `src/protocol.c`, `include/protocol.h` | none | headers, `packet_write`, `packet_read`, sizes, checksum |
| pin masks | `src/mask.c` | a mask: an array of bits | `new_mask`, `mask_next_pin_used`, `mask_nb_pins_used`, `write_mask`, `read_mask` |
| connection | `src/connection.c` | two descriptors; the driver's mirror of the device (caps, types, values, failsafe) | `connection_open`, `connection_close`, `connection_init_resources`, `connection_write`, `connection_read`, `send_packet` |
| device state | `src/device_state.c` | static `ID`, the next reply id | `get_reply_id`, `read_device_caps` |
| driver API | `driver/driver.c`, `driver.h` | the mirror, through the connection | `get_caps`, `reset`, `ping`, reads and writes of a pin or a mask, their types, failsafe values and timeouts |
| firmware | `firmware/firmware.c`, `firmware/src/firmware_packet_process.c` | `device->state`, the connection, `ID` | `init_communication`, `mainloop`, one handler per command, `end_communication` |
| failsafe | `src/failsafe.c` | per pin: type and value; a timeout | `new_failsafe`, `sub_failsafe`, `failsafe_nb_bits`, `write_failsafe`, `read_failsafe` |
| embedded serial line | `firmware/src/uart.c`, `io_utils.c`, interrupt in `firmware.c` | a receive array and its indices | transmit, blocking read, receive interrupt |
| tests, build files, report | `*/tests/`, `test_utils.c`, `Makefile`s | – | – |

**Interactions.** The two processes share nothing but the pipes. A driver call writes one
request, blocks in `read_reply`, reads one reply, updates the mirror and returns. The
firmware reads one request, runs one handler, writes (usually) one reply. There is no
thread, no timeout, no retry and no sequence number that anybody compares: reply ids are
produced (`device_state.c:10`) and read, but the comparison is commented out
(`driver.c:28`).

**What is hard here.**
- *Liveness by convention.* `read_reply` waits for ever; every handler must answer exactly
  once, and the death of the device must be noticed.
- *A byte stream decoded one packet per read.* `connection_read` asks for `BUFF_SIZE`
  bytes, decodes the first packet and drops the rest: correct only if a second packet is
  never there.
- *Blocking opens.* Each `open()` of a FIFO waits for the other side's.
- *Either side dying at any point*: SIGPIPE on write, end of file on read, FIFOs that stay.
- *Arithmetic of positions.* Fields of 1, 3, 8 and 16 bits laid back to back, offsets that
  depend on the mask and the number of pins; sizes rounded to bytes in several places, each
  by hand, on both sides.
- *Mirror against device*: the driver stores what it asked for, not what was done.
- *Names outlive processes.* FIFO files stay when a device is killed, and are unlinked by
  name when one ends; ends, packets and blocked opens of one generation meet the next one.
- *An interrupt and a loop share two indices* that are not volatile, with no bound on the
  array behind them, and a line that may lose or change bytes.

**What makes each component correct.** Bit packing: what is written is read back, and
nothing around it changes. Protocol and masks: both sides compute the same layout, and the
size sent covers all of it. Connection: opens meet; a packet fits the buffer; one packet at
a time. Driver and firmware: a call takes effect once and whole on the pins it names,
returns what the device holds, always returns or ends, and leaves the mirror in agreement.
Failsafe: what is set comes back (no code applies it when the timeout runs out). Serial
line: every received byte is read once and in order, a request is performed once.

`PROJECT.json` lists every hazard at its line with the properties that watch over it;
those without one say what they wait for.

## 2. Modules

```
BitUtils           bit packing in closed form         BitUtilsProofs ---.
  |        \                                              |            |
  |     BitLoops   the C loops           MCBitLoops       |      BitLoopsProofs
Protocol                                                  |
  |    \                                                  |
  |    Mask        masks, lists                           |
  |     |                                                 |
 Link  Failsafe    pipes, opens | failsafe states     PacketProofs
  |  \ / |                                                |
Driver  Firmware   the two processes                      |
     \  /                                                 |
    Session        both, from start to end  MCSession  SessionProofs
       |                                                  |
    Contract  --INSTANCE-->  RemotePins                   |
       |                                                  |
    Mirror         what the mirror is good for MCContract ContractProofs

Restarts           devices and applications that come     RestartsProofs
                   and go around two file names
Serial    --INSTANCE-->  ByteQueue    interrupt,          SerialProofs
                   blocking read, transmitter
Checksum           one packet, byte for byte, on a        ChecksumProofs
                   line that changes a byte
```

**BitUtils.** A buffer is the set of positions of its one-bits; a 16-bit value the set of
its one-bits. So `|=` is union and shifting is translating, and the loops have closed
forms – including their two irregularities: the first chunk of a write is not masked to the
field (bits of an oversized or negative value land in front of it, inside the first byte),
and a read across three bytes shifts its first chunk twice.

**BitLoops** is the other half of that claim: the loops of `bit_utils.c` pass by pass, with
the variables of the C code, fixed-width arithmetic and sign extension included. A byte of
the buffer is kept as the set of its bits, which is what `|=` works on, and turned into a
number where the code computes with it. The closed forms are checked and proved to be what
the loops do, so all other modules can use them.

**Protocol.** A packet is `[cmd, param, size, data]`, data as a set of bits. The
constructor `packet` cuts data at `size` bytes, because `packet_write` copies that many:
a buffer declared too small in the code loses its tail in the model. The size is a
`uint16_t`. `received` (in Link) adds what lies *behind* the data of a received packet to
it, because the code reads on without looking at the size: any content of `HeapJunk`.

**Mask.** A mask is a set of pins. Counting, ordering and the offset of the k-th value are
as in `mask.c` and in the value lists. The position of a value depends on the number of
pins of the mask below its pin, on both sides.

**Link.** `drv` and `dev` say where each process is; `opened` holds the ends of the FIFOs
whose `open()` was entered; `fifos` whether the two files exist (initially any: a device
killed earlier leaves them); the pipes are sequences of packets. `unread` is what
`connection_read` leaves behind: nothing.

**Driver.** `connection_open` in three steps (one per blocking open), `connection_close`,
and each API function in two: `send_packet(c)` builds the request of call `c`, and the
action named after the function is all that it does from the reply to its return. Between
the two the process is blocked and shares its memory with nobody. `ReturnStoring` is the
write into the mirror: a null pointer before the first `get_caps`, so the process dies.

**Firmware.** `init_communication` and the two opens; `mainloop_read`; one action per
handler up to the write of its reply; `mainloop_end` (end of file, FIFOs unlinked). A reply
to a driver that is gone is SIGPIPE: the device dies. `HeapJunk` shows up wherever the
handler reads beyond the request.

**Failsafe.** `write_failsafe` and `read_failsafe` as they are: the writer skips disabled
pins, the reader expects an entry for every pin and takes from each how long it is.
`sub_failsafe` is folded into the operators that take a mask. The four calls and the two
handlers are in Driver and Firmware like the others. The Makefile's default flag
`-DDISABLE_FAILSAFE` is the choice of a `Calls` without those four.

**Session** composes them, states the fairness and the properties. **RemotePins** is the
abstract specification: pins are registers; a call is invoked, takes effect once, returns
what the registers hold. **Contract** says under which arguments the code implements it,
with the refinement mapping: the pins are the device's, and a call has been performed once
its request is neither in the pipe nor in the device's hands.

**Mirror** adds a history variable, `known`: what an application may take from the driver's
copy of the device. A read or write tells about values, the type calls about types; a write
to one pin that switches its type on the device makes the mirrored type *un*known;
`get_caps` forgets everything; `get_failsafe_mask` over a disabled pin leaves garbage.

**Restarts** takes the system calls apart. A process is the list of calls it has yet to make
(`firmware_main`, `application`), so a kill, another device's `unlink` or another driver's
`open` may come between any two; `open()` is entered and returns in two steps, the two `close`
of `connection_close` are two, and a FIFO's packets are lost with its last end. What the kernel
closes for a process that ends is closed in one step. A request is its sender and a number,
since what packets hold is Session's subject. It has what Session leaves out: a second device
or application, names of killed devices, opens that fail, the end of `init_communication` that
frees the connection and goes on (`dangling`), ends closed by `exit`.

**Serial** is the EMBEDDED build below `connection_read`: `ISR`, `read`, `uart_write` with the
data register, and a host that follows `driver.c`: its read returns with the bytes that have
come, half a header ends it (`exit(1)`), and a reset gets no reply. The array's indices are
shared without `volatile`, so `hoisted` is whether the build keeps `last_write` in a register
over a loop that finds nothing new. **ByteQueue** is what the array promises: bytes come out
once, in order. **Checksum** gives a packet its bytes and has one changed on the way.

| code | model |
|---|---|
| `struct connection` of the driver | `conn` (`caps.pins_mask_type`, `state.pins_state` as two functions) |
| a call on the application's stack | `call`; its out-parameters, `out` and `version` |
| `device->state` | `device` |
| static `ID` in `device_state.c` | `ID` |
| `p` in `mainloop` | `req` |
| kernel: FIFOs, processes | `opened`, `fifos`, `driver2device`, `device2driver`, `drv`, `dev` |
| the same, per process | Restarts: `todo`, `name`, `data`, `fd_in`, `fd_out`, `woken` |
| `fifo_receiver`, `UDR` | Serial: `array`, `last_write`, `last_read`, `udr` |

## 3. Runs

| run | question | instance | states |
|---|---|---|---|
| `bitloops` | are the closed forms what the loops do, and is a field of two bytes read back? | every offset 0..15, width 0..16, 18 values (boundaries of each width, the tests' values, negative ones), two surroundings | 46 656 |
| `lifecycle` | `TypeOK`, `StopAndWait`, `OpensMeet`, `PacketsFit`; does a call return, does an orphaned device stop? | 16 pins, 11 calls, one or more for each command, either process killed at any time | 29 542 |
| `contract` | refinement of RemotePins; is the mirror right about what it has been told? | 10 pins, 29 calls in three families | 819 643 |
| `restarts` | names, opens, replies and requests when processes are killed and started again | two devices, two applications of at most two calls each, three regimes, kills between any two system calls | 98 426 |
| `serial` | is the array a queue; is a request performed once; do replies leave whole? | a read of 4 bytes, requests of 2 and 3, an array of 8, one corrupted byte, a reset, an impatient host, `last_write` loaded anew or not | 264 092 |
| `checksum` | is what arrives whole accepted, and one changed byte found out? | data of 0 to 2 bytes, 6 byte values with carries and wraps | 18 258 |
| `reset_hangs` | `driver.h:41`: does `reset` come back? **No** | 16 pins, crashes | |
| `write_mask_16` | `README.md:28`: are values received as written? **No** | 16 pins | |
| `failsafe_disabled` | `driver.h:65`: are failsafe states read back as the device holds them? **No**, behind a disabled one | 16 pins, a mask of three | |
| `stale_reply` | `driver.c:15`: is a reply the one to the request? **No** | one device, two applications | |
| `failed_open` | `README.md:26`: has a device that serves its two pipes open? **No**, beside a device that ends | two pairs, regime `script`, no kill | |
| `serial_ping` | `driver.h:44`: does a board answer a ping? **No** | one ping, no noise | |

In `bitloops` every combination is an initial state and the loops run to their end. In
`contract` a behavior keeps to one family of calls, chosen at its start (`family`): values
and types; types, masks of types; failsafe states. The code keeps the three apart but for
the type that a write switches, and each family has that write or no type of its own.

**Properties.**
- `StopAndWait` – never two packets on their way, and one only while its call is pending.
  This is what makes it harmless that the code drops the rest of a read and ignores reply
  ids. It relates both pipes, the request in the device's hands and the call.
- `OpensMeet` – when both processes are in `open()`, one of them can go on.
- `PacketsFit` – a packet in a pipe is at most `BUFF_SIZE` bytes.
- `Answered` – the driver does not stay in `read_reply`, but for a reset. `DeviceStops` – a
  device whose driver is gone stops. Both with processes killed at any time.
- `ImplementsRemotePins` – refinement of RemotePins: each call takes effect exactly once, as
  a whole, on the pins named and no other, and returns what they hold.
- `MirrorAgrees` – between calls the mirror of everything `known` is what the device holds.
- `NamesLead` – a device that waits for a driver is found by it, whatever a killed one left
  and whatever drivers do: the names lead to the files it has open. Devices may run side by
  side here; only one that has come to its end beside it (`Alone`) can take its names.
- `FreedTwiceOnlyBeside` – the same for the connection: a device frees it twice only beside
  another one that has freed its own.
- `AtMostOnce` – no request is performed twice, whoever is killed, started again or reads
  the same FIFO. `RepliesOwnOrOrphaned` – a reply goes to its own request; another one is
  taken only behind an application that was over before it had its own, and never from a
  clean start.
- `OpensComplete`, `CallReturns` – from a clean start, but with whatever files a killed
  device left, the opens of a pair complete, and a call does not stay in `read_reply`.
- `ImplementsByteQueue` – refinement of ByteQueue by interrupt, indices and loop, also when
  the build keeps `last_write` in a register. `ReadReturns` – when it does not, a read for
  which enough bytes have come returns.
- `ServedInOrder` – no request is performed twice or after a later one, although the rest
  of a read is dropped, bytes are lost and corrupted and the host asks again.
  `RepliesWhole` – no byte of a reply is lost in the data register.
- `Intact`, `OneByteDetected` – what the checksum is worth: one changed byte gets through
  only when the size is hit and the checksum is looked for elsewhere.
- `WriteClosedForm`, `ReadClosedForm`, `FieldRoundTrip` – see BitLoops.
- In the violating runs: `ReadBackExact` and `StoredExact` – when a call returns, what the
  application has been told of pins, or has asked for, is what the device holds; disabled
  failsafe states are left out. `ResetReturns`, `RepliesOwn`, `PingAnswered`, and
  `PipesOpened` – a device that serves has its two pipes and its connection – are the other
  statements of the comments and of README.md that the code departs from.
- `TypeOK` – each variable within its C type; its substance is the wrap of `ID` (Session)
  and that a device that serves has a request (Restarts).

Each has a mutant in `PROJECT.json`: a plausible bug in the modelled code (`..._eager`,
`..._unsaved`, `..._short`, ...) under which the run fails.

**Bounds, and why they suffice.**
- `IdModulus`/`IdRestart`: 2/1 in place of 256/16. Nobody compares ids, so what matters is
  that the wrap happens and where it restarts; the theorems hold for 256.
- `NB_PINS`: 16 as in `firmware.c:18`; 10 so that lists start, and masks end, inside a
  byte. `PacketsFit` is proved for all numbers of pins up to 255.
- `Calls`: each covers a handler, a width (1, 3, 8, 16 bits), the first and last pins, and
  masks on both sides of a byte boundary; calls can follow each other in any order for any
  number of times. In `lifecycle` they include those outside the contract (too wide a
  value, the last pin, empty masks, `reset`, calls before `get_caps`).
- `HeapJunk`: all zeros, or ones in the first 8 bytes. What is read behind a packet is
  a handful of bits; these two differ in all of them.
- Pipes need no bound: `StopAndWait`.
- `DevicesNb`, `DriversNb`, `Calls` = 2 (Restarts): one generation leaves files, ends and
  packets, and the next one meets them; the second call of an application is the one that
  sees a reply that is one behind. `Regimes` is when the next process may start: `clean`,
  after everything earlier is over; `device`, a device again while its application goes on;
  `script`, the two commands of `README.md:35` given again, where the shell waits for the
  application only.
- `FIFO_SIZE`, `BUFF_SIZE`, `Sizes`, `OVERHEAD_SIZE`, `MaxSent` (Serial): 8, 4, {2, 3}, 2, 3
  for 200, 42, 4 to 40, 4, any number: a read takes parts of two requests, or two whole
  ones, and the third request may be the one that overruns the array. `Resets`: the second
  request. `Noise`: one corrupted byte; lost bytes come from a device that is not yet, or no
  longer, listening.
- `Bytes`, `DataSizes` (Checksum): sums that carry and wrap, with the real buffer of 42.

**Fairness.** `Session!Fairness`: weak fairness of what each process does by itself: its
blocked opens and reads that can complete, handlers, returns. The kernel guarantees it.
There is none for the application (it may never call, or never close), for the start of
the device, nor for kills. Weak fairness is enough as a process once enabled stays so:
nobody else takes its packet. `Restarts!FairSpec`: the same, for each process by itself.
`Serial!FairSpec`: the processor executes its program, the interrupt is served, the
transmitter shifts out, the host reads what has come; nothing makes the host send or give up.

**Deadlock** is checked in `lifecycle` and `contract`, and in the violating runs on Session:
`Finished` names the two ways to stop, both processes over, or a device that waits in
`open` for a driver whose `connection_open` failed. It is not checked in `bitloops` and
`checksum`, where one computation ends, in Restarts, where everything may be over or wait
in an open that nobody answers, and in Serial, where the device waits for bytes.

### Findings

Each is what one of the violating runs shows.

1. **`reset` never returns** (`firmware_packet_process.c:24`). The handler is empty, the
   driver waits for an answer. `driver.h:41` promises that the connection is reinitialised.
2. **Lists of 16-bit values lose their high byte** (`firmware_packet_process.c:101`), while
   the mirror keeps the whole: neither what was written nor in agreement.
3. **Failsafe states behind a disabled pin come back shifted** (`failsafe.c:58`): the
   writer skips disabled pins, the reader does not. With pin 0 disabled and 1 and 2 set, pin
   0 gets the entry of 1, 1 that of 2, and 2 the zeros behind.
4. **A reply may be another application's** (`driver.c:28`): an application killed in its
   call leaves a request behind; its reply is taken by the next one, and nobody compares ids.
5. **A device goes on without its connection** (`firmware.c:70`, `firmware.c:84`): with the
   commands of `README.md:35` given again, a second device may start while the first is still
   in `end_communication`. The first unlinks the names of the second, whose next open fails:
   it closes and frees the connection, enters `mainloop` with it and frees it again.
6. **An embedded board answers no ping** (`io_utils.c:26`): its read waits for 42 bytes, a
   ping has 5, and the driver sends no more until it is answered.

The same modules, and the same properties, show more of the kind when the constants of these
runs are changed (`Calls` of Session for the first five, definitions of MCSession; `NB_PINS`
and the rest as in `failsafe_disabled.cfg`):

- `get_type_mask` leaves out the last pin (`driver.c:273`, marked `TODO check: why -1?`
  there): its mask is one bit short, the device does not answer for that pin, and its type is
  read from the bits behind the others. They are the zeros that pad the last byte of the
  reply, so that the pin is taken for digital, or, when the other types fill that byte (3
  pins in the mask, say), memory behind the reply. `MCTypeMaskCalls`, `ReadBackExact`.
- A 16-bit failsafe value comes back changed (`bit_utils.c:58`): in the reply to
  `get_failsafe` it lies at bit 27, across three bytes, where `read_bit_value` shifts its
  first chunk twice. The values of the contract therefore stay below 2^9.
  `MCWideStateCalls`, `ReadBackExact`.
- `get_failsafe_mask` of few pins sends less of its mask than the device reads
  (`driver.c:386`): 3 bits for each pin named, where the mask has one for each pin there is.
  `MCShortMaskCalls`, `ReadBackExact`.
- `set_failsafe` of a digital pin does not send its value (`driver.c:422`): the size is 3
  bytes and the value is in the fourth. `MCDigitalCalls`, `StoredExact`.
- A value wider than its type sets the pin in front of it (`bit_utils.c:31`), although
  `failsafe.h:11` says that it is read modulo the width. `MCOverWideCalls`, `StoredExact`.
- A device that ends hides the one beside it (`firmware.c:84`): it may also unlink the names
  while the second one waits in `open()`, and no driver finds that one any more. `NamesLead`
  without `Alone` (`PipesFound` in `failed_open.cfg`).
- A call outlives its device (`driver.c:19`): when a device dies with a request and another
  one opens the FIFO before the driver has read end of file, the driver waits for ever.
  `CallReturns` without its regime (`CallReturnsAlways`, `FairSpec`, `Regimes = {"device"}`
  and kills).

Further departures:

- `driver.h:95` says that a typed read sets the type first; `generic_read` does not
  (`driver.c:86`; the action `generic_read` and `reply_read` leave every type alone).
- The receiver's array is overrun after 200 bytes, whatever was read of them
  (`firmware.c:146`): the state `overrun` of Serial is reached in `serial`. Byte 201 lands
  in the indices themselves.

### The contract

`Contract!WithinContract` collects what an application has to respect for the remote
registers to be implemented: no `reset`; one width per pin; values that fit; lists of at
most 8-bit values; no last pin in `get_type_mask`; not 9, 17, ... pins (with those the
device reads the last bit of a `get_type_mask` mask behind the packet); for failsafe states,
no digital pin in `set_failsafe`, 16-bit values below 2^9, and in `get_failsafe_mask` masks
of enough pins for the mask to fit the buffer and of at most 100 (the reply's size is kept
in a `uint8_t`), whose answer counts only if none of them is disabled. None of this is
written in `driver.h`.

## 4. Proofs

Checked by TLAPS for every value of the constants the assumptions admit: every number of
pins up to 255, every modulus of ids, every set of calls, every content of uninitialised
memory, with or without crashes; any number of processes; any size of array, read and
packet. Every safety property of the passing runs is proved, refinements included.

| theorem | says | inductive invariant |
|---|---|---|
| `BitUtilsProofs!RoundTrip`, `NeighboursKept` | a value no wider than its field, in a field of two bytes at most, is read back, and changes no bit outside it | (closed forms, no state) |
| `BitLoopsProofs!WriteClosedFormHolds`, `ReadClosedFormHolds` | the loops compute the closed forms | `LoopInv` |
| `BitLoopsProofs!FieldRoundTripHolds` | what one loop writes the other reads back | `LoopInv`, `RoundTrip` |
| `SessionProofs!TypeCorrect` | `Spec => []TypeOK` | `TypeOK` as stated |
| `SessionProofs!StopAndWaitHolds` | `Spec => []StopAndWait` | `StopAndWaitInv` |
| `SessionProofs!OpensMeetHolds` | `Spec => []OpensMeet` | `OpensInv` |
| `SessionProofs!PacketsFitHolds` | `Spec => []PacketsFit` | `PacketsFit`, given `TypeOK` |
| `ContractProofs!ImplementsRemote` | `Spec => ImplementsRemotePins` | `ContractInv` |
| `ContractProofs!MirrorAgreesHolds` | `MSpec => []MirrorAgrees` | `MirrorInv` |
| `RestartsProofs!RestartsTypeHolds` | `Spec => []TypeOK` | `TodoInv`, `DataType`, `EndsInv`, `UnopenedInv`, `HeldInv`, `InUseInv` |
| `RestartsProofs!RestartsAtMostOnce` | `Spec => []AtMostOnce` | `RolesInv`, `OnceInv`, `SentInv`, `UnservedInv` |
| `RestartsProofs!RestartsNamesLead`, `RestartsFreedTwice` | `Spec => []NamesLead`, `Spec => []FreedTwiceOnlyBeside` | `OrderInv`, `AloneInv` |
| `RestartsProofs!RestartsRepliesOwn` | `Spec => []RepliesOwnOrOrphaned` | `FreshInv`, `AwaitedInv`, `CleanInv` |
| `SerialProofs!SerialImplementsByteQueue` | `Spec => ImplementsByteQueue` | `FifoInv` |
| `SerialProofs!SerialServesInOrder` | `Spec => []ServedInOrder` | `StreamInv`, `ServedInv` |
| `SerialProofs!SerialRepliesWhole` | `Spec => []RepliesWhole` | `ReplyInv` |
| `ChecksumProofs!ChecksumIntact`, `ChecksumDetectsOneByte` | the two properties of Checksum | `OnTheLine` |

**Bits.** `LoopInv` says for every pass which bits of the buffer are written and which bits
of the caller's value are still in `val`; for the read, the three stages of `val`: nothing,
the first chunk, the first chunk shifted a second time with a whole byte behind it. Below it
lie lemmas on what `>>`, `<<`, the casts and a sum do to one bit of a number (`BitShiftRight`
to `BitsOfOctet`); the powers of two up to 2^23 they need are unfolded case by case. The
loops have at most three passes, so the invariant replaces an induction on the width.

**A session.** *StopAndWaitInv*: `StopAndWait` alone does not survive the start of a call –
an idle driver might have a call pending and its packet on its way. Adding that no call is
pending unless the driver waits (or has ended) gives that nothing is on its way when a call
starts. *OpensInv*: which ends are opened is exactly how far each process has come. A driver
in its first open has opened its input, a device in its first open its output, and these are
the two ends of one FIFO: neither can wait for an end that only the other's next step opens.
*PacketsFit*: by the sizes of each request and reply. A list of 255 values of 16 bits with
its mask takes 255 + 255·16 bits, 542 bytes, under 612 with the overhead. The empty mask is
a case of its own: the count goes through an unsigned `- 1`, the size is 2^29 + 1, and the
`uint16_t` keeps 1. The failsafe calls are part of all of these: entries of variable length
keep the type invariant because an entry's position is a natural number whatever the types
say (`PacketProofs!FailsafeType`), and fit because each takes at most 19 bits.

**The refinement.** The mapping takes the pins from the device and says that a call is
performed once its request has left pipe and device. `ContractInv` is what lets both sides
understand each other: a request in the pipe, or in the device's hands, is that of the
pending call, and a reply *tells* – whatever the receiver's memory holds behind it – what
the call asks for (`Told`), while the pins hold values of their width (`PinsFit`). It rests
on `PacketProofs`: a field, a list of values at any offset, a mask and the failsafe entries
of a mask are read from a packet as they were written (`ListReceived`, `MaskReceived`, ... in
ContractProofs).
Then each handler is the step of RemotePins that performs the call (`DeviceContract`), each
return its `Return` (`DriverContract`), every other step a stutter. Each clause of
`WithinContract` is used; the proof found two of them wrong: one on the alignment of failsafe
lists was not needed, and the bound of 100 pins on `get_failsafe_mask` was missing.

**The mirror.** `MirrorAgrees` speaks of an idle driver only. `MirrorInv` follows the mirror
through a call: what is known is right except on what the pending call has changed on the
device and not yet told the mirror, and what it has changed is what it asked for (`Took`,
`ValsAgree`, `TypesAgree`, `FailsafeAgrees`).

**Restarts.** Where each process can be in its calls (`TodoInv`); no end is held by a process
that has not opened it; `InUseInv` counts the files in use against the `mkfifo` that can have
been made, so there is always a file left. A file never carries both requests and replies
(`RolesInv`), so each request, or its reply, is in one place (`OnceInv`), and what is in a
request FIFO is not served (`UnservedInv`). `AloneInv`: a device beside which none has freed
its connection goes once through its calls and finds the names it has made, as a name is
removed only by a device that has freed its connection (`UnlinksFreed`); so nothing has to be
assumed of when devices are started. `AwaitedInv`: what is in flight is awaited by its sender,
or comes behind an application that was over too early.

**Serial.** `FifoInv`: the array up to `last_write` is what the interrupt took, what `read`
returned is its first `last_read` bytes, and the index the loop compares with, loaded anew or
not, lies between the two. `StreamInv`: first bytes stay in order on the line and in the
array; `ServedInv`: a request that was performed began among the bytes of an earlier read.
`ReplyInv` places each byte of a reply in the register, or with the host.

**Checksum.** The sum over the data is a recursive function; that it is additive, and that one
changed byte changes it by less than 256, is proved by least counterexample
(`ChecksumProofs!Smallest`).

**Assumptions**, named in the modules: `LinkAssumption` (memory has some content),
`CallsAssumption` (arguments are what the prototypes admit), `FirmwareAssumption` (at most
255 pins, ids below 256), `PinsAssumption` (pins that calls name exist on the device),
`ContractAssumption` (for the refinement and the mirror: section 3, The contract),
`BitLoopsAssumption` (the field lies in the buffer), `RestartsAssumption`, `SerialAssumption`
and `ChecksumAssumption` (numbers are natural, sizes positive, packets fit the buffer).

**Only model-checked.** `Answered`, `DeviceStops`, `OpensComplete`, `CallReturns` and
`ReadReturns`: liveness under fairness is out of the prover's reach.

## 5. Abstractions

- The pipes are reliable and each packet is written and read whole: 612 bytes is below
  PIPE_BUF, and `StopAndWait` makes a read meet at most one packet. So the checksum is
  always right there; Checksum and Serial are about the line on which it need not be.
- In Restarts a read takes all packets that are in a FIFO and decodes the first. Two of the
  largest requests together are longer than one read, and the rest would be decoded from
  the middle of a packet: only after a kill, and left out.
- `get_failsafe_mask` and `set_failsafe` may write beyond the buffer they allocate
  (`driver.c:386`, `driver.c:422`). The model sends what the size says; what the heap
  suffers is not followed.
- In Serial a byte is its request and its place in it. Whether a buffer that starts inside
  a packet, or holds a changed byte, passes the 8-bit checksum is a free choice.
- Printing is left out. Return codes too: 0 or 1, and callers ignore them.
- Masks are created with `new_mask(c->caps.nb_pins)`, as in the tests: calls on masks come
  after `get_caps` (`Callable`). Pins named exist on the device; the code indexes its arrays
  with no check.
- `malloc` succeeds, also for the 2^29 + 1 bytes of an empty `get_type_mask`.
- A process is killed while it waits or between requests (driver `idle`, `waiting`; device
  `loop`, `serving`); a kill between two steps in memory cannot be told from one of these.
- The cast of the 1-bit and 8-bit read functions to their return type is the caller's.

## 6. Not modelled, and the plan

Left out:
- the test programs, whose calls and values are the inputs of the runs; the build files and
  the report;
- display functions (output only), the functions nobody calls (`device_caps_init`,
  `device_state_init`) or defines (`new_connection`, `read_value`, ...);
- register settings of the UART (baud rate, frame) and the pin names of `atm8_pins.h`;
- what the program does once it has written outside an array or a heap block;
- failures of `mkfifo` other than EEXIST, which end the process at once;
- a driver for the serial line: the repository has none, Serial's host does what `driver.c`
  does on a pipe. Session is not composed with Serial: on the line the packets are those of
  Session, and the two differ in what a read returns;
- applying a failsafe state when its timeout runs out: no code does it.

Planned next, in this order:

1. The safety half of `Answered` and `CallReturns`: while a driver waits in `read_reply`, its
   request, the device that holds it, or its reply is there, or the device is gone; with it the
   liveness that stays model-checked rests on fairness alone.
2. The same for `ReadReturns`: a read that is stuck has fewer than `BUFF_SIZE` bytes ahead.
3. Round trips of failsafe entries of 16 bits below 2^9 stated as theorems of their own.
