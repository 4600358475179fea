------------------------------ MODULE Restarts ------------------------------
(***************************************************************************)
(* Processes that come and go around the two FIFO files: what init_ and    *)
(* end_communication of src/firmware/firmware.c and connection_open of     *)
(* src/src/connection.c do to names, files and ends when a device or an    *)
(* application is killed, or started again, at any point.  Session models  *)
(* one pair of processes and what is in the packets; here a request is its *)
(* sender and a number, a reply is the request it answers, and each system *)
(* call is a step, since another process may run between any two.          *)
(***************************************************************************)
EXTENDS Naturals, Sequences

CONSTANTS
    DevicesNb,    \* device processes, started in this order
    DriversNb,    \* application processes, started in this order
    Calls,        \* bound: calls an application makes
    Regimes,      \* when the next process may be started: see MayStart
    Crashes       \* whether a process may be killed at any time

ASSUME RestartsAssumption ==
    /\ DevicesNb \in Nat /\ DriversNb \in Nat /\ Calls \in Nat
    /\ Regimes \subseteq {"clean", "script", "device"}
    /\ Crashes \in BOOLEAN

VARIABLES
    todo,       \* the system calls a process has still to make, the next one first
    name,       \* the file each FIFO name leads to
    data,       \* the packets in each FIFO
    fd_in,      \* the FIFO each process has open, or is opening, for reading
    fd_out,     \* and for writing
    woken,      \* processes in open() that have seen the other end opened
    frees,      \* how often each device has freed its struct connection
    calls,      \* how many calls each application has made
    taken,      \* the reply its last call returned with
    req,        \* the request each device is serving
    served,     \* how often each request was performed
    killed,     \* the processes that were killed
    restart     \* the regime, of Regimes

files == <<name, data>>
ends  == <<fd_in, fd_out, woken>>
mem   == <<frees, calls, taken, req, served>>
vars  == <<todo, files, ends, mem, killed, restart>>

None == 0

Device(k) == <<"device", k>>
Driver(k) == <<"driver", k>>
Devices   == {Device(k) : k \in 1 .. DevicesNb}
Drivers   == {Driver(k) : k \in 1 .. DriversNb}
Processes == Devices \cup Drivers

\* A device makes two files at most; a file is gone when nothing leads to it.
Files    == 1 .. 2 * DevicesNb
Requests == Drivers \X (1 .. Calls)

DRIV2DEV == "driver2device"
DEV2DRIV == "device2driver"

\* The name each process opens for reading, and for writing.
in_filename(p)  == IF p \in Devices THEN DRIV2DEV ELSE DEV2DRIV
out_filename(p) == IF p \in Devices THEN DEV2DRIV ELSE DRIV2DEV

\* end_communication, main of the firmware, and an application that uses the driver.
end_communication == <<"close_in", "close_out", "unlink_driv2dev", "unlink_dev2driv">>

\* Mutant of firmware_main: the second mkfifo is forgotten.
firmware_main_one_fifo ==
    <<"start", "mkfifo_driv2dev", "open_out", "opened_out",
      "open_in", "opened_in", "mainloop">> \o end_communication

\* Mutant of firmware_main: the names are unlinked before the driver has used them.
firmware_main_unlinks_early ==
    <<"start", "mkfifo_driv2dev", "mkfifo_dev2driv", "open_out", "opened_out",
      "unlink_driv2dev", "open_in", "opened_in", "mainloop">> \o end_communication

firmware_main ==
    <<"start", "mkfifo_driv2dev", "mkfifo_dev2driv", "open_out", "opened_out",
      "open_in", "opened_in", "mainloop">> \o end_communication

application ==
    <<"start", "open_in", "opened_in", "open_out", "opened_out", "idle">>

\* The next system call of p.
NextCall(p) == IF todo[p] = << >> THEN "over" ELSE Head(todo[p])
Over(p) == todo[p] = << >>

goes_on(p) == todo' = [todo EXCEPT ![p] = Tail(@)]

TypeOK ==
    /\ name \in [{DRIV2DEV, DEV2DRIV} -> Files \cup {None}]
    /\ \A f \in Files : data[f] \in Seq(Requests)
    /\ fd_in \in [Processes -> Files \cup {None}]
    /\ fd_out \in [Processes -> Files \cup {None}]
    /\ woken \subseteq Processes /\ killed \subseteq Processes
    /\ calls \in [Drivers -> 0 .. Calls]
    /\ taken \in [Drivers -> Requests \cup {<< >>}]
    /\ req \in [Devices -> Requests \cup {<< >>}]
    /\ \A d \in Devices : NextCall(d) \in {"treat", "send_reply"} => req[d] # << >>

Init ==
    /\ todo = [p \in Processes |-> IF p \in Devices THEN firmware_main ELSE application]
    /\ name = [n \in {DRIV2DEV, DEV2DRIV} |-> None]
    /\ data = [f \in Files |-> << >>]
    /\ fd_in = [p \in Processes |-> None]
    /\ fd_out = [p \in Processes |-> None]
    /\ woken = {}
    /\ frees = [d \in Devices |-> 0]
    /\ calls = [v \in Drivers |-> 0]
    /\ taken = [v \in Drivers |-> << >>]
    /\ req = [d \in Devices |-> << >>]
    /\ served = [r \in Requests |-> 0]
    /\ killed = {}
    /\ restart \in Regimes

-----------------------------------------------------------------------------
(* The kernel: FIFO files and their ends.                                  *)

Readers(f) == {p \in Processes : fd_in[p] = f}
Writers(f) == {p \in Processes : fd_out[p] = f}

\* A file nobody has open and no name leads to.
NewFile ==
    CHOOSE f \in Files : /\ Readers(f) \cup Writers(f) = {}
                         /\ \A n \in DOMAIN name : name[n] # f

\* p closes its end for reading; what a FIFO holds is lost with its last end.
closes_in(p) ==
    /\ fd_in' = [fd_in EXCEPT ![p] = None]
    /\ UNCHANGED <<fd_out, woken>>
    /\ data' = [f \in Files |->
                  IF Readers(f) \subseteq {p} /\ Writers(f) = {} THEN << >> ELSE data[f]]

\* p closes all it has open.
closes(p) ==
    /\ fd_in' = [fd_in EXCEPT ![p] = None]
    /\ fd_out' = [fd_out EXCEPT ![p] = None]
    /\ woken' = woken \ {p}
    /\ data' = [f \in Files |->
                  IF Readers(f) \cup Writers(f) \subseteq {p} THEN << >> ELSE data[f]]

\* p is over: exit closes its ends.
ends_now(p) ==
    /\ todo' = [todo EXCEPT ![p] = << >>]
    /\ closes(p)

\* open() on a FIFO returns when the other end is open, or has been meanwhile: an
\* open wakes those who wait in the opposite one.
open_wakes(p, others, opposite) ==
    woken' = woken \cup {q \in others : NextCall(q) = opposite}
                   \cup (IF others = {} THEN {} ELSE {p})

-----------------------------------------------------------------------------
(* Starting, and opening the two FIFOs.                                    *)

Earlier(p, S) == {q \in S : q[2] < p[2]}
AllOver(S)    == \A q \in S : Over(q)

(***************************************************************************)
(* clean: nothing is started before everything earlier is over.  script:   *)
(* the commands of README.md, ./fake_device & ./test_communication, one    *)
(* pair after the other: a shell waits for the application only.  device:  *)
(* a device that is over is started again, whatever its driver does.       *)
(***************************************************************************)
MayStart(p) ==
    /\ restart = "clean"  => AllOver(Earlier(p, Processes))
    /\ restart = "script" => AllOver(Earlier(p, Drivers))
    /\ restart = "device" => AllOver(Earlier(p, IF p \in Devices THEN Devices ELSE Drivers))

start(p) ==
    /\ NextCall(p) = "start"
    /\ MayStart(p)
    /\ goes_on(p)
    /\ UNCHANGED <<files, ends, mem, killed>>

\* Mutant of mkfifo: a file that is there already is taken for a failure.
mkfifo_exclusive(d, step, n) ==
    /\ NextCall(d) = step
    /\ IF name[n] = None
         THEN name' = [name EXCEPT ![n] = NewFile] /\ goes_on(d)
         ELSE UNCHANGED name /\ todo' = [todo EXCEPT ![d] = << >>]
    /\ UNCHANGED <<data, ends, mem, killed>>

\* A file that is there already is used (EEXIST).
mkfifo(d, step, n) ==
    /\ NextCall(d) = step
    /\ name' = [name EXCEPT ![n] = IF @ = None THEN NewFile ELSE @]
    /\ goes_on(d)
    /\ UNCHANGED <<data, ends, mem, killed>>

\* open() is entered: the end counts as open from now on.
open_in(p) ==
    LET f == name[in_filename(p)]
    IN  /\ NextCall(p) = "open_in"
        /\ f # None
        /\ fd_in' = [fd_in EXCEPT ![p] = f]
        /\ open_wakes(p, Writers(f), "opened_out")
        /\ goes_on(p)
        /\ UNCHANGED <<files, fd_out, mem, killed>>

open_out(p) ==
    LET f == name[out_filename(p)]
    IN  /\ NextCall(p) = "open_out"
        /\ f # None
        /\ fd_out' = [fd_out EXCEPT ![p] = f]
        /\ open_wakes(p, Readers(f), "opened_in")
        /\ goes_on(p)
        /\ UNCHANGED <<files, fd_in, mem, killed>>

\* open() returns.
opened(p) ==
    /\ NextCall(p) \in {"opened_in", "opened_out"}
    /\ p \in woken
    /\ woken' = woken \ {p}
    /\ goes_on(p)
    /\ UNCHANGED <<files, fd_in, fd_out, mem, killed>>

\* No such file.  connection_open closes what it has and returns NULL, and the
\* application gives up; init_communication calls end_communication and goes on.
open_failed(p) ==
    /\ \/ NextCall(p) = "open_in"  /\ name[in_filename(p)] = None
       \/ NextCall(p) = "open_out" /\ name[out_filename(p)] = None
    /\ IF p \in Drivers
         THEN ends_now(p)
         ELSE /\ todo' = [todo EXCEPT ![p] = end_communication \o Tail(Tail(@))]
              /\ UNCHANGED <<data, ends>>
    /\ UNCHANGED <<name, mem, killed>>

-----------------------------------------------------------------------------
(* The device.                                                             *)

mainloop_read(d) ==
    /\ NextCall(d) = "mainloop"
    /\ fd_in[d] # None
    /\ data[fd_in[d]] # << >>
    /\ req' = [req EXCEPT ![d] = Head(data[fd_in[d]])]
    /\ data' = [data EXCEPT ![fd_in[d]] = << >>]
    /\ todo' = [todo EXCEPT ![d] = <<"treat", "send_reply">> \o @]
    /\ UNCHANGED <<name, ends, frees, calls, taken, served, killed>>

at_eof(p) == data[fd_in[p]] = << >> /\ Writers(fd_in[p]) = {}

\* Mutant of mainloop_end: the failure of connection_read is not seen.
mainloop_end_unseen(d) ==
    /\ NextCall(d) = "mainloop"
    /\ fd_in[d] # None /\ at_eof(d)
    /\ todo' = [todo EXCEPT ![d] = <<"treat", "send_reply">> \o @]
    /\ UNCHANGED <<files, ends, mem, killed>>

\* End of file, or nothing to read from.
mainloop_end(d) ==
    /\ NextCall(d) = "mainloop"
    /\ fd_in[d] # None => at_eof(d)
    /\ goes_on(d)
    /\ UNCHANGED <<files, ends, mem, killed>>

\* Mutant of treat: the handler returns without a reply.
treat_silent(d) ==
    /\ NextCall(d) = "treat"
    /\ served' = [served EXCEPT ![req[d]] = @ + 1]
    /\ todo' = [todo EXCEPT ![d] = Tail(Tail(@))]
    /\ UNCHANGED <<files, ends, frees, calls, taken, req, killed>>

\* The handler changes the pins, then sends its reply.
treat(d) ==
    /\ NextCall(d) = "treat"
    /\ served' = [served EXCEPT ![req[d]] = @ + 1]
    /\ goes_on(d)
    /\ UNCHANGED <<files, ends, frees, calls, taken, req, killed>>

\* SIGPIPE ends a device that writes to nobody; a write to no file just fails.
send_reply(d) ==
    LET f == fd_out[d]
    IN  /\ NextCall(d) = "send_reply"
        /\ req' = [req EXCEPT ![d] = << >>]
        /\ \/ f # None /\ Readers(f) = {} /\ ends_now(d)
           \/ /\ f = None \/ Readers(f) # {}
              /\ goes_on(d)
              /\ data' = IF f = None THEN data
                         ELSE [data EXCEPT ![f] = Append(@, req[d])]
              /\ UNCHANGED ends
        /\ UNCHANGED <<name, frees, calls, taken, served, killed>>

\* connection_close, first close.
close_in(d) ==
    /\ NextCall(d) = "close_in"
    /\ closes_in(d)
    /\ goes_on(d)
    /\ UNCHANGED <<name, mem, killed>>

\* Second close, of the end that is left.  Then the connection is freed: freeing it
\* again aborts the process, or goes unnoticed.
device_close(d) ==
    /\ NextCall(d) = "close_out"
    /\ frees' = [frees EXCEPT ![d] = IF @ < 2 THEN @ + 1 ELSE @]
    /\ \/ goes_on(d)
       \/ frees[d] > 0 /\ todo' = [todo EXCEPT ![d] = << >>]
    /\ closes(d)
    /\ UNCHANGED <<name, calls, taken, req, served, killed>>

\* A device that uses the connection it has freed may crash at any step.
dangling(d) ==
    /\ frees[d] > 0
    /\ \E k \in DOMAIN todo[d] : todo[d][k] = "close_out"
    /\ ends_now(d)
    /\ UNCHANGED <<name, mem, killed>>

unlink(d, step, n) ==
    /\ NextCall(d) = step
    /\ name' = [name EXCEPT ![n] = None]
    /\ goes_on(d)
    /\ UNCHANGED <<data, ends, mem, killed>>

-----------------------------------------------------------------------------
(* The application and its driver.                                         *)

\* A call writes its request, then reads.  SIGPIPE ends a process that writes to nobody.
send_packet(v) ==
    LET f == fd_out[v]
    IN  /\ NextCall(v) = "idle"
        /\ calls[v] < Calls
        /\ \/ Readers(f) = {} /\ ends_now(v) /\ UNCHANGED calls
           \/ /\ Readers(f) # {}
              /\ calls' = [calls EXCEPT ![v] = @ + 1]
              /\ data' = [data EXCEPT ![f] = Append(@, <<v, calls[v] + 1>>)]
              /\ todo' = [todo EXCEPT ![v] = <<"read_reply">> \o @]
              /\ UNCHANGED ends
        /\ UNCHANGED <<name, frees, taken, req, served, killed>>

\* Whatever packet comes is the reply: the comparison of ids is commented out.
read_reply(v) ==
    /\ NextCall(v) = "read_reply"
    /\ data[fd_in[v]] # << >>
    /\ taken' = [taken EXCEPT ![v] = Head(data[fd_in[v]])]
    /\ data' = [data EXCEPT ![fd_in[v]] = << >>]
    /\ goes_on(v)
    /\ UNCHANGED <<name, ends, frees, calls, req, served, killed>>

\* Mutant of read_reply_failed: the result of connection_read is not tested.
read_reply_failed_unseen(v) ==
    /\ NextCall(v) = "read_reply"
    /\ at_eof(v)
    /\ goes_on(v)
    /\ UNCHANGED <<files, ends, mem, killed>>

\* Mutant of read_reply_failed: a reply that is late is given up, and asked for again.
read_reply_failed_retries(v) ==
    /\ NextCall(v) = "read_reply"
    /\ data[fd_in[v]] = << >>
    /\ Readers(fd_out[v]) # {}
    /\ data' = [data EXCEPT ![fd_out[v]] = Append(@, <<v, calls[v]>>)]
    /\ UNCHANGED <<todo, name, ends, mem, killed>>

\* End of file: exit(1), whose closing of the ends is a step of its own.
read_reply_failed(v) ==
    /\ NextCall(v) = "read_reply"
    /\ at_eof(v)
    /\ todo' = [todo EXCEPT ![v] = <<"exit">>]
    /\ UNCHANGED <<files, ends, mem, killed>>

\* The process closes what it still has open: exit(1), or the second close of
\* connection_close, behind which an application is over.
exit(v) ==
    /\ NextCall(v) \in {"exit", "close_out"}
    /\ ends_now(v)
    /\ UNCHANGED <<name, mem, killed>>

\* The application has made its calls, or fewer: connection_close, first close.
driver_close(v) ==
    /\ NextCall(v) = "idle"
    /\ closes_in(v)
    /\ todo' = [todo EXCEPT ![v] = <<"close_out">>]
    /\ UNCHANGED <<name, mem, killed>>

-----------------------------------------------------------------------------
\* A process is killed, or crashes: nobody unlinks the files.
kill(p) ==
    /\ Crashes
    /\ NextCall(p) \notin {"start", "over"}
    /\ ends_now(p)
    /\ killed' = killed \cup {p}
    /\ UNCHANGED <<name, mem>>

\* What a process does by itself once it is started.
Runs(p) ==
    \/ open_in(p) \/ open_out(p) \/ opened(p) \/ open_failed(p)

DeviceRuns(d) ==
    \/ Runs(d)
    \/ mkfifo(d, "mkfifo_driv2dev", DRIV2DEV) \/ mkfifo(d, "mkfifo_dev2driv", DEV2DRIV)
    \/ mainloop_read(d) \/ mainloop_end(d) \/ treat(d) \/ send_reply(d)
    \/ close_in(d) \/ device_close(d)
    \/ unlink(d, "unlink_driv2dev", DRIV2DEV) \/ unlink(d, "unlink_dev2driv", DEV2DRIV)

DriverRuns(v) == Runs(v) \/ read_reply(v) \/ read_reply_failed(v) \/ exit(v)

Next ==
    /\ \/ \E p \in Processes : start(p) \/ kill(p)
       \/ \E d \in Devices : DeviceRuns(d) \/ dangling(d)
       \/ \E v \in Drivers : DriverRuns(v) \/ send_packet(v) \/ driver_close(v)
    /\ UNCHANGED restart

Spec == Init /\ [][Next]_vars

\* Every system call that can complete does.  Nothing makes anybody start a
\* process, call the API, close a connection or kill a process.
FairSpec ==
    /\ Spec
    /\ \A d \in Devices : WF_vars(DeviceRuns(d) /\ UNCHANGED restart)
    /\ \A v \in Drivers : WF_vars(DriverRuns(v) /\ UNCHANGED restart)

-----------------------------------------------------------------------------
\* No device is started before the one before it is over.
OneDevice == restart # "script"

\* No other device has come to the end of its connection beside d.
Alone(d) == OneDevice \/ \A e \in Devices \ {d} : frees[e] = 0

\* d, which has made its files, is found by a driver: the names lead to the files it
\* has open, or to some file where it has none open yet.
Found(d) ==
    NextCall(d) \in {"opened_out", "open_in", "opened_in"} =>
        /\ name[DEV2DRIV] = fd_out[d]
        /\ name[DRIV2DEV] \in IF fd_in[d] = None THEN Files ELSE {fd_in[d]}

\* A device that waits for a driver is found by it, whatever files, ends and names a
\* killed device has left and whatever drivers do, unless another device ends beside it.
NamesLead == \A d \in Devices : Alone(d) => Found(d)

\* The same without exception (README.md: "It will additionnally open two pipes in /tmp/
\* folder. After it, the test_communication binary can be launched").
PipesFound == \A d \in Devices : Found(d)

\* A device that serves has opened its two pipes, and has its connection (the same
\* sentence of README.md).
PipesOpened ==
    \A d \in Devices : NextCall(d) = "mainloop" =>
        fd_in[d] # None /\ fd_out[d] # None /\ frees[d] = 0

\* The reply a call returns with is the one to its own request.
OwnReply(v) == taken[v] = IF calls[v] = 0 THEN << >> ELSE <<v, calls[v]>>

\* A call returns with the reply to its own request (driver.c, of read_reply: "verify
\* the reply id"), whatever was killed and started again before.
RepliesOwn == \A v \in Drivers : NextCall(v) = "idle" => OwnReply(v)

\* What holds of it although no id is compared: another reply is taken only after an
\* application that was over before it had its own, and never when everything is started
\* from a clean state.
RepliesOwnOrOrphaned ==
    \A v \in Drivers : NextCall(v) = "idle" =>
        \/ OwnReply(v)
        \/ /\ restart # "clean" /\ taken[v] # << >>
           /\ \E asker \in Earlier(v, Drivers) : Over(asker) /\ ~OwnReply(asker)

\* A device frees its connection twice (after a failed open, init_communication goes on)
\* only where devices run side by side and another one has come to its end beside it:
\* never by what a killed device has left, nor by what drivers do.
FreedTwiceOnlyBeside ==
    \A d \in Devices : frees[d] > 1 =>
        restart = "script" /\ \E e \in Devices \ {d} : frees[e] > 0

\* A request takes effect at most once, also when the device is killed and started
\* again around it, or a second device reads from the same FIFO.
AtMostOnce == \A r \in Requests : served[r] <= 1

\* When everything before is over and a device and its application have been started,
\* both get through their opens, whatever files a killed device has left, unless one
\* of them is killed.
OpensComplete ==
    \A k \in 1 .. IF DevicesNb < DriversNb THEN DevicesNb ELSE DriversNb :
        (restart = "clean" /\ NextCall(Driver(k)) = "opened_in" /\ NextCall(Device(k)) # "start")
            ~> NextCall(Device(k)) = "mainloop" \/ {Device(k), Driver(k)} \cap killed # {}

\* An application does not stay in read_reply for ever (driver.h: "Send a ping request
\* to check if the board is alive"), if its device is not replaced during the call.
CallReturns ==
    \A v \in Drivers :
        (restart = "clean" /\ NextCall(v) = "read_reply") ~> NextCall(v) # "read_reply"

\* The same in every regime, as driver.h has it.
CallReturnsAlways ==
    \A v \in Drivers : NextCall(v) = "read_reply" ~> NextCall(v) # "read_reply"

=============================================================================
