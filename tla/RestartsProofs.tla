--------------------------- MODULE RestartsProofs ---------------------------
(***************************************************************************)
(* Any number of devices and of applications, killed or started again at   *)
(* any point: there is always a file for mkfifo, a request takes effect at *)
(* most once, a call that returns with another reply comes after an        *)
(* application that was over before it had its own, and unless another     *)
(* device ends beside it, a device that waits is found by its driver and   *)
(* frees its connection once.                                              *)
(***************************************************************************)
EXTENDS Restarts, Integers, FiniteSetTheorems, SequenceTheorems, TLAPS

-----------------------------------------------------------------------------
(* What a process may have still to do.                                    *)

\* From the call that is named on, to the end of firmware_main.
at_unlink_dev2driv == <<"unlink_dev2driv">>
at_unlink_driv2dev == <<"unlink_driv2dev", "unlink_dev2driv">>
at_close_out == <<"close_out", "unlink_driv2dev", "unlink_dev2driv">>
at_mainloop  == <<"mainloop">> \o end_communication
at_opened_in == <<"opened_in", "mainloop">> \o end_communication
at_open_in   == <<"open_in", "opened_in", "mainloop">> \o end_communication
at_opened_out ==
    <<"opened_out", "open_in", "opened_in", "mainloop">> \o end_communication
at_open_out ==
    <<"open_out", "opened_out", "open_in", "opened_in", "mainloop">> \o end_communication
at_mkfifo_dev2driv ==
    <<"mkfifo_dev2driv", "open_out", "opened_out", "open_in", "opened_in", "mainloop">>
      \o end_communication
at_mkfifo_driv2dev ==
    <<"mkfifo_driv2dev", "mkfifo_dev2driv", "open_out", "opened_out", "open_in",
      "opened_in", "mainloop">> \o end_communication

\* In the handler of a request, and before its reply.
at_treat      == <<"treat", "send_reply">> \o at_mainloop
at_send_reply == <<"send_reply">> \o at_mainloop

\* A device before, in and after its handler.
StartPaths == {firmware_main, at_mkfifo_driv2dev, at_mkfifo_dev2driv}
OpenPaths  == {at_open_out, at_opened_out, at_open_in, at_opened_in}
LoopPaths  == {at_mainloop, at_treat, at_send_reply}
EndPaths   == {end_communication, at_close_out, at_unlink_driv2dev, at_unlink_dev2driv, << >>}

\* end_communication, when it goes on with s after an open that failed.
FailedPaths(s) ==
    {end_communication \o s, at_close_out \o s, at_unlink_driv2dev \o s,
     at_unlink_dev2driv \o s}

FirmwarePaths == StartPaths \cup OpenPaths \cup LoopPaths \cup EndPaths
DevicePaths   == FirmwarePaths \cup FailedPaths(at_open_in) \cup FailedPaths(at_mainloop)

DriverPaths ==
    {application,
     <<"open_in", "opened_in", "open_out", "opened_out", "idle">>,
     <<"opened_in", "open_out", "opened_out", "idle">>,
     <<"open_out", "opened_out", "idle">>, <<"opened_out", "idle">>, <<"idle">>,
     <<"read_reply", "idle">>, <<"exit">>, <<"close_out">>, << >>}

Steps == {"start", "mkfifo_driv2dev", "mkfifo_dev2driv", "open_out", "opened_out", "open_in",
          "opened_in", "mainloop", "treat", "send_reply", "close_in", "close_out",
          "unlink_driv2dev", "unlink_dev2driv", "idle", "read_reply", "exit"}

TodoInv ==
    /\ todo \in [Processes -> Seq(Steps)]
    /\ \A d \in Devices : todo[d] \in DevicePaths
    /\ \A v \in Drivers : todo[v] \in DriverPaths

-----------------------------------------------------------------------------
(* Files and their ends.                                                   *)

DataType ==
    /\ data \in [Files -> Seq(Requests)]
    /\ name \in [{DRIV2DEV, DEV2DRIV} -> Files \cup {None}]
    /\ frees \in [Devices -> Nat] /\ served \in [Requests -> Nat]
    /\ restart \in Regimes

\* A process that has not opened, or has closed, has no end; a driver that has opened
\* has the ends it uses.
NotOpen == {"start", "mkfifo_driv2dev", "mkfifo_dev2driv", "unlink_driv2dev",
            "unlink_dev2driv", "over"}
EndsInv ==
    /\ \A p \in Processes : NextCall(p) \in NotOpen => fd_in[p] = None /\ fd_out[p] = None
    /\ \A v \in Drivers :
         NextCall(v) \in {"opened_in", "open_out", "opened_out", "idle", "read_reply"}
           => fd_in[v] # None
    /\ \A v \in Drivers :
         NextCall(v) \in {"opened_out", "idle", "read_reply"} => fd_out[v] # None

\* What is opened is not open yet.
UnopenedInv ==
    /\ \A p \in Processes : NextCall(p) = "open_in" => fd_in[p] = None
    /\ \A p \in Processes : NextCall(p) = "open_out" => fd_out[p] = None
    /\ \A d \in Devices : NextCall(d) \in {"open_out", "opened_out"} => fd_in[d] = None
    /\ \A v \in Drivers : NextCall(v) \in {"open_in", "opened_in"} => fd_out[v] = None

\* What a FIFO holds, it holds for a process that has it open.
HeldInv == \A f \in Files : data[f] # << >> => Readers(f) \cup Writers(f) # {}

\* Files that are in use, against the mkfifo that have been made.
InUse == {f \in Files : \/ Readers(f) \cup Writers(f) # {}
                        \/ \E n \in DOMAIN name : name[n] = f}
Unmade1 == {firmware_main, at_mkfifo_driv2dev}
Made1 == {k \in 1 .. DevicesNb : todo[Device(k)] \notin Unmade1}
Made2 == {k \in 1 .. DevicesNb : todo[Device(k)] \notin StartPaths}
InUseInv == Cardinality(InUse) <= Cardinality(Made1) + Cardinality(Made2)

-----------------------------------------------------------------------------
(* Requests and replies in flight.                                         *)

\* The FIFO files that carry requests, and those that carry replies.
RequestFiles ==
    {name[DRIV2DEV]} \cup {fd_in[d] : d \in Devices} \cup {fd_out[v] : v \in Drivers}
ReplyFiles ==
    {name[DEV2DRIV]} \cup {fd_out[d] : d \in Devices} \cup {fd_in[v] : v \in Drivers}

RolesInv == \A f \in Files : ~(f \in RequestFiles /\ f \in ReplyFiles)

\* A device has a request in hand until its reply is sent.
Holds(d) == NextCall(d) \in {"treat", "send_reply"}

\* A request, or its reply, is in one place.
OnceInv ==
    /\ \A f, g \in Files : \A m \in DOMAIN data[f], n \in DOMAIN data[g] :
         data[f][m] = data[g][n] => f = g /\ m = n
    /\ \A f \in Files, d \in Devices : \A n \in DOMAIN data[f] :
         Holds(d) => req[d] # data[f][n]
    /\ \A d, e \in Devices : Holds(d) /\ Holds(e) /\ req[d] = req[e] => d = e

\* It has been sent.
SentRequest(r) == r[2] <= calls[r[1]]
SentInv ==
    /\ \A f \in Files : \A n \in DOMAIN data[f] : SentRequest(data[f][n])
    /\ \A d \in Devices : Holds(d) => SentRequest(req[d])
    /\ \A r \in Requests : served[r] # 0 => SentRequest(r)

\* It is not performed before it reaches the handler.
UnservedInv ==
    /\ \A f \in Files : \A n \in DOMAIN data[f] : f \in RequestFiles => served[data[f][n]] = 0
    /\ \A d \in Devices : NextCall(d) = "treat" => served[req[d]] = 0

-----------------------------------------------------------------------------
(* Processes that are started one after the other.                         *)

InTurn(S) == \A p, q \in S : p[2] < q[2] /\ NextCall(q) # "start" => Over(p)

OrderInv ==
    /\ InTurn(Drivers)
    /\ OneDevice => InTurn(Devices)
    /\ restart = "clean" => InTurn(Processes)
    /\ \A d \in Devices : NextCall(d) = "start" => frees[d] = 0

\* A device that no other ends beside finds the names it has made, and goes once through
\* its calls.
Opening == {"open_out", "opened_out", "open_in", "opened_in"}
Unlinking == {"unlink_driv2dev", "unlink_dev2driv"}
NamesFound(d) ==
    /\ NextCall(d) \in Opening \cup {"mkfifo_dev2driv"} => name[DRIV2DEV] # None
    /\ NextCall(d) \in Opening =>
         name[DEV2DRIV] # None /\ fd_in[d] \in {None, name[DRIV2DEV]}
    /\ NextCall(d) \in Opening \ {"open_out"} => fd_out[d] = name[DEV2DRIV]
FreesOnce(d) ==
    /\ frees[d] <= 1
    /\ NextCall(d) \notin Unlinking \cup {"over"} => frees[d] = 0
GoesOnce(d) == todo[d] \in FirmwarePaths /\ FreesOnce(d) /\ NamesFound(d)

\* A name is removed by a device that has freed its connection.
UnlinksFreed == \A d \in Devices : NextCall(d) \in Unlinking => frees[d] # 0
AloneInv == UnlinksFreed /\ \A d \in Devices : Alone(d) => GoesOnce(d)

-----------------------------------------------------------------------------
(* Whose reply a call returns with.                                        *)

\* A driver has called nothing before it has opened.
FreshInv ==
    \A v \in Drivers :
      NextCall(v) \in {"start", "open_in", "opened_in", "open_out", "opened_out"}
        => calls[v] = 0 /\ taken[v] = << >>

\* Some application before v was over before it had its own reply.
Orphaned(v) ==
    /\ restart # "clean"
    /\ \E asker \in Earlier(v, Drivers) : Over(asker) /\ ~OwnReply(asker)

\* What is in flight is awaited, if all was well before its sender was started.
InFlight(r) ==
    \/ \E f \in Files : \E n \in DOMAIN data[f] : data[f][n] = r
    \/ \E d \in Devices : Holds(d) /\ req[d] = r
Awaited(r) == Orphaned(r[1]) \/ (r[2] = calls[r[1]] /\ ~OwnReply(r[1]))
AwaitedInv == \A r \in Requests : InFlight(r) => Awaited(r)

\* From a clean state, nobody sees a request or a reply of another pair.
CleanInv ==
    restart = "clean" =>
      /\ \A f \in Files : \A n \in DOMAIN data[f], p \in Readers(f) \cup Writers(f) :
           data[f][n][1][2] = p[2]
      /\ \A d \in Devices : Holds(d) => req[d][1][2] = d[2]
-----------------------------------------------------------------------------
(* The calls in their order.                                               *)

\* The first of two sequences is at least as long as one call, and goes on with the
\* second.
LEMMA TailOfConcat ==
  ASSUME NEW S, NEW s \in Seq(S), s # << >>, NEW t \in Seq(S)
  PROVE  /\ s \o t \in Seq(S) /\ s \o t # << >>
         /\ Head(s \o t) = Head(s) /\ Tail(s \o t) = Tail(s) \o t
<1>1. /\ s \o t \in Seq(S) /\ Len(s \o t) = Len(s) + Len(t)
      /\ \A k \in 1 .. Len(s) + Len(t) :
           (s \o t)[k] = IF k <= Len(s) THEN s[k] ELSE t[k - Len(s)]
  BY ConcatProperties
<1>2. /\ Len(s) \in Nat \ {0} /\ Len(t) \in Nat
      /\ Tail(s) \in Seq(S) /\ Len(Tail(s)) = Len(s) - 1
      /\ \A k \in 1 .. Len(s) - 1 : Tail(s)[k] = s[k + 1]
  OBVIOUS
<1>3. s \o t # << >>
  BY <1>1, <1>2
<1>4. Head(s \o t) = Head(s)
  BY <1>1, <1>2
<1>5. /\ Tail(s \o t) \in Seq(S) /\ Len(Tail(s \o t)) = Len(s) + Len(t) - 1
      /\ \A k \in 1 .. Len(s) + Len(t) - 1 : Tail(s \o t)[k] = (s \o t)[k + 1]
  BY <1>1, <1>2, <1>3
<1>6. /\ Tail(s) \o t \in Seq(S) /\ Len(Tail(s) \o t) = Len(s) + Len(t) - 1
      /\ \A k \in 1 .. Len(s) + Len(t) - 1 :
           (Tail(s) \o t)[k] = IF k <= Len(s) - 1 THEN Tail(s)[k] ELSE t[k - (Len(s) - 1)]
  BY <1>2, ConcatProperties
<1>7. \A k \in 1 .. Len(s) + Len(t) - 1 : (Tail(s) \o t)[k] = Tail(s \o t)[k]
  BY <1>1, <1>2, <1>5, <1>6
<1>8. Tail(s \o t) = Tail(s) \o t
  BY <1>2, <1>5, <1>6, <1>7, SeqEqual
<1>. QED  BY <1>1, <1>3, <1>4, <1>8

\* s is c, then t.
Leads(s, c, t) ==
    s \in Seq(Steps) /\ t \in Seq(Steps) /\ s # << >> /\ Head(s) = c /\ Tail(s) = t

\* A sequence that is written out, before another.
LEMMA LeadsConcat ==
  ASSUME NEW s, NEW c, NEW t, Leads(s, c, t), NEW u \in Seq(Steps)
  PROVE  Leads(s \o u, c, t \o u)
<1>1. t \o u \in Seq(Steps)
  BY ConcatProperties DEF Leads
<1>. QED  BY <1>1, TailOfConcat DEF Leads

\* The paths of the device, each with the next.
LEMMA EndPath ==
    /\ Leads(end_communication, "close_in", at_close_out)
    /\ Leads(at_close_out, "close_out", at_unlink_driv2dev)
    /\ Leads(at_unlink_driv2dev, "unlink_driv2dev", at_unlink_dev2driv)
    /\ Leads(at_unlink_dev2driv, "unlink_dev2driv", << >>)
BY DEF Leads, end_communication, at_close_out, at_unlink_driv2dev, at_unlink_dev2driv, Steps

LEMMA FirmwarePath ==
    /\ Leads(firmware_main, "start", at_mkfifo_driv2dev)
    /\ Leads(at_mkfifo_driv2dev, "mkfifo_driv2dev", at_mkfifo_dev2driv)
    /\ Leads(at_mkfifo_dev2driv, "mkfifo_dev2driv", at_open_out)
    /\ Leads(at_open_out, "open_out", at_opened_out)
    /\ Leads(at_opened_out, "opened_out", at_open_in)
    /\ Leads(at_open_in, "open_in", at_opened_in)
    /\ Leads(at_opened_in, "opened_in", at_mainloop)
    /\ Leads(at_mainloop, "mainloop", end_communication)
<1>1. end_communication \in Seq(Steps)
  BY EndPath DEF Leads
<1>2. /\ Leads(<<"start", "mkfifo_driv2dev", "mkfifo_dev2driv", "open_out", "opened_out",
                 "open_in", "opened_in", "mainloop">>, "start",
               <<"mkfifo_driv2dev", "mkfifo_dev2driv", "open_out", "opened_out",
                 "open_in", "opened_in", "mainloop">>)
      /\ Leads(<<"mkfifo_driv2dev", "mkfifo_dev2driv", "open_out", "opened_out",
                 "open_in", "opened_in", "mainloop">>, "mkfifo_driv2dev",
               <<"mkfifo_dev2driv", "open_out", "opened_out", "open_in", "opened_in",
                 "mainloop">>)
      /\ Leads(<<"mkfifo_dev2driv", "open_out", "opened_out", "open_in", "opened_in",
                 "mainloop">>, "mkfifo_dev2driv",
               <<"open_out", "opened_out", "open_in", "opened_in", "mainloop">>)
  BY DEF Leads, Steps
<1>3. /\ Leads(<<"open_out", "opened_out", "open_in", "opened_in", "mainloop">>, "open_out",
               <<"opened_out", "open_in", "opened_in", "mainloop">>)
      /\ Leads(<<"opened_out", "open_in", "opened_in", "mainloop">>, "opened_out",
               <<"open_in", "opened_in", "mainloop">>)
      /\ Leads(<<"open_in", "opened_in", "mainloop">>, "open_in",
               <<"opened_in", "mainloop">>)
      /\ Leads(<<"opened_in", "mainloop">>, "opened_in", <<"mainloop">>)
      /\ Leads(<<"mainloop">>, "mainloop", << >>)
  BY DEF Leads, Steps
<1>4. << >> \o end_communication = end_communication
  BY <1>1, ConcatEmptySeq
<1>5. /\ Leads(firmware_main, "start", at_mkfifo_driv2dev)
      /\ Leads(at_mkfifo_driv2dev, "mkfifo_driv2dev", at_mkfifo_dev2driv)
      /\ Leads(at_mkfifo_dev2driv, "mkfifo_dev2driv", at_open_out)
  BY <1>1, <1>2, LeadsConcat
     DEF firmware_main, at_mkfifo_driv2dev, at_mkfifo_dev2driv, at_open_out
<1>6. /\ Leads(at_open_out, "open_out", at_opened_out)
      /\ Leads(at_opened_out, "opened_out", at_open_in)
      /\ Leads(at_open_in, "open_in", at_opened_in)
      /\ Leads(at_opened_in, "opened_in", at_mainloop)
  BY <1>1, <1>3, LeadsConcat
     DEF at_open_out, at_opened_out, at_open_in, at_opened_in, at_mainloop
<1>7. Leads(at_mainloop, "mainloop", end_communication)
  BY <1>1, <1>3, <1>4, LeadsConcat DEF at_mainloop
<1>. QED  BY <1>5, <1>6, <1>7

LEMMA HandlerPath ==
    /\ Leads(at_treat, "treat", at_send_reply)
    /\ Leads(at_send_reply, "send_reply", at_mainloop)
<1>1. at_mainloop \in Seq(Steps)
  BY FirmwarePath DEF Leads
<1>2. /\ Leads(<<"treat", "send_reply">>, "treat", <<"send_reply">>)
      /\ Leads(<<"send_reply">>, "send_reply", << >>)
  BY DEF Leads, Steps
<1>3. << >> \o at_mainloop = at_mainloop
  BY <1>1, ConcatEmptySeq
<1>. QED  BY <1>1, <1>2, <1>3, LeadsConcat DEF at_treat, at_send_reply

LEMMA FailedPath ==
  ASSUME NEW s \in {at_open_in, at_mainloop}
  PROVE  /\ Leads(end_communication \o s, "close_in", at_close_out \o s)
         /\ Leads(at_close_out \o s, "close_out", at_unlink_driv2dev \o s)
         /\ Leads(at_unlink_driv2dev \o s, "unlink_driv2dev", at_unlink_dev2driv \o s)
         /\ Leads(at_unlink_dev2driv \o s, "unlink_dev2driv", s)
<1>1. s \in Seq(Steps)
  BY FirmwarePath DEF Leads
<1>2. << >> \o s = s
  BY <1>1, ConcatEmptySeq
<1>. QED  BY <1>1, <1>2, EndPath, LeadsConcat

LEMMA DriverPath ==
    /\ Leads(application, "start", <<"open_in", "opened_in", "open_out", "opened_out", "idle">>)
    /\ Leads(<<"open_in", "opened_in", "open_out", "opened_out", "idle">>, "open_in",
             <<"opened_in", "open_out", "opened_out", "idle">>)
    /\ Leads(<<"opened_in", "open_out", "opened_out", "idle">>, "opened_in",
             <<"open_out", "opened_out", "idle">>)
    /\ Leads(<<"open_out", "opened_out", "idle">>, "open_out", <<"opened_out", "idle">>)
    /\ Leads(<<"opened_out", "idle">>, "opened_out", <<"idle">>)
    /\ Leads(<<"idle">>, "idle", << >>)
    /\ Leads(<<"read_reply", "idle">>, "read_reply", <<"idle">>)
    /\ Leads(<<"exit">>, "exit", << >>)
    /\ Leads(<<"close_out">>, "close_out", << >>)
BY DEF Leads, application, Steps

\* Where a device is, from the call it makes next, and where that call leads.
LEMMA DeviceAt ==
  ASSUME NEW s \in DevicePaths, s # << >>
  PROVE  /\ Head(s) = "start" => s = firmware_main
         /\ Head(s) = "mkfifo_driv2dev" => s = at_mkfifo_driv2dev
         /\ Head(s) = "mkfifo_dev2driv" => s = at_mkfifo_dev2driv
         /\ Head(s) = "open_out" => s = at_open_out
         /\ Head(s) = "opened_out" => s = at_opened_out
         /\ Head(s) = "open_in" => s = at_open_in
         /\ Head(s) = "opened_in" => s = at_opened_in
         /\ Head(s) = "mainloop" => s = at_mainloop
         /\ Head(s) = "treat" => s = at_treat
         /\ Head(s) = "send_reply" => s = at_send_reply
         /\ Head(s) \notin {"idle", "read_reply", "exit"}
         /\ Tail(s) \in DevicePaths
<1>1. CASE s \in StartPaths
  BY <1>1, FirmwarePath
     DEF DevicePaths, FirmwarePaths, StartPaths, OpenPaths, Leads
<1>2. CASE s \in OpenPaths
  BY <1>2, FirmwarePath
     DEF DevicePaths, FirmwarePaths, OpenPaths, LoopPaths, Leads
<1>3. CASE s \in LoopPaths
  BY <1>3, FirmwarePath, HandlerPath
     DEF DevicePaths, FirmwarePaths, LoopPaths, EndPaths, Leads
<1>4. CASE s \in EndPaths
  BY <1>4, EndPath DEF DevicePaths, FirmwarePaths, EndPaths, Leads
<1>5. ASSUME NEW t \in {at_open_in, at_mainloop}, s \in FailedPaths(t)
      PROVE  /\ Head(s) \in {"close_in", "close_out", "unlink_driv2dev", "unlink_dev2driv"}
             /\ Tail(s) \in FailedPaths(t) \cup {t}
  BY <1>5, FailedPath DEF FailedPaths, Leads
<1>6. CASE s \in FailedPaths(at_open_in) \cup FailedPaths(at_mainloop)
  <2>1. /\ Head(s) \in {"close_in", "close_out", "unlink_driv2dev", "unlink_dev2driv"}
        /\ Tail(s) \in DevicePaths
    BY <1>5, <1>6 DEF DevicePaths, FirmwarePaths, OpenPaths, LoopPaths
  <2>. QED  BY <2>1
<1>. QED  BY <1>1, <1>2, <1>3, <1>4, <1>6 DEF DevicePaths, FirmwarePaths

\* The paths that begin with start or with a mkfifo are never come back to.
LEMMA StartHeads ==
    /\ << >> \notin StartPaths
    /\ \A s \in StartPaths : Head(s) \in {"start", "mkfifo_driv2dev", "mkfifo_dev2driv"}
BY FirmwarePath DEF StartPaths, Leads

LEMMA DeviceOnward ==
  ASSUME NEW s \in DevicePaths, s # << >>
  PROVE  /\ Tail(s) \in StartPaths => s \in StartPaths
         /\ Tail(s) \in Unmade1 => s \in Unmade1
<1>1. CASE s \in StartPaths
  <2>1. Tail(firmware_main) \in Unmade1 /\ firmware_main \in Unmade1
    BY FirmwarePath DEF Unmade1, Leads
  <2>2. at_mkfifo_driv2dev \in Unmade1
    BY DEF Unmade1
  <2>3. Tail(at_mkfifo_dev2driv) \notin Unmade1
    BY FirmwarePath DEF Unmade1, Leads
  <2>. QED  BY <1>1, <2>1, <2>2, <2>3 DEF StartPaths
<1>2. ASSUME NEW t, t = << >> \/ Head(t) \notin {"start", "mkfifo_driv2dev", "mkfifo_dev2driv"}
      PROVE  t \notin StartPaths /\ t \notin Unmade1
  BY <1>2, StartHeads DEF StartPaths, Unmade1
<1>3. CASE s \in OpenPaths
  <2>1. Head(Tail(s)) \in {"opened_out", "open_in", "opened_in", "mainloop"}
    BY <1>3, FirmwarePath DEF OpenPaths, Leads
  <2>. QED  BY <1>2, <2>1
<1>4. CASE s \in LoopPaths
  <2>1. Head(Tail(s)) \in {"close_in", "send_reply", "mainloop"}
    BY <1>4, FirmwarePath, HandlerPath, EndPath DEF LoopPaths, Leads
  <2>. QED  BY <1>2, <2>1
<1>5. CASE s \in EndPaths
  <2>1. Tail(s) = << >> \/ Head(Tail(s)) \in {"close_out", "unlink_driv2dev", "unlink_dev2driv"}
    BY <1>5, EndPath DEF EndPaths, Leads
  <2>. QED  BY <1>2, <2>1
<1>6. ASSUME NEW t \in {at_open_in, at_mainloop}, s \in FailedPaths(t)
      PROVE  Tail(s) \notin StartPaths /\ Tail(s) \notin Unmade1
  <2>1. Head(t) \in {"open_in", "mainloop"}
    BY FirmwarePath DEF Leads
  <2>2. Head(Tail(s)) \in {"close_out", "unlink_driv2dev", "unlink_dev2driv", "open_in", "mainloop"}
    BY <1>6, <2>1, FailedPath DEF FailedPaths, Leads
  <2>. QED  BY <1>2, <2>2
<1>. QED  BY <1>1, <1>3, <1>4, <1>5, <1>6 DEF DevicePaths, FirmwarePaths

LEMMA DriverAt ==
  ASSUME NEW s \in DriverPaths, s # << >>
  PROVE  /\ Head(s) \in {"start", "open_in", "opened_in", "open_out", "opened_out", "idle",
                         "read_reply", "exit", "close_out"}
         /\ Head(s) = "idle" => s = <<"idle">>
         /\ Head(s) = "read_reply" => s = <<"read_reply", "idle">>
         /\ Tail(s) \in DriverPaths
BY DriverPath DEF DriverPaths, Leads

-----------------------------------------------------------------------------
(* Processes, and their steps.                                             *)

LEMMA ProcessFacts ==
    /\ Processes = Devices \cup Drivers
    /\ \A d \in Devices, v \in Drivers : d # v
    /\ \A d \in Devices : d[2] \in 1 .. DevicesNb /\ d = Device(d[2])
    /\ \A v \in Drivers : v[2] \in 1 .. DriversNb /\ v = Driver(v[2])
    /\ \A k \in 1 .. DevicesNb : Device(k) \in Devices
    /\ \A p \in Processes : p[2] \in Nat
<1>. USE RestartsAssumption DEF Processes, Devices, Drivers, Device, Driver
<1>1. \A d \in Devices : d[1] = "device" /\ d[2] \in 1 .. DevicesNb /\ d = <<"device", d[2]>>
  OBVIOUS
<1>2. \A v \in Drivers : v[1] = "driver" /\ v[2] \in 1 .. DriversNb /\ v = <<"driver", v[2]>>
  OBVIOUS
<1>3. \A d \in Devices, v \in Drivers : d # v
  BY <1>1, <1>2
<1>. QED  BY <1>1, <1>2, <1>3

\* Each step is one of these, and the regime stays.
LEMMA StepCases ==
  ASSUME [Next]_vars
  PROVE  /\ restart' = restart
         /\ \/ UNCHANGED vars
            \/ \E p \in Processes : \/ start(p) \/ opened(p) \/ open_in(p) \/ open_out(p)
                                    \/ open_failed(p) \/ kill(p)
            \/ \E d \in Devices : \/ mkfifo(d, "mkfifo_driv2dev", DRIV2DEV)
                                  \/ mkfifo(d, "mkfifo_dev2driv", DEV2DRIV)
                                  \/ unlink(d, "unlink_driv2dev", DRIV2DEV)
                                  \/ unlink(d, "unlink_dev2driv", DEV2DRIV)
                                  \/ mainloop_read(d) \/ mainloop_end(d) \/ treat(d)
                                  \/ send_reply(d) \/ close_in(d) \/ device_close(d) \/ dangling(d)
            \/ \E v \in Drivers : \/ read_reply(v) \/ read_reply_failed(v) \/ exit(v)
                                  \/ send_packet(v) \/ driver_close(v)
<1>1. CASE UNCHANGED vars
  BY <1>1 DEF vars
<1>2. CASE Next
  BY <1>2, ProcessFacts DEF Next, DeviceRuns, DriverRuns, Runs
<1>. QED  BY <1>1, <1>2

LEMMA PathTypes ==
    /\ DevicePaths \subseteq Seq(Steps)
    /\ DriverPaths \subseteq Seq(Steps)
    /\ << >> \in DevicePaths /\ << >> \in DriverPaths
<1>1. DevicePaths \subseteq Seq(Steps)
  BY EndPath, FirmwarePath, HandlerPath, FailedPath
     DEF DevicePaths, FirmwarePaths, StartPaths, OpenPaths, LoopPaths, EndPaths,
         FailedPaths, Leads
<1>2. DriverPaths \subseteq Seq(Steps)
  BY DriverPath DEF DriverPaths, Leads
<1>3. << >> \in DevicePaths /\ << >> \in DriverPaths
  BY DEF DevicePaths, FirmwarePaths, EndPaths, DriverPaths
<1>. QED  BY <1>1, <1>2, <1>3

\* One process goes on to s.
Goes(p, s) == todo' = [todo EXCEPT ![p] = s]

\* A device goes on to s, without coming back to a mkfifo.
Onward(d, s) ==
    /\ Goes(d, s)
    /\ s \in StartPaths => todo[d] \in StartPaths
    /\ s \in Unmade1 => todo[d] \in Unmade1

\* Where each step leaves the processes.
LEMMA TodoSteps ==
  ASSUME TodoInv, [Next]_vars
  PROVE  \/ todo' = todo
         \/ \E d \in Devices, s \in DevicePaths : Onward(d, s)
         \/ \E v \in Drivers, s \in DriverPaths : Goes(v, s)
<1>. USE DEF Goes, Onward
<1>0. << >> \notin StartPaths /\ << >> \notin Unmade1
  BY FirmwarePath DEF StartPaths, Unmade1, Leads
<1>1. ASSUME NEW d \in Devices
      PROVE  /\ todo[d] \in DevicePaths
             /\ NextCall(d) # "over" =>
                  /\ todo[d] # << >> /\ Tail(todo[d]) \in DevicePaths
                  /\ Tail(todo[d]) \in StartPaths => todo[d] \in StartPaths
                  /\ Tail(todo[d]) \in Unmade1 => todo[d] \in Unmade1
  <2>1. todo[d] \in DevicePaths
    BY DEF TodoInv
  <2>. QED  BY <2>1, DeviceAt, DeviceOnward DEF NextCall
<1>2. ASSUME NEW v \in Drivers
      PROVE  /\ todo[v] \in DriverPaths
             /\ NextCall(v) # "over" => Tail(todo[v]) \in DriverPaths
  BY DriverAt DEF TodoInv, NextCall
<1>3. ASSUME NEW p \in Processes, NextCall(p) # "over", goes_on(p)
      PROVE  \/ \E d \in Devices, s \in DevicePaths : Onward(d, s)
             \/ \E v \in Drivers, s \in DriverPaths : Goes(v, s)
  BY <1>1, <1>2, <1>3, ProcessFacts DEF goes_on
<1>4. ASSUME NEW p \in Processes, ends_now(p)
      PROVE  \/ \E d \in Devices, s \in DevicePaths : Onward(d, s)
             \/ \E v \in Drivers, s \in DriverPaths : Goes(v, s)
  BY <1>0, <1>4, PathTypes, ProcessFacts DEF ends_now
<1>5. CASE UNCHANGED vars
  BY <1>5 DEF vars
<1>6. ASSUME NEW p \in Processes, start(p) \/ opened(p) \/ open_in(p) \/ open_out(p) \/ kill(p)
      PROVE  \/ \E d \in Devices, s \in DevicePaths : Onward(d, s)
             \/ \E v \in Drivers, s \in DriverPaths : Goes(v, s)
  BY <1>3, <1>4, <1>6 DEF start, opened, open_in, open_out, kill
<1>7. ASSUME NEW p \in Processes, open_failed(p)
      PROVE  \/ \E d \in Devices, s \in DevicePaths : Onward(d, s)
             \/ \E v \in Drivers, s \in DriverPaths : Goes(v, s)
  <2>1. CASE p \in Drivers
    BY <1>4, <1>7, <2>1 DEF open_failed
  <2>2. CASE p \in Devices
    <3>1. todo[p] \in {at_open_in, at_open_out}
      <4>1. todo[p] # << >> /\ Head(todo[p]) \in {"open_in", "open_out"}
        BY <1>7 DEF open_failed, NextCall
      <4>. QED  BY <1>1, <2>2, <4>1, DeviceAt
    <3>2. Tail(Tail(todo[p])) \in {at_open_in, at_mainloop}
      BY <3>1, FirmwarePath DEF Leads
    <3>3. end_communication \o Tail(Tail(todo[p])) \in DevicePaths
      BY <3>2 DEF DevicePaths, FailedPaths
    <3>4. end_communication \o Tail(Tail(todo[p])) \notin StartPaths
      BY <3>2, FailedPath, StartHeads DEF Leads
    <3>. QED  BY <1>7, <2>2, <3>3, <3>4, ProcessFacts DEF open_failed, StartPaths, Unmade1
  <2>. QED  BY <2>1, <2>2, ProcessFacts
<1>8. ASSUME NEW d \in Devices,
             \/ mkfifo(d, "mkfifo_driv2dev", DRIV2DEV) \/ mkfifo(d, "mkfifo_dev2driv", DEV2DRIV)
             \/ unlink(d, "unlink_driv2dev", DRIV2DEV) \/ unlink(d, "unlink_dev2driv", DEV2DRIV)
             \/ mainloop_end(d) \/ treat(d) \/ send_reply(d) \/ dangling(d)
      PROVE  \E e \in Devices, s \in DevicePaths : Onward(e, s)
  BY <1>0, <1>1, <1>8, PathTypes
     DEF mkfifo, unlink, mainloop_end, treat, send_reply, dangling, goes_on, ends_now
<1>9. ASSUME NEW d \in Devices, close_in(d) \/ device_close(d)
      PROVE  \E e \in Devices, s \in DevicePaths : Onward(e, s)
  BY <1>0, <1>1, <1>9, PathTypes DEF close_in, device_close, goes_on
<1>10. ASSUME NEW d \in Devices, mainloop_read(d)
       PROVE  \E e \in Devices, s \in DevicePaths : Onward(e, s)
  <2>1. todo[d] = at_mainloop
    BY <1>1, <1>10, DeviceAt DEF mainloop_read, NextCall
  <2>2. todo' = [todo EXCEPT ![d] = at_treat]
    BY <1>10, <2>1 DEF mainloop_read, at_treat
  <2>3. at_treat \notin StartPaths
    BY HandlerPath, FirmwarePath DEF StartPaths, Leads
  <2>. QED  BY <2>2, <2>3 DEF DevicePaths, FirmwarePaths, LoopPaths, StartPaths, Unmade1
<1>11. ASSUME NEW v \in Drivers, \/ read_reply(v) \/ read_reply_failed(v) \/ exit(v)
                                 \/ send_packet(v) \/ driver_close(v)
       PROVE  \E w \in Drivers, s \in DriverPaths : Goes(w, s)
  <2>1. CASE read_reply(v)
    BY <1>2, <2>1 DEF read_reply, goes_on
  <2>2. CASE read_reply_failed(v)
    BY <2>2 DEF read_reply_failed, DriverPaths
  <2>3. CASE exit(v) \/ driver_close(v)
    BY <2>3, PathTypes DEF exit, driver_close, ends_now, DriverPaths
  <2>4. CASE send_packet(v)
    <3>1. todo[v] = <<"idle">>
      BY <1>2, <2>4, DriverAt DEF send_packet, NextCall
    <3>2. <<"read_reply">> \o <<"idle">> = <<"read_reply", "idle">>
      <4>1. <<"read_reply">> \in Seq(Steps) /\ <<"idle">> \in Seq(Steps)
            /\ <<"read_reply", "idle">> \in Seq(Steps)
        BY DEF Steps
      <4>2. /\ <<"read_reply">> \o <<"idle">> \in Seq(Steps)
            /\ Len(<<"read_reply">> \o <<"idle">>) = 2
            /\ (<<"read_reply">> \o <<"idle">>)[1] = "read_reply"
            /\ (<<"read_reply">> \o <<"idle">>)[2] = "idle"
        BY <4>1, ConcatProperties
      <4>3. ASSUME NEW s \in Seq(Steps), Len(s) = 2, s[1] = "read_reply", s[2] = "idle"
            PROVE  s = <<"read_reply", "idle">>
        BY <4>3
      <4>. QED  BY <4>2, <4>3
    <3>3. <<"read_reply">> \o todo[v] \in DriverPaths
      BY <3>1, <3>2 DEF DriverPaths
    <3>. QED  BY <2>4, <3>3, PathTypes DEF send_packet, ends_now
  <2>. QED  BY <1>11, <2>1, <2>2, <2>3, <2>4
<1>. QED  BY <1>5, <1>6, <1>7, <1>8, <1>9, <1>10, <1>11, StepCases

LEMMA TodoStep == ASSUME TodoInv, [Next]_vars PROVE TodoInv'
BY TodoSteps, PathTypes, ProcessFacts DEF TodoInv, Goes, Onward

LEMMA TodoInit == Init => TodoInv
BY FirmwarePath, DriverPath, ProcessFacts
   DEF Init, TodoInv, Leads, DevicePaths, FirmwarePaths, StartPaths, DriverPaths

-----------------------------------------------------------------------------
(* What a process does next, after what it does now.                       *)

\* The calls of a device follow each other like this.
LEMMA DeviceMoves ==
  ASSUME TodoInv, NEW d \in Devices, NextCall(d) # "over", goes_on(d)
  PROVE  /\ NextCall(d) = "start" => NextCall(d)' = "mkfifo_driv2dev"
         /\ NextCall(d) = "mkfifo_driv2dev" => NextCall(d)' = "mkfifo_dev2driv"
         /\ NextCall(d) = "mkfifo_dev2driv" => NextCall(d)' = "open_out"
         /\ NextCall(d) = "open_out" => NextCall(d)' = "opened_out"
         /\ NextCall(d) = "opened_out" => NextCall(d)' = "open_in"
         /\ NextCall(d) = "open_in" => NextCall(d)' = "opened_in"
         /\ NextCall(d) = "opened_in" => NextCall(d)' = "mainloop"
         /\ NextCall(d) = "mainloop" => NextCall(d)' = "close_in"
         /\ NextCall(d) = "treat" => NextCall(d)' = "send_reply"
         /\ NextCall(d) = "send_reply" => NextCall(d)' = "mainloop"
         /\ NextCall(d) = "close_in" => NextCall(d)' = "close_out"
         /\ NextCall(d) = "close_out" => NextCall(d)' = "unlink_driv2dev"
         /\ NextCall(d) = "unlink_driv2dev" => NextCall(d)' = "unlink_dev2driv"
         /\ NextCall(d) = "unlink_dev2driv" => NextCall(d)' \in {"over", "open_in", "mainloop"}
<1>1. /\ todo[d] \in DevicePaths /\ todo[d] # << >> /\ NextCall(d) = Head(todo[d])
      /\ todo'[d] = Tail(todo[d])
      /\ NextCall(d)' = IF todo'[d] = << >> THEN "over" ELSE Head(todo'[d])
  BY ProcessFacts DEF TodoInv, NextCall, goes_on
<1>2. ASSUME NEW s, NEW c, NEW t, Leads(s, c, t), todo[d] = s
      PROVE  /\ NextCall(d) = c
             /\ \A e, u : Leads(t, e, u) => NextCall(d)' = e
  BY <1>1, <1>2 DEF Leads
<1>3. CASE todo[d] \in StartPaths \cup OpenPaths \cup LoopPaths \cup EndPaths
  <2>1. todo[d] = firmware_main => NextCall(d) = "start" /\ NextCall(d)' = "mkfifo_driv2dev"
    BY <1>2, FirmwarePath
  <2>2. todo[d] = at_mkfifo_driv2dev => NextCall(d) = "mkfifo_driv2dev" /\ NextCall(d)' = "mkfifo_dev2driv"
    BY <1>2, FirmwarePath
  <2>3. todo[d] = at_mkfifo_dev2driv => NextCall(d) = "mkfifo_dev2driv" /\ NextCall(d)' = "open_out"
    BY <1>2, FirmwarePath
  <2>4. todo[d] = at_open_out => NextCall(d) = "open_out" /\ NextCall(d)' = "opened_out"
    BY <1>2, FirmwarePath
  <2>5. todo[d] = at_opened_out => NextCall(d) = "opened_out" /\ NextCall(d)' = "open_in"
    BY <1>2, FirmwarePath
  <2>6. todo[d] = at_open_in => NextCall(d) = "open_in" /\ NextCall(d)' = "opened_in"
    BY <1>2, FirmwarePath
  <2>7. todo[d] = at_opened_in => NextCall(d) = "opened_in" /\ NextCall(d)' = "mainloop"
    BY <1>2, FirmwarePath
  <2>8. todo[d] = at_mainloop => NextCall(d) = "mainloop" /\ NextCall(d)' = "close_in"
    BY <1>2, FirmwarePath, EndPath
  <2>9. todo[d] = at_treat => NextCall(d) = "treat" /\ NextCall(d)' = "send_reply"
    BY <1>2, HandlerPath
  <2>10. todo[d] = at_send_reply => NextCall(d) = "send_reply" /\ NextCall(d)' = "mainloop"
    BY <1>2, HandlerPath, FirmwarePath
  <2>11. todo[d] = end_communication => NextCall(d) = "close_in" /\ NextCall(d)' = "close_out"
    BY <1>2, EndPath
  <2>15. todo[d] = at_close_out => NextCall(d) = "close_out" /\ NextCall(d)' = "unlink_driv2dev"
    BY <1>2, EndPath
  <2>12. todo[d] = at_unlink_driv2dev => NextCall(d) = "unlink_driv2dev" /\ NextCall(d)' = "unlink_dev2driv"
    BY <1>2, EndPath
  <2>13. todo[d] = at_unlink_dev2driv => NextCall(d) = "unlink_dev2driv" /\ NextCall(d)' = "over"
    BY <1>1, <1>2, EndPath DEF Leads
  <2>14. todo[d] # << >>
    BY <1>1
  <2>. QED  BY <1>3, <2>1, <2>2, <2>3, <2>4, <2>5, <2>6, <2>7, <2>8, <2>9, <2>10, <2>11, <2>12,
               <2>13, <2>14, <2>15 DEF StartPaths, OpenPaths, LoopPaths, EndPaths
<1>4. ASSUME NEW s \in {at_open_in, at_mainloop}, todo[d] \in FailedPaths(s)
      PROVE  /\ NextCall(d) = "close_in" => NextCall(d)' = "close_out"
             /\ NextCall(d) = "close_out" => NextCall(d)' = "unlink_driv2dev"
             /\ NextCall(d) = "unlink_driv2dev" => NextCall(d)' = "unlink_dev2driv"
             /\ NextCall(d) = "unlink_dev2driv" => NextCall(d)' \in {"open_in", "mainloop"}
             /\ NextCall(d) \in {"close_in", "close_out", "unlink_driv2dev", "unlink_dev2driv"}
  <2>1. s # << >> /\ Head(s) \in {"open_in", "mainloop"}
    BY FirmwarePath DEF Leads
  <2>. QED  BY <1>1, <1>4, <2>1, FailedPath DEF FailedPaths, Leads
<1>5. CASE todo[d] \in FailedPaths(at_open_in) \cup FailedPaths(at_mainloop)
  <2>1. /\ NextCall(d) = "close_in" => NextCall(d)' = "close_out"
        /\ NextCall(d) = "close_out" => NextCall(d)' = "unlink_driv2dev"
        /\ NextCall(d) = "unlink_driv2dev" => NextCall(d)' = "unlink_dev2driv"
        /\ NextCall(d) = "unlink_dev2driv" => NextCall(d)' \in {"open_in", "mainloop"}
        /\ NextCall(d) \in {"close_in", "close_out", "unlink_driv2dev", "unlink_dev2driv"}
    BY <1>4, <1>5
  <2>. QED  BY <2>1
<1>. QED  BY <1>1, <1>3, <1>5 DEF DevicePaths, FirmwarePaths

LEMMA DriverMoves ==
  ASSUME TodoInv, NEW v \in Drivers, NextCall(v) # "over", goes_on(v)
  PROVE  /\ NextCall(v) = "start" => NextCall(v)' = "open_in"
         /\ NextCall(v) = "open_in" => NextCall(v)' = "opened_in"
         /\ NextCall(v) = "opened_in" => NextCall(v)' = "open_out"
         /\ NextCall(v) = "open_out" => NextCall(v)' = "opened_out"
         /\ NextCall(v) = "opened_out" => NextCall(v)' = "idle"
         /\ NextCall(v) = "read_reply" => NextCall(v)' = "idle"
<1>1. /\ todo[v] \in DriverPaths /\ todo[v] # << >> /\ NextCall(v) = Head(todo[v])
      /\ todo'[v] = Tail(todo[v])
      /\ NextCall(v)' = IF todo'[v] = << >> THEN "over" ELSE Head(todo'[v])
  BY ProcessFacts DEF TodoInv, NextCall, goes_on
<1>. QED  BY <1>1, DriverPath DEF DriverPaths, Leads

\* The calls each kind of process makes.
LEMMA Calling ==
  ASSUME TodoInv
  PROVE  /\ \A d \in Devices : NextCall(d) \in (Steps \ {"idle", "read_reply", "exit"}) \cup {"over"}
         /\ \A v \in Drivers :
              NextCall(v) \in {"start", "open_in", "opened_in", "open_out", "opened_out",
                               "idle", "read_reply", "exit", "close_out", "over"}
<1>1. \A d \in Devices : todo[d] # << >> => Head(todo[d]) \in Steps
  BY ProcessFacts DEF TodoInv
<1>. QED  BY <1>1, DeviceAt, DriverAt DEF TodoInv, NextCall

\* A process that ends is over.
LEMMA EndsNow ==
  ASSUME TodoInv, NEW p \in Processes, todo' = [todo EXCEPT ![p] = << >>]
  PROVE  NextCall(p)' = "over"
BY DEF TodoInv, NextCall

\* A step in which p goes on, and the open that failed.
LEMMA OpenFails ==
  ASSUME TodoInv, NEW d \in Devices, open_failed(d)
  PROVE  NextCall(d)' = "close_in"
<1>1. todo[d] \in {at_open_in, at_open_out}
  <2>1. todo[d] \in DevicePaths /\ todo[d] # << >> /\ Head(todo[d]) \in {"open_in", "open_out"}
    BY DEF TodoInv, open_failed, NextCall
  <2>. QED  BY <2>1, DeviceAt
<1>2. Tail(Tail(todo[d])) \in {at_open_in, at_mainloop}
  BY <1>1, FirmwarePath DEF Leads
<1>3. todo'[d] = end_communication \o Tail(Tail(todo[d]))
  BY ProcessFacts DEF TodoInv, open_failed
<1>. QED  BY <1>2, <1>3, FailedPath DEF NextCall, Leads

\* Only its own steps change what a process has still to do, and its ends.
LEMMA OwnSteps ==
  ASSUME TodoInv, TypeOK, [Next]_vars, NEW p \in Processes
  PROVE  \/ todo'[p] = todo[p] /\ fd_in'[p] = fd_in[p] /\ fd_out'[p] = fd_out[p]
         \/ start(p) \/ opened(p) \/ open_in(p) \/ open_out(p) \/ open_failed(p) \/ kill(p)
         \/ /\ p \in Devices
            /\ \/ mkfifo(p, "mkfifo_driv2dev", DRIV2DEV)
               \/ mkfifo(p, "mkfifo_dev2driv", DEV2DRIV)
               \/ unlink(p, "unlink_driv2dev", DRIV2DEV)
               \/ unlink(p, "unlink_dev2driv", DEV2DRIV)
               \/ mainloop_read(p) \/ mainloop_end(p) \/ treat(p)
               \/ send_reply(p) \/ close_in(p) \/ device_close(p) \/ dangling(p)
         \/ /\ p \in Drivers
            /\ \/ read_reply(p) \/ read_reply_failed(p) \/ exit(p)
               \/ send_packet(p) \/ driver_close(p)
<1>1. CASE UNCHANGED vars
  BY <1>1 DEF vars, ends
<1>2. ASSUME NEW q \in Processes, q # p,
             \E s : Goes(q, s),
             \/ UNCHANGED <<fd_in, fd_out>>
             \/ closes(q)
             \/ fd_out' = fd_out /\ \E f : fd_in' = [fd_in EXCEPT ![q] = f]
             \/ fd_in' = fd_in /\ \E f : fd_out' = [fd_out EXCEPT ![q] = f]
      PROVE  todo'[p] = todo[p] /\ fd_in'[p] = fd_in[p] /\ fd_out'[p] = fd_out[p]
  BY <1>2 DEF TodoInv, TypeOK, closes, Goes
<1>3. ASSUME NEW q \in Processes, q # p, \/ start(q) \/ opened(q) \/ open_in(q) \/ open_out(q)
                                         \/ open_failed(q) \/ kill(q)
      PROVE  todo'[p] = todo[p] /\ fd_in'[p] = fd_in[p] /\ fd_out'[p] = fd_out[p]
  BY <1>2, <1>3 DEF start, opened, open_in, open_out, open_failed, kill, goes_on, ends_now, ends, Goes
<1>4. ASSUME NEW q \in Processes, q # p,
             \/ mkfifo(q, "mkfifo_driv2dev", DRIV2DEV) \/ mkfifo(q, "mkfifo_dev2driv", DEV2DRIV)
             \/ unlink(q, "unlink_driv2dev", DRIV2DEV) \/ unlink(q, "unlink_dev2driv", DEV2DRIV)
             \/ mainloop_read(q) \/ mainloop_end(q) \/ treat(q)
             \/ send_reply(q) \/ close_in(q) \/ device_close(q) \/ dangling(q)
      PROVE  todo'[p] = todo[p] /\ fd_in'[p] = fd_in[p] /\ fd_out'[p] = fd_out[p]
  BY <1>2, <1>4 DEF mkfifo, unlink, mainloop_read, mainloop_end, treat, send_reply,
    close_in, closes_in, device_close, dangling, goes_on, ends_now, ends, Goes
<1>5. ASSUME NEW q \in Processes, q # p, \/ read_reply(q) \/ read_reply_failed(q) \/ exit(q)
                                         \/ send_packet(q) \/ driver_close(q)
      PROVE  todo'[p] = todo[p] /\ fd_in'[p] = fd_in[p] /\ fd_out'[p] = fd_out[p]
  BY <1>2, <1>5 DEF read_reply, read_reply_failed, exit, send_packet, driver_close,
    closes_in, goes_on, ends_now, ends, Goes
<1>. QED  BY <1>1, <1>3, <1>4, <1>5, StepCases, ProcessFacts

\* A process that ends has no ends left.
LEMMA EndsNowCloses ==
  ASSUME TodoInv, TypeOK, NEW p \in Processes, ends_now(p)
  PROVE  NextCall(p)' = "over" /\ fd_in'[p] = None /\ fd_out'[p] = None
BY EndsNow DEF ends_now, closes, TypeOK

LEMMA EndsStep == TodoInv /\ TypeOK /\ EndsInv /\ [Next]_vars => EndsInv'
<1>. SUFFICES ASSUME TodoInv, TypeOK, EndsInv, [Next]_vars, NEW p \in Processes
              PROVE  /\ NextCall(p)' \in NotOpen => fd_in'[p] = None /\ fd_out'[p] = None
                     /\ p \in Drivers =>
                         /\ NextCall(p)' \in {"opened_in", "open_out", "opened_out", "idle",
                                              "read_reply"} => fd_in'[p] # None
                         /\ NextCall(p)' \in {"opened_out", "idle", "read_reply"}
                              => fd_out'[p] # None
  BY ProcessFacts DEF EndsInv
<1>1. CASE todo'[p] = todo[p] /\ fd_in'[p] = fd_in[p] /\ fd_out'[p] = fd_out[p]
  <2>1. NextCall(p)' = NextCall(p)
    BY <1>1 DEF NextCall
  <2>. QED  BY <1>1, <2>1 DEF EndsInv
<1>2. CASE ends_now(p)
  BY <1>2, EndsNowCloses DEF NotOpen
<1>3. CASE p \in Devices
  <2>. SUFFICES ASSUME NextCall(p)' \in NotOpen
                PROVE  fd_in'[p] = None /\ fd_out'[p] = None
    BY <1>3, ProcessFacts
  <2>1. ASSUME NextCall(p) \in NotOpen \ {"over"}, goes_on(p), UNCHANGED ends
        PROVE  fd_in'[p] = None /\ fd_out'[p] = None
    BY <2>1 DEF EndsInv, ends
  <2>2. ASSUME NextCall(p) \in {"open_out", "opened_out", "open_in", "opened_in", "mainloop",
                                "treat", "send_reply"}, goes_on(p)
        PROVE  FALSE
    BY <1>3, <2>2, DeviceMoves DEF NotOpen
  <2>3. CASE start(p) \/ opened(p) \/ open_in(p) \/ open_out(p) \/ kill(p)
    BY <1>2, <2>1, <2>2, <2>3 DEF start, opened, open_in, open_out, kill, NotOpen
  <2>4. CASE open_failed(p)
    BY <1>3, <2>4, OpenFails DEF NotOpen
  <2>5. CASE \/ mkfifo(p, "mkfifo_driv2dev", DRIV2DEV) \/ mkfifo(p, "mkfifo_dev2driv", DEV2DRIV)
             \/ unlink(p, "unlink_driv2dev", DRIV2DEV) \/ unlink(p, "unlink_dev2driv", DEV2DRIV)
    BY <2>1, <2>5 DEF mkfifo, unlink, NotOpen
  <2>6. CASE mainloop_end(p) \/ treat(p) \/ send_reply(p) \/ dangling(p)
    BY <1>2, <2>2, <2>6 DEF mainloop_end, treat, send_reply, dangling
  <2>7. CASE device_close(p)
    BY <2>7 DEF device_close, closes, TypeOK
  <2>9. CASE close_in(p)
    BY <1>3, <2>9, DeviceMoves DEF close_in, NotOpen
  <2>8. CASE mainloop_read(p)
    <3>1. todo[p] = at_mainloop
      BY <1>3, <2>8, DeviceAt DEF mainloop_read, NextCall, TodoInv
    <3>2. todo'[p] = at_treat
      BY <2>8, <3>1 DEF mainloop_read, at_treat, TodoInv
    <3>. QED  BY <3>2, HandlerPath DEF NextCall, Leads, NotOpen
  <2>. QED  BY <1>1, <1>3, <2>3, <2>4, <2>5, <2>6, <2>7, <2>8, <2>9,
               OwnSteps, ProcessFacts
<1>4. CASE p \in Drivers
  <2>1. CASE start(p) \/ opened(p)
    BY <1>4, <2>1, DriverMoves, Calling DEF start, opened, NotOpen, ends, EndsInv
  <2>2. CASE open_in(p)
    BY <1>4, <2>2, DriverMoves DEF open_in, NotOpen, TypeOK
  <2>3. CASE open_out(p)
    BY <1>4, <2>3, DriverMoves DEF open_out, NotOpen, TypeOK, EndsInv
  <2>4. CASE open_failed(p) \/ kill(p) \/ exit(p)
    BY <1>2, <1>4, <2>4 DEF open_failed, kill, exit
  <2>5. CASE read_reply(p)
    BY <1>4, <2>5, DriverMoves DEF read_reply, NotOpen, ends, EndsInv
  <2>6. CASE read_reply_failed(p) \/ driver_close(p)
    <3>1. todo'[p] \in {<<"exit">>, <<"close_out">>}
      BY <2>6 DEF read_reply_failed, driver_close, TodoInv
    <3>. QED  BY <3>1 DEF NextCall, NotOpen
  <2>7. CASE send_packet(p) /\ ~ends_now(p)
    <3>1. NextCall(p)' = "read_reply" /\ UNCHANGED ends
      <4>1. todo[p] = <<"idle">> /\ todo'[p] = <<"read_reply">> \o todo[p]
        BY <1>4, <2>7, DriverAt DEF send_packet, NextCall, TodoInv
      <4>2. Leads(<<"read_reply">>, "read_reply", << >>) /\ <<"idle">> \in Seq(Steps)
        BY DEF Leads, Steps
      <4>3. Leads(<<"read_reply">> \o <<"idle">>, "read_reply", << >> \o <<"idle">>)
        BY <4>2, LeadsConcat
      <4>. QED  BY <2>7, <4>1, <4>3 DEF NextCall, Leads, send_packet
    <3>. QED  BY <1>4, <2>7, <3>1 DEF send_packet, NotOpen, ends, EndsInv
  <2>. QED  BY <1>1, <1>2, <1>4, <2>1, <2>2, <2>3, <2>4, <2>5, <2>6, <2>7, OwnSteps, ProcessFacts
<1>. QED  BY <1>3, <1>4, ProcessFacts

\* A request is taken in hand by mainloop_read, and kept until its reply is sent.
LEMMA HoldsStep ==
  ASSUME TodoInv, TypeOK, [Next]_vars, NEW d \in Devices, Holds(d)'
  PROVE  \/ Holds(d) /\ req'[d] = req[d] /\ (NextCall(d)' = "treat" => NextCall(d) = "treat")
         \/ mainloop_read(d) /\ req'[d] = Head(data[fd_in[d]])
<1>1. req'[d] = req[d] \/ mainloop_read(d) \/ send_reply(d)
  <2>1. ASSUME NEW e \in Devices, e # d, \E r : req' = [req EXCEPT ![e] = r]
        PROVE  req'[d] = req[d]
    BY <2>1 DEF TypeOK
  <2>2. CASE \E p \in Processes : \/ start(p) \/ opened(p) \/ open_in(p) \/ open_out(p)
                                  \/ open_failed(p) \/ kill(p)
    BY <2>2 DEF start, opened, open_in, open_out, open_failed, kill, mem
  <2>3. CASE \E v \in Drivers : \/ read_reply(v) \/ read_reply_failed(v) \/ exit(v)
                                \/ send_packet(v) \/ driver_close(v)
    BY <2>3 DEF read_reply, read_reply_failed, exit, send_packet, driver_close, mem
  <2>4. ASSUME NEW e \in Devices, mainloop_read(e) \/ send_reply(e)
        PROVE  req'[d] = req[d] \/ mainloop_read(d) \/ send_reply(d)
    BY <2>1, <2>4 DEF mainloop_read, send_reply
  <2>5. ASSUME NEW e \in Devices,
               \/ mkfifo(e, "mkfifo_driv2dev", DRIV2DEV)
               \/ mkfifo(e, "mkfifo_dev2driv", DEV2DRIV)
               \/ unlink(e, "unlink_driv2dev", DRIV2DEV)
               \/ unlink(e, "unlink_dev2driv", DEV2DRIV)
               \/ mainloop_end(e) \/ treat(e) \/ close_in(e) \/ device_close(e) \/ dangling(e)
        PROVE  req'[d] = req[d]
    BY <2>5 DEF mkfifo, unlink, mainloop_end, treat, close_in, device_close, dangling, mem
  <2>6. CASE UNCHANGED vars
    BY <2>6 DEF vars, mem
  <2>. QED  BY <2>2, <2>3, <2>4, <2>5, <2>6, StepCases
<1>2. ASSUME ends_now(d) PROVE FALSE
  BY <1>2, EndsNowCloses, ProcessFacts DEF Holds
<1>3. ASSUME goes_on(d), NextCall(d) # "over"
      PROVE  NextCall(d) = "treat" /\ NextCall(d)' = "send_reply"
  BY <1>3, DeviceMoves, Calling DEF Holds, Steps
<1>4. CASE mainloop_read(d)
  BY <1>4 DEF mainloop_read, TypeOK
<1>5. CASE send_reply(d)
  BY <1>2, <1>3, <1>5 DEF send_reply
<1>6. CASE todo'[d] = todo[d]
  BY <1>1, <1>4, <1>5, <1>6 DEF Holds, NextCall
<1>7. ASSUME \/ mkfifo(d, "mkfifo_driv2dev", DRIV2DEV) \/ mkfifo(d, "mkfifo_dev2driv", DEV2DRIV)
             \/ unlink(d, "unlink_driv2dev", DRIV2DEV) \/ unlink(d, "unlink_dev2driv", DEV2DRIV)
             \/ start(d) \/ opened(d) \/ open_in(d) \/ open_out(d) \/ kill(d)
             \/ mainloop_end(d) \/ dangling(d)
      PROVE  FALSE
  BY <1>2, <1>3, <1>7 DEF mkfifo, unlink, start, opened, open_in, open_out, kill, mainloop_end,
    dangling
<1>8. CASE treat(d)
  <2>1. NextCall(d) = "treat" /\ NextCall(d)' = "send_reply" /\ req'[d] = req[d]
    BY <1>1, <1>3, <1>4, <1>5, <1>8 DEF treat
  <2>. QED  BY <2>1 DEF Holds
<1>9. CASE open_failed(d)
  BY <1>9, OpenFails DEF Holds
<1>10. CASE close_in(d) \/ device_close(d)
  BY <1>3, <1>10, EndsNow, ProcessFacts DEF close_in, device_close, Holds
<1>. QED  BY <1>4, <1>5, <1>6, <1>7, <1>8, <1>9, <1>10, OwnSteps, ProcessFacts

-----------------------------------------------------------------------------
(* Where the files in use come from.                                       *)

LEMMA FileFacts ==
    /\ None \notin Files /\ IsFiniteSet(Files) /\ Cardinality(Files) = 2 * DevicesNb
    /\ Made1 \in SUBSET (1 .. DevicesNb) /\ Made2 \in SUBSET (1 .. DevicesNb)
    /\ IsFiniteSet(1 .. DevicesNb) /\ Cardinality(1 .. DevicesNb) = DevicesNb
    /\ DevicesNb \in Nat
<1>1. DevicesNb \in Nat /\ 1 \in Int /\ DevicesNb \in Int /\ 2 * DevicesNb \in Int
      /\ ~(1 > DevicesNb /\ DevicesNb # 0) /\ ~(1 > 2 * DevicesNb /\ DevicesNb # 0)
  BY RestartsAssumption
<1>2. IsFiniteSet(1 .. DevicesNb) /\ Cardinality(1 .. DevicesNb) = DevicesNb
  BY <1>1, FS_Interval
<1>3. IsFiniteSet(Files) /\ Cardinality(Files) = 2 * DevicesNb
  BY <1>1, FS_Interval DEF Files
<1>4. None \notin Files
  BY DEF None, Files
<1>. QED  BY <1>1, <1>2, <1>3, <1>4 DEF Made1, Made2

\* A device that has still to make a FIFO finds a file that nobody uses.
LEMMA FreeFile ==
  ASSUME InUseInv, NEW d \in Devices, todo[d] \in {at_mkfifo_driv2dev, at_mkfifo_dev2driv}
  PROVE  NewFile \in Files /\ NewFile \notin InUse
<1>1. d[2] \in 1 .. DevicesNb /\ d[2] \notin Made2
  BY ProcessFacts DEF Made2, StartPaths
<1>2. /\ IsFiniteSet(Made1) /\ Cardinality(Made1) <= DevicesNb
      /\ IsFiniteSet(Made2) /\ Cardinality(Made2) <= DevicesNb
      /\ Cardinality(Made2) = DevicesNb => 1 .. DevicesNb = Made2
  <2>1. ASSUME NEW S, IsFiniteSet(S), Cardinality(S) = DevicesNb
        PROVE  \A T \in SUBSET S : /\ IsFiniteSet(T) /\ Cardinality(T) <= DevicesNb
                                   /\ Cardinality(T) = DevicesNb => S = T
    BY <2>1, FS_Subset
  <2>2. IsFiniteSet(1 .. DevicesNb) /\ Cardinality(1 .. DevicesNb) = DevicesNb
    BY FileFacts
  <2>3. \A T \in SUBSET (1 .. DevicesNb) :
          /\ IsFiniteSet(T) /\ Cardinality(T) <= DevicesNb
          /\ Cardinality(T) = DevicesNb => 1 .. DevicesNb = T
    BY <2>1, <2>2
  <2>4. Made1 \in SUBSET (1 .. DevicesNb) /\ Made2 \in SUBSET (1 .. DevicesNb)
    BY FileFacts
  <2>. QED  BY <2>3, <2>4, Zenon
<1>3. /\ Cardinality(Made1) \in Nat /\ Cardinality(Made2) \in Nat
      /\ Cardinality(Made2) # DevicesNb
  BY <1>1, <1>2, FS_CardinalityType
<1>4. Cardinality(InUse) < Cardinality(Files)
  <2>1. InUse \in SUBSET Files
    BY DEF InUse
  <2>2. Cardinality(InUse) \in Nat
    BY <2>1, FileFacts, FS_Subset, FS_CardinalityType
  <2>. QED  BY <1>2, <1>3, <2>2, FileFacts DEF InUseInv
<1>5. InUse # Files
  BY <1>4, FileFacts
<1>6. PICK f \in Files : f \notin InUse
  BY <1>5 DEF InUse
<1>7. /\ Readers(f) \cup Writers(f) = {}
      /\ \A n \in DOMAIN name : name[n] # f
  BY <1>6 DEF InUse
<1>8. /\ NewFile \in Files /\ Readers(NewFile) \cup Writers(NewFile) = {}
      /\ \A n \in DOMAIN name : name[n] # NewFile
  BY <1>7 DEF NewFile
<1>. QED  BY <1>8 DEF InUse

\* A name leads to the same file, to none, or to a new one after a mkfifo.
MakesFile(d) ==
    \/ /\ mkfifo(d, "mkfifo_driv2dev", DRIV2DEV) /\ name[DRIV2DEV] = None
       /\ name' = [name EXCEPT ![DRIV2DEV] = NewFile]
    \/ /\ mkfifo(d, "mkfifo_dev2driv", DEV2DRIV) /\ name[DEV2DRIV] = None
       /\ name' = [name EXCEPT ![DEV2DRIV] = NewFile]

LEMMA NameSteps ==
  ASSUME TypeOK, [Next]_vars
  PROVE  \/ name' = name
         \/ \E d \in Devices : \/ /\ unlink(d, "unlink_driv2dev", DRIV2DEV)
                                  /\ name' = [name EXCEPT ![DRIV2DEV] = None]
                               \/ /\ unlink(d, "unlink_dev2driv", DEV2DRIV)
                                  /\ name' = [name EXCEPT ![DEV2DRIV] = None]
         \/ \E d \in Devices : MakesFile(d)
<1>1. CASE UNCHANGED vars
  BY <1>1 DEF vars, files
<1>2. CASE \E p \in Processes : \/ start(p) \/ opened(p) \/ open_in(p) \/ open_out(p)
                                \/ open_failed(p) \/ kill(p)
  BY <1>2 DEF start, opened, open_in, open_out, open_failed, kill, files
<1>3. ASSUME NEW d \in Devices, mkfifo(d, "mkfifo_driv2dev", DRIV2DEV)
      PROVE  name' = name \/ MakesFile(d)
  BY <1>3 DEF mkfifo, MakesFile, TypeOK
<1>4. ASSUME NEW d \in Devices, mkfifo(d, "mkfifo_dev2driv", DEV2DRIV)
      PROVE  name' = name \/ MakesFile(d)
  BY <1>4 DEF mkfifo, MakesFile, TypeOK
<1>5. ASSUME NEW d \in Devices, \/ mainloop_read(d) \/ mainloop_end(d) \/ treat(d)
                                \/ send_reply(d) \/ close_in(d) \/ device_close(d) \/ dangling(d)
      PROVE  name' = name
  BY <1>5 DEF mainloop_read, mainloop_end, treat, send_reply, close_in, device_close, dangling,
    files
<1>6. ASSUME NEW v \in Drivers, \/ read_reply(v) \/ read_reply_failed(v) \/ exit(v)
                                \/ send_packet(v) \/ driver_close(v)
      PROVE  name' = name
  BY <1>6 DEF read_reply, read_reply_failed, exit, send_packet, driver_close, files
<1>. QED  BY <1>1, <1>2, <1>3, <1>4, <1>5, <1>6, StepCases DEF unlink

\* An end stays, is closed, or is opened on the file its name leads to.
LEMMA FdSteps ==
  ASSUME TodoInv, TypeOK, [Next]_vars, NEW p \in Processes
  PROVE  /\ \/ fd_in'[p] \in {fd_in[p], None}
            \/ open_in(p) /\ fd_in'[p] = name[in_filename(p)]
         /\ \/ fd_out'[p] \in {fd_out[p], None}
            \/ open_out(p) /\ fd_out'[p] = name[out_filename(p)]
<1>1. CASE UNCHANGED <<fd_in, fd_out>> \/ closes_in(p) \/ closes(p)
  BY <1>1 DEF closes_in, closes, TypeOK
<1>2. CASE open_in(p) \/ open_out(p)
  BY <1>2 DEF open_in, open_out, TypeOK
<1>3. CASE start(p) \/ opened(p) \/ open_failed(p) \/ kill(p)
  BY <1>1, <1>3 DEF start, opened, open_failed, kill, ends_now, ends
<1>4. CASE \/ mkfifo(p, "mkfifo_driv2dev", DRIV2DEV) \/ mkfifo(p, "mkfifo_dev2driv", DEV2DRIV)
           \/ unlink(p, "unlink_driv2dev", DRIV2DEV) \/ unlink(p, "unlink_dev2driv", DEV2DRIV)
           \/ mainloop_read(p) \/ mainloop_end(p) \/ treat(p)
           \/ send_reply(p) \/ close_in(p) \/ device_close(p) \/ dangling(p)
  BY <1>1, <1>4 DEF mkfifo, unlink, mainloop_read, mainloop_end, treat, send_reply,
    close_in, device_close, dangling, ends_now, ends
<1>5. CASE \/ read_reply(p) \/ read_reply_failed(p) \/ exit(p)
           \/ send_packet(p) \/ driver_close(p)
  BY <1>1, <1>5 DEF read_reply, read_reply_failed, exit, send_packet, driver_close, ends_now,
    ends
<1>. QED  BY <1>2, <1>3, <1>4, <1>5, OwnSteps

\* What comes into use is the file that is made.
LEMMA InUseSteps ==
  ASSUME TodoInv, TypeOK, [Next]_vars
  PROVE  InUse' \subseteq InUse \cup (IF \E d \in Devices : MakesFile(d) THEN {NewFile} ELSE {})
<1>. SUFFICES ASSUME NEW f \in InUse', f \notin InUse
              PROVE  f = NewFile /\ \E d \in Devices : MakesFile(d)
  OBVIOUS
<1>1. f \in Files /\ f # None
  BY FileFacts DEF InUse
<1>2. \A n \in {DRIV2DEV, DEV2DRIV} : name[n] # f
  BY <1>1 DEF InUse, TypeOK
<1>3. \A p \in Processes : fd_in[p] # f /\ fd_out[p] # f
  BY <1>1 DEF InUse, Readers, Writers
<1>4. \A p \in Processes : fd_in'[p] # f /\ fd_out'[p] # f
  BY <1>1, <1>2, <1>3, FdSteps DEF in_filename, out_filename
<1>5. PICK n \in DOMAIN name' : name'[n] = f
  BY <1>4 DEF InUse, Readers, Writers
<1>. QED  BY <1>1, <1>2, <1>5, NameSteps DEF TypeOK, MakesFile

\* The mkfifo that are made are not made again.
LEMMA MadeSteps ==
  ASSUME TodoInv, [Next]_vars
  PROVE  Made1 \subseteq Made1' /\ Made2 \subseteq Made2'
<1>1. ASSUME NEW k \in 1 .. DevicesNb
      PROVE  /\ todo'[Device(k)] \in StartPaths => todo[Device(k)] \in StartPaths
             /\ todo'[Device(k)] \in Unmade1 => todo[Device(k)] \in Unmade1
  BY TodoSteps, ProcessFacts DEF TodoInv, Goes, Onward
<1>. QED  BY <1>1 DEF Made1, Made2

\* A new file is one more mkfifo that is made.
LEMMA InUseStep == TodoInv /\ TypeOK /\ InUseInv /\ [Next]_vars => InUseInv'
<1>. SUFFICES ASSUME TodoInv, TypeOK, InUseInv, [Next]_vars PROVE InUseInv'
  OBVIOUS
<1>1. /\ Made1' \in SUBSET (1 .. DevicesNb) /\ Made2' \in SUBSET (1 .. DevicesNb)
      /\ InUse \in SUBSET Files /\ InUse' \in SUBSET Files
  BY DEF Made1, Made2, InUse
<1>2. ASSUME NEW S, IsFiniteSet(S), NEW T \in SUBSET S
      PROVE  IsFiniteSet(T) /\ Cardinality(T) \in Nat /\ Cardinality(T) <= Cardinality(S)
  BY <1>2, FS_Subset, FS_CardinalityType
<1>3. IsFiniteSet(Made1') /\ IsFiniteSet(Made2') /\ IsFiniteSet(InUse) /\ IsFiniteSet(InUse')
  BY <1>1, <1>2, FileFacts
<1>4. /\ IsFiniteSet(Made1) /\ Cardinality(Made1) \in Nat /\ Cardinality(Made1) <= Cardinality(Made1')
      /\ IsFiniteSet(Made2) /\ Cardinality(Made2) \in Nat /\ Cardinality(Made2) <= Cardinality(Made2')
      /\ Cardinality(Made1') \in Nat /\ Cardinality(Made2') \in Nat
      /\ Cardinality(InUse) \in Nat /\ Cardinality(InUse') \in Nat
  BY <1>2, <1>3, MadeSteps, FS_CardinalityType
<1>5. ASSUME NEW S, IsFiniteSet(S), NEW T, IsFiniteSet(T), S \subseteq T,
             NEW x, x \notin S, x \in T
      PROVE  Cardinality(S) + 1 <= Cardinality(T)
  <2>1. S \cup {x} \in SUBSET T /\ Cardinality(S \cup {x}) = Cardinality(S) + 1
    BY <1>5, FS_AddElement
  <2>. QED  BY <1>2, <1>5, <2>1
<1>6. CASE \E d \in Devices : MakesFile(d)
  <2>1. PICK d \in Devices : MakesFile(d)
    BY <1>6
  <2>2. d[2] \in 1 .. DevicesNb /\ d = Device(d[2]) /\ d \in Processes
    BY ProcessFacts
  <2>3. \/ Cardinality(Made1) + 1 <= Cardinality(Made1')
        \/ Cardinality(Made2) + 1 <= Cardinality(Made2')
    <3>1. CASE NextCall(d) = "mkfifo_driv2dev" /\ goes_on(d)
      <4>1. todo[d] = at_mkfifo_driv2dev /\ todo'[d] = at_mkfifo_dev2driv
        BY <2>2, <3>1, DeviceAt, FirmwarePath DEF NextCall, TodoInv, goes_on, Leads
      <4>2. at_mkfifo_dev2driv \notin Unmade1 /\ at_mkfifo_driv2dev \in Unmade1
        BY FirmwarePath DEF Unmade1, Leads
      <4>3. d[2] \notin Made1 /\ d[2] \in Made1'
        BY <2>2, <4>1, <4>2 DEF Made1
      <4>. QED  BY <1>3, <1>4, <1>5, <4>3, MadeSteps
    <3>2. CASE NextCall(d) = "mkfifo_dev2driv" /\ goes_on(d)
      <4>1. todo[d] = at_mkfifo_dev2driv /\ todo'[d] = at_open_out
        BY <2>2, <3>2, DeviceAt, FirmwarePath DEF NextCall, TodoInv, goes_on, Leads
      <4>2. at_open_out \notin StartPaths /\ at_mkfifo_dev2driv \in StartPaths
        BY FirmwarePath DEF StartPaths, Leads
      <4>3. d[2] \notin Made2 /\ d[2] \in Made2'
        BY <2>2, <4>1, <4>2 DEF Made2
      <4>. QED  BY <1>3, <1>4, <1>5, <4>3, MadeSteps
    <3>. QED  BY <2>1, <3>1, <3>2 DEF MakesFile, mkfifo
  <2>4. Cardinality(InUse') <= Cardinality(InUse) + 1
    <3>1. InUse' \in SUBSET (InUse \cup {NewFile})
      BY InUseSteps
    <3>2. IsFiniteSet(InUse \cup {NewFile})
          /\ Cardinality(InUse \cup {NewFile}) <= Cardinality(InUse) + 1
      <4>1. ASSUME NEW S, IsFiniteSet(S), Cardinality(S) \in Nat, NEW x
            PROVE  IsFiniteSet(S \cup {x}) /\ Cardinality(S \cup {x}) <= Cardinality(S) + 1
        <5>1. IsFiniteSet(S \cup {x}) /\ Cardinality(S \cup {x}) =
                                            IF x \in S THEN Cardinality(S) ELSE Cardinality(S) + 1
          BY <4>1, FS_AddElement, Zenon
        <5>. QED  BY <4>1, <5>1
      <4>. QED  BY <1>3, <1>4, <4>1
    <3>3. Cardinality(InUse') <= Cardinality(InUse \cup {NewFile})
      BY <1>2, <3>1, <3>2
    <3>4. Cardinality(InUse \cup {NewFile}) \in Nat
      BY <3>2, FS_CardinalityType
    <3>. QED  BY <1>4, <3>2, <3>3, <3>4
  <2>. QED  BY <1>4, <2>3, <2>4 DEF InUseInv
<1>7. CASE ~\E d \in Devices : MakesFile(d)
  <2>1. InUse' \in SUBSET InUse
    BY <1>7, InUseSteps
  <2>2. Cardinality(InUse') <= Cardinality(InUse)
    BY <1>2, <1>3, <2>1
  <2>. QED  BY <1>4, <2>2 DEF InUseInv
<1>. QED  BY <1>6, <1>7

-----------------------------------------------------------------------------
(* Type correctness.                                                       *)

LEMMA RequestFacts ==
    /\ << >> \notin Requests
    /\ \A v \in Drivers, k \in 0 .. Calls : k < Calls => <<v, k + 1>> \in Requests
    /\ \A r \in Requests : r[1] \in Drivers /\ r[2] \in 1 .. Calls /\ r = <<r[1], r[2]>>
BY RestartsAssumption DEF Requests

\* An end that is open is on a file; what a read finds first is a request.
LEMMA HeadType ==
  ASSUME DataType, NEW f \in Files, data[f] # << >>
  PROVE  Head(data[f]) \in Requests
BY DEF DataType

\* One FIFO is written, or read.
LEMMA DataExcept ==
  ASSUME DataType, NEW f \in Files, NEW s \in Seq(Requests)
  PROVE  [data EXCEPT ![f] = s] \in [Files -> Seq(Requests)]
BY DEF DataType

LEMMA Incremented ==
  ASSUME NEW S, NEW f \in [S -> Nat], NEW x \in S
  PROVE  [f EXCEPT ![x] = @ + 1] \in [S -> Nat]
OBVIOUS

LEMMA ClosesType ==
  ASSUME TypeOK, DataType, NEW p \in Processes, closes_in(p) \/ closes(p)
  PROVE  /\ data' \in [Files -> Seq(Requests)]
         /\ fd_in' \in [Processes -> Files \cup {None}]
         /\ fd_out' \in [Processes -> Files \cup {None}]
         /\ woken' \subseteq Processes
<1>1. data' \in [Files -> Seq(Requests)]
  <2>1. << >> \in Seq(Requests)
    OBVIOUS
  <2>2. CASE closes_in(p)
    BY <2>1, <2>2 DEF closes_in, DataType
  <2>3. CASE closes(p)
    BY <2>1, <2>3 DEF closes, DataType
  <2>. QED  BY <2>2, <2>3
<1>2. /\ fd_in' \in [Processes -> Files \cup {None}]
      /\ fd_out' \in [Processes -> Files \cup {None}]
      /\ woken' \subseteq Processes
  BY DEF closes_in, closes, TypeOK
<1>. QED  BY <1>1, <1>2

\* The types, without what they say of a request that is in hand.
Types ==
    /\ name \in [{DRIV2DEV, DEV2DRIV} -> Files \cup {None}]
    /\ fd_in \in [Processes -> Files \cup {None}]
    /\ fd_out \in [Processes -> Files \cup {None}]
    /\ woken \subseteq Processes /\ killed \subseteq Processes
    /\ calls \in [Drivers -> 0 .. Calls]
    /\ taken \in [Drivers -> Requests \cup {<< >>}]
    /\ req \in [Devices -> Requests \cup {<< >>}]
    /\ DataType

LEMMA TypesStep ==
  ASSUME TodoInv, TypeOK, DataType, EndsInv, InUseInv, [Next]_vars
  PROVE  Types'
<1>0. Types
  BY DEF Types, TypeOK
<1>1. name' \in [{DRIV2DEV, DEV2DRIV} -> Files \cup {None}]
  <2>1. ASSUME NEW d \in Devices, MakesFile(d) PROVE NewFile \in Files
    <3>1. todo[d] \in {at_mkfifo_driv2dev, at_mkfifo_dev2driv}
      BY <2>1, DeviceAt DEF MakesFile, mkfifo, NextCall, TodoInv
    <3>. QED  BY <3>1, FreeFile
  <2>. QED  BY <2>1, NameSteps DEF TypeOK, MakesFile
<1>2. restart' \in Regimes
  BY StepCases DEF DataType
<1>3. CASE UNCHANGED vars
  BY <1>0, <1>3 DEF vars, files, ends, mem, Types, DataType
<1>4. ASSUME NEW p \in Processes, ends_now(p), UNCHANGED <<calls, taken, served, frees>>,
             req' \in [Devices -> Requests \cup {<< >>}], killed' \subseteq Processes
      PROVE  Types'
  BY <1>0, <1>1, <1>2, <1>4, ClosesType DEF Types, DataType, ends_now
<1>5. ASSUME NEW p \in Processes, \/ start(p) \/ opened(p) \/ open_in(p) \/ open_out(p)
      PROVE  Types'
  <2>1. woken' \subseteq Processes
    <3>1. Readers(name[out_filename(p)]) \subseteq Processes
          /\ Writers(name[in_filename(p)]) \subseteq Processes
      BY DEF Readers, Writers
    <3>. QED  BY <1>0, <1>5, <3>1
              DEF start, opened, open_in, open_out, open_wakes, ends, Types
  <2>2. /\ fd_in' \in [Processes -> Files \cup {None}]
        /\ fd_out' \in [Processes -> Files \cup {None}]
    BY <1>0, <1>5 DEF start, opened, open_in, open_out, ends, Types, in_filename, out_filename
  <2>. QED  BY <1>0, <1>1, <1>2, <1>5, <2>1, <2>2
            DEF start, opened, open_in, open_out, files, mem, Types, DataType
<1>6. ASSUME NEW p \in Processes, open_failed(p) \/ kill(p)
      PROVE  Types'
  <2>1. killed' \subseteq Processes
    BY <1>0, <1>6 DEF open_failed, kill, Types
  <2>. QED  BY <1>0, <1>1, <1>2, <1>4, <1>6, <2>1 DEF open_failed, kill, ends, mem, Types, DataType
<1>7. ASSUME NEW d \in Devices,
             \/ mkfifo(d, "mkfifo_driv2dev", DRIV2DEV) \/ mkfifo(d, "mkfifo_dev2driv", DEV2DRIV)
             \/ unlink(d, "unlink_driv2dev", DRIV2DEV) \/ unlink(d, "unlink_dev2driv", DEV2DRIV)
             \/ mainloop_end(d) \/ dangling(d)
      PROVE  Types'
  BY <1>0, <1>1, <1>2, <1>4, <1>7, ProcessFacts
     DEF mkfifo, unlink, mainloop_end, dangling, files, ends, mem, Types, DataType
<1>8. ASSUME NEW d \in Devices, treat(d)
      PROVE  Types'
  <2>1. served' \in [Requests -> Nat]
    <3>1. req[d] \in Requests
      BY <1>8 DEF TypeOK, treat
    <3>. QED  BY <1>8, <3>1, Incremented DEF treat, DataType
  <2>. QED  BY <1>0, <1>1, <1>2, <1>8, <2>1 DEF treat, files, ends, Types, DataType
<1>9. ASSUME NEW d \in Devices, device_close(d)
      PROVE  Types'
  <2>1. frees' \in [Devices -> Nat]
    BY <1>0, <1>9 DEF device_close, Types, DataType
  <2>. QED  BY <1>0, <1>1, <1>2, <1>9, <2>1, ClosesType, ProcessFacts
            DEF device_close, Types, DataType
<1>15. ASSUME NEW d \in Devices, close_in(d)
       PROVE  Types'
  BY <1>0, <1>1, <1>2, <1>15, ClosesType, ProcessFacts DEF close_in, mem, Types, DataType
<1>10. ASSUME NEW d \in Devices, mainloop_read(d)
       PROVE  Types'
  <2>1. fd_in[d] \in Files
    BY <1>0, <1>10, ProcessFacts DEF mainloop_read, Types
  <2>2. Head(data[fd_in[d]]) \in Requests
    BY <1>10, <2>1, HeadType DEF mainloop_read
  <2>3. data' \in [Files -> Seq(Requests)]
    <3>1. << >> \in Seq(Requests)
      OBVIOUS
    <3>2. [data EXCEPT ![fd_in[d]] = << >>] \in [Files -> Seq(Requests)]
      BY <2>1, <3>1, DataExcept
    <3>. QED  BY <1>10, <3>2 DEF mainloop_read
  <2>. QED  BY <1>0, <1>1, <1>2, <1>10, <2>2, <2>3 DEF mainloop_read, ends, Types, DataType
<1>11. ASSUME NEW d \in Devices, send_reply(d)
       PROVE  Types'
  <2>1. req' \in [Devices -> Requests \cup {<< >>}]
    BY <1>0, <1>11 DEF send_reply, Types
  <2>2. CASE ends_now(d)
    BY <1>0, <1>4, <1>11, <2>1, <2>2, ProcessFacts DEF send_reply, Types
  <2>3. CASE UNCHANGED ends
    <3>1. req[d] \in Requests
      BY <1>11 DEF TypeOK, send_reply
    <3>2. data' \in [Files -> Seq(Requests)]
      <4>1. CASE ends_now(d)
        BY <4>1, ClosesType, ProcessFacts DEF ends_now
      <4>2. CASE fd_out[d] = None /\ data' = data
        BY <4>2 DEF DataType
      <4>3. CASE fd_out[d] # None /\ data' = [data EXCEPT ![fd_out[d]] = Append(@, req[d])]
        <5>1. fd_out[d] \in Files
          BY <4>3, ProcessFacts DEF TypeOK
        <5>2. Append(data[fd_out[d]], req[d]) \in Seq(Requests)
          BY <3>1, <5>1, AppendProperties DEF DataType
        <5>. QED  BY <4>3, <5>1, <5>2, DataExcept
      <4>. QED  BY <1>11, <4>1, <4>2, <4>3 DEF send_reply
    <3>. QED  BY <1>0, <1>1, <1>2, <1>11, <2>1, <2>3, <3>2 DEF send_reply, ends, Types, DataType
  <2>. QED  BY <1>11, <2>2, <2>3 DEF send_reply
<1>12. ASSUME NEW v \in Drivers, \/ read_reply_failed(v) \/ exit(v) \/ driver_close(v)
       PROVE  Types'
  BY <1>0, <1>1, <1>2, <1>4, <1>12, ClosesType, ProcessFacts
     DEF read_reply_failed, exit, driver_close, files, ends, mem, Types, DataType
<1>13. ASSUME NEW v \in Drivers, read_reply(v)
       PROVE  Types'
  <2>1. fd_in[v] \in Files
    BY <1>0, <1>13, ProcessFacts DEF read_reply, Types, EndsInv
  <2>2. Head(data[fd_in[v]]) \in Requests
    BY <1>13, <2>1, HeadType DEF read_reply
  <2>3. data' \in [Files -> Seq(Requests)]
    <3>1. << >> \in Seq(Requests)
      OBVIOUS
    <3>2. [data EXCEPT ![fd_in[v]] = << >>] \in [Files -> Seq(Requests)]
      BY <2>1, <3>1, DataExcept
    <3>. QED  BY <1>13, <3>2 DEF read_reply
  <2>. QED  BY <1>0, <1>1, <1>2, <1>13, <2>2, <2>3 DEF read_reply, ends, Types, DataType
<1>14. ASSUME NEW v \in Drivers, send_packet(v)
       PROVE  Types'
  <2>1. CASE ends_now(v) /\ UNCHANGED calls
    BY <1>0, <1>4, <1>14, <2>1, ProcessFacts DEF send_packet, Types, DataType
  <2>2. CASE /\ calls' = [calls EXCEPT ![v] = @ + 1]
             /\ data' = [data EXCEPT ![fd_out[v]] = Append(@, <<v, calls[v] + 1>>)]
             /\ UNCHANGED ends
    <3>1. calls' \in [Drivers -> 0 .. Calls]
      BY <1>0, <1>14, <2>2, RestartsAssumption DEF send_packet, Types
    <3>2. <<v, calls[v] + 1>> \in Requests
      BY <1>0, <1>14, RequestFacts DEF send_packet, Types
    <3>3. data' \in [Files -> Seq(Requests)]
      <4>1. fd_out[v] \in Files
        BY <1>14, ProcessFacts DEF TypeOK, EndsInv, send_packet
      <4>2. Append(data[fd_out[v]], <<v, calls[v] + 1>>) \in Seq(Requests)
        BY <3>2, <4>1, AppendProperties DEF DataType
      <4>. QED  BY <2>2, <4>1, <4>2, DataExcept
    <3>. QED  BY <1>0, <1>1, <1>2, <1>14, <2>2, <3>1, <3>3 DEF send_packet, ends, Types, DataType
  <2>. QED  BY <1>14, <2>1, <2>2 DEF send_packet
<1>. QED  BY <1>3, <1>5, <1>6, <1>7, <1>8, <1>9, <1>10, <1>11, <1>12, <1>13, <1>14, <1>15,
             StepCases

\* What holds at every point of what each process is doing, of the files and of the types.
BaseInv == TodoInv /\ TypeOK /\ DataType /\ EndsInv /\ InUseInv

LEMMA BaseInit == Init => BaseInv
<1>. SUFFICES ASSUME Init PROVE BaseInv
  OBVIOUS
<1>1. TodoInv
  BY TodoInit
<1>2. \A p \in Processes : NextCall(p) = "start"
  BY FirmwarePath, DriverPath, ProcessFacts DEF Init, NextCall, Leads
<1>3. DataType
  BY DEF Init, DataType
<1>4. TypeOK
  <2>1. 0 \in 0 .. Calls
    BY RestartsAssumption
  <2>. QED  BY <1>2, <2>1, ProcessFacts DEF Init, TypeOK
<1>5. EndsInv
  BY <1>2, ProcessFacts DEF Init, EndsInv
<1>6. InUseInv
  <2>1. InUse = {}
    BY FileFacts DEF Init, InUse, Readers, Writers
  <2>2. Cardinality(InUse) = 0
    BY <2>1, FS_EmptySet
  <2>3. Cardinality(Made1) \in Nat /\ Cardinality(Made2) \in Nat
    <3>1. \A S \in SUBSET (1 .. DevicesNb) : Cardinality(S) \in Nat
      BY FileFacts, FS_Subset, FS_CardinalityType
    <3>. QED  BY <3>1, FileFacts
  <2>. QED  BY <2>2, <2>3 DEF InUseInv
<1>. QED  BY <1>1, <1>3, <1>4, <1>5, <1>6 DEF BaseInv

LEMMA BaseStep == BaseInv /\ [Next]_vars => BaseInv'
<1>. SUFFICES ASSUME BaseInv, [Next]_vars PROVE BaseInv'
  OBVIOUS
<1>. USE DEF BaseInv
<1>1. TodoInv' /\ EndsInv' /\ InUseInv'
  BY TodoStep, EndsStep, InUseStep
<1>2. Types'
  BY TypesStep
<1>3. ASSUME NEW d \in Devices, NextCall(d)' \in {"treat", "send_reply"}
      PROVE  req'[d] # << >>
  <2>1. Holds(d)'
    BY <1>3 DEF Holds
  <2>2. CASE Holds(d) /\ req'[d] = req[d]
    BY <2>2 DEF TypeOK, Holds
  <2>3. CASE mainloop_read(d) /\ req'[d] = Head(data[fd_in[d]])
    <3>1. fd_in[d] \in Files
      BY <2>3, ProcessFacts DEF mainloop_read, TypeOK
    <3>. QED  BY <2>3, <3>1, HeadType, RequestFacts DEF mainloop_read
  <2>. QED  BY <2>1, <2>2, <2>3, HoldsStep
<1>4. TypeOK'
  BY <1>2, <1>3 DEF TypeOK, Types, DataType
<1>. QED  BY <1>1, <1>2, <1>4 DEF Types

\* The types of the variables: there is always a file for mkfifo to make, a request in
\* hand while a device performs it and replies, and a file behind every end that is used.
THEOREM RestartsTypeHolds == Spec => []TypeOK
<1>1. BaseInv => TypeOK
  BY DEF BaseInv
<1>. QED  BY <1>1, BaseInit, BaseStep, PTL DEF Spec

-----------------------------------------------------------------------------
(* What the FIFOs hold.                                                    *)

\* A send_packet that does not end the application.
LEMMA SendMoves ==
  ASSUME TodoInv, NEW v \in Drivers, NextCall(v) = "idle",
         todo' = [todo EXCEPT ![v] = <<"read_reply">> \o @]
  PROVE  NextCall(v)' = "read_reply"
<1>1. todo[v] = <<"idle">> /\ todo'[v] = <<"read_reply">> \o todo[v]
  BY DriverAt, ProcessFacts DEF NextCall, TodoInv
<1>2. Leads(<<"read_reply">>, "read_reply", << >>) /\ <<"idle">> \in Seq(Steps)
  BY DEF Leads, Steps
<1>3. Leads(<<"read_reply">> \o <<"idle">>, "read_reply", << >> \o <<"idle">>)
  BY <1>2, LeadsConcat
<1>. QED  BY <1>1, <1>3 DEF NextCall, Leads

\* A mainloop_read goes on with the handler.
LEMMA ReadMoves ==
  ASSUME TodoInv, NEW d \in Devices, mainloop_read(d)
  PROVE  NextCall(d)' = "treat"
<1>1. todo[d] = at_mainloop
  BY DeviceAt DEF mainloop_read, NextCall, TodoInv
<1>2. todo'[d] = at_treat
  BY <1>1, ProcessFacts DEF mainloop_read, at_treat, TodoInv
<1>. QED  BY <1>2, HandlerPath DEF NextCall, Leads

LEMMA UnopenedInit == Init => UnopenedInv
BY ProcessFacts DEF Init, UnopenedInv

LEMMA UnopenedStep == BaseInv /\ UnopenedInv /\ [Next]_vars => UnopenedInv'
<1>. SUFFICES ASSUME BaseInv, UnopenedInv, [Next]_vars, NEW p \in Processes
              PROVE  /\ NextCall(p)' = "open_in" => fd_in'[p] = None
                     /\ NextCall(p)' = "open_out" => fd_out'[p] = None
                     /\ p \in Devices /\ NextCall(p)' \in {"open_out", "opened_out"}
                          => fd_in'[p] = None
                     /\ p \in Drivers /\ NextCall(p)' \in {"open_in", "opened_in"}
                          => fd_out'[p] = None
  BY ProcessFacts DEF UnopenedInv
<1>. USE DEF BaseInv
<1>1. CASE todo'[p] = todo[p] /\ fd_in'[p] = fd_in[p] /\ fd_out'[p] = fd_out[p]
  <2>1. NextCall(p)' = NextCall(p)
    BY <1>1 DEF NextCall
  <2>. QED  BY <1>1, <2>1 DEF UnopenedInv
<1>2. CASE ends_now(p)
  BY <1>2, EndsNowCloses
<1>3. CASE p \in Devices
  <2>0. ASSUME goes_on(p), NextCall(p) # "over"
        PROVE  /\ NextCall(p)' = "open_in" => NextCall(p) \in {"opened_out", "unlink_dev2driv"}
               /\ NextCall(p)' = "open_out" => NextCall(p) = "mkfifo_dev2driv"
               /\ NextCall(p)' = "opened_out" => NextCall(p) = "open_out"
    BY <1>3, <2>0, DeviceMoves, Calling DEF Steps
  <2>1. CASE /\ goes_on(p) /\ NextCall(p) # "over"
             /\ UNCHANGED ends \/ open_in(p) \/ open_out(p) \/ opened(p)
    <3>1. NextCall(p)' = "open_in" => fd_in'[p] = None
      BY <1>3, <2>0, <2>1 DEF UnopenedInv, EndsInv, NotOpen, ends, open_in, open_out, opened
    <3>2. NextCall(p)' = "open_out" => fd_in'[p] = None /\ fd_out'[p] = None
      BY <1>3, <2>0, <2>1 DEF UnopenedInv, EndsInv, NotOpen, ends, open_in, open_out, opened
    <3>3. NextCall(p)' = "opened_out" => fd_in'[p] = None
      BY <1>3, <2>0, <2>1 DEF UnopenedInv, EndsInv, NotOpen, ends, open_in, open_out, opened
    <3>. QED  BY <1>3, <3>1, <3>2, <3>3, ProcessFacts
  <2>2. CASE start(p) \/ opened(p) \/ open_in(p) \/ open_out(p) \/ kill(p)
    BY <1>2, <2>1, <2>2 DEF start, opened, open_in, open_out, kill
  <2>3. CASE open_failed(p)
    BY <1>3, <2>3, OpenFails, ProcessFacts
  <2>4. CASE \/ mkfifo(p, "mkfifo_driv2dev", DRIV2DEV) \/ mkfifo(p, "mkfifo_dev2driv", DEV2DRIV)
             \/ unlink(p, "unlink_driv2dev", DRIV2DEV) \/ unlink(p, "unlink_dev2driv", DEV2DRIV)
             \/ mainloop_end(p) \/ treat(p) \/ send_reply(p) \/ dangling(p)
    BY <1>2, <2>1, <2>4 DEF mkfifo, unlink, mainloop_end, treat, send_reply, dangling
  <2>5. CASE close_in(p) \/ device_close(p)
    BY <1>3, <2>5, DeviceMoves DEF close_in, device_close, closes, TypeOK
  <2>6. CASE mainloop_read(p)
    BY <1>3, <2>6, ReadMoves, ProcessFacts
  <2>. QED  BY <1>1, <1>3, <2>2, <2>3, <2>4, <2>5, <2>6, OwnSteps, ProcessFacts
<1>4. CASE p \in Drivers
  <2>0. ASSUME goes_on(p), NextCall(p) \notin {"over", "idle", "exit", "close_out"}
        PROVE  /\ NextCall(p)' = "open_in" => NextCall(p) = "start"
               /\ NextCall(p)' = "opened_in" => NextCall(p) = "open_in"
               /\ NextCall(p)' = "open_out" => NextCall(p) = "opened_in"
    BY <1>4, <2>0, DriverMoves, Calling
  <2>1. CASE start(p) \/ opened(p) \/ open_in(p) \/ open_out(p)
    <3>1. NextCall(p)' = "open_in" => fd_in'[p] = None /\ fd_out'[p] = None
      BY <1>4, <2>0, <2>1 DEF UnopenedInv, EndsInv, NotOpen, ends, start, open_in, open_out, opened
    <3>2. NextCall(p)' \in {"opened_in", "open_out"} => fd_out'[p] = None
      BY <1>4, <2>0, <2>1 DEF UnopenedInv, EndsInv, NotOpen, ends, start, open_in, open_out, opened
    <3>. QED  BY <1>4, <3>1, <3>2, ProcessFacts
  <2>2. CASE open_failed(p) \/ kill(p) \/ exit(p)
    BY <1>2, <1>4, <2>2 DEF open_failed, kill, exit
  <2>3. CASE read_reply(p)
    BY <1>4, <2>3, DriverMoves DEF read_reply
  <2>4. CASE read_reply_failed(p) \/ driver_close(p)
    <3>1. todo'[p] \in {<<"exit">>, <<"close_out">>}
      BY <2>4 DEF read_reply_failed, driver_close, TodoInv
    <3>. QED  BY <3>1 DEF NextCall
  <2>5. CASE send_packet(p) /\ ~ends_now(p)
    BY <1>4, <2>5, SendMoves DEF send_packet
  <2>. QED  BY <1>1, <1>2, <1>4, <2>1, <2>2, <2>3, <2>4, <2>5, OwnSteps, ProcessFacts
<1>. QED  BY <1>3, <1>4, ProcessFacts

\* What a FIFO holds stays, or is lost or read.
Kept == \A f \in Files : data'[f] \in {data[f], << >>}

\* A device that is not in S has no request in hand that it did not have.
HandsKept(S) ==
    \A d \in Devices \ S :
      Holds(d)' => /\ Holds(d) /\ req'[d] = req[d]
                   /\ NextCall(d)' = "treat" => NextCall(d) = "treat"

\* A reply, or a request, goes into a FIFO.
SendsReply(d) ==
    /\ send_reply(d) /\ ~Holds(d)' /\ UNCHANGED ends
    /\ fd_out[d] \in Files
    /\ data' = [data EXCEPT ![fd_out[d]] = Append(@, req[d])]
SendsRequest(v) ==
    /\ send_packet(v) /\ UNCHANGED ends
    /\ fd_out[v] \in Files /\ calls[v] < Calls
    /\ calls' = [calls EXCEPT ![v] = @ + 1]
    /\ data' = [data EXCEPT ![fd_out[v]] = Append(@, <<v, calls[v] + 1>>)]

LEMMA ClosesKeeps == ASSUME NEW p \in Processes, closes_in(p) \/ closes(p) PROVE Kept
BY DEF closes_in, closes, Kept

LEMMA HandsKeptBy ==
  ASSUME BaseInv, [Next]_vars, NEW S,
         \A d \in Devices \ S : todo'[d] = todo[d] \/ ~mainloop_read(d)
  PROVE  HandsKept(S)
<1>. SUFFICES ASSUME NEW d \in Devices \ S, Holds(d)'
              PROVE  /\ Holds(d) /\ req'[d] = req[d]
                     /\ NextCall(d)' = "treat" => NextCall(d) = "treat"
  BY DEF HandsKept
<1>1. ~mainloop_read(d)
  <2>1. mainloop_read(d) => todo'[d] # todo[d]
    BY ReadMoves DEF BaseInv, NextCall, mainloop_read
  <2>. QED  BY <2>1
<1>. QED  BY <1>1, HoldsStep DEF BaseInv

\* Each step keeps the FIFOs and the hands, or does one of three things to them.
LEMMA DataSteps ==
  ASSUME BaseInv, [Next]_vars
  PROVE  \/ Kept /\ HandsKept({}) /\ calls' = calls
         \/ \E d \in Devices : mainloop_read(d) /\ HandsKept({d})
         \/ \E d \in Devices : SendsReply(d) /\ HandsKept({})
         \/ \E v \in Drivers : SendsRequest(v) /\ HandsKept({})
<1>. USE DEF BaseInv
<1>1. ASSUME NEW p \in Processes, NEW s, Goes(p, s), p \in Devices => ~mainloop_read(p)
      PROVE  HandsKept({})
  <2>1. \A d \in Devices \ {} : todo'[d] = todo[d] \/ ~mainloop_read(d)
    BY <1>1, ProcessFacts DEF Goes, TodoInv
  <2>. QED  BY <2>1, HandsKeptBy
<1>2. CASE UNCHANGED vars
  <2>1. todo' = todo /\ data' = data /\ calls' = calls
    BY <1>2 DEF vars, files, mem
  <2>. QED  BY <2>1, HandsKeptBy DEF Kept
<1>3. ASSUME NEW p \in Processes, \/ start(p) \/ opened(p) \/ open_in(p) \/ open_out(p)
                                  \/ open_failed(p) \/ kill(p)
      PROVE  Kept /\ HandsKept({}) /\ calls' = calls
  <2>1. \E s : Goes(p, s)
    BY <1>3 DEF start, opened, open_in, open_out, open_failed, kill, goes_on, ends_now, Goes
  <2>2. Kept /\ calls' = calls
    BY <1>3, ClosesKeeps DEF start, opened, open_in, open_out, open_failed, kill, ends_now, Kept,
      files, mem
  <2>3. p \in Devices => ~mainloop_read(p)
    <3>1. CASE kill(p)
      BY <3>1, ReadMoves, EndsNow, ProcessFacts DEF kill, ends_now
    <3>2. CASE ~kill(p)
      BY <1>3, <3>2 DEF start, opened, open_in, open_out, open_failed, mainloop_read
    <3>. QED  BY <3>1, <3>2
  <2>. QED  BY <1>1, <2>1, <2>2, <2>3
<1>4. ASSUME NEW d \in Devices,
             \/ mkfifo(d, "mkfifo_driv2dev", DRIV2DEV) \/ mkfifo(d, "mkfifo_dev2driv", DEV2DRIV)
             \/ unlink(d, "unlink_driv2dev", DRIV2DEV) \/ unlink(d, "unlink_dev2driv", DEV2DRIV)
             \/ mainloop_end(d) \/ treat(d) \/ close_in(d) \/ device_close(d) \/ dangling(d)
      PROVE  Kept /\ HandsKept({}) /\ calls' = calls
  <2>1. \E s : Goes(d, s)
    BY <1>4 DEF mkfifo, unlink, mainloop_end, treat, close_in, device_close, dangling, goes_on,
      ends_now, Goes
  <2>2. Kept /\ calls' = calls
    BY <1>4, ClosesKeeps, ProcessFacts DEF mkfifo, unlink, mainloop_end, treat, close_in,
      device_close, dangling, ends_now, Kept, files, mem
  <2>3. ~mainloop_read(d)
    <3>1. CASE dangling(d)
      BY <3>1, ReadMoves, EndsNow, ProcessFacts DEF dangling, ends_now
    <3>2. CASE mainloop_end(d)
      BY <3>2, ReadMoves, DeviceMoves DEF mainloop_end
    <3>3. CASE ~dangling(d) /\ ~mainloop_end(d)
      BY <1>4, <3>3 DEF mkfifo, unlink, treat, close_in, device_close, mainloop_read
    <3>. QED  BY <3>1, <3>2, <3>3
  <2>. QED  BY <1>1, <2>1, <2>2, <2>3, ProcessFacts
<1>5. ASSUME NEW v \in Drivers, \/ read_reply(v) \/ read_reply_failed(v) \/ exit(v)
                                \/ driver_close(v) \/ send_packet(v)
      PROVE  HandsKept({})
  <2>1. \E s : Goes(v, s)
    BY <1>5 DEF read_reply, read_reply_failed, exit, driver_close, send_packet, goes_on, ends_now,
      Goes
  <2>. QED  BY <1>1, <2>1, ProcessFacts
<1>6. ASSUME NEW v \in Drivers, \/ read_reply(v) \/ read_reply_failed(v) \/ exit(v)
                                \/ driver_close(v)
      PROVE  Kept /\ calls' = calls
  <2>1. CASE read_reply(v)
    BY <2>1 DEF read_reply, Kept, DataType
  <2>. QED  BY <1>6, <2>1, ClosesKeeps, ProcessFacts
            DEF read_reply_failed, exit, driver_close, ends_now, Kept, files, mem
<1>7. ASSUME NEW v \in Drivers, send_packet(v)
      PROVE  (Kept /\ calls' = calls) \/ SendsRequest(v)
  <2>1. fd_out[v] \in Files
    BY <1>7, ProcessFacts DEF EndsInv, TypeOK, send_packet
  <2>. QED  BY <1>7, <2>1, ClosesKeeps, ProcessFacts DEF send_packet, SendsRequest, ends_now
<1>8. ASSUME NEW d \in Devices, send_reply(d)
      PROVE  /\ HandsKept({})
             /\ (Kept /\ calls' = calls) \/ SendsReply(d)
  <2>1. \E s : Goes(d, s)
    BY <1>8 DEF send_reply, goes_on, ends_now, Goes
  <2>2. ~mainloop_read(d)
    BY <1>8 DEF send_reply, mainloop_read
  <2>3. CASE ends_now(d)
    BY <1>1, <1>8, <2>1, <2>2, <2>3, ClosesKeeps, ProcessFacts DEF ends_now, send_reply
  <2>4. CASE goes_on(d) /\ UNCHANGED ends
    <3>1. ~Holds(d)'
      BY <1>8, <2>4, DeviceMoves DEF send_reply, Holds
    <3>2. fd_out[d] # None => fd_out[d] \in Files
      BY ProcessFacts DEF TypeOK
    <3>3. (Kept /\ calls' = calls) \/ SendsReply(d)
      BY <1>8, <2>4, <3>1, <3>2, ClosesKeeps, ProcessFacts
         DEF send_reply, SendsReply, Kept, ends_now
    <3>. QED  BY <1>1, <2>1, <2>2, <3>3, ProcessFacts
  <2>. QED  BY <1>8, <2>3, <2>4 DEF send_reply
<1>9. ASSUME NEW d \in Devices, mainloop_read(d)
      PROVE  HandsKept({d})
  <2>1. \A e \in Devices \ {d} : todo'[e] = todo[e]
    BY <1>9, ProcessFacts DEF mainloop_read, TodoInv
  <2>. QED  BY <2>1, HandsKeptBy
<1>. QED  BY <1>2, <1>3, <1>4, <1>5, <1>6, <1>7, <1>8, <1>9, StepCases

\* An end that is open stays open on its file until the process closes it.
LEMMA FdKept ==
  ASSUME BaseInv, UnopenedInv, [Next]_vars, NEW p \in Processes
  PROVE  \/ closes_in(p) \/ closes(p)
         \/ /\ fd_in[p] # None => fd_in'[p] = fd_in[p]
            /\ fd_out[p] # None => fd_out'[p] = fd_out[p]
<1>. USE DEF BaseInv
<1>1. CASE open_in(p) \/ open_out(p)
  BY <1>1 DEF open_in, open_out, UnopenedInv, TypeOK
<1>2. CASE start(p) \/ opened(p) \/ open_failed(p) \/ kill(p)
  BY <1>2 DEF start, opened, open_failed, kill, ends_now, ends
<1>3. CASE \/ mkfifo(p, "mkfifo_driv2dev", DRIV2DEV) \/ mkfifo(p, "mkfifo_dev2driv", DEV2DRIV)
           \/ unlink(p, "unlink_driv2dev", DRIV2DEV) \/ unlink(p, "unlink_dev2driv", DEV2DRIV)
           \/ mainloop_read(p) \/ mainloop_end(p) \/ treat(p)
           \/ send_reply(p) \/ close_in(p) \/ device_close(p) \/ dangling(p)
  BY <1>3 DEF mkfifo, unlink, mainloop_read, mainloop_end, treat, send_reply, close_in,
    device_close, dangling, ends_now, ends
<1>4. CASE \/ read_reply(p) \/ read_reply_failed(p) \/ exit(p)
           \/ send_packet(p) \/ driver_close(p)
  BY <1>4 DEF read_reply, read_reply_failed, exit, send_packet, driver_close, ends_now, ends
<1>. QED  BY <1>1, <1>2, <1>3, <1>4, OwnSteps

LEMMA HeldStep == BaseInv /\ UnopenedInv /\ HeldInv /\ [Next]_vars => HeldInv'
<1>. SUFFICES ASSUME BaseInv, UnopenedInv, HeldInv, [Next]_vars,
                     NEW f \in Files, data'[f] # << >>
              PROVE  Readers(f)' \cup Writers(f)' # {}
  BY DEF HeldInv
<1>0. f # None
  BY FileFacts
<1>1. CASE data[f] # << >>
  <2>1. PICK p \in Processes : fd_in[p] = f \/ fd_out[p] = f
    BY <1>1 DEF HeldInv, Readers, Writers
  <2>2. CASE closes(p)
    <3>1. ~(Readers(f) \cup Writers(f) \subseteq {p})
      BY <2>2 DEF closes
    <3>2. PICK q \in Processes : q # p /\ (fd_in[q] = f \/ fd_out[q] = f)
      BY <3>1 DEF Readers, Writers
    <3>3. fd_in'[q] = fd_in[q] /\ fd_out'[q] = fd_out[q]
      BY <2>2, <3>2 DEF closes, BaseInv, TypeOK
    <3>. QED  BY <3>2, <3>3 DEF Readers, Writers
  <2>3. CASE closes_in(p)
    <3>1. Writers(f) # {} \/ ~(Readers(f) \subseteq {p})
      BY <2>3 DEF closes_in
    <3>2. PICK q \in Processes : fd_out[q] = f \/ (q # p /\ fd_in[q] = f)
      BY <3>1 DEF Readers, Writers
    <3>3. fd_out'[q] = fd_out[q] /\ (q # p => fd_in'[q] = fd_in[q])
      BY <2>3, <3>2 DEF closes_in, BaseInv, TypeOK
    <3>. QED  BY <3>2, <3>3 DEF Readers, Writers
  <2>4. CASE ~closes(p) /\ ~closes_in(p)
    BY <1>0, <2>1, <2>4, FdKept DEF Readers, Writers
  <2>. QED  BY <2>2, <2>3, <2>4
<1>2. CASE data[f] = << >>
  <2>1. ASSUME NEW d \in Devices, SendsReply(d)
        PROVE  Readers(f)' \cup Writers(f)' # {}
    <3>1. fd_out[d] = f
      BY <1>2, <2>1 DEF SendsReply, BaseInv, DataType
    <3>. QED  BY <2>1, <3>1, ProcessFacts DEF SendsReply, ends, Writers
  <2>2. ASSUME NEW v \in Drivers, SendsRequest(v)
        PROVE  Readers(f)' \cup Writers(f)' # {}
    <3>1. fd_out[v] = f
      BY <1>2, <2>2 DEF SendsRequest, BaseInv, DataType
    <3>. QED  BY <2>2, <3>1, ProcessFacts DEF SendsRequest, ends, Writers
  <2>3. ASSUME NEW d \in Devices, mainloop_read(d)
        PROVE  FALSE
    BY <1>2, <2>3 DEF mainloop_read, BaseInv, DataType
  <2>. QED  BY <1>2, <2>1, <2>2, <2>3, DataSteps DEF Kept
<1>. QED  BY <1>1, <1>2

\* A file takes a role with the name under which it is made.
LEMMA RoleSteps ==
  ASSUME BaseInv, [Next]_vars, NEW f \in Files
  PROVE  /\ f \in RequestFiles' => f \in RequestFiles \/ (f \notin InUse /\ name'[DRIV2DEV] = f)
         /\ f \in ReplyFiles' => f \in ReplyFiles \/ (f \notin InUse /\ name'[DEV2DRIV] = f)
<1>. USE DEF BaseInv
<1>0. f # None
  BY FileFacts
<1>1. ASSUME NEW n \in {DRIV2DEV, DEV2DRIV}, name'[n] = f
      PROVE  name[n] = f \/ f \notin InUse
  <2>1. ASSUME NEW d \in Devices, MakesFile(d) PROVE NewFile \notin InUse
    <3>1. todo[d] \in {at_mkfifo_driv2dev, at_mkfifo_dev2driv}
      BY <2>1, DeviceAt DEF MakesFile, mkfifo, NextCall, TodoInv
    <3>. QED  BY <3>1, FreeFile
  <2>. QED  BY <1>0, <1>1, <2>1, NameSteps DEF TypeOK, MakesFile
<1>2. ASSUME NEW d \in Devices
      PROVE  /\ fd_in'[d] = f => fd_in[d] = f \/ name[DRIV2DEV] = f
             /\ fd_out'[d] = f => fd_out[d] = f \/ name[DEV2DRIV] = f
  BY <1>0, FdSteps, ProcessFacts DEF in_filename, out_filename
<1>3. ASSUME NEW v \in Drivers
      PROVE  /\ fd_in'[v] = f => fd_in[v] = f \/ name[DEV2DRIV] = f
             /\ fd_out'[v] = f => fd_out[v] = f \/ name[DRIV2DEV] = f
  BY <1>0, FdSteps, ProcessFacts DEF in_filename, out_filename
<1>4. f \in RequestFiles' => f \in RequestFiles \/ (f \notin InUse /\ name'[DRIV2DEV] = f)
  BY <1>1, <1>2, <1>3 DEF RequestFiles
<1>5. f \in ReplyFiles' => f \in ReplyFiles \/ (f \notin InUse /\ name'[DEV2DRIV] = f)
  BY <1>1, <1>2, <1>3 DEF ReplyFiles
<1>. QED  BY <1>4, <1>5

LEMMA RolesUsed ==
  ASSUME TypeOK, NEW f \in Files, f \in RequestFiles \cup ReplyFiles
  PROVE  f \in InUse
BY ProcessFacts DEF TypeOK, RequestFiles, ReplyFiles, InUse, Readers, Writers

LEMMA RolesStep == BaseInv /\ RolesInv /\ [Next]_vars => RolesInv'
<1>. SUFFICES ASSUME BaseInv, RolesInv, [Next]_vars, NEW f \in Files,
                     f \in RequestFiles', f \in ReplyFiles'
              PROVE  FALSE
  BY DEF RolesInv
<1>1. CASE f \in InUse
  BY <1>1, RoleSteps DEF RolesInv
<1>2. CASE f \notin InUse
  <2>1. name'[DRIV2DEV] = f /\ name'[DEV2DRIV] = f
    BY <1>2, RoleSteps, RolesUsed DEF BaseInv
  <2>2. name[DRIV2DEV] # f /\ name[DEV2DRIV] # f
    BY <1>2 DEF InUse, BaseInv, TypeOK
  <2>3. DRIV2DEV # DEV2DRIV /\ name \in [{DRIV2DEV, DEV2DRIV} -> Files \cup {None}]
    BY DEF DRIV2DEV, DEV2DRIV, BaseInv, TypeOK
  <2>. QED  BY <2>1, <2>2, <2>3, NameSteps, FileFacts DEF MakesFile, BaseInv
<1>. QED  BY <1>1, <1>2

\* One place for a request, initially: none.
LEMMA FlightInit ==
  Init => UnopenedInv /\ HeldInv /\ RolesInv /\ OnceInv /\ SentInv /\ UnservedInv /\ AtMostOnce
<1>. SUFFICES ASSUME Init
              PROVE  UnopenedInv /\ HeldInv /\ RolesInv /\ OnceInv /\ SentInv /\ UnservedInv
                     /\ AtMostOnce
  OBVIOUS
<1>1. \A p \in Processes : NextCall(p) = "start"
  BY FirmwarePath, DriverPath, ProcessFacts DEF Init, NextCall, Leads
<1>2. \A d \in Devices : ~Holds(d) /\ NextCall(d) # "treat"
  BY <1>1, ProcessFacts DEF Holds
<1>3. \A f \in Files : DOMAIN data[f] = {} /\ data[f] = << >>
  BY DEF Init
<1>4. HeldInv /\ OnceInv /\ UnservedInv
  BY <1>2, <1>3 DEF HeldInv, OnceInv, UnservedInv
<1>5. RolesInv
  BY FileFacts, ProcessFacts DEF Init, RolesInv, RequestFiles, ReplyFiles
<1>6. SentInv /\ AtMostOnce
  BY <1>2, <1>3 DEF Init, SentInv, AtMostOnce
<1>. QED  BY <1>4, <1>5, <1>6, UnopenedInit

-----------------------------------------------------------------------------
(* A request, or its reply, is in one place, and takes effect at most once. *)

\* What a FIFO holds after a step is what it held, or what was just written.
LEMMA KeptEntry ==
  ASSUME Kept, NEW f \in Files, NEW n \in DOMAIN data'[f]
  PROVE  n \in DOMAIN data[f] /\ data'[f][n] = data[f][n]
BY DEF Kept

LEMMA Appended ==
  ASSUME DataType, NEW g \in Files, NEW r \in Requests,
         data' = [data EXCEPT ![g] = Append(@, r)], NEW f \in Files, NEW n \in DOMAIN data'[f]
  PROVE  \/ n \in DOMAIN data[f] /\ data'[f][n] = data[f][n]
         \/ /\ f = g /\ data'[f][n] = r
            /\ n \notin DOMAIN data[f] /\ n = Len(data[g]) + 1
<1>1. CASE f # g
  BY <1>1 DEF DataType
<1>2. CASE f = g
  <2>1. data'[g] = Append(data[g], r) /\ data[g] \in Seq(Requests)
    BY DEF DataType
  <2>2. /\ DOMAIN data[g] = 1 .. Len(data[g]) /\ Len(data[g]) \in Nat
        /\ DOMAIN data'[g] = 1 .. Len(data[g]) + 1
        /\ \A k \in 1 .. Len(data[g]) : data'[g][k] = data[g][k]
        /\ data'[g][Len(data[g]) + 1] = r
    BY <2>1, AppendProperties
  <2>. QED  BY <1>2, <2>2
<1>. QED  BY <1>1, <1>2

\* What mainloop_read takes is the first request in its FIFO.
LEMMA ReadTakes ==
  ASSUME BaseInv, NEW d \in Devices, mainloop_read(d)
  PROVE  /\ fd_in[d] \in Files /\ 1 \in DOMAIN data[fd_in[d]]
         /\ req'[d] = data[fd_in[d]][1] /\ req'[d] \in Requests
         /\ data'[fd_in[d]] = << >> /\ Kept
         /\ \A f \in Files : f # fd_in[d] => data'[f] = data[f]
<1>1. fd_in[d] \in Files /\ data[fd_in[d]] # << >>
  BY ProcessFacts DEF mainloop_read, BaseInv, TypeOK
<1>2. data[fd_in[d]] \in Seq(Requests)
  BY <1>1 DEF BaseInv, DataType
<1>3. /\ 1 \in DOMAIN data[fd_in[d]] /\ Head(data[fd_in[d]]) = data[fd_in[d]][1]
      /\ Head(data[fd_in[d]]) \in Requests
  BY <1>1, <1>2
<1>4. req'[d] = Head(data[fd_in[d]])
  BY DEF mainloop_read, BaseInv, TypeOK
<1>5. data' = [data EXCEPT ![fd_in[d]] = << >>]
  BY DEF mainloop_read
<1>6. data'[fd_in[d]] = << >> /\ \A f \in Files : f # fd_in[d] => data'[f] = data[f]
  BY <1>1, <1>5 DEF BaseInv, DataType
<1>. QED  BY <1>1, <1>3, <1>4, <1>6 DEF Kept

\* A device that replies had the request in hand.
LEMMA ReplyHeld ==
  ASSUME BaseInv, NEW d \in Devices, SendsReply(d)
  PROVE  Holds(d) /\ req[d] \in Requests
BY DEF SendsReply, send_reply, Holds, BaseInv, TypeOK

\* A request that is sent was in no place before.
LEMMA SentIsNew ==
  ASSUME BaseInv, NEW v \in Drivers, SendsRequest(v), NEW r, r = <<v, calls[v] + 1>>
  PROVE  /\ r \in Requests /\ r[1] = v /\ r[2] = calls'[v]
         /\ ~SentRequest(r) /\ SentRequest(r)'
         /\ \A s \in Requests : SentRequest(s) => SentRequest(s)'
<1>1. calls[v] \in 0 .. Calls /\ calls[v] < Calls /\ calls' = [calls EXCEPT ![v] = @ + 1]
  BY DEF SendsRequest, BaseInv, TypeOK
<1>2. r \in Requests /\ r[1] = v /\ r[2] = calls[v] + 1
  BY <1>1, RequestFacts
<1>3. calls'[v] = calls[v] + 1 /\ \A w \in Drivers : w # v => calls'[w] = calls[w]
  BY <1>1 DEF BaseInv, TypeOK
<1>4. \A s \in Requests : SentRequest(s) => SentRequest(s)'
  BY <1>1, <1>3, RequestFacts, RestartsAssumption DEF SentRequest
<1>5. ~SentRequest(r) /\ SentRequest(r)'
  BY <1>1, <1>2, <1>3, RestartsAssumption DEF SentRequest
<1>. QED  BY <1>2, <1>3, <1>4, <1>5

LEMMA EntryType ==
  ASSUME DataType, NEW f \in Files, NEW n \in DOMAIN data[f]
  PROVE  data[f][n] \in Requests
<1>1. data[f] \in Seq(Requests)
  BY DEF DataType
<1>. QED  BY <1>1

LEMMA OnceStep == BaseInv /\ OnceInv /\ SentInv /\ [Next]_vars => OnceInv'
<1>. SUFFICES ASSUME BaseInv, OnceInv, SentInv, [Next]_vars PROVE OnceInv'
  OBVIOUS
<1>1. ASSUME Kept, HandsKept({}) PROVE OnceInv'
  <2>1. \A d \in Devices : Holds(d)' => Holds(d) /\ req'[d] = req[d]
    BY <1>1 DEF HandsKept
  <2>2. \A f \in Files : \A n \in DOMAIN data'[f] :
          n \in DOMAIN data[f] /\ data'[f][n] = data[f][n]
    BY <1>1, KeptEntry
  <2>. QED  BY <2>1, <2>2 DEF OnceInv
<1>2. ASSUME NEW d \in Devices, mainloop_read(d), HandsKept({d}) PROVE OnceInv'
  <2>1. \A e \in Devices : e # d => (Holds(e)' => Holds(e) /\ req'[e] = req[e])
    BY <1>2 DEF HandsKept
  <2>2. \A f \in Files : \A n \in DOMAIN data'[f] :
          n \in DOMAIN data[f] /\ data'[f][n] = data[f][n] /\ f # fd_in[d]
    BY <1>2, KeptEntry, ReadTakes
  <2>3. /\ fd_in[d] \in Files /\ 1 \in DOMAIN data[fd_in[d]]
        /\ req'[d] = data[fd_in[d]][1]
    BY <1>2, ReadTakes
  <2>4. \A f \in Files, e \in Devices : \A n \in DOMAIN data'[f] :
          Holds(e)' => req'[e] # data'[f][n]
    BY <2>1, <2>2, <2>3 DEF OnceInv
  <2>5. \A e, g \in Devices : Holds(e)' /\ Holds(g)' /\ req'[e] = req'[g] => e = g
    BY <2>1, <2>3 DEF OnceInv
  <2>6. \A f, g \in Files : \A m \in DOMAIN data'[f], n \in DOMAIN data'[g] :
         data'[f][m] = data'[g][n] => f = g /\ m = n
    BY <2>2 DEF OnceInv
  <2>. QED  BY <2>4, <2>5, <2>6 DEF OnceInv
<1>3. ASSUME HandsKept({}), NEW g \in Files, NEW r \in Requests,
             data' = [data EXCEPT ![g] = Append(@, r)],
             \A f \in Files : \A n \in DOMAIN data[f] : data[f][n] # r,
             \A d \in Devices : Holds(d)' => req[d] # r
      PROVE  OnceInv'
  <2>1. \A d \in Devices : Holds(d)' => Holds(d) /\ req'[d] = req[d]
    BY <1>3 DEF HandsKept
  <2>2. \A f \in Files : \A n \in DOMAIN data'[f] :
          \/ n \in DOMAIN data[f] /\ data'[f][n] = data[f][n]
          \/ f = g /\ data'[f][n] = r /\ n = Len(data[g]) + 1
    BY <1>3, Appended DEF BaseInv
  <2>3. \A f, h \in Files : \A m \in DOMAIN data'[f], n \in DOMAIN data'[h] :
          data'[f][m] = data'[h][n] => f = h /\ m = n
    BY <1>3, <2>2 DEF OnceInv
  <2>4. \A f \in Files, e \in Devices : \A n \in DOMAIN data'[f] :
          Holds(e)' => req'[e] # data'[f][n]
    BY <1>3, <2>1, <2>2 DEF OnceInv
  <2>. QED  BY <2>1, <2>3, <2>4 DEF OnceInv
<1>4. ASSUME NEW d \in Devices, SendsReply(d), HandsKept({}) PROVE OnceInv'
  <2>1. Holds(d) /\ req[d] \in Requests /\ ~Holds(d)' /\ fd_out[d] \in Files
    BY <1>4, ReplyHeld DEF SendsReply
  <2>2. \A e \in Devices : Holds(e)' => req[e] # req[d]
    BY <1>4, <2>1 DEF OnceInv, HandsKept
  <2>3. \A f \in Files : \A n \in DOMAIN data[f] : data[f][n] # req[d]
    BY <2>1 DEF OnceInv
  <2>. QED  BY <1>3, <1>4, <2>1, <2>2, <2>3 DEF SendsReply
<1>5. ASSUME NEW v \in Drivers, SendsRequest(v), HandsKept({}) PROVE OnceInv'
  <2>0. PICK r : r = <<v, calls[v] + 1>>
    OBVIOUS
  <2>1. r \in Requests /\ ~SentRequest(r) /\ fd_out[v] \in Files
        /\ data' = [data EXCEPT ![fd_out[v]] = Append(@, r)]
    BY <1>5, <2>0, SentIsNew DEF SendsRequest
  <2>2. \A f \in Files : \A n \in DOMAIN data[f] : data[f][n] # r
    BY <2>1 DEF SentInv
  <2>3. \A e \in Devices : Holds(e)' => req[e] # r
    BY <1>5, <2>1 DEF SentInv, HandsKept
  <2>. QED  BY <1>3, <1>5, <2>1, <2>2, <2>3
<1>. QED  BY <1>1, <1>2, <1>4, <1>5, DataSteps

\* A request is performed by the handler only.
LEMMA ServedSteps ==
  ASSUME BaseInv, [Next]_vars
  PROVE  \/ served' = served
         \/ \E d \in Devices : treat(d) /\ served' = [served EXCEPT ![req[d]] = @ + 1]
<1>1. CASE UNCHANGED vars
  BY <1>1 DEF vars, mem
<1>2. CASE \E p \in Processes : \/ start(p) \/ opened(p) \/ open_in(p) \/ open_out(p)
                                \/ open_failed(p) \/ kill(p)
  BY <1>2 DEF start, opened, open_in, open_out, open_failed, kill, mem
<1>3. CASE \E d \in Devices : \/ mkfifo(d, "mkfifo_driv2dev", DRIV2DEV)
                              \/ mkfifo(d, "mkfifo_dev2driv", DEV2DRIV)
                              \/ unlink(d, "unlink_driv2dev", DRIV2DEV)
                              \/ unlink(d, "unlink_dev2driv", DEV2DRIV)
                              \/ mainloop_read(d) \/ mainloop_end(d)
                              \/ send_reply(d) \/ close_in(d) \/ device_close(d) \/ dangling(d)
  BY <1>3 DEF mkfifo, unlink, mainloop_read, mainloop_end, send_reply, close_in, device_close,
    dangling, mem
<1>4. CASE \E v \in Drivers : \/ read_reply(v) \/ read_reply_failed(v) \/ exit(v)
                              \/ send_packet(v) \/ driver_close(v)
  BY <1>4 DEF read_reply, read_reply_failed, exit, send_packet, driver_close, mem
<1>. QED  BY <1>1, <1>2, <1>3, <1>4, StepCases DEF treat

\* What treat does: nothing to the FIFOs and the calls, and it goes on.
LEMMA Treats ==
  ASSUME BaseInv, NEW d \in Devices, treat(d)
  PROVE  /\ data' = data /\ calls' = calls /\ req' = req /\ UNCHANGED <<name, fd_in, fd_out>>
         /\ NextCall(d) = "treat" /\ NextCall(d)' = "send_reply"
         /\ Holds(d) /\ req[d] \in Requests
BY DeviceMoves DEF treat, files, ends, BaseInv, TypeOK, Holds

LEMMA SentStep == BaseInv /\ SentInv /\ [Next]_vars => SentInv'
<1>. SUFFICES ASSUME BaseInv, SentInv, [Next]_vars PROVE SentInv'
  OBVIOUS
<1>1. ASSUME NEW r \in Requests, SentRequest(r) PROVE SentRequest(r)'
  <2>1. CASE calls' = calls
    BY <1>1, <2>1 DEF SentRequest
  <2>2. ASSUME NEW v \in Drivers, SendsRequest(v) PROVE SentRequest(r)'
    BY <1>1, <2>2, SentIsNew
  <2>. QED  BY <2>1, <2>2, DataSteps DEF mainloop_read, SendsReply, send_reply
<1>2. ASSUME NEW r \in Requests, served'[r] # 0 PROVE SentRequest(r)
  <2>1. CASE served' = served
    BY <1>2, <2>1 DEF SentInv
  <2>2. ASSUME NEW d \in Devices, treat(d), served' = [served EXCEPT ![req[d]] = @ + 1]
        PROVE  SentRequest(r)
    <3>1. CASE r = req[d]
      BY <2>2, <3>1, Treats DEF SentInv
    <3>2. CASE r # req[d]
      BY <1>2, <2>2, <3>2 DEF SentInv, BaseInv, DataType
    <3>. QED  BY <3>1, <3>2
  <2>. QED  BY <2>1, <2>2, ServedSteps
<1>3. ASSUME NEW f \in Files, NEW n \in DOMAIN data'[f], NEW r, r = data'[f][n]
      PROVE  SentRequest(r)'
  <2>1. CASE n \in DOMAIN data[f] /\ r = data[f][n]
    <3>1. r \in Requests /\ SentRequest(r)
      BY <2>1, EntryType DEF BaseInv, SentInv
    <3>. QED  BY <1>1, <1>3, <3>1
  <2>2. CASE Kept
    BY <1>3, <2>1, <2>2, KeptEntry
  <2>3. ASSUME NEW d \in Devices, SendsReply(d) PROVE SentRequest(r)'
    <3>1. req[d] \in Requests /\ SentRequest(req[d]) /\ fd_out[d] \in Files
          /\ data' = [data EXCEPT ![fd_out[d]] = Append(@, req[d])]
      BY <2>3, ReplyHeld DEF SentInv, SendsReply
    <3>. QED  BY <1>1, <1>3, <2>1, <3>1, Appended DEF BaseInv
  <2>4. ASSUME NEW v \in Drivers, SendsRequest(v) PROVE SentRequest(r)'
    <3>1. PICK s : s = <<v, calls[v] + 1>>
      OBVIOUS
    <3>2. s \in Requests /\ SentRequest(s)' /\ fd_out[v] \in Files
          /\ data' = [data EXCEPT ![fd_out[v]] = Append(@, s)]
      BY <2>4, <3>1, SentIsNew DEF SendsRequest
    <3>. QED  BY <1>3, <2>1, <3>2, Appended DEF BaseInv
  <2>. QED  BY <1>3, <2>2, <2>3, <2>4, DataSteps, ReadTakes
<1>4. ASSUME NEW d \in Devices, Holds(d)', NEW r, r = req'[d]
      PROVE  SentRequest(r)'
  <2>1. r \in Requests /\ SentRequest(r)
    <3>1. CASE Holds(d) /\ req'[d] = req[d]
      BY <1>4, <3>1 DEF SentInv, BaseInv, TypeOK, Holds
    <3>2. CASE mainloop_read(d)
      BY <1>4, <3>2, ReadTakes DEF SentInv
    <3>. QED  BY <1>4, <3>1, <3>2, HoldsStep DEF BaseInv
  <2>. QED  BY <1>1, <1>4, <2>1
<1>5. \A r \in Requests : served'[r] # 0 => SentRequest(r)'
  BY <1>1, <1>2
<1>. QED  BY <1>3, <1>4, <1>5 DEF SentInv, SentRequest

LEMMA ServedStep ==
  ASSUME BaseInv, HeldInv, RolesInv, OnceInv, SentInv, UnservedInv, AtMostOnce, [Next]_vars
  PROVE  UnservedInv' /\ AtMostOnce'
<1>0. served \in [Requests -> Nat]
  BY DEF BaseInv, DataType
<1>1. AtMostOnce'
  <2>1. CASE served' = served
    BY <2>1 DEF AtMostOnce
  <2>2. ASSUME NEW d \in Devices, treat(d), served' = [served EXCEPT ![req[d]] = @ + 1]
        PROVE  AtMostOnce'
    <3>1. req[d] \in Requests /\ served[req[d]] = 0
      BY <2>2, Treats DEF UnservedInv
    <3>. QED  BY <1>0, <2>2, <3>1 DEF AtMostOnce
  <2>. QED  BY <2>1, <2>2, ServedSteps
<1>2. ASSUME NEW f \in Files, f \in RequestFiles', data[f] # << >>
      PROVE  f \in RequestFiles
  <2>1. f \in InUse
    BY <1>2 DEF HeldInv, InUse
  <2>. QED  BY <1>2, <2>1, RoleSteps
<1>3. ASSUME NEW f \in Files, f \in RequestFiles', NEW n \in DOMAIN data'[f],
             NEW r, r = data'[f][n]
      PROVE  served'[r] = 0
  <2>1. CASE n \in DOMAIN data[f] /\ data[f][n] = r
    <3>1. f \in RequestFiles
      <4>1. data[f] # << >>
        BY <2>1
      <4>. QED  BY <1>2, <1>3, <4>1
    <3>2. served[r] = 0 /\ r \in Requests
      BY <2>1, <3>1, EntryType DEF UnservedInv, BaseInv
    <3>3. ASSUME NEW d \in Devices, treat(d), served' = [served EXCEPT ![req[d]] = @ + 1]
          PROVE  served'[r] = served[r]
      <4>1. req[d] # r
        BY <2>1, <3>3, Treats DEF OnceInv
      <4>. QED  BY <1>0, <3>2, <3>3, <4>1
    <3>. QED  BY <3>2, <3>3, ServedSteps
  <2>2. CASE Kept
    BY <1>3, <2>1, <2>2, KeptEntry
  <2>3. ASSUME NEW d \in Devices, SendsReply(d) PROVE served'[r] = 0
    <3>1. req[d] \in Requests /\ fd_out[d] \in Files
          /\ data' = [data EXCEPT ![fd_out[d]] = Append(@, req[d])]
      BY <2>3, ReplyHeld DEF SendsReply
    <3>2. CASE f = fd_out[d]
      <4>1. f \in ReplyFiles
        BY <3>2 DEF ReplyFiles
      <4>2. f \in InUse
        BY <4>1, RolesUsed DEF BaseInv
      <4>3. f \in RequestFiles
        BY <1>3, <4>2, RoleSteps
      <4>. QED  BY <4>1, <4>3 DEF RolesInv
    <3>. QED  BY <1>3, <2>1, <3>1, <3>2, Appended DEF BaseInv
  <2>4. ASSUME NEW v \in Drivers, SendsRequest(v) PROVE served'[r] = 0
    <3>1. PICK s : s = <<v, calls[v] + 1>>
      OBVIOUS
    <3>2. s \in Requests /\ ~SentRequest(s) /\ SentRequest(s)' /\ fd_out[v] \in Files
          /\ data' = [data EXCEPT ![fd_out[v]] = Append(@, s)]
      BY <2>4, <3>1, SentIsNew DEF SendsRequest
    <3>3. served[s] = 0
      BY <3>2 DEF SentInv
    <3>4. calls' # calls
      BY <3>2 DEF SentRequest
    <3>5. served' = served
      BY <3>4, ServedSteps, Treats
    <3>. QED  BY <1>3, <2>1, <3>2, <3>3, <3>5, Appended DEF BaseInv
  <2>. QED  BY <2>2, <2>3, <2>4, DataSteps, ReadTakes
<1>4. ASSUME NEW d \in Devices, NextCall(d)' = "treat"
      PROVE  served'[req'[d]] = 0
  <2>1. CASE NextCall(d) = "treat" /\ Holds(d) /\ req'[d] = req[d]
    <3>1. served[req[d]] = 0 /\ req[d] \in Requests
      BY <2>1 DEF UnservedInv, BaseInv, TypeOK
    <3>2. ASSUME NEW e \in Devices, treat(e), served' = [served EXCEPT ![req[e]] = @ + 1]
          PROVE  served'[req[d]] = served[req[d]]
      <4>1. e # d
        BY <1>4, <3>2, Treats
      <4>2. req[e] # req[d]
        BY <2>1, <3>2, <4>1, Treats DEF OnceInv
      <4>. QED  BY <1>0, <3>1, <3>2, <4>2
    <3>. QED  BY <2>1, <3>1, <3>2, ServedSteps
  <2>2. CASE mainloop_read(d)
    <3>1. /\ fd_in[d] \in Files /\ 1 \in DOMAIN data[fd_in[d]] /\ data'[fd_in[d]] = << >>
          /\ req'[d] = data[fd_in[d]][1]
      BY <2>2, ReadTakes
    <3>2. served[req'[d]] = 0
      <4>1. fd_in[d] \in RequestFiles
        BY DEF RequestFiles
      <4>. QED  BY <3>1, <4>1 DEF UnservedInv
    <3>3. data' # data
      BY <3>1
    <3>. QED  BY <3>2, <3>3, ServedSteps, Treats
  <2>3. Holds(d)'
    BY <1>4 DEF Holds
  <2>. QED  BY <1>4, <2>1, <2>2, <2>3, HoldsStep DEF BaseInv
<1>. QED  BY <1>1, <1>3, <1>4 DEF UnservedInv

\* What the proof of AtMostOnce needs to be inductive.
FlightInv ==
    /\ BaseInv /\ UnopenedInv /\ HeldInv /\ RolesInv
    /\ OnceInv /\ SentInv /\ UnservedInv /\ AtMostOnce

LEMMA FlightStep == FlightInv /\ [Next]_vars => FlightInv'
<1>. SUFFICES ASSUME FlightInv, [Next]_vars PROVE FlightInv'
  OBVIOUS
<1>. USE DEF FlightInv
<1>1. BaseInv' /\ UnopenedInv' /\ HeldInv' /\ RolesInv'
  BY BaseStep, UnopenedStep, HeldStep, RolesStep
<1>2. OnceInv' /\ SentInv' /\ UnservedInv' /\ AtMostOnce'
  BY OnceStep, SentStep, ServedStep
<1>. QED  BY <1>1, <1>2

\* A request takes effect at most once, also when the device is killed and started again
\* around it, or a second device reads from the same FIFO.
THEOREM RestartsAtMostOnce == Spec => []AtMostOnce
<1>1. Init => FlightInv
  BY BaseInit, FlightInit DEF FlightInv
<1>2. FlightInv => AtMostOnce
  BY DEF FlightInv
<1>. QED  BY <1>1, <1>2, FlightStep, PTL DEF Spec

-----------------------------------------------------------------------------
(* One after the other.                                                    *)

LEMMA OverStays ==
  ASSUME BaseInv, [Next]_vars, NEW p \in Processes, Over(p)
  PROVE  Over(p)'
<1>. USE DEF BaseInv
<1>1. NextCall(p) = "over" /\ todo[p] = << >> /\ DOMAIN todo[p] = {}
  BY DEF Over, NextCall
<1>2. ~(start(p) \/ opened(p) \/ open_in(p) \/ open_out(p) \/ open_failed(p) \/ kill(p))
  BY <1>1 DEF start, opened, open_in, open_out, open_failed, kill
<1>3. ~(\/ mkfifo(p, "mkfifo_driv2dev", DRIV2DEV) \/ mkfifo(p, "mkfifo_dev2driv", DEV2DRIV)
        \/ unlink(p, "unlink_driv2dev", DRIV2DEV) \/ unlink(p, "unlink_dev2driv", DEV2DRIV)
        \/ mainloop_read(p) \/ mainloop_end(p) \/ treat(p)
        \/ send_reply(p) \/ close_in(p) \/ device_close(p) \/ dangling(p))
  BY <1>1 DEF mkfifo, unlink, mainloop_read, mainloop_end, treat, send_reply, close_in,
    device_close, dangling
<1>4. ~(\/ read_reply(p) \/ read_reply_failed(p) \/ exit(p)
        \/ send_packet(p) \/ driver_close(p))
  BY <1>1 DEF read_reply, read_reply_failed, exit, send_packet, driver_close
<1>. QED  BY <1>1, <1>2, <1>3, <1>4, OwnSteps DEF Over

\* A process that waits to be started does nothing but start.
LEMMA Starts ==
  ASSUME BaseInv, OrderInv, [Next]_vars, NEW p \in Processes, NextCall(p) = "start"
  PROVE  start(p) \/ (todo'[p] = todo[p] /\ NextCall(p)' = "start")
<1>. USE DEF BaseInv
<1>1. ~(opened(p) \/ open_in(p) \/ open_out(p) \/ open_failed(p) \/ kill(p))
  BY DEF opened, open_in, open_out, open_failed, kill
<1>2. p \in Devices =>
        ~(\/ mkfifo(p, "mkfifo_driv2dev", DRIV2DEV) \/ mkfifo(p, "mkfifo_dev2driv", DEV2DRIV)
          \/ unlink(p, "unlink_driv2dev", DRIV2DEV) \/ unlink(p, "unlink_dev2driv", DEV2DRIV)
          \/ mainloop_read(p) \/ mainloop_end(p) \/ treat(p)
          \/ send_reply(p) \/ close_in(p) \/ device_close(p) \/ dangling(p))
  BY DEF mkfifo, unlink, mainloop_read, mainloop_end, treat, send_reply, close_in,
    device_close, dangling, OrderInv
<1>3. ~(\/ read_reply(p) \/ read_reply_failed(p) \/ exit(p)
        \/ send_packet(p) \/ driver_close(p))
  BY DEF read_reply, read_reply_failed, exit, send_packet, driver_close
<1>. QED  BY <1>1, <1>2, <1>3, OwnSteps DEF NextCall

\* A connection is freed by device_close only, which is a step of its device.
LEMMA FreesSteps ==
  ASSUME BaseInv, [Next]_vars, NEW d \in Devices
  PROVE  frees'[d] = frees[d] \/ device_close(d)
<1>1. CASE UNCHANGED vars
  BY <1>1 DEF vars, mem
<1>2. CASE \E p \in Processes : \/ start(p) \/ opened(p) \/ open_in(p) \/ open_out(p)
                                \/ open_failed(p) \/ kill(p)
  BY <1>2 DEF start, opened, open_in, open_out, open_failed, kill, mem
<1>3. CASE \E e \in Devices : \/ mkfifo(e, "mkfifo_driv2dev", DRIV2DEV)
                              \/ mkfifo(e, "mkfifo_dev2driv", DEV2DRIV)
                              \/ unlink(e, "unlink_driv2dev", DRIV2DEV)
                              \/ unlink(e, "unlink_dev2driv", DEV2DRIV)
                              \/ mainloop_read(e) \/ mainloop_end(e)
                              \/ send_reply(e) \/ treat(e) \/ close_in(e) \/ dangling(e)
  BY <1>3 DEF mkfifo, unlink, mainloop_read, mainloop_end, send_reply, treat, close_in,
    dangling, mem
<1>4. CASE \E v \in Drivers : \/ read_reply(v) \/ read_reply_failed(v) \/ exit(v)
                              \/ send_packet(v) \/ driver_close(v)
  BY <1>4 DEF read_reply, read_reply_failed, exit, send_packet, driver_close, mem
<1>5. ASSUME NEW e \in Devices, device_close(e), e # d
      PROVE  frees'[d] = frees[d]
  BY <1>5 DEF device_close, BaseInv, DataType
<1>. QED  BY <1>1, <1>2, <1>3, <1>4, <1>5, StepCases

LEMMA OrderInit == Init => OrderInv
<1>. SUFFICES ASSUME Init PROVE OrderInv
  OBVIOUS
<1>1. \A p \in Processes : NextCall(p) = "start"
  BY FirmwarePath, DriverPath, ProcessFacts DEF Init, NextCall, Leads
<1>. QED  BY <1>1, ProcessFacts DEF Init, OrderInv, InTurn

LEMMA OrderStep == BaseInv /\ OrderInv /\ [Next]_vars => OrderInv'
<1>. SUFFICES ASSUME BaseInv, OrderInv, [Next]_vars PROVE OrderInv'
  OBVIOUS
<1>0. /\ restart' = restart /\ restart \in {"clean", "script", "device"}
      /\ Devices \subseteq Processes /\ Drivers \subseteq Processes
  BY StepCases, RestartsAssumption, ProcessFacts DEF BaseInv, DataType
<1>1. ASSUME NEW S \in SUBSET Processes, InTurn(S),
             \A q \in S : MayStart(q) => AllOver(Earlier(q, S))
      PROVE  InTurn(S)'
  <2>. SUFFICES ASSUME NEW p \in S, NEW q \in S, p[2] < q[2], NextCall(q)' # "start"
                PROVE  Over(p)'
    BY DEF InTurn
  <2>1. Over(p)
    <3>1. CASE NextCall(q) # "start"
      BY <1>1, <3>1 DEF InTurn
    <3>2. CASE NextCall(q) = "start"
      <4>1. start(q)
        BY <3>2, Starts
      <4>2. p \in Earlier(q, S)
        BY DEF Earlier
      <4>. QED  BY <1>1, <4>1, <4>2 DEF start, AllOver
    <3>. QED  BY <3>1, <3>2
  <2>. QED  BY <2>1, OverStays
<1>2. InTurn(Drivers)'
  <2>1. \A q \in Drivers : MayStart(q) => AllOver(Earlier(q, Drivers))
    BY <1>0, ProcessFacts DEF MayStart, AllOver, Earlier
  <2>. QED  BY <1>0, <1>1, <2>1 DEF OrderInv
<1>3. OneDevice => InTurn(Devices)'
  <2>1. OneDevice => \A q \in Devices : MayStart(q) => AllOver(Earlier(q, Devices))
    BY <1>0, ProcessFacts DEF MayStart, AllOver, Earlier, OneDevice
  <2>. QED  BY <1>0, <1>1, <2>1 DEF OrderInv
<1>4. restart = "clean" => InTurn(Processes)'
  <2>1. restart = "clean" => \A q \in Processes : MayStart(q) => AllOver(Earlier(q, Processes))
    BY DEF MayStart
  <2>. QED  BY <1>1, <2>1 DEF OrderInv
<1>5. ASSUME NEW d \in Devices, NextCall(d)' = "start" PROVE frees'[d] = 0
  <2>1. NextCall(d) = "start"
    <3>1. ASSUME goes_on(d), NextCall(d) # "over" PROVE FALSE
      BY <1>5, <3>1, DeviceMoves, Calling DEF BaseInv, Steps
    <3>2. todo[d] \in DevicePaths /\ todo'[d] \in DevicePaths /\ todo'[d] # << >>
      BY <1>5, TodoStep DEF BaseInv, TodoInv, NextCall
    <3>3. todo'[d] \in Unmade1
      BY <1>5, <3>2, DeviceAt DEF NextCall, Unmade1
    <3>4. todo'[d] = todo[d] \/ (todo[d] \in Unmade1)
      BY <3>3, TodoSteps, ProcessFacts DEF Goes, Onward, BaseInv, TodoInv
    <3>5. CASE todo'[d] = todo[d]
      BY <1>5, <3>5 DEF NextCall
    <3>6. CASE todo[d] = at_mkfifo_driv2dev
      <4>1. NextCall(d) = "mkfifo_driv2dev"
        BY <3>6, FirmwarePath DEF NextCall, Leads
      <4>. QED  BY <1>5, <3>1, <3>5, <4>1, OwnSteps, EndsNow, OpenFails, ReadMoves, ProcessFacts
                DEF BaseInv, start, opened, open_in, open_out, open_failed, kill, mkfifo, unlink,
                    mainloop_read, mainloop_end, treat, send_reply, close_in, device_close,
                    dangling, ends_now
    <3>7. CASE todo[d] = firmware_main
      BY <3>7, FirmwarePath DEF NextCall, Leads
    <3>. QED  BY <3>4, <3>5, <3>6, <3>7 DEF Unmade1
  <2>2. frees[d] = 0
    BY <2>1 DEF OrderInv
  <2>. QED  BY <2>1, <2>2, FreesSteps DEF device_close
<1>. QED  BY <1>0, <1>2, <1>3, <1>4, <1>5 DEF OrderInv, OneDevice

\* One after the other, a device that runs is the only one.
LEMMA ActiveAlone ==
  ASSUME BaseInv, OrderInv, OneDevice, NEW d \in Devices, NEW e \in Devices,
         NextCall(d) \notin {"start", "over"}, NextCall(e) \notin {"start", "over"}
  PROVE  d = e
<1>1. ~Over(d) /\ ~Over(e)
  BY DEF NextCall, Over
<1>2. d[2] \in Nat /\ e[2] \in Nat /\ ~(d[2] < e[2]) /\ ~(e[2] < d[2])
  BY <1>1, RestartsAssumption, ProcessFacts DEF OrderInv, InTurn
<1>. QED  BY <1>2, ProcessFacts

\* On the normal path, which it does not leave.
LEMMA FirmwareMoves ==
  ASSUME BaseInv, NEW d \in Devices, todo[d] \in FirmwarePaths, NextCall(d) # "over", goes_on(d)
  PROVE  /\ todo'[d] \in FirmwarePaths
         /\ NextCall(d) = "unlink_dev2driv" => NextCall(d)' = "over"
<1>1. todo[d] # << >> /\ todo'[d] = Tail(todo[d]) /\ NextCall(d) = Head(todo[d])
  BY ProcessFacts DEF NextCall, goes_on, BaseInv, TodoInv
<1>2. CASE todo[d] \in StartPaths \cup OpenPaths
  BY ZenonT(60), <1>1, <1>2, FirmwarePath DEF FirmwarePaths, StartPaths, OpenPaths, LoopPaths, Leads
<1>3. CASE todo[d] \in LoopPaths
  BY <1>1, <1>3, FirmwarePath, HandlerPath DEF FirmwarePaths, LoopPaths, EndPaths, Leads
<1>4. CASE todo[d] \in EndPaths
  BY <1>1, <1>4, EndPath DEF FirmwarePaths, EndPaths, Leads, NextCall
<1>. QED  BY <1>2, <1>3, <1>4 DEF FirmwarePaths

LEMMA AloneInit == Init => AloneInv
<1>. SUFFICES ASSUME Init PROVE AloneInv
  OBVIOUS
<1>1. \A d \in Devices : NextCall(d) = "start" /\ todo[d] = firmware_main
  BY FirmwarePath, ProcessFacts DEF Init, NextCall, Leads
<1>2. \A d \in Devices : frees[d] = 0 /\ firmware_main \in FirmwarePaths
  BY DEF Init, FirmwarePaths, StartPaths
<1>. QED  BY <1>1, <1>2 DEF AloneInv, UnlinksFreed, GoesOnce, FreesOnce, NamesFound, Opening,
             Unlinking

\* What is freed stays freed, so who is alone was alone before.
LEMMA FreesGrow ==
  ASSUME BaseInv, [Next]_vars, NEW d \in Devices
  PROVE  /\ frees[d] # 0 => frees'[d] # 0
         /\ device_close(d) => frees'[d] # 0
<1>. QED  BY FreesSteps DEF device_close, BaseInv, DataType

LEMMA AloneBefore ==
  ASSUME BaseInv, [Next]_vars, NEW d \in Devices, Alone(d)'
  PROVE  Alone(d)
<1>1. OneDevice' = OneDevice
  BY StepCases DEF OneDevice
<1>. QED  BY <1>1, FreesGrow DEF Alone

\* Names are removed behind device_close.
LEMMA UnlinksFreedStep == BaseInv /\ UnlinksFreed /\ [Next]_vars => UnlinksFreed'
<1>. SUFFICES ASSUME BaseInv, UnlinksFreed, [Next]_vars,
                     NEW d \in Devices, NextCall(d)' \in Unlinking
              PROVE  frees'[d] # 0
  BY DEF UnlinksFreed
<1>. USE DEF BaseInv
<1>1. CASE NextCall(d) \in Unlinking
  BY <1>1, FreesGrow DEF UnlinksFreed
<1>2. CASE device_close(d)
  BY <1>2, FreesGrow
<1>3. CASE NextCall(d) \notin Unlinking /\ ~device_close(d)
  <2>1. ~(todo'[d] = todo[d])
    BY <1>3 DEF NextCall
  <2>2. ~ends_now(d)
    BY EndsNow, ProcessFacts DEF ends_now, Unlinking
  <2>3. ~goes_on(d) \/ NextCall(d) \in {"close_out", "over"}
    BY <1>3, DeviceMoves, Calling DEF Unlinking, Steps
  <2>4. ~open_failed(d)
    BY OpenFails DEF Unlinking
  <2>5. ~mainloop_read(d)
    BY ReadMoves DEF Unlinking
  <2>6. ~(start(d) \/ opened(d) \/ open_in(d) \/ open_out(d) \/ kill(d))
    BY <2>2, <2>3 DEF start, opened, open_in, open_out, kill
  <2>7. ~(\/ mkfifo(d, "mkfifo_driv2dev", DRIV2DEV) \/ mkfifo(d, "mkfifo_dev2driv", DEV2DRIV)
          \/ unlink(d, "unlink_driv2dev", DRIV2DEV) \/ unlink(d, "unlink_dev2driv", DEV2DRIV)
          \/ mainloop_end(d) \/ treat(d) \/ send_reply(d) \/ close_in(d) \/ dangling(d))
    BY <2>2, <2>3 DEF mkfifo, unlink, mainloop_end, treat, send_reply, close_in, dangling
  <2>. QED  BY <1>3, <2>1, <2>4, <2>5, <2>6, <2>7, OwnSteps, ProcessFacts
<1>. QED  BY <1>1, <1>2, <1>3

LEMMA AloneStep ==
  ASSUME BaseInv, OrderInv, AloneInv, [Next]_vars, NEW d \in Devices, Alone(d)'
  PROVE  GoesOnce(d)'
<1>. USE DEF BaseInv
<1>0. GoesOnce(d) /\ d \in Processes /\ frees[d] \in Nat /\ Alone(d)
  BY ProcessFacts, AloneBefore DEF AloneInv, DataType
\* Nobody else removes a name while d needs it.
<1>1. ASSUME NextCall(d) \notin {"start", "over"},
             ~(\/ unlink(d, "unlink_driv2dev", DRIV2DEV) \/ unlink(d, "unlink_dev2driv", DEV2DRIV)
               \/ MakesFile(d))
      PROVE  \A n \in {DRIV2DEV, DEV2DRIV} : name[n] # None => name'[n] = name[n]
  <2>1. CASE name' = name
    BY <2>1
  <2>2. ASSUME NEW e \in Devices, MakesFile(e)
        PROVE  \A n \in {DRIV2DEV, DEV2DRIV} : name[n] # None => name'[n] = name[n]
    BY <2>2 DEF MakesFile, TypeOK
  <2>3. ASSUME NEW e \in Devices, \/ unlink(e, "unlink_driv2dev", DRIV2DEV)
                                  \/ unlink(e, "unlink_dev2driv", DEV2DRIV)
        PROVE  FALSE
    <3>1. NextCall(e) \in Unlinking /\ e # d
      BY <1>1, <2>3 DEF unlink, Unlinking
    <3>2. frees[e] # 0 /\ NextCall(e) \notin {"start", "over"}
      BY <3>1 DEF AloneInv, UnlinksFreed, Unlinking
    <3>. QED  BY <1>0, <1>1, <3>1, <3>2, ActiveAlone DEF Alone
  <2>. QED  BY <2>1, <2>2, <2>3, NameSteps
<1>2. CASE todo'[d] = todo[d] /\ fd_in'[d] = fd_in[d] /\ fd_out'[d] = fd_out[d]
  <2>1. NextCall(d)' = NextCall(d)
    BY <1>2 DEF NextCall
  <2>2. frees'[d] = frees[d]
    <3>1. ~device_close(d)
      BY <2>1, DeviceMoves, EndsNow, ProcessFacts DEF device_close
    <3>. QED  BY <3>1, FreesSteps
  <2>3. NextCall(d) \notin {"start", "over"} =>
          \A n \in {DRIV2DEV, DEV2DRIV} : name[n] # None => name'[n] = name[n]
    <3>1. ASSUME NextCall(d) # "over", goes_on(d) PROVE FALSE
      BY <2>1, <3>1, DeviceMoves, Calling DEF Steps
    <3>. QED  BY <1>1, <3>1 DEF unlink, MakesFile, mkfifo
  <2>4. FreesOnce(d)' /\ todo'[d] \in FirmwarePaths
    BY <1>0, <1>2, <2>1, <2>2 DEF GoesOnce, FreesOnce
  <2>5. NamesFound(d)'
    BY <1>0, <1>2, <2>1, <2>3 DEF GoesOnce, NamesFound, Opening
  <2>. QED  BY <2>4, <2>5 DEF GoesOnce
<1>3. CASE NextCall(d)' = "over" /\ todo'[d] = << >>
  <2>1. frees'[d] <= 1
    BY <1>0, FreesSteps DEF device_close, GoesOnce, FreesOnce, DataType, Unlinking
  <2>. QED  BY <1>3, <2>1 DEF GoesOnce, FreesOnce, NamesFound, FirmwarePaths, EndPaths, Opening
<1>4. ASSUME goes_on(d), NextCall(d) # "over", frees'[d] = frees[d], NamesFound(d)',
             NextCall(d) # "close_out"
      PROVE  GoesOnce(d)'
  <2>1. todo'[d] \in FirmwarePaths
    BY <1>0, <1>4, FirmwareMoves DEF GoesOnce
  <2>2. NextCall(d)' \notin Unlinking \cup {"over"} =>
          NextCall(d) \notin Unlinking \cup {"over"}
    BY <1>0, <1>4, FirmwareMoves, DeviceMoves, Calling DEF GoesOnce, Steps, Unlinking
  <2>3. FreesOnce(d)'
    BY <1>0, <1>4, <2>2 DEF GoesOnce, FreesOnce
  <2>. QED  BY <1>4, <2>1, <2>3 DEF GoesOnce
<1>5. CASE start(d) \/ mainloop_end(d) \/ treat(d) \/ (send_reply(d) /\ goes_on(d))
  <2>1. goes_on(d) /\ NextCall(d) \in {"start", "mainloop", "treat", "send_reply"}
        /\ frees' = frees
    BY <1>5 DEF start, mainloop_end, treat, send_reply, mem
  <2>2. NextCall(d)' \notin Opening \cup {"mkfifo_dev2driv"}
    BY <2>1, DeviceMoves DEF Opening
  <2>. QED  BY <1>4, <2>1, <2>2 DEF NamesFound, Opening
<1>6. CASE opened(d) \/ open_in(d) \/ open_out(d)
  <2>1. goes_on(d) /\ frees' = frees /\ name' = name
        /\ NextCall(d) \in {"open_out", "opened_out", "open_in", "opened_in"}
    BY <1>6 DEF opened, open_in, open_out, mem, files
  <2>2. NextCall(d)' \in {"opened_out", "open_in", "opened_in", "mainloop"}
    BY <2>1, DeviceMoves
  <2>3. /\ fd_out'[d] = IF open_out(d) THEN name[DEV2DRIV] ELSE fd_out[d]
        /\ fd_in'[d] = IF open_in(d) THEN name[DRIV2DEV] ELSE fd_in[d]
    BY <1>0, <1>6 DEF opened, open_in, open_out, TypeOK, in_filename, out_filename
  <2>4. NextCall(d) = "open_out" => open_out(d)
    BY <1>6 DEF opened, open_in
  <2>5. NamesFound(d)'
    BY <1>0, <2>1, <2>2, <2>3, <2>4 DEF NamesFound, GoesOnce, Opening
  <2>. QED  BY <1>4, <2>1, <2>5
<1>7. CASE open_failed(d)
  BY <1>0, <1>7, ProcessFacts DEF open_failed, GoesOnce, NamesFound, Opening, in_filename,
    out_filename
<1>8. CASE mkfifo(d, "mkfifo_driv2dev", DRIV2DEV)
  <2>1. goes_on(d) /\ frees' = frees /\ NextCall(d)' = "mkfifo_dev2driv"
        /\ NextCall(d) = "mkfifo_driv2dev"
    BY <1>8, DeviceMoves DEF mkfifo, mem
  <2>2. name'[DRIV2DEV] # None
    <3>1. todo[d] = at_mkfifo_driv2dev
      BY <2>1, DeviceAt DEF NextCall, TodoInv
    <3>2. NewFile # None
      BY <3>1, FreeFile, FileFacts
    <3>. QED  BY <1>8, <3>2 DEF mkfifo, TypeOK
  <2>. QED  BY <1>4, <2>1, <2>2 DEF NamesFound, Opening
<1>9. CASE mkfifo(d, "mkfifo_dev2driv", DEV2DRIV)
  <2>1. goes_on(d) /\ frees' = frees /\ NextCall(d)' = "open_out" /\ UNCHANGED ends
        /\ NextCall(d) = "mkfifo_dev2driv"
    BY <1>9, DeviceMoves DEF mkfifo, mem
  <2>2. name'[DEV2DRIV] # None /\ name'[DRIV2DEV] # None
    <3>1. todo[d] = at_mkfifo_dev2driv
      BY <2>1, DeviceAt DEF NextCall, TodoInv
    <3>2. NewFile # None
      BY <3>1, FreeFile, FileFacts
    <3>3. name[DRIV2DEV] # None /\ DRIV2DEV # DEV2DRIV
      BY <1>0, <2>1 DEF GoesOnce, NamesFound, DRIV2DEV, DEV2DRIV
    <3>. QED  BY <1>9, <3>2, <3>3 DEF mkfifo, TypeOK
  <2>3. fd_in'[d] = None
    BY <1>0, <2>1 DEF EndsInv, NotOpen, ends
  <2>. QED  BY <1>4, <2>1, <2>2, <2>3 DEF NamesFound, Opening
<1>10. CASE \/ unlink(d, "unlink_driv2dev", DRIV2DEV) \/ unlink(d, "unlink_dev2driv", DEV2DRIV)
  <2>1. goes_on(d) /\ frees' = frees /\ NextCall(d) \in {"unlink_driv2dev", "unlink_dev2driv"}
    BY <1>10 DEF unlink, mem
  <2>2. NextCall(d)' \in {"unlink_dev2driv", "over"}
    BY <1>0, <2>1, DeviceMoves, FirmwareMoves DEF GoesOnce
  <2>. QED  BY <1>4, <2>1, <2>2 DEF NamesFound, Opening
<1>15. CASE close_in(d)
  <2>1. goes_on(d) /\ frees' = frees /\ NextCall(d) = "close_in" /\ NextCall(d)' = "close_out"
    BY <1>15, DeviceMoves DEF close_in, mem
  <2>. QED  BY <1>4, <2>1 DEF NamesFound, Opening
<1>11. CASE device_close(d)
  <2>1. frees[d] = 0 /\ goes_on(d) /\ frees'[d] = 1 /\ NextCall(d) = "close_out"
    BY <1>0, <1>11 DEF device_close, GoesOnce, FreesOnce, DataType, Unlinking
  <2>2. NextCall(d)' = "unlink_driv2dev"
    BY <2>1, DeviceMoves
  <2>3. todo'[d] \in FirmwarePaths
    BY <1>0, <2>1, FirmwareMoves DEF GoesOnce
  <2>. QED  BY <2>1, <2>2, <2>3 DEF GoesOnce, FreesOnce, NamesFound, Opening, Unlinking
<1>12. CASE mainloop_read(d)
  <2>1. todo[d] = at_mainloop /\ todo' = [todo EXCEPT ![d] = at_treat] /\ frees' = frees
        /\ NextCall(d)' = "treat" /\ NextCall(d) = "mainloop"
    BY <1>12, ReadMoves, DeviceAt DEF mainloop_read, at_treat, NextCall, TodoInv
  <2>2. todo'[d] \in FirmwarePaths
    BY <1>0, <2>1 DEF FirmwarePaths, LoopPaths, TodoInv
  <2>. QED  BY <1>0, <2>1, <2>2 DEF GoesOnce, FreesOnce, NamesFound, Opening, Unlinking
<1>13. CASE ends_now(d)
  <2>1. NextCall(d)' = "over" /\ todo'[d] = << >>
    BY <1>0, <1>13, EndsNow DEF ends_now, TodoInv
  <2>. QED  BY <1>3, <2>1
<1>14. CASE kill(d) \/ dangling(d) \/ send_reply(d)
  BY <1>5, <1>13, <1>14 DEF kill, dangling, send_reply
<1>. QED  BY <1>0, <1>2, <1>5, <1>6, <1>7, <1>8, <1>9, <1>10, <1>11, <1>12, <1>14, <1>15,
             OwnSteps, ProcessFacts

TurnInv == BaseInv /\ OrderInv /\ AloneInv

LEMMA TurnInvHolds == Spec => []TurnInv
<1>1. Init => TurnInv
  BY BaseInit, OrderInit, AloneInit DEF TurnInv
<1>2. TurnInv /\ [Next]_vars => AloneInv'
  BY AloneStep, UnlinksFreedStep DEF TurnInv, AloneInv
<1>3. TurnInv /\ [Next]_vars => TurnInv'
  BY <1>2, BaseStep, OrderStep DEF TurnInv
<1>. QED  BY <1>1, <1>3, PTL DEF Spec

\* A device that waits for a driver is found by it, whatever files, ends and names a
\* killed device has left, and whichever devices run beside it, as long as none of them
\* has come to its end.
THEOREM RestartsNamesLead == Spec => []NamesLead
<1>1. TurnInv => NamesLead
  <2>. SUFFICES ASSUME TurnInv, NEW d \in Devices, Alone(d),
                       NextCall(d) \in {"opened_out", "open_in", "opened_in"}
                PROVE  /\ name[DEV2DRIV] = fd_out[d]
                       /\ name[DRIV2DEV] \in IF fd_in[d] = None THEN Files ELSE {fd_in[d]}
    BY DEF NamesLead, Found
  <2>1. /\ name[DRIV2DEV] # None /\ fd_in[d] \in {None, name[DRIV2DEV]}
        /\ fd_out[d] = name[DEV2DRIV]
    BY DEF TurnInv, AloneInv, GoesOnce, NamesFound, Opening
  <2>2. name[DRIV2DEV] \in Files
    BY <2>1 DEF TurnInv, BaseInv, TypeOK
  <2>. QED  BY <2>1, <2>2
<1>. QED  BY <1>1, TurnInvHolds, PTL

\* A connection is freed twice only where devices run side by side and another one has
\* freed its own before, so that its unlink can have made an open fail; whatever killed
\* devices have left and whatever drivers do, it is not.
THEOREM RestartsFreedTwice == Spec => []FreedTwiceOnlyBeside
<1>1. TurnInv => FreedTwiceOnlyBeside
  <2>. SUFFICES ASSUME TurnInv, NEW d \in Devices, frees[d] > 1
                PROVE  restart = "script" /\ \E e \in Devices \ {d} : frees[e] > 0
    BY DEF FreedTwiceOnlyBeside
  <2>1. \A e \in Devices : frees[e] \in Nat
    BY DEF TurnInv, BaseInv, DataType
  <2>2. ~Alone(d)
    BY <2>1 DEF TurnInv, AloneInv, GoesOnce, FreesOnce
  <2>. QED  BY <2>1, <2>2 DEF Alone, OneDevice
<1>. QED  BY <1>1, TurnInvHolds, PTL

-----------------------------------------------------------------------------
(* Whose reply a call returns with.                                        *)

\* A reply is taken by read_reply, which leaves everything else of the calls alone.
LEMMA TakenSteps ==
  ASSUME BaseInv, [Next]_vars
  PROVE  \/ taken' = taken
         \/ /\ calls' = calls
            /\ \E v \in Drivers : /\ read_reply(v)
                                  /\ taken' = [taken EXCEPT ![v] = Head(data[fd_in[v]])]
<1>1. CASE UNCHANGED vars
  BY <1>1 DEF vars, mem
<1>2. CASE \E p \in Processes : \/ start(p) \/ opened(p) \/ open_in(p) \/ open_out(p)
                                \/ open_failed(p) \/ kill(p)
  BY <1>2 DEF start, opened, open_in, open_out, open_failed, kill, mem
<1>3. CASE \E e \in Devices : \/ mkfifo(e, "mkfifo_driv2dev", DRIV2DEV)
                              \/ mkfifo(e, "mkfifo_dev2driv", DEV2DRIV)
                              \/ unlink(e, "unlink_driv2dev", DRIV2DEV)
                              \/ unlink(e, "unlink_dev2driv", DEV2DRIV)
                              \/ mainloop_read(e) \/ mainloop_end(e) \/ close_in(e) \/ device_close(e)
                              \/ send_reply(e) \/ treat(e) \/ dangling(e)
  BY <1>3 DEF mkfifo, unlink, mainloop_read, mainloop_end, close_in, device_close, send_reply,
    treat, dangling, mem
<1>4. CASE \E v \in Drivers : \/ read_reply_failed(v) \/ exit(v)
                              \/ send_packet(v) \/ driver_close(v)
  BY <1>4 DEF read_reply_failed, exit, send_packet, driver_close, mem
<1>5. ASSUME NEW v \in Drivers, read_reply(v)
      PROVE  calls' = calls /\ taken' = [taken EXCEPT ![v] = Head(data[fd_in[v]])]
  BY <1>5 DEF read_reply
<1>. QED  BY <1>1, <1>2, <1>3, <1>4, <1>5, StepCases

LEMMA CallsSteps ==
  ASSUME BaseInv, [Next]_vars
  PROVE  calls' = calls \/ \E v \in Drivers : SendsRequest(v)
BY DataSteps DEF mainloop_read, SendsReply, send_reply

\* What an application has called and been given changes while it is in a call only.
LEMMA CallKept ==
  ASSUME BaseInv, [Next]_vars, NEW v \in Drivers
  PROVE  /\ ~read_reply(v) => taken'[v] = taken[v]
         /\ ~SendsRequest(v) => calls'[v] = calls[v]
         /\ ~read_reply(v) /\ ~SendsRequest(v) => OwnReply(v)' = OwnReply(v)
<1>1. ~read_reply(v) => taken'[v] = taken[v]
  BY TakenSteps DEF BaseInv, TypeOK
<1>2. ~SendsRequest(v) => calls'[v] = calls[v]
  BY CallsSteps DEF SendsRequest, BaseInv, TypeOK
<1>. QED  BY <1>1, <1>2 DEF OwnReply

\* How an application comes to be between two calls.
LEMMA IdleSteps ==
  ASSUME BaseInv, [Next]_vars, NEW v \in Drivers
  PROVE  /\ NextCall(v)' = "idle" => \/ NextCall(v) = "idle" /\ ~SendsRequest(v) /\ ~read_reply(v)
                                     \/ NextCall(v) = "opened_out" /\ ~SendsRequest(v) /\ ~read_reply(v)
                                     \/ read_reply(v)
         /\ NextCall(v)' \in {"start", "open_in", "opened_in", "open_out", "opened_out"} =>
              /\ NextCall(v) \in {"start", "open_in", "opened_in", "open_out", "opened_out"}
              /\ ~SendsRequest(v) /\ ~read_reply(v)
<1>. USE DEF BaseInv
<1>0. v \in Processes /\ (SendsRequest(v) => NextCall(v) = "idle")
      /\ (read_reply(v) => NextCall(v) = "read_reply")
  BY ProcessFacts DEF SendsRequest, send_packet, read_reply
<1>1. CASE todo'[v] = todo[v]
  <2>1. NextCall(v)' = NextCall(v)
    BY <1>1 DEF NextCall
  <2>2. ~SendsRequest(v)
    <3>1. SendsRequest(v) => NextCall(v)' \in {"read_reply", "over"}
      BY SendMoves, EndsNow, ProcessFacts DEF SendsRequest, send_packet, ends_now
    <3>. QED  BY <1>0, <2>1, <3>1
  <2>. QED  BY <1>0, <2>1, <2>2
<1>2. CASE ends_now(v)
  BY <1>0, <1>2, EndsNow DEF ends_now
<1>3. CASE start(v) \/ opened(v) \/ open_in(v) \/ open_out(v)
  <2>1. goes_on(v) /\ NextCall(v) \in {"start", "opened_in", "opened_out", "open_in", "open_out"}
    BY <1>3 DEF start, opened, open_in, open_out
  <2>. QED  BY <1>0, <2>1, DriverMoves
<1>4. CASE read_reply(v)
  <2>1. NextCall(v)' = "idle"
    BY <1>4, DriverMoves DEF read_reply
  <2>. QED  BY <1>4, <2>1
<1>5. CASE read_reply_failed(v) \/ driver_close(v)
  <2>1. todo'[v] \in {<<"exit">>, <<"close_out">>}
    BY <1>0, <1>5 DEF read_reply_failed, driver_close, TodoInv
  <2>2. NextCall(v)' \in {"exit", "close_out"}
    BY <2>1 DEF NextCall
  <2>. QED  BY <2>2
<1>6. CASE send_packet(v) /\ ~ends_now(v)
  <2>1. NextCall(v)' = "read_reply"
    BY <1>6, SendMoves DEF send_packet
  <2>. QED  BY <2>1
<1>7. CASE open_failed(v) \/ kill(v) \/ exit(v)
  BY <1>2, <1>7 DEF open_failed, kill, exit
<1>. QED  BY <1>0, <1>1, <1>2, <1>3, <1>4, <1>5, <1>6, <1>7, OwnSteps, ProcessFacts

LEMMA FreshStep == BaseInv /\ FreshInv /\ [Next]_vars => FreshInv'
BY IdleSteps, CallKept DEF FreshInv

LEMMA OrphanStays ==
  ASSUME BaseInv, [Next]_vars, NEW v \in Drivers, Orphaned(v)
  PROVE  Orphaned(v)'
<1>1. PICK asker \in Earlier(v, Drivers) : Over(asker) /\ ~OwnReply(asker)
  BY DEF Orphaned
<1>2. asker \in Drivers /\ asker \in Processes /\ NextCall(asker) = "over"
  BY <1>1, ProcessFacts DEF Earlier, Over, NextCall
<1>3. ~OwnReply(asker)'
  BY <1>1, <1>2, CallKept DEF SendsRequest, send_packet, read_reply
<1>4. Over(asker)' /\ restart' # "clean"
  BY <1>1, <1>2, OverStays, StepCases DEF Orphaned
<1>5. \E a \in Earlier(v, Drivers) : Over(a)' /\ ~OwnReply(a)'
  BY <1>1, <1>3, <1>4
<1>. QED  BY <1>4, <1>5 DEF Orphaned

\* A request or reply that is in flight was, or is sent; a reply that is taken is not.
LEMMA InFlightSteps ==
  ASSUME BaseInv, OnceInv, [Next]_vars, NEW r \in Requests, InFlight(r)'
  PROVE  /\ InFlight(r) \/ \E v \in Drivers : SendsRequest(v) /\ r = <<v, calls[v] + 1>>
         /\ \A v \in Drivers : read_reply(v) => InFlight(r) /\ r # Head(data[fd_in[v]])
<1>. USE DEF BaseInv
<1>1. ASSUME NEW d \in Devices, Holds(d)', req'[d] = r
      PROVE  (Holds(d) /\ req[d] = r) \/ mainloop_read(d)
  BY <1>1, HoldsStep
<1>2. ASSUME NEW f \in Files, NEW n \in DOMAIN data'[f], data'[f][n] = r
      PROVE  \/ n \in DOMAIN data[f] /\ data[f][n] = r
             \/ \E d \in Devices : Holds(d) /\ req[d] = r /\ SendsReply(d)
             \/ \E v \in Drivers : SendsRequest(v) /\ r = <<v, calls[v] + 1>>
  <2>1. CASE Kept
    BY <1>2, <2>1, KeptEntry
  <2>2. ASSUME NEW d \in Devices, SendsReply(d)
        PROVE  (n \in DOMAIN data[f] /\ data[f][n] = r) \/ (Holds(d) /\ req[d] = r)
    <3>1. Holds(d) /\ req[d] \in Requests /\ fd_out[d] \in Files
          /\ data' = [data EXCEPT ![fd_out[d]] = Append(@, req[d])]
      BY <2>2, ReplyHeld DEF SendsReply
    <3>. QED  BY <1>2, <3>1, Appended
  <2>3. ASSUME NEW v \in Drivers, SendsRequest(v)
        PROVE  (n \in DOMAIN data[f] /\ data[f][n] = r) \/ r = <<v, calls[v] + 1>>
    <3>1. PICK s : s = <<v, calls[v] + 1>>
      OBVIOUS
    <3>2. s \in Requests /\ fd_out[v] \in Files
          /\ data' = [data EXCEPT ![fd_out[v]] = Append(@, s)]
      BY <2>3, <3>1, SentIsNew DEF SendsRequest
    <3>. QED  BY <1>2, <3>1, <3>2, Appended
  <2>. QED  BY <2>1, <2>2, <2>3, DataSteps, ReadTakes
<1>3. InFlight(r) \/ \E v \in Drivers : SendsRequest(v) /\ r = <<v, calls[v] + 1>>
  <2>1. ASSUME NEW d \in Devices, Holds(d)', req'[d] = r
        PROVE  InFlight(r)
    BY <1>1, <2>1, ReadTakes DEF InFlight
  <2>2. ASSUME NEW f \in Files, NEW n \in DOMAIN data'[f], data'[f][n] = r
        PROVE  InFlight(r) \/ \E v \in Drivers : SendsRequest(v) /\ r = <<v, calls[v] + 1>>
    BY <1>2, <2>2 DEF InFlight
  <2>. QED  BY <2>1, <2>2 DEF InFlight
<1>4. ASSUME NEW v \in Drivers, read_reply(v)
      PROVE  InFlight(r) /\ r # Head(data[fd_in[v]])
  <2>1. /\ fd_in[v] \in Files /\ data[fd_in[v]] # << >>
        /\ data' = [data EXCEPT ![fd_in[v]] = << >>] /\ calls' = calls
    BY <1>4, ProcessFacts DEF read_reply, EndsInv, TypeOK
  <2>2. /\ data[fd_in[v]] \in Seq(Requests)
        /\ 1 \in DOMAIN data[fd_in[v]] /\ Head(data[fd_in[v]]) = data[fd_in[v]][1]
    BY <2>1 DEF DataType
  <2>3. \A f \in Files : f # fd_in[v] => data'[f] = data[f]
    BY <2>1 DEF DataType
  <2>4. data'[fd_in[v]] = << >>
    BY <2>1 DEF DataType
  <2>5. ASSUME NEW d \in Devices PROVE ~mainloop_read(d)
    <3>1. mainloop_read(d) => todo'[d] # todo[d]
      BY ReadMoves DEF NextCall, mainloop_read
    <3>2. todo'[d] = todo[d]
      BY <1>4, ProcessFacts DEF read_reply, goes_on, TodoInv
    <3>. QED  BY <3>1, <3>2
  <2>6. ASSUME NEW d \in Devices, Holds(d)', req'[d] = r
        PROVE  InFlight(r) /\ r # Head(data[fd_in[v]])
    BY <1>1, <2>1, <2>2, <2>5, <2>6 DEF InFlight, OnceInv
  <2>7. ASSUME NEW f \in Files, NEW n \in DOMAIN data'[f], data'[f][n] = r
        PROVE  InFlight(r) /\ r # Head(data[fd_in[v]])
    <3>1. f # fd_in[v] /\ n \in DOMAIN data[f] /\ data[f][n] = r
      BY <2>3, <2>4, <2>7
    <3>. QED  BY <2>1, <2>2, <2>7, <3>1 DEF InFlight, OnceInv
  <2>. QED  BY <2>6, <2>7 DEF InFlight
<1>. QED  BY <1>3, <1>4

LEMMA RepliesInit == Init => FreshInv /\ AwaitedInv /\ CleanInv
<1>. SUFFICES ASSUME Init PROVE FreshInv /\ AwaitedInv /\ CleanInv
  OBVIOUS
<1>1. FreshInv
  BY DEF Init, FreshInv
<1>2. \A d \in Devices : ~Holds(d)
  BY FirmwarePath, ProcessFacts DEF Init, Holds, NextCall, Leads
<1>3. \A f \in Files : DOMAIN data[f] = {}
  BY DEF Init
<1>4. CleanInv
  BY <1>2, <1>3 DEF CleanInv
<1>5. AwaitedInv
  BY <1>2, <1>3 DEF AwaitedInv, InFlight
<1>. QED  BY <1>1, <1>4, <1>5

\* Who has a file open has been started, and is not over.
HasOpen(p, f) == fd_in[p] = f \/ fd_out[p] = f

LEMMA OpenRuns ==
  ASSUME BaseInv, NEW p \in Processes, NEW f \in Files, HasOpen(p, f)
  PROVE  NextCall(p) \notin {"start", "over"}
BY FileFacts DEF HasOpen, BaseInv, EndsInv, NotOpen

\* From a clean state, those that run are one device and its application.
LEMMA SameTurn ==
  ASSUME OrderInv, restart = "clean", NEW p \in Processes, NEW q \in Processes,
         NextCall(p) \notin {"start", "over"}, NextCall(q) \notin {"start", "over"}
  PROVE  p[2] = q[2]
<1>1. ~Over(p) /\ ~Over(q)
  BY DEF NextCall, Over
<1>2. ~(p[2] < q[2]) /\ ~(q[2] < p[2])
  BY <1>1 DEF OrderInv, InTurn
<1>. QED  BY <1>2, ProcessFacts

\* Who has a file open after a step has been running before it.
LEMMA OpenRan ==
  ASSUME BaseInv, [Next]_vars, NEW p \in Processes, NEW f \in Files, HasOpen(p, f)'
  PROVE  HasOpen(p, f) \/ NextCall(p) \in {"open_in", "open_out"}
BY FdSteps, FileFacts DEF HasOpen, BaseInv, open_in, open_out

LEMMA CleanStep == BaseInv /\ HeldInv /\ OrderInv /\ CleanInv /\ [Next]_vars => CleanInv'
<1>. SUFFICES ASSUME BaseInv, HeldInv, OrderInv, CleanInv, [Next]_vars, restart = "clean"
              PROVE  CleanInv'
  BY StepCases DEF CleanInv
<1>0. /\ \A f \in Files : \A n \in DOMAIN data[f], p \in Processes :
           HasOpen(p, f) => data[f][n][1][2] = p[2]
      /\ \A d \in Devices : Holds(d) => req[d][1][2] = d[2]
  BY DEF CleanInv, HasOpen, Readers, Writers
<1>1. ASSUME NEW d \in Devices, Holds(d)'
      PROVE  req'[d][1][2] = d[2]
  <2>1. CASE mainloop_read(d)
    <3>1. HasOpen(d, fd_in[d]) /\ d \in Processes
      BY ProcessFacts DEF HasOpen
    <3>. QED  BY <1>0, <2>1, <3>1, ReadTakes
  <2>2. CASE Holds(d) /\ req'[d] = req[d]
    BY <1>0, <2>2
  <2>. QED  BY <1>1, <2>1, <2>2, HoldsStep DEF BaseInv
<1>2. ASSUME NEW f \in Files, NEW n \in DOMAIN data'[f], NEW p \in Processes, HasOpen(p, f)'
      PROVE  data'[f][n][1][2] = p[2]
  <2>1. NextCall(p) \notin {"start", "over"}
    BY <1>2, OpenRuns, OpenRan
  <2>2. CASE n \in DOMAIN data[f] /\ data'[f][n] = data[f][n]
    <3>1. data[f] # << >>
      BY <2>2
    <3>2. PICK q \in Processes : HasOpen(q, f)
      BY <3>1 DEF HeldInv, HasOpen, Readers, Writers
    <3>3. NextCall(q) \notin {"start", "over"}
      BY <3>2, OpenRuns
    <3>4. p[2] = q[2]
      BY <2>1, <3>3, SameTurn
    <3>. QED  BY <1>0, <2>2, <3>2, <3>4
  <2>3. ASSUME NEW d \in Devices, SendsReply(d), f = fd_out[d], data'[f][n] = req[d]
        PROVE  data'[f][n][1][2] = p[2]
    <3>1. Holds(d) /\ d \in Processes /\ NextCall(d) \notin {"start", "over"}
      BY <2>3, ReplyHeld, ProcessFacts DEF Holds
    <3>2. p[2] = d[2]
      BY <2>1, <3>1, SameTurn
    <3>. QED  BY <1>0, <2>3, <3>1, <3>2
  <2>4. ASSUME NEW v \in Drivers, SendsRequest(v), data'[f][n] = <<v, calls[v] + 1>>
        PROVE  data'[f][n][1][2] = p[2]
    <3>1. v \in Processes /\ NextCall(v) \notin {"start", "over"}
      BY <2>4, ProcessFacts DEF SendsRequest, send_packet
    <3>2. p[2] = v[2]
      BY <2>1, <3>1, SameTurn
    <3>. QED  BY <2>4, <3>2
  <2>5. ASSUME NEW d \in Devices, SendsReply(d)
        PROVE  data'[f][n][1][2] = p[2]
    <3>1. req[d] \in Requests /\ fd_out[d] \in Files
          /\ data' = [data EXCEPT ![fd_out[d]] = Append(@, req[d])]
      BY <2>5, ReplyHeld DEF SendsReply
    <3>2. (n \in DOMAIN data[f] /\ data'[f][n] = data[f][n]) \/ (f = fd_out[d] /\ data'[f][n] = req[d])
      BY <3>1, Appended DEF BaseInv
    <3>. QED  BY <2>2, <2>3, <2>5, <3>2
  <2>6. ASSUME NEW v \in Drivers, SendsRequest(v)
        PROVE  data'[f][n][1][2] = p[2]
    <3>1. PICK s : s = <<v, calls[v] + 1>>
      OBVIOUS
    <3>2. s \in Requests /\ fd_out[v] \in Files
          /\ data' = [data EXCEPT ![fd_out[v]] = Append(@, s)]
      BY <2>6, <3>1, SentIsNew DEF SendsRequest
    <3>3. (n \in DOMAIN data[f] /\ data'[f][n] = data[f][n]) \/ data'[f][n] = s
      BY <3>2, Appended DEF BaseInv
    <3>. QED  BY <2>2, <2>4, <2>6, <3>1, <3>3
  <2>7. CASE Kept
    BY <2>2, <2>7, KeptEntry
  <2>. QED  BY <2>5, <2>6, <2>7, DataSteps, ReadTakes
<1>3. \A f \in Files : \A n \in DOMAIN data'[f], p \in Readers(f)' \cup Writers(f)' :
        data'[f][n][1][2] = p[2]
  BY <1>2 DEF HasOpen, Readers, Writers
<1>. QED  BY <1>1, <1>3 DEF CleanInv

\* The reply that read_reply takes is the one to the call, or comes after an orphan.
LEMMA ReadsOwn ==
  ASSUME BaseInv, SentInv, OrderInv, FreshInv, AwaitedInv, CleanInv,
         NEW v \in Drivers, read_reply(v), NEW s, s = Head(data[fd_in[v]])
  PROVE  /\ s \in Requests
         /\ Orphaned(v) \/ s = <<v, calls[v]>>
<1>1. /\ NextCall(v) = "read_reply" /\ v \in Processes
      /\ fd_in[v] \in Files /\ data[fd_in[v]] # << >>
  BY ProcessFacts DEF read_reply, BaseInv, EndsInv, TypeOK
<1>2. PICK f \in Files : f = fd_in[v]
  BY <1>1
<1>3. data[f] \in Seq(Requests) /\ data[f] # << >> /\ s = Head(data[f])
  BY <1>1, <1>2 DEF BaseInv, DataType
<1>4. 1 \in DOMAIN data[f] /\ data[f][1] = s /\ s \in Requests
  BY <1>3
<1>5. PICK w \in Drivers : w = s[1] /\ s = <<w, s[2]>> /\ s[2] \in 1 .. Calls
  BY <1>4, RequestFacts
<1>6. InFlight(s) /\ Awaited(s)
  BY <1>4 DEF InFlight, AwaitedInv
<1>7. CASE w = v
  BY <1>4, <1>5, <1>6, <1>7 DEF Awaited
<1>8. CASE w # v
  <2>1. s[2] <= calls[w] /\ calls[w] \in 0 .. Calls
    BY <1>4, <1>5 DEF SentInv, SentRequest, BaseInv, TypeOK
  <2>2. calls[w] # 0 /\ NextCall(w) # "start"
    BY <1>5, <2>1, RestartsAssumption DEF FreshInv
  <2>3. w[2] < v[2] /\ Over(w)
    <3>1. ~Over(v) /\ NextCall(v) # "start"
      BY <1>1 DEF Over, NextCall
    <3>2. ~(v[2] < w[2])
      BY <2>2, <3>1 DEF OrderInv, InTurn
    <3>3. v[2] \in Nat /\ w[2] \in Nat /\ v[2] # w[2]
      BY <1>8, RestartsAssumption, ProcessFacts
    <3>. QED  BY <3>1, <3>2, <3>3 DEF OrderInv, InTurn
  <2>4. restart # "clean"
    <3>1. v \in Readers(f)
      BY <1>1, <1>2 DEF Readers
    <3>2. restart = "clean" => s[1][2] = v[2]
      BY <1>4, <3>1 DEF CleanInv
    <3>3. v[2] \in Nat /\ w[2] \in Nat
      BY ProcessFacts
    <3>. QED  BY <1>5, <2>3, <3>2, <3>3
  <2>5. CASE Orphaned(w)
    <3>1. PICK asker \in Earlier(w, Drivers) : Over(asker) /\ ~OwnReply(asker)
      BY <2>5 DEF Orphaned
    <3>2. asker \in Earlier(v, Drivers)
      BY <2>3, <3>1, ProcessFacts DEF Earlier
    <3>. QED  BY <1>4, <2>4, <3>1, <3>2 DEF Orphaned
  <2>6. CASE ~OwnReply(w)
    <3>1. w \in Earlier(v, Drivers)
      BY <2>3 DEF Earlier
    <3>. QED  BY <1>4, <2>3, <2>4, <2>6, <3>1 DEF Orphaned
  <2>. QED  BY <1>5, <1>6, <2>5, <2>6 DEF Awaited
<1>. QED  BY <1>4, <1>7, <1>8

LEMMA AwaitedStep ==
  ASSUME BaseInv, OnceInv, SentInv, OrderInv, FreshInv, AwaitedInv, CleanInv,
         RepliesOwnOrOrphaned, [Next]_vars
  PROVE  AwaitedInv'
<1>. SUFFICES ASSUME NEW r \in Requests, InFlight(r)'
              PROVE  Awaited(r)'
  BY DEF AwaitedInv, Requests, Drivers, Driver
<1>1. PICK w \in Drivers : w = r[1] /\ r = <<w, r[2]>> /\ r[2] \in 1 .. Calls
  BY RequestFacts
<1>2. NextCall(w) = "idle" => OwnReply(w) \/ Orphaned(w)
  BY DEF RepliesOwnOrOrphaned, Orphaned
<1>3. CASE Orphaned(w)
  BY <1>1, <1>3, OrphanStays DEF Awaited
<1>4. CASE InFlight(r) /\ ~Orphaned(w)
  <2>1. r[2] = calls[w] /\ ~OwnReply(w)
    BY <1>1, <1>4 DEF AwaitedInv, Awaited
  <2>2. ~SendsRequest(w)
    BY <1>2, <1>4, <2>1 DEF SendsRequest, send_packet
  <2>3. ~read_reply(w)
    <3>1. ASSUME read_reply(w) PROVE FALSE
      <4>1. PICK s : s = Head(data[fd_in[w]])
        OBVIOUS
      <4>2. s = <<w, calls[w]>>
        BY <1>4, <3>1, <4>1, ReadsOwn
      <4>3. r # s
        BY <3>1, <4>1, InFlightSteps
      <4>. QED  BY <1>1, <2>1, <4>2, <4>3
    <3>. QED  BY <3>1
  <2>4. calls'[w] = calls[w] /\ ~OwnReply(w)'
    BY <2>1, <2>2, <2>3, CallKept
  <2>. QED  BY <1>1, <2>1, <2>4 DEF Awaited
<1>5. ASSUME NEW v \in Drivers, SendsRequest(v), r = <<v, calls[v] + 1>>, ~Orphaned(w)
      PROVE  Awaited(r)'
  <2>1. v = w /\ NextCall(w) = "idle"
    BY <1>1, <1>5 DEF SendsRequest, send_packet
  <2>2. r[2] = calls'[w]
    BY <1>5, <2>1, SentIsNew
  <2>3. taken'[w] = taken[w]
    BY <2>1, CallKept DEF read_reply
  <2>4. calls[w] \in 0 .. Calls /\ r[2] = calls[w] + 1
    BY <1>5, <2>1 DEF BaseInv, TypeOK
  <2>5. taken[w] # <<w, r[2]>>
    <3>1. taken[w] = IF calls[w] = 0 THEN << >> ELSE <<w, calls[w]>>
      BY <1>2, <1>5, <2>1 DEF OwnReply
    <3>2. calls[w] # r[2]
      BY <2>4, RestartsAssumption
    <3>. QED  BY <3>1, <3>2
  <2>6. ~OwnReply(w)'
    BY <1>1, <2>2, <2>3, <2>5, RestartsAssumption DEF OwnReply
  <2>. QED  BY <1>1, <2>2, <2>6 DEF Awaited
<1>. QED  BY <1>3, <1>4, <1>5, InFlightSteps

LEMMA OwnStep ==
  ASSUME BaseInv, SentInv, OrderInv, FreshInv, AwaitedInv, CleanInv,
         RepliesOwnOrOrphaned, [Next]_vars
  PROVE  RepliesOwnOrOrphaned'
<1>. SUFFICES ASSUME NEW v \in Drivers, NextCall(v)' = "idle"
              PROVE  OwnReply(v)' \/ (Orphaned(v)' /\ taken'[v] # << >>)
  BY DEF RepliesOwnOrOrphaned, Orphaned
<1>1. CASE NextCall(v) = "idle" /\ ~SendsRequest(v) /\ ~read_reply(v)
  <2>1. OwnReply(v)' = OwnReply(v) /\ taken'[v] = taken[v]
    BY <1>1, CallKept
  <2>2. OwnReply(v) \/ (Orphaned(v) /\ taken[v] # << >>)
    BY <1>1 DEF RepliesOwnOrOrphaned, Orphaned
  <2>. QED  BY <2>1, <2>2, OrphanStays
<1>2. CASE NextCall(v) = "opened_out" /\ ~SendsRequest(v) /\ ~read_reply(v)
  <2>1. OwnReply(v)
    BY <1>2 DEF FreshInv, OwnReply
  <2>. QED  BY <1>2, <2>1, CallKept
<1>3. CASE read_reply(v)
  <2>1. PICK s : s = Head(data[fd_in[v]])
    OBVIOUS
  <2>2. taken'[v] = s /\ calls' = calls
    BY <1>3, <2>1 DEF read_reply, BaseInv, TypeOK
  <2>3. s \in Requests /\ (Orphaned(v) \/ s = <<v, calls[v]>>)
    BY <1>3, <2>1, ReadsOwn
  <2>4. CASE Orphaned(v)
    BY <2>2, <2>3, <2>4, OrphanStays, RequestFacts
  <2>5. CASE s = <<v, calls[v]>>
    <3>1. calls[v] # 0
      BY <2>3, <2>5, RequestFacts
    <3>. QED  BY <2>2, <2>5, <3>1 DEF OwnReply
  <2>. QED  BY <2>3, <2>4, <2>5
<1>. QED  BY <1>1, <1>2, <1>3, IdleSteps

RepliesInv ==
    /\ BaseInv /\ UnopenedInv /\ HeldInv /\ OnceInv /\ SentInv /\ OrderInv
    /\ FreshInv /\ AwaitedInv /\ CleanInv /\ RepliesOwnOrOrphaned

\* A call returns with the reply to its own request, whatever is killed and started
\* again around it, unless an application before it was over before it had its own
\* reply; from a clean state it always does.
THEOREM RestartsRepliesOwn == Spec => []RepliesOwnOrOrphaned
<1>1. Init => RepliesInv
  <2>. SUFFICES ASSUME Init PROVE RepliesInv
    OBVIOUS
  <2>1. RepliesOwnOrOrphaned
    BY ProcessFacts DEF Init, RepliesOwnOrOrphaned, OwnReply
  <2>. QED  BY <2>1, BaseInit, FlightInit, OrderInit, RepliesInit DEF RepliesInv
<1>2. RepliesInv /\ [Next]_vars => RepliesInv'
  <2>. SUFFICES ASSUME RepliesInv, [Next]_vars PROVE RepliesInv'
    OBVIOUS
  <2>. USE DEF RepliesInv
  <2>1. BaseInv' /\ UnopenedInv' /\ HeldInv'
    BY BaseStep, UnopenedStep, HeldStep
  <2>2. OnceInv' /\ SentInv' /\ OrderInv'
    BY OnceStep, SentStep, OrderStep
  <2>3. FreshInv' /\ AwaitedInv' /\ CleanInv' /\ RepliesOwnOrOrphaned'
    BY FreshStep, AwaitedStep, CleanStep, OwnStep
  <2>. QED  BY <2>1, <2>2, <2>3
<1>3. RepliesInv => RepliesOwnOrOrphaned
  BY DEF RepliesInv
<1>. QED  BY <1>1, <1>2, <1>3, PTL DEF Spec

=============================================================================
