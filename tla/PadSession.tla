------------------------------ MODULE PadSession ------------------------------
(* A session with the real pad: how l2cap::open (l2cap.rs) accepts a pad, asks *)
(* for its feature reports and decides what it is, and how relay_loop          *)
(* (proxy.rs) answers the GET_REPORT and SET_REPORT requests of the virtual    *)
(* pad's driver from a cache, from the control channel or from hidraw.         *)
(* The control channel is a pair of FIFO queues; the pad answers late, not at  *)
(* all, with a handshake, or talks unasked, and may hang up at any time.       *)
EXTENDS Naturals, Sequences

CONSTANTS
    Modes,        \* the links a run of the proxy may have
    Tries,        \* get_feature: times a GET is written (3)
    Reads,        \* get_feature: frames read per GET (16)
    Fetches,      \* fetch_feature_once: frames read (8)
    MaxQueue      \* frames the control channel holds

ASSUME SessionAssumption ==
    /\ Modes \subseteq {"l2cap", "l2capUsb", "hidrawBt", "hidrawUsb"}
    /\ {Tries, Reads, Fetches, MaxQueue} \subseteq Nat \ {0}

(* Feature reports: 0x09, 0x05 (0x20 is asked for and treated the same way),   *)
(* the DualShock 4's 0xA3, and one a game asks for later on (0x81).            *)
Ids == {"serial", "calib", "info4", "test"}
Supported == [ds5 |-> {"serial", "calib", "test"}, ds4 |-> {"info4", "calib"}]

(* A report starts with its id. "crc" names the convention its last four bytes *)
(* follow: the pad's and the kernel's ("kernel"), the one of a SET ("set"),    *)
(* none ("zero").                                                              *)
Data == [id: Ids, mac: {"real", "virtual"}, crc: {"kernel", "set", "zero", "bad"}]
Frames == [kind: {"report"}, data: Data] \cup [kind: {"handshake", "other"}]
Requests == [op: {"get"}, id: Ids] \cup [op: {"set", "state"}]
Answers == [id: Ids, data: Data] \cup [err: {"none", "EINVAL", "EIO"}]
None == [none |-> TRUE]

VARIABLES
    mode,         \* the link and how the virtual pad is presented (fixed)
    (* the pad *)
    pad,          \* "ds5" or "ds4"
    up,           \* its channels are open
    asked,        \* what the proxy wrote on the control channel
    frames,       \* what it wrote on the control channel
    (* the proxy's main thread *)
    pc,
    todo,         \* reports open() still asks for, the current one first
    ds4,          \* open() took the pad for a DualShock 4
    tries, reads, \* of the current GET
    cache,        \* Session.features
    (* the virtual pad's driver *)
    request,      \* the one request it waits for
    answer        \* the last answer it got

padVars == <<pad, up, asked, frames>>
openVars == <<todo, ds4, tries, reads>>
kernel == <<request, answer>>
vars == <<mode, padVars, pc, openVars, cache, kernel>>

L2cap == mode \in {"l2cap", "l2capUsb"}
UsbView == mode = "l2capUsb" /\ ~ds4   \* a DualShock 4 is never presented as USB
Bluetooth == mode # "hidrawUsb"

TypeOK ==
    /\ mode \in Modes
    /\ pad \in {"ds5", "ds4"} /\ up \in BOOLEAN
    /\ asked \in Seq(Ids \cup {"header", "body"}) /\ frames \in Seq(Frames)
    /\ pc \in {"listen", "intr", "ask", "init", "relay", "fetch"}
    /\ todo \in Seq(Ids) /\ ds4 \in BOOLEAN
    /\ tries \in 0..Tries /\ reads \in 0..(Reads + Fetches)
    /\ cache \in [Ids -> Data \cup {None}]
    /\ request \in Requests \cup {None}
    /\ answer \in Answers \cup {None}

Empty == [id \in Ids |-> None]

Init ==
    /\ mode \in Modes
    /\ pad = "ds5" /\ up = FALSE
    /\ asked = <<>> /\ frames = <<>>
    /\ pc = "listen" /\ todo = <<>> /\ ds4 = FALSE /\ tries = 0 /\ reads = 0
    /\ cache = Empty /\ request = None /\ answer = None

-----------------------------------------------------------------------------
(* The pad. A report over Bluetooth ends in the CRC the kernel checks.         *)

Report(id) ==
    [id |-> id,
     mac |-> IF id = "serial" THEN "real" ELSE "virtual",
     crc |-> IF Bluetooth THEN "kernel" ELSE "zero"]

Room == Len(frames) < MaxQueue

PadAnswers ==
    /\ up /\ asked # <<>> /\ Room
    /\ asked' = Tail(asked)
    /\ LET what == Head(asked) IN
       frames' = Append(frames,
            IF what \in Supported[pad] THEN [kind |-> "report", data |-> Report(what)]
                                       ELSE [kind |-> "handshake"])
    /\ UNCHANGED <<mode, pad, up, pc, openVars, cache, kernel>>

PadIgnores ==
    /\ up /\ asked # <<>>
    /\ asked' = Tail(asked)
    /\ UNCHANGED <<mode, pad, up, frames, pc, openVars, cache, kernel>>

(* Unasked: a report both models have, or something else. *)
PadTalks ==
    /\ up /\ L2cap /\ Room
    /\ \E f \in {[kind |-> "other"], [kind |-> "report", data |-> Report("calib")]} :
          frames' = Append(frames, f)
    /\ UNCHANGED <<mode, pad, up, asked, pc, openVars, cache, kernel>>

PadHangsUp ==
    /\ up /\ up' = FALSE
    /\ asked' = <<>> /\ frames' = <<>>    \* read_frame and poll() report the end first
    /\ UNCHANGED <<mode, pad, pc, openVars, cache, kernel>>

-----------------------------------------------------------------------------
(* l2cap::open. The proxy's end of the channels is closed when a session ends  *)
(* or does not come about; the driver's request dies with the holder socket.   *)

Closed ==
    /\ pc' = "listen" /\ up' = FALSE /\ asked' = <<>> /\ frames' = <<>>
    /\ todo' = <<>> /\ ds4' = FALSE /\ tries' = 0 /\ reads' = 0 /\ cache' = Empty
    /\ request' = None /\ answer' = None /\ UNCHANGED <<mode, pad>>

(* Open a hidraw node, or accept the control channel. *)
Connect ==
    /\ pc = "listen" /\ ~up
    /\ pad' \in {"ds5", "ds4"} /\ up' = TRUE
    /\ pc' = IF L2cap THEN "intr" ELSE "relay"
    /\ UNCHANGED <<mode, asked, frames, openVars, cache, kernel>>

IntrTimeout == pc = "intr" /\ Closed

(* Writing to the control channel; on a closed one nothing goes out and the    *)
(* read that follows reports the end. What does not fit in the bounded queue   *)
(* is what the pad ignores.                                                    *)
Write(packets) ==
    asked' = IF up /\ Len(asked) + Len(packets) <= MaxQueue THEN asked \o packets ELSE asked

Probe == <<"serial", "calib">>
Ds4Probe == <<"info4", "calib">>

IntrAccept ==
    /\ pc = "intr"
    /\ pc' = "ask" /\ todo' = Probe /\ ds4' = FALSE /\ tries' = 1 /\ reads' = 0
    /\ Write(<<"serial">>)
    /\ UNCHANGED <<mode, pad, up, frames, cache, kernel>>

MutantMatches(f, id) == f.kind = "report"
Matches(f, id) == f.kind = "report" /\ f.data.id = id

(* The current id has its report (got) or is given up: go on to the next one;  *)
(* without a serial number the pad is probed as a DualShock 4.                 *)
MutantRest(got) == IF got THEN Tail(todo) ELSE todo
Rest(got) == IF ~got /\ Head(todo) = "serial" THEN Ds4Probe ELSE Tail(todo)

MutantGoOn(got) ==
    /\ todo' = Tail(todo) /\ reads' = 0 /\ UNCHANGED ds4
    /\ IF Tail(todo) = <<>> THEN pc' = "init" /\ tries' = 0 /\ UNCHANGED asked
                            ELSE pc' = "ask" /\ tries' = 1 /\ Write(<<todo[2]>>)
GoOn(got) ==
    /\ todo' = Rest(got)
    /\ ds4' = (ds4 \/ (~got /\ Head(todo) = "serial"))
    /\ reads' = 0
    /\ IF Rest(got) = <<>> THEN pc' = "init" /\ tries' = 0 /\ UNCHANGED asked
                           ELSE pc' = "ask" /\ tries' = 1 /\ Write(<<Head(Rest(got))>>)

Again == reads + 1 = Reads

(* One frame read for the current id. *)
AskRead ==
    /\ pc = "ask" /\ up /\ frames # <<>>
    /\ frames' = Tail(frames)
    /\ LET f == Head(frames)
           id == Head(todo) IN
       \/ /\ Matches(f, id)
          /\ cache' = [cache EXCEPT ![id] = f.data] /\ GoOn(TRUE)
       \/ /\ ~Matches(f, id) /\ f.kind = "handshake"
          /\ GoOn(FALSE) /\ UNCHANGED cache
       \/ /\ ~Matches(f, id) /\ f.kind # "handshake" /\ ~Again
          /\ reads' = reads + 1 /\ UNCHANGED <<pc, todo, ds4, tries, asked, cache>>
       \/ /\ ~Matches(f, id) /\ f.kind # "handshake" /\ Again /\ tries < Tries
          /\ reads' = 0 /\ tries' = tries + 1 /\ Write(<<id>>)
          /\ UNCHANGED <<pc, todo, ds4, cache>>
       \/ /\ ~Matches(f, id) /\ f.kind # "handshake" /\ Again /\ tries = Tries
          /\ GoOn(FALSE) /\ UNCHANGED cache
    /\ UNCHANGED <<mode, pad, up, kernel>>

(* Two seconds without a frame, or a channel that was hung up: given up. *)
AskGivesUp ==
    /\ pc = "ask" /\ frames = <<>>
    /\ GoOn(FALSE)
    /\ UNCHANGED <<mode, pad, up, frames, cache, kernel>>

Opened ==
    /\ pc = "init"
    /\ IF ds4 THEN cache["info4"] # None \/ cache["calib"] # None ELSE up
    /\ pc' = "relay"
    /\ UNCHANGED <<mode, padVars, openVars, cache, kernel>>

NotOpened ==
    /\ pc = "init"
    /\ IF ds4 THEN cache["info4"] = None /\ cache["calib"] = None ELSE ~up
    /\ Closed

-----------------------------------------------------------------------------
(* relay_loop. The driver has one request outstanding.                         *)

DriverAsks ==
    /\ pc = "relay" /\ request = None
    /\ request' \in Requests /\ answer' = None
    /\ UNCHANGED <<mode, padVars, pc, openVars, cache>>

MutantPresented(d) ==
    IF UsbView THEN [d EXCEPT !.crc = "zero"]
    ELSE IF d.id = "serial" THEN [d EXCEPT !.mac = "virtual", !.crc = "bad"] ELSE d

(* What the driver is shown instead of a report of the pad's. *)
Presented(d) ==
    LET hidden == IF d.id # "serial" THEN d
                  ELSE [d EXCEPT !.mac = "virtual", !.crc =
                          CASE L2cap -> "kernel"
                            [] mode = "hidrawBt" -> "set"
                            [] OTHER -> "zero"]
    IN IF UsbView THEN [hidden EXCEPT !.crc = "zero"] ELSE hidden
Reply(d) == answer' = [id |-> request.id, data |-> Presented(d)] /\ request' = None
MutantAck(e) == answer' = [err |-> e] /\ request' = IF e = "EINVAL" THEN request ELSE None
Ack(e) == answer' = [err |-> e] /\ request' = None

GetCached ==
    /\ pc = "relay" /\ L2cap /\ request # None /\ request.op = "get"
    /\ cache[request.id] # None
    /\ Reply(cache[request.id])
    /\ UNCHANGED <<mode, padVars, pc, openVars, cache>>

GetMiss ==
    /\ pc = "relay" /\ L2cap /\ request # None /\ request.op = "get"
    /\ cache[request.id] = None
    /\ Write(<<request.id>>) /\ pc' = "fetch" /\ reads' = 0
    /\ UNCHANGED <<mode, pad, up, frames, todo, ds4, tries, cache, kernel>>

FetchRead ==
    /\ pc = "fetch" /\ request # None /\ up /\ frames # <<>>
    /\ frames' = Tail(frames)
    /\ LET f == Head(frames) IN
       \/ /\ Matches(f, request.id)
          /\ cache' = [cache EXCEPT ![request.id] = f.data]
          /\ Reply(f.data) /\ pc' = "relay" /\ reads' = 0
       \/ /\ ~Matches(f, request.id) /\ reads + 1 < Fetches
          /\ reads' = reads + 1 /\ UNCHANGED <<pc, cache, kernel>>
       \/ /\ ~Matches(f, request.id) /\ reads + 1 >= Fetches
          /\ Ack("EINVAL") /\ pc' = "relay" /\ reads' = 0 /\ UNCHANGED cache
    /\ UNCHANGED <<mode, pad, up, asked, todo, ds4, tries>>

FetchFails ==
    /\ pc = "fetch" /\ request # None /\ frames = <<>>
    /\ Ack("EINVAL") /\ pc' = "relay" /\ reads' = 0
    /\ UNCHANGED <<mode, padVars, todo, ds4, tries, cache>>

(* hidraw: an ioctl on the pad; an id the pad does not have is refused. *)
GetHidraw ==
    /\ pc = "relay" /\ ~L2cap /\ request # None /\ request.op = "get"
    /\ \/ up /\ request.id \in Supported[pad] /\ Reply(Report(request.id))
       \/ up /\ request.id \notin Supported[pad] /\ Ack("EINVAL")
       \/ ~up /\ Ack("EIO")
    /\ UNCHANGED <<mode, padVars, pc, openVars, cache>>

(* Over L2CAP the prefix and the body of a feature SET are a packet each, of    *)
(* which the pad makes nothing; over hidraw it is written as an output report. *)
(* An output report that the kernel sends as a SET goes to the sink's writer   *)
(* when there is one.                                                          *)
SetReport ==
    /\ pc = "relay" /\ request # None /\ request.op \in {"set", "state"}
    /\ \/ request.op = "state" /\ Bluetooth /\ Ack("none") /\ UNCHANGED asked
       \/ up /\ Ack("none") /\ IF L2cap THEN Write(<<"header", "body">>) ELSE UNCHANGED asked
       \/ ~up /\ Ack("EIO") /\ UNCHANGED asked
    /\ UNCHANGED <<mode, pad, up, frames, pc, openVars, cache>>

(* The control channel is drained; every report on it is cached. *)
MutantDrained(f) ==
    IF f.kind = "report" THEN [cache EXCEPT ![f.data.id] = f] ELSE cache
Drained(f) ==
    IF f.kind = "report" THEN [cache EXCEPT ![f.data.id] = f.data] ELSE cache

Drain ==
    /\ pc = "relay" /\ up /\ frames # <<>>
    /\ frames' = Tail(frames) /\ cache' = Drained(Head(frames))
    /\ UNCHANGED <<mode, pad, up, asked, pc, openVars, kernel>>

(* The pad is gone, or the holder is, or the proxy is told to stop. *)
SessionOver == pc = "relay" /\ Closed
PadGone == pc = "relay" /\ ~up /\ Closed

-----------------------------------------------------------------------------
Open == IntrAccept \/ AskRead \/ AskGivesUp \/ Opened \/ NotOpened
Serve == GetCached \/ GetMiss \/ FetchRead \/ FetchFails \/ GetHidraw \/ SetReport
Proxy == Open \/ Serve \/ Drain \/ PadGone
World == \/ PadAnswers \/ PadIgnores \/ PadTalks \/ PadHangsUp
         \/ Connect \/ IntrTimeout \/ DriverAsks \/ SessionOver

Next == Proxy \/ World

Spec == Init /\ [][Next]_vars

(* The proxy is one thread whose reads and polls have timeouts: it always gets *)
(* on, and a request in its socket is served before it returns to poll() for   *)
(* ever. A pad that accepted one channel opens the other or times out.         *)
FairSpec == Spec /\ WF_vars(Open \/ IntrTimeout) /\ WF_vars(Serve) /\ WF_vars(PadGone)

-----------------------------------------------------------------------------
(* Properties.                                                                 *)

(* A late or unasked report is never taken for another one: what is cached     *)
(* under an id is that report, and an answer carries the report that was       *)
(* asked for (get_feature, fetch_feature_once, the drain).                     *)
RightReport ==
    /\ \A id \in Ids : cache[id] # None => cache[id].id = id
    /\ "data" \in DOMAIN answer => answer.data.id = answer.id

(* Over L2CAP the driver gets reports it accepts, whichever way they came: the *)
(* virtual MAC, and the kernel's CRC or, presented as USB, none.               *)
DriverTakesIt ==
    L2cap /\ "data" \in DOMAIN answer =>
        /\ answer.data.mac = "virtual"
        /\ answer.data.crc = IF UsbView THEN "zero" ELSE "kernel"

(* Only a pad that has a serial report is taken for a DualSense: no phantom    *)
(* virtual pad for another model (l2cap.rs:411-415).                           *)
NoPhantom == L2cap /\ pc \in {"relay", "fetch"} /\ ~ds4 => pad = "ds5"

(* Every frame that is read and every silence brings the probe of a pad closer  *)
(* to its end (l2cap.rs:297-331, 411-427): fewer reports are left to ask for, or *)
(* for the same ones more tries, or in the same try more frames, are used up.   *)
(* That a pad without a serial number is probed anew as a DualShock 4 does not  *)
(* start it over for ever, nor do frames nobody asked for keep it busy.         *)
Left(q) == IF q = Probe THEN 1 + Len(Ds4Probe) ELSE Len(q)
Closer ==
    \/ Left(todo') < Left(todo)
    \/ /\ todo' = todo
       /\ tries' > tries \/ (tries' = tries /\ reads' > reads)
ProbeAdvances == [][AskRead \/ AskGivesUp => pc' # "ask" \/ Closer]_vars

(* The relay keeps the promise of FeatureServer (proxy.rs:1756-2006): a report   *)
(* that comes late, unasked, for the last request or when the session is over    *)
(* answers nothing, and no request is answered twice.                           *)
Server == INSTANCE FeatureServer WITH Reports <- Data
ServesDriver == Server!Spec

(* An accepted pad is opened or sent away, however much it talks and however   *)
(* little it answers.                                                          *)
OpenEnds == pc = "ask" ~> pc \in {"relay", "listen"}

(* Every request of the driver is answered, or the session ends. *)
Answered == request # None ~> request = None

(* A Bluetooth feature reply ends in the CRC the kernel expects                *)
(* (proxy.rs:2250-2252).                                                       *)
KernelCrc == "data" \in DOMAIN answer /\ mode \in {"l2cap", "hidrawBt"}
                => answer.data.crc = "kernel"
=============================================================================
