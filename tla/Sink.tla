--------------------------------- MODULE Sink ---------------------------------
(* The persistent audio sink of a proxy that serves pads over L2CAP (sink.rs,  *)
(* with the sessions of proxy.rs that start, attach, detach and stop it).      *)
(* Three threads: main (sessions of one pad after the other), the writer, the  *)
(* one sender on the pad's interrupt channel, and the PipeWire capture thread. *)
(* The game's output reports are numbered in the order they are written; the   *)
(* motors they ask for alternate. Memory is sequentially consistent.           *)
EXTENDS Integers, Sequences

CONSTANTS
    MaxSessions,  \* L2CAP sessions of the proxy's run
    MaxOut,       \* output reports the game writes
    QueueCap,     \* OUT_Q_CAP (16)
    SeqMod,       \* values of the sequence number (16)
    Quiet,        \* silent windows until the writer goes idle (30)
    MaxFlips      \* times the headset is plugged or unplugged

ASSUME SinkAssumption ==
    /\ {MaxSessions, MaxOut, QueueCap, SeqMod, Quiet} \subseteq Nat \ {0}
    /\ MaxFlips \in Nat /\ SeqMod > 1

Links == 1..MaxSessions      \* the link of each L2CAP session
Versions == 0..MaxOut        \* 0: the state the writer starts with
Motors(v) == v % 2
Nothing == -1                \* last_state47 = [0; 47]

VARIABLES
    (* main *)
    main, kind,        \* program counter, kind of the session or "exit"
    handle,            \* audio_sink: "none", "owner" or "stub"
    session,           \* L2CAP sessions so far; the link of the last one
    (* the Shared of the sink and the statics that lead to it *)
    relay,             \* OUT_RELAY, MODE_RELAY and SINK_STOP hold it
    stop,              \* the stop flag
    intr, gen,         \* Shared.intr (0: None), Shared.gen
    queue,             \* Shared.out_q
    jack,              \* JACK_PLUGGED
    (* capture thread *)
    capture, quitPtr, quit,
    (* writer thread *)
    writer,            \* program counter
    seen, curGen, link,
    seq, engaged, primed, silent,
    wanted, mirror,    \* version in state63, motors in last_state47
    (* the world *)
    alive, pad,        \* links the pad keeps open, what each has come to
    out, flips

mainVars == <<main, kind, handle, session>>
shared == <<relay, stop, intr, gen, queue>>
captureVars == <<capture, quitPtr, quit>>
stream == <<engaged, primed, silent, mirror>>
writerVars == <<writer, seen, curGen, link, seq, stream, wanted>>
world == <<jack, alive, pad, out, flips>>
vars == <<mainVars, shared, captureVars, writerVars, world>>

(* got: numbered reports written to the link; next: the number after the last  *)
(* one's; state, path: what the pad has made of those that reached it whole.   *)
Pads == [got: 0..(SeqMod - 1), next: 0..(SeqMod - 1), state: Versions, path: BOOLEAN]
Blank == [got |-> 0, next |-> 0, state |-> 0, path |-> FALSE]

TypeOK ==
    /\ main \in {"idle", "attach", "bump", "session", "stop", "join", "exited"}
    /\ kind \in {"l2cap", "other", "exit"} /\ handle \in {"none", "owner", "stub"}
    /\ session \in 0..MaxSessions
    /\ relay \in BOOLEAN /\ stop \in BOOLEAN /\ intr \in 0..MaxSessions
    /\ gen \in 0..MaxSessions /\ queue \in Seq(Versions) /\ Len(queue) <= QueueCap
    /\ capture \in {"start", "publish", "check", "run", "off"}
    /\ quitPtr \in BOOLEAN /\ quit \in BOOLEAN
    /\ writer \in {"wait", "fd", "hello", "top", "keep", "flush", "off"}
    /\ seen \in 0..MaxSessions /\ curGen \in 0..MaxSessions /\ link \in 0..MaxSessions
    /\ seq \in 0..(SeqMod - 1) /\ engaged \in {"none", "jack", "speaker"}
    /\ primed \in BOOLEAN /\ silent \in 0..(Quiet - 1)
    /\ wanted \in Versions /\ mirror \in {Nothing, 0, 1}
    /\ jack \in BOOLEAN /\ alive \subseteq Links /\ pad \in [Links -> Pads]
    /\ out \in Versions /\ flips \in 0..MaxFlips

Init ==
    /\ main = "idle" /\ kind = "other" /\ handle = "none" /\ session = 0
    /\ relay = FALSE /\ stop = FALSE /\ intr = 0 /\ gen = 0 /\ queue = <<>>
    /\ capture = "off" /\ quitPtr = FALSE /\ quit = FALSE
    /\ writer = "off" /\ seen = 0 /\ curGen = 0 /\ link = 0 /\ seq = 0
    /\ engaged = "none" /\ primed = FALSE /\ silent = 0
    /\ wanted = 0 /\ mirror = Nothing
    /\ jack = FALSE /\ alive = {} /\ pad = [l \in Links |-> Blank]
    /\ out = 0 /\ flips = 0

-----------------------------------------------------------------------------
(* Main thread (proxy::run).                                                   *)

(* spawn_sink(cfg, None, ...): fresh Shared, fresh threads. *)
Spawn ==
    /\ handle' = "owner" /\ relay' = TRUE /\ stop' = FALSE
    /\ gen' = 0 /\ intr' = 0 /\ queue' = <<>>
    /\ capture' = "start" /\ quitPtr' = FALSE /\ quit' = FALSE
    /\ writer' = "wait" /\ curGen' = 0 /\ seen' = 0 /\ link' = 0 /\ seq' = 0
    /\ engaged' = "none" /\ primed' = FALSE /\ silent' = 0
    /\ wanted' = 0 /\ mirror' = Nothing

(* A DualSense over L2CAP: ensure_started, then attach_pad. *)
StartL2cap ==
    /\ main = "idle" /\ session < MaxSessions
    /\ main' = "attach" /\ kind' = "l2cap" /\ session' = session + 1
    /\ alive' = alive \cup {session + 1}
    /\ IF relay THEN handle' = "stub" /\ UNCHANGED <<shared, captureVars, writerVars>>
                ELSE Spawn
    /\ UNCHANGED <<jack, pad, out, flips>>

AttachFd ==
    /\ main = "attach" /\ main' = "bump" /\ intr' = session
    /\ UNCHANGED <<kind, handle, session, relay, stop, gen, queue, captureVars, writerVars, world>>

MutantBumped == gen
Bumped == gen + 1

AttachGen ==
    /\ main = "bump" /\ main' = "session" /\ gen' = Bumped
    /\ UNCHANGED <<kind, handle, session, relay, stop, intr, queue, captureVars, writerVars, world>>

(* A cabled pad or a DualShock 4: a sink this handle owns is stopped. *)
StartOther ==
    /\ main = "idle" /\ kind' = "other"
    /\ IF handle = "owner" THEN main' = "stop" /\ UNCHANGED handle
                           ELSE main' = "session" /\ handle' = "none"
    /\ UNCHANGED <<session, shared, captureVars, writerVars, world>>

Detached == intr' = IF kind = "l2cap" THEN 0 ELSE intr

(* The pad or the holder is gone: main drops its end of the link. *)
EndSession ==
    /\ main = "session" /\ main' = "idle" /\ Detached
    /\ UNCHANGED <<kind, handle, session, relay, stop, gen, queue, captureVars, writerVars, world>>

(* The end of the process ends every thread. *)
Gone ==
    /\ main' = "exited" /\ capture' = "off" /\ writer' = "off"
    /\ UNCHANGED <<handle, seen, curGen, link, seq, stream, wanted, quitPtr, quit>>

(* EXIT: seen by relay_loop only the handle is stopped; between sessions       *)
(* proxy_exit calls stop_all first.                                            *)
Exit ==
    /\ main \in {"session", "idle"} /\ kind' = "exit" /\ Detached
    /\ IF main = "idle" THEN relay' = FALSE /\ stop' = (stop \/ relay)
                        ELSE UNCHANGED <<relay, stop>>
    /\ IF handle = "owner" THEN main' = "stop" /\ UNCHANGED <<handle, captureVars, writerVars>>
                           ELSE Gone
    /\ UNCHANGED <<session, gen, queue, world>>

(* Sink::stop *)
RaiseStop ==
    /\ main = "stop" /\ main' = "join"
    /\ stop' = TRUE /\ relay' = FALSE /\ quit' = (quit \/ quitPtr)
    /\ UNCHANGED <<kind, handle, session, intr, gen, queue, capture, quitPtr, writerVars, world>>

MutantJoined == TRUE
Joined == capture = "off" /\ writer = "off"

Join ==
    /\ main = "join" /\ Joined
    /\ handle' = "none" /\ main' = IF kind = "exit" THEN "exited" ELSE "session"
    /\ UNCHANGED <<kind, session, shared, captureVars, writerVars, world>>

(* enqueue_output, and rumble() for the XInput pad whatever the session. *)
MutantEnqueued(v) == Append(queue, v)
MutantKeepOld(v) == IF Len(queue) >= QueueCap THEN queue ELSE Append(queue, v)
Enqueued(v) == Append(IF Len(queue) >= QueueCap THEN Tail(queue) ELSE queue, v)

Output ==
    /\ main = "session" /\ relay /\ out < MaxOut
    /\ out' = out + 1 /\ queue' = Enqueued(out + 1)
    /\ UNCHANGED <<mainVars, relay, stop, intr, gen, captureVars, writerVars, jack, alive, pad, flips>>

JackFlips ==
    /\ main = "session" /\ flips < MaxFlips
    /\ flips' = flips + 1 /\ jack' = ~jack
    /\ UNCHANGED <<mainVars, shared, captureVars, writerVars, alive, pad, out>>

Served(l) == main \in {"attach", "bump", "session"} /\ kind = "l2cap" /\ session = l
Linked == session \in alive /\ Served(session)

(* The pad drops a link; one whose control channel main closed, for certain. *)
PadDrops(l) ==
    /\ l \in alive /\ alive' = alive \ {l} /\ pad' = [pad EXCEPT ![l] = Blank]
    /\ UNCHANGED <<mainVars, shared, captureVars, writerVars, jack, out, flips>>

-----------------------------------------------------------------------------
(* Capture thread (pw_thread).                                                 *)

MutantCaptureAfter == [start |-> "check", check |-> "publish", publish |-> "run"]
CaptureAfter == [start |-> "publish", publish |-> "check", check |-> "run"]

CaptureStep ==
    /\ capture \in {"start", "publish", "check"}
    /\ capture' = CaptureAfter[capture]
    /\ quitPtr' = (quitPtr \/ capture = "publish")
    /\ quit' = (quit \/ (capture = "check" /\ stop))
    /\ UNCHANGED <<mainVars, shared, writerVars, world>>

CaptureFails ==
    /\ capture = "start" /\ capture' = "off"
    /\ UNCHANGED <<quitPtr, quit, mainVars, shared, writerVars, world>>

CaptureQuits ==
    /\ capture = "run" /\ quit /\ capture' = "off"
    /\ UNCHANGED <<quitPtr, quit, mainVars, shared, writerVars, world>>

-----------------------------------------------------------------------------
(* Writer thread (writer_thread).                                              *)

WorldElse == <<mainVars, shared, captureVars, jack, alive, out, flips>>
PadElse == <<WorldElse, seen, curGen, link>>

PathOf(j) == IF j THEN "jack" ELSE "speaker"

(* n reports with the shared sequence number are written and leave the pad in  *)
(* state v with path j.                                                        *)
MutantAdvance(n) == IF writer = "keep" THEN seq ELSE (seq + n) % SeqMod
Advance(n) == (seq + n) % SeqMod

Send(n, v, j) ==
    /\ link \in alive /\ seq' = Advance(n)
    /\ pad' = [pad EXCEPT ![link] = [got |-> (@.got + n) % SeqMod, next |-> (seq + n) % SeqMod,
                                     state |-> v, path |-> j]]
State == pad[link].state
Path == pad[link].path

(* The HIDP prefix and the report in two writes: on a SEQPACKET socket a packet *)
(* each, and the pad makes nothing of either.                                  *)
SendSplit == Send(1, State, Path)

(* What belongs to a link starts afresh on the next one. *)
Reset ==
    /\ seq' = 0 /\ engaged' = "none" /\ primed' = FALSE /\ silent' = 0 /\ mirror' = Nothing

(* A write to a link the pad dropped fails: on to the next link. *)
Lost == link \notin alive /\ writer' = "wait" /\ Reset /\ UNCHANGED pad

(* The 'pads loop: stop flag and generation first, then the fd. At the end the *)
(* writer takes OUT_RELAY with it.                                             *)
ReadGen ==
    /\ writer = "wait"
    /\ IF stop THEN writer' = "off" /\ relay' = FALSE /\ UNCHANGED seen
               ELSE writer' = "fd" /\ seen' = gen /\ UNCHANGED relay
    /\ UNCHANGED <<mainVars, stop, intr, gen, queue, captureVars, curGen, link, seq, stream,
                   wanted, world>>

TakeFd ==
    /\ writer = "fd" /\ seen' = 0
    /\ IF intr # 0 /\ seen # curGen
       THEN writer' = "hello" /\ curGen' = seen /\ link' = intr /\ Reset
       ELSE writer' = "wait" /\ UNCHANGED <<curGen, link, seq, stream>>
    /\ UNCHANGED <<mainVars, shared, captureVars, wanted, world>>

(* The handshake: a mic-state 0x31 with the jack's path, split (and a 0x32 with *)
(* a number of its own).                                                       *)
Hello ==
    /\ writer = "hello"
    /\ \/ SendSplit /\ writer' = "top" /\ UNCHANGED stream
       \/ Lost
    /\ UNCHANGED <<PadElse, wanted>>

Stopping ==
    /\ writer = "top" /\ stop /\ writer' = "wait" /\ Reset
    /\ UNCHANGED <<PadElse, pad, wanted>>

MutantMustEngage == engaged = "none"
MustEngage == engaged # PathOf(jack)

(* A mic-state 0x31, split, answers every edge of the jack. *)
Engage ==
    /\ writer = "top" /\ ~stop
    /\ \/ /\ MustEngage /\ SendSplit
          /\ engaged' = PathOf(jack) /\ writer' = "keep"
          /\ UNCHANGED <<primed, silent, mirror>>
       \/ MustEngage /\ Lost
       \/ ~MustEngage /\ writer' = "keep" /\ UNCHANGED <<seq, pad, stream>>
    /\ UNCHANGED <<PadElse, wanted>>

(* Two idle seconds since the last one: a report that applies nothing, split. *)
KeepAlive ==
    /\ writer = "keep" /\ ~primed
    /\ \/ SendSplit /\ writer' = "flush" /\ UNCHANGED stream
       \/ Lost
    /\ UNCHANGED <<PadElse, wanted>>

NoKeepAlive ==
    /\ writer = "keep" /\ writer' = "flush"
    /\ UNCHANGED <<PadElse, seq, pad, stream, wanted>>

MutantAbsorbed(v) == Motors(v)
Absorbed(v) == mirror

Taken == Head(queue)
MutantTracked == IF primed THEN Taken ELSE wanted
Tracked == Taken

(* The path of this turn of the loop. *)
MutantRoute == IF primed THEN Path ELSE engaged = "jack"
Route == engaged = "jack"

(* flush_kernel_outputs: into the tracked state while streaming, to the pad if *)
(* it changes anything while idle. There the game's own flags decide whether   *)
(* the path it is given applies.                                               *)
Flush ==
    /\ writer = "flush" /\ queue # <<>>
    /\ queue' = Tail(queue) /\ wanted' = Tracked
    /\ \/ /\ primed /\ mirror' = Absorbed(Taken)
          /\ UNCHANGED <<writer, seq, pad, engaged, primed, silent>>
       \/ /\ ~primed /\ Motors(Taken) # mirror
          /\ \E path \in {Path, Route} : Send(1, Taken, path)
          /\ mirror' = Motors(Taken) /\ UNCHANGED <<writer, engaged, primed, silent>>
       \/ ~primed /\ Motors(Taken) # mirror /\ Lost
       \/ ~primed /\ Motors(Taken) = mirror /\ UNCHANGED <<writer, seq, pad, stream>>
    /\ UNCHANGED <<mainVars, relay, stop, intr, gen, captureVars, jack, alive, out, flips,
                   seen, curGen, link>>

Flushed == writer = "flush" /\ queue = <<>>

(* Nothing or silence in the ring: idle stays idle, a stream goes idle after   *)
(* Quiet such windows.                                                         *)
QuietWindow ==
    /\ Flushed /\ writer' = "top"
    /\ IF primed /\ silent + 1 < Quiet THEN silent' = silent + 1 /\ UNCHANGED primed
                                       ELSE silent' = 0 /\ primed' = FALSE
    /\ UNCHANGED <<PadElse, seq, pad, engaged, mirror, wanted>>

(* Audio: a 0x36 in one write carries the tracked state and the path; an idle  *)
(* writer primes with a second handshake, split like the first, before it.     *)
LoudWindow ==
    /\ Flushed /\ capture = "run"
    /\ \/ /\ Send(IF primed THEN 1 ELSE 2, wanted, Route)
          /\ mirror' = Motors(wanted) /\ primed' = TRUE /\ silent' = 0
          /\ writer' = "top" /\ UNCHANGED engaged
       \/ Lost
    /\ UNCHANGED <<PadElse, wanted>>

-----------------------------------------------------------------------------
MainStep == AttachFd \/ AttachGen \/ RaiseStop \/ Join
Capture == CaptureStep \/ CaptureQuits
Writer == \/ ReadGen \/ TakeFd \/ Hello \/ Stopping \/ Engage \/ KeepAlive \/ NoKeepAlive
          \/ Flush \/ QuietWindow \/ LoudWindow
World == \/ StartL2cap \/ StartOther \/ EndSession \/ Exit \/ Output \/ JackFlips
         \/ CaptureFails \/ \E l \in Links : PadDrops(l)

Next == MainStep \/ Capture \/ Writer \/ World

Spec == Init /\ [][Next]_vars

(* Every thread gets on. An idle writer's two seconds pass again and again. A  *)
(* pad drops a link whose control channel was closed (l2cap.rs:305-310).       *)
FairSpec ==
    /\ Spec
    /\ WF_vars(MainStep) /\ WF_vars(Capture) /\ WF_vars(Writer) /\ SF_vars(KeepAlive)
    /\ WF_vars(\E l \in Links : ~Served(l) /\ PadDrops(l))

-----------------------------------------------------------------------------
(* Properties.                                                                 *)

(* Whatever the writer sends on a link, by any branch of the loop, before and  *)
(* after re-attaching, whole or split: it is numbered one after the other      *)
(* from 0.                                                                     *)
SeqUnified == \A l \in Links : pad[l].next = pad[l].got

(* What the change detection believes of the pad is what the pad has got. *)
MirrorTruthful == mirror # Nothing /\ link \in alive => Motors(pad[link].state) = mirror

(* The last output the game wrote to this sink is never the one that gives way *)
(* (sink.rs:526-531): it is at the end of the queue, or the writer's tracked     *)
(* state when the queue is empty, through full queues, streams and changes of   *)
(* the link.                                                                   *)
Newest == IF queue = <<>> THEN wanted ELSE queue[Len(queue)]
NewestKept == Newest \in {0, out}

(* The pad never gets an older output after a newer one on a link. *)
InOrder == [][\A l \in alive' : pad'[l].state >= pad[l].state]_vars

(* A sink is spawned only when nothing of the former one runs: one sender. *)
OneWriter == [][relay' /\ ~relay => writer = "off" /\ capture = "off"]_vars

(* A capture loop that Sink::stop waits for has been told to quit              *)
(* (sink.rs:601-610, 1012-1016): by stop if its handle was published by then, by  *)
(* the look at the flag that follows the publication if not.                   *)
StopHeard == main = "join" /\ capture = "run" => quit

(* The writer never believes that it serves the current link when it does not  *)
(* (attach_pad, sink.rs:480-495, against the loop of sink.rs:1588-1610): while   *)
(* it sits on another link the generation it knows is not the current one.     *)
AttachSeen ==
    main = "session" /\ kind = "l2cap" /\ link # session => curGen # gen

(* Sink::stop comes back, whenever it is called. *)
StopReturns == main = "stop" ~> main \in {"session", "exited"}

(* A session's link is served, although the writer may still sit on a former   *)
(* one, or read the generation before an attach and the fd after it, and        *)
(* although JACK_PLUGGED outlives the session it was set in; and the path of a  *)
(* stream follows the jack.                                                    *)
ServedByJack == link = session /\ (primed => pad[session].path = jack)
LinkFollowsJack == Linked /\ ~ServedByJack ~> ~Linked \/ ServedByJack

(* "Jack engage: answer every plug/unplug edge with a mic-state 0x31 carrying   *)
(* the new path (works while idle too ...)" (sink.rs:1673-1675): a pad that is   *)
(* served has the jack's path in the end.                                      *)
JackAnswered ==
    Linked /\ link = session /\ pad[session].path # jack
        ~> ~Linked \/ pad[session].path = jack

(* "So rumble never waits on the audio cadence" (sink.rs:1274): what the game *)
(* wrote last during a stream reaches the pad, while the session lasts.        *)
EffectArrives ==
    Linked /\ link = session /\ primed /\ wanted = MaxOut
        ~> ~Linked \/ pad[session].state = MaxOut
=============================================================================
