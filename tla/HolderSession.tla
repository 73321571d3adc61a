---------------------------- MODULE HolderSession ----------------------------
(***************************************************************************)
(* The holder (Holder) together with the proxies that drive it: the        *)
(* DualSense session of proxy::run and relay_loop, and the second, XInput  *)
(* session of XiRelay, from the point of view of their holder's socket.    *)
(*                                                                         *)
(* A session is one connection from connect() to its loss.  A proxy that   *)
(* dies, restarts or retries is a session that ends and another one that   *)
(* begins, on whichever connection is free; what the dead one had sent is  *)
(* still in the socket.                                                    *)
(***************************************************************************)
EXTENDS Holder

CONSTANTS
    NeutralShapes,  \* shapes a proxy has a neutral report for (not BT-native)
    Instance,       \* "ds": the default holder; "xi": the XInput holder
    MaxLive         \* sessions at once; 1 = what the proxy's pidfile intends

ASSUME SessionAssumption ==
    /\ NeutralShapes \subseteq Shapes
    /\ Instance \in {"ds", "xi"}
    /\ MaxLive \in Nat \ {0}
    /\ None \notin [shape : Shapes, added : BOOLEAN]
    /\ None \notin Values \cup Report

VARIABLES
    sess,   \* where each session is
    want    \* the create payload it announces

sessVars == <<sess, want>>
vars == <<holderVars, sessVars>>

SessTypeOK ==
    /\ sess \in [Conns -> {"off", "create", "wait", "neutral", "relay"}]
    /\ want \in [Conns -> Shapes \cup {None}]
    /\ \A c \in Conns : sess[c] # "off" => want[c] \in Shapes

TypeOK == HolderTypeOK /\ SessTypeOK

Init ==
    /\ HolderInit
    /\ sess = [c \in Conns |-> "off"]
    /\ want = [c \in Conns |-> None]

Alive == {c \in Conns : sess[c] # "off"}

-----------------------------------------------------------------------------

NoRoom(c) == Len(rx[c]) >= SockCap

\* A frame sent after the holder cut the connection is lost.
Send(c, f) ==
    /\ link[c] = "up" => ~NoRoom(c)
    /\ rx' = [rx EXCEPT ![c] = IF link[c] = "up" THEN Append(@, f) ELSE @]

Step(c, s) ==
    /\ sess' = [sess EXCEPT ![c] = s]
    /\ UNCHANGED <<loopVars, padVars, devVars, client, backlog, boundVars, want>>

\* The proxy's end goes away, whatever is on its way to it with it.  The
\* holder hears of it once it has read what the proxy sent.
Drop(c) ==
    /\ link' = [link EXCEPT ![c] = IF @ = "up" THEN "hup" ELSE "free"]
    /\ tx' = [tx EXCEPT ![c] = <<>>]
    /\ sess' = [sess EXCEPT ![c] = "off"]
    /\ want' = [want EXCEPT ![c] = None]
    /\ UNCHANGED <<loopVars, padVars, devVars, client, backlog, boundVars>>

\* ipc::connect_for, for the shape of the pad this proxy found.
Connect(c) ==
    /\ sess[c] = "off" /\ link[c] = "free" /\ pc # "down"
    /\ Cardinality(Alive) < MaxLive
    /\ \E s \in Shapes : want' = [want EXCEPT ![c] = s]
    /\ sess' = [sess EXCEPT ![c] = "create"]
    /\ link' = [link EXCEPT ![c] = "up"]
    /\ backlog' = Append(backlog, c)
    /\ UNCHANGED <<loopVars, padVars, devVars, client, rx, tx, boundVars>>

\* run() announces the shape and waits for the answer; XiRelay::raise goes
\* straight on to its neutral report.
SendCreate(c) ==
    /\ sess[c] = "create" /\ link[c] = "up"
    /\ Send(c, [tag |-> "CREATE", shape |-> want[c], val |-> None])
    /\ Step(c, IF Instance = "ds" THEN "wait" ELSE "neutral")
    /\ UNCHANGED <<link, tx>>

\* run(): an answer 0 or 1 goes on ...
RecvAck(c) ==
    /\ sess[c] = "wait" /\ tx[c] # <<>> /\ Head(tx[c]) \in {"created", "reused"}
    /\ tx' = [tx EXCEPT ![c] = Tail(@)]
    /\ Step(c, "neutral")
    /\ UNCHANGED <<link, rx>>

\* ... anything else, a frame that is no answer included, ends the session.
RecvOther(c) ==
    /\ sess[c] = "wait" /\ tx[c] # <<>> /\ Head(tx[c]) \notin {"created", "reused"}
    /\ Drop(c)
    /\ UNCHANGED rx

\* The neutral report of the transport; BT-native has none and clears.
NeutralOf(s) == [tag |-> "NEUTRAL", shape |-> s,
                 val |-> IF s \in NeutralShapes THEN "rest" ELSE None]

SendNeutral(c) ==
    /\ sess[c] = "neutral"
    /\ Send(c, NeutralOf(want[c]))
    /\ Step(c, "relay")
    /\ UNCHANGED <<link, tx>>

\* relay_loop sends an input report (XiRelay: the translated one, or its
\* neutral when the overlay pauses input).
SendInput(c) ==
    /\ sess[c] = "relay" /\ link[c] = "up"
    /\ \E v \in Values : Send(c, [tag |-> "INPUT", shape |-> want[c], val |-> v])
    /\ Step(c, "relay")
    /\ UNCHANGED <<link, tx>>

\* relay_loop reads one frame of the holder and answers a request.
RelayRecv(c) ==
    /\ sess[c] = "relay" /\ tx[c] # <<>>
    /\ tx' = [tx EXCEPT ![c] = Tail(@)]
    /\ IF Head(tx[c]) = "REQ"
         THEN Send(c, [tag |-> "REPLY", shape |-> None, val |-> None])
         ELSE UNCHANGED rx
    /\ Step(c, "relay")
    /\ UNCHANGED link

\* XiRelay::lower: destroy the pad and drop the link.
Lower(c) ==
    /\ Instance = "xi" /\ sess[c] = "relay"
    /\ Send(c, [tag |-> "DESTROY", shape |-> None, val |-> None])
    /\ Drop(c)

\* The holder cut the connection: the proxy finds out at its next send, or
\* once it has read what was left.
LinkLost(c) ==
    /\ sess[c] # "off" /\ link[c] = "cut" /\ (sess[c] = "create" \/ tx[c] = <<>>)
    /\ Drop(c)
    /\ UNCHANGED rx

\* The pad goes away, or the proxy exits, is killed or crashes.
Hangup(c) ==
    /\ sess[c] # "off"
    /\ Drop(c)
    /\ UNCHANGED rx

Session(c) ==
    \/ SendCreate(c) \/ RecvAck(c) \/ RecvOther(c) \/ SendNeutral(c)
    \/ RelayRecv(c) \/ LinkLost(c)

Next ==
    \/ HolderNext /\ UNCHANGED sessVars
    \/ \E c \in Conns :
          Connect(c) \/ Session(c) \/ SendInput(c) \/ Lower(c) \/ Hangup(c)

Spec == Init /\ [][Next]_vars

\* The loop, the kernel's worker and every proxy keep going; nobody has to
\* press a button, to hang up, to fail or to write an output.  A proxy whose
\* session ended tries again after a second (proxy.rs:755-822), and systemd or
\* the next connect brings a dead holder back.
Fairness ==
    /\ WF_vars(HolderLoop /\ UNCHANGED sessVars)
    /\ WF_vars(DevAdd /\ UNCHANGED sessVars)
    /\ WF_vars(HolderStart /\ UNCHANGED sessVars)
    /\ WF_vars(\E c \in Conns : Connect(c))
    /\ \A c \in Conns : WF_vars(Session(c))

FairSpec == Spec /\ Fairness

-----------------------------------------------------------------------------
(* Safety                                                                  *)

\* A pad that is there has its own payload as the key (holder.rs:36, 57-61):
\* a proxy that comes back with the same shape is never made to re-enumerate,
\* whatever happened to the sessions, the fds and the events in between.
LiveMeansKey == Live => key = devShape

\* `started' never speaks of an earlier device (holder.rs:39, 65, 106): no
\* START or input is carried over from a destroyed pad to the one that
\* replaced it, so that inputs are held back until the new one was added.
StartedMeansAdded == started => devPhase \in {"running", "dead"}

\* What the daemon remembers of the device is the device's, although one poll()
\* answers for an fd that a frame replaces before the answer is used.
KnowsDevice == LiveMeansKey /\ StartedMeansAdded

Pressed == devPhase = "running" /\ devInput # None /\ devInput.val = "held"

\* A pressed report the kernel applied was made for the transport the pad
\* presents (holder.rs:122-128): frames a dead proxy left in its socket are
\* not applied to the pad of the next one, and a refused proxy's never.
HeldInputMatchesPad == Pressed => devInput.shape = devShape

\* With no proxy served, a pad whose transport has a neutral report has
\* nothing pressed (holder.rs:12-14, 204-213), whenever its proxy died, in
\* whatever order the pads changed.
ParkedWithoutProxy == client = None /\ devShape \in NeutralShapes => ~Pressed

NeutralFor(s) == IF s \in NeutralShapes THEN [shape |-> s, val |-> "rest"] ELSE None

\* Once the holder has read what a relaying proxy sent, the report it will park
\* the pad with is the one of this proxy's pad (holder.rs:130-137,
\* proxy.rs:824), and none if its transport has none: neither the report of an
\* earlier pad, which CREATE leaves where it is, nor that of a dead proxy whose
\* frames were still to be served.
StoredNeutralFits ==
    \A c \in Conns : client = c /\ sess[c] = "relay" /\ rx[c] = <<>> /\ Live
                       => neutral = NeutralFor(devShape)

SaysReused == \E c \in Conns : /\ Len(tx'[c]) > Len(tx[c])
                              /\ tx'[c][Len(tx'[c])] = "reused"

\* A proxy that is told its pad is reused has a live pad (holder.rs:57-61), when
\* the kernel neither refuses nor gives up a device: the key goes with the pad
\* on every way the pad can go, TAG_DESTROY, a restart and a change of shape.
ReusedIsLive == [][SaysReused => Live]_vars

-----------------------------------------------------------------------------
(* The promise of the daemon                                               *)

Promise == INSTANCE VirtualPad WITH
    up    <- pc # "down",
    pad   <- IF Live THEN [shape |-> devShape, added |-> devPhase = "running"] ELSE None,
    owner <- client

\* The daemon keeps the promise of VirtualPad (holder.rs:3-10): no proxy that
\* connects, is refused, dies or is replaced destroys or re-creates the pad.
KeepsPromise == Promise!Spec

-----------------------------------------------------------------------------
(* What the comments say and the code does not do (violation runs)         *)

\* "the kernel's input state can't freeze at last-pressed values" on proxy
\* disconnect (holder.rs:12-14), "even across proxy restarts"
\* (proxy.rs:2125-2128): no exception for the transport.
NeverFrozen == client = None => ~Pressed

\* The stored report is the "neutral report for this transport (empty payload
\* clears)" (proxy.rs:824): what the holder relays when the proxy is gone was
\* made for the pad it is relayed to.
NeutralMatchesPad ==
    client = None /\ started /\ devPhase = "running" /\ neutral # None
        => neutral.shape = devShape

\* STOP resets the key "so the next CREATE rebuilds instead of answering
\* "reused" into a corpse" (holder.rs:170-172): when a proxy is told its pad is
\* reused, the pad is live, or at least its STOP is on its way.
NoReuseOfCorpse ==
    [][SaysReused => Live \/ \E i \in 1..Len(devEvents) : devEvents[i] = "STOP"]_vars

-----------------------------------------------------------------------------
(* Liveness                                                                *)

\* What a dead proxy left pressed is let go of (holder.rs:12-14): the holder
\* gets to the end of its connection even when new ones keep arriving.
DeadHandLetsGo ==
    \A c \in Conns :
        (client = c /\ link[c] = "hup" /\ devShape \in NeutralShapes /\ Pressed) ~> ~Pressed

\* A proxy that keeps retrying is served for good (proxy.rs:750-823), once
\* proxies stop dying and the game stays quiet: a connection refused while
\* its predecessor's end was still unread, a failed CREATE and a restarted
\* holder only cost it a retry.  (A hangup after the holder's cut or refusal
\* is such a retry.)
Quiet ==
    /\ ~DevTalk
    /\ \A c \in Conns : ~Lower(c) /\ (Hangup(c) => RecvOther(c) \/ LinkLost(c))

EventuallyServed == <>[][Quiet]_vars => <>[](\E c \in Conns : sess[c] = "relay")
=============================================================================
