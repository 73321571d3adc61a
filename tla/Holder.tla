------------------------------- MODULE Holder -------------------------------
(***************************************************************************)
(* The virtual-pad holder daemon (crates/linux/src/holder.rs): one poll    *)
(* loop that owns the /dev/uhid fd, serves at most one proxy over a unix   *)
(* socket, and keeps the virtual pad alive across proxy exits.             *)
(*                                                                         *)
(* One pass of the loop is modelled stage by stage, because poll() is      *)
(* asked once and its answer is used three times: accept the listener,     *)
(* serve one client frame, read one uhid event.  Whatever the first stages *)
(* change, the later ones still act on the old answer.                     *)
(*                                                                         *)
(* The kernel's uhid device behind the held fd is modelled from what the   *)
(* holder sees of it (START, STOP, OUTPUT, requests, a bounded event ring);*)
(* the sessions on the other end of the socket are in HolderSession.       *)
(***************************************************************************)
EXTENDS Naturals, Sequences, FiniteSets

CONSTANTS
    Conns,        \* connections the holder's socket can carry at once
    Shapes,       \* create payloads (bus, ids, uniq, descriptor) in use
    None,         \* an unset Option
    SockCap,      \* bound: frames in flight in one direction of a connection
    EvCap,        \* size of the kernel's event ring behind the fd
    MaxRefused,   \* bound: CREATEs the kernel refuses in one behaviour
    MaxDied,      \* bound: devices whose probe fails in one behaviour
    MaxRestarts   \* bound: exits and crashes of the daemon in one behaviour

ASSUME HolderAssumption ==
    /\ None \notin Conns /\ None \notin Shapes
    /\ {SockCap, EvCap} \subseteq Nat \ {0}
    /\ {MaxRefused, MaxDied, MaxRestarts} \subseteq Nat

VARIABLES
    pc,         \* stage of the loop: "poll", "accept", "serve", "event"; "down"
    ready,      \* the fds poll() reported readable in this pass
    client,     \* the connection being served, or None
    backlog,    \* connections waiting in the listener's queue
    key,        \* Holder.key: create payload of the current pad, or None
    neutral,    \* Holder.neutral: report relayed on disconnect, or None
    started,    \* Holder.started
    devPhase,   \* the fd: "closed"; its device: "created", "running", "dead"
    devShape,   \* create payload the device was made from
    devInput,   \* last input report the kernel applied, None when fresh
    devEvents,  \* unread events of the fd
    link,       \* per connection: "free", "up", "hup" (proxy gone), "cut"
    rx,         \* per connection: frames proxy -> holder
    tx,         \* per connection: frames holder -> proxy
    refused, died, restarts  \* how many of them there were

loopVars == <<pc, ready>>
padVars  == <<key, neutral, started>>
devVars  == <<devPhase, devShape, devInput, devEvents>>
sockVars == <<client, backlog, link, rx, tx>>
boundVars == <<refused, died, restarts>>
holderVars == <<loopVars, padVars, devVars, sockVars, boundVars>>

Stages == {"poll", "accept", "serve", "event", "down"}
Fds    == {"listener", "client", "uhid"}
Values == {"rest", "held"}           \* nothing touched / something pressed
Report == [shape : Shapes, val : Values]
Frame  ==                            \* what a tag carries, None where nothing
    [tag : {"CREATE"}, shape : Shapes, val : {None}]
        \cup [tag : {"INPUT"}, shape : Shapes, val : Values]
        \cup [tag : {"NEUTRAL"}, shape : Shapes, val : Values \cup {None}]
        \cup [tag : {"DESTROY", "REPLY"}, shape : {None}, val : {None}]
Answer == {"created", "reused", "failed", "OUTPUT", "REQ", "NOTICE"}
Event  == {"START", "STOP", "OUTPUT", "REQ"}

(***************************************************************************)
(* Type invariant of the daemon, its device and its sockets.               *)
(***************************************************************************)
HolderTypeOK ==
    /\ pc \in Stages /\ ready \subseteq Fds
    /\ client \in Conns \cup {None} /\ backlog \in Seq(Conns)
    /\ key \in Shapes \cup {None}
    /\ neutral \in Report \cup {None}
    /\ started \in BOOLEAN
    /\ devPhase \in {"closed", "created", "running", "dead"}
    /\ devShape \in Shapes \cup {None}
    /\ devInput \in Report \cup {None}
    /\ devEvents \in Seq(Event)
    /\ link \in [Conns -> {"free", "up", "hup", "cut"}]
    /\ rx \in [Conns -> Seq(Frame)]
    /\ tx \in [Conns -> Seq(Answer)]
    /\ refused \in Nat /\ died \in Nat /\ restarts \in Nat

HolderInit ==
    /\ pc = "poll" /\ ready = {}
    /\ client = None /\ backlog = <<>>
    /\ key = None /\ neutral = None /\ started = FALSE
    /\ devPhase = "closed" /\ devShape = None
    /\ devInput = None /\ devEvents = <<>>
    /\ link = [c \in Conns |-> "free"]
    /\ rx = [c \in Conns |-> <<>>]
    /\ tx = [c \in Conns |-> <<>>]
    /\ refused = 0 /\ died = 0 /\ restarts = 0

-----------------------------------------------------------------------------
(* The kernel's device behind the held fd.                                 *)

Live == devPhase \in {"created", "running"}

\* The event ring drops what does not fit.
Post(q, e) == IF Len(q) < EvCap THEN Append(q, e) ELSE q

\* UHID_DESTROY: a device that was added is stopped, and says so on the fd;
\* one the kernel had not added yet goes without a word.
KernelDestroy ==
    /\ devPhase' = "dead"
    /\ devEvents' = IF devPhase = "running" THEN Post(devEvents, "STOP") ELSE devEvents
    /\ UNCHANGED <<devShape, devInput>>

\* UHID_INPUT2 reaches a device that was added and is refused by any other.
KernelInput(r) ==
    /\ devInput' = IF devPhase = "running" THEN r ELSE devInput
    /\ UNCHANGED <<devPhase, devShape, devEvents>>

\* The kernel's worker adds the device some time after UHID_CREATE2.
DevAdd ==
    /\ devPhase = "created"
    /\ devPhase' = "running"
    /\ devEvents' = Post(devEvents, "START")
    /\ UNCHANGED <<devShape, devInput, loopVars, padVars, sockVars, boundVars>>

\* The driver's probe fails: the kernel stops the device.
DevProbeFail ==
    /\ devPhase = "running" /\ died < MaxDied
    /\ died' = died + 1
    /\ KernelDestroy
    /\ UNCHANGED <<loopVars, padVars, sockVars, refused, restarts>>

\* A game or the driver writes an output report or asks for a feature report.
DevTalk ==
    /\ devPhase = "running" /\ Len(devEvents) < EvCap
    /\ \E e \in {"OUTPUT", "REQ"} : devEvents' = Append(devEvents, e)
    /\ UNCHANGED <<devPhase, devShape, devInput, loopVars, padVars, sockVars, boundVars>>

-----------------------------------------------------------------------------
(* poll() and accept()                                                     *)

\* POLLHUP; mutant: the loop asks for POLLIN only.
MutantEnded(c) == FALSE
Ended(c) == link[c] = "hup"

Readable ==
    {f \in Fds :
        \/ f = "listener" /\ backlog # <<>>
        \/ f = "client" /\ client # None /\ (rx[client] # <<>> \/ Ended(client))
        \/ f = "uhid" /\ devPhase # "closed" /\ devEvents # <<>>}

\* The pass goes on to the first stage in order with an fd of R to look at;
\* a new pass starts with a new array of pollfds.
PassOn(R) ==
    /\ pc' = IF "listener" \in R THEN "accept"
             ELSE IF "client" \in R THEN "serve"
             ELSE IF "uhid" \in R THEN "event" ELSE "poll"
    /\ ready' = R

Poll ==
    /\ pc = "poll" /\ Readable # {}
    /\ PassOn(Readable)
    /\ UNCHANGED <<padVars, devVars, sockVars, boundVars>>

\* A send to a connection whose proxy end is gone fails and is ignored; to
\* one that is up it waits for room.
CanSend(c) == link[c] = "up" => Len(tx[c]) < SockCap
Sent(c, m) == [tx EXCEPT ![c] = IF link[c] = "up" THEN Append(@, m) ELSE @]

\* The holder closes its end: what the proxy sent is gone, and a proxy that is
\* still there finds the connection cut.
Closed(c) == [link EXCEPT ![c] = IF @ = "up" THEN "cut" ELSE "free"]

\* An idle holder takes the first connection of the queue ...
Admit ==
    /\ pc = "accept" /\ client = None
    /\ client' = Head(backlog) /\ backlog' = Tail(backlog)
    /\ PassOn(ready \ {"listener"})
    /\ UNCHANGED <<padVars, devVars, link, rx, tx, boundVars>>

\* ... a busy one tells it so and drops it, even when the end of the
\* connection it serves is among the events of the same poll(), which is
\* served next.  (Mutant: a refusal starts the next pass.)
MutantAfterRefusal == {}
AfterRefusal == ready \ {"listener"}

Refuse ==
    /\ pc = "accept" /\ client # None
    /\ LET c == Head(backlog) IN
          /\ CanSend(c)
          /\ tx' = Sent(c, "NOTICE")
          /\ link' = Closed(c)
          /\ rx' = [rx EXCEPT ![c] = <<>>]
    /\ backlog' = Tail(backlog)
    /\ PassOn(AfterRefusal)
    /\ UNCHANGED <<client, padVars, devVars, boundVars>>

-----------------------------------------------------------------------------
(* Holder::frame, one action per tag, and the end of a connection          *)

Serving(tag) ==
    /\ pc = "serve" /\ client # None
    /\ rx[client] # <<>> /\ Head(rx[client]).tag = tag

Wanted == Head(rx[client]).shape

Consume ==
    /\ rx' = [rx EXCEPT ![client] = Tail(@)]
    /\ PassOn(ready \ {"client"})
    /\ UNCHANGED <<client, backlog, link>>

\* Same create payload: the pad is left alone.  (Mutant: any pad will do.)
MutantSamePayload == key # None
SamePayload == key = Wanted

CreateReuse ==
    /\ Serving("CREATE") /\ SamePayload
    /\ CanSend(client) /\ tx' = Sent(client, "reused")
    /\ Consume
    /\ UNCHANGED <<padVars, devVars, boundVars>>

\* Another payload: the pad is destroyed first, and then the payload does not
\* decode, /dev/uhid does not open or UHID_CREATE2 is refused.  The old fd and
\* the old key stay.
CreateFail ==
    /\ Serving("CREATE") /\ ~SamePayload /\ refused < MaxRefused
    /\ refused' = refused + 1
    /\ CanSend(client) /\ tx' = Sent(client, "failed")
    /\ Consume
    /\ IF devPhase = "closed" THEN UNCHANGED devVars ELSE KernelDestroy
    /\ started' = (started /\ devPhase = "closed")
    /\ UNCHANGED <<key, neutral, died, restarts>>

\* Another payload: the pad is destroyed, and the new device's fd, empty and
\* not yet added, takes the place of the old one.  The neutral report stays.
\* (Mutants: the device is made on the old fd, with what is unread on it;
\* `started' is left as the old pad had it.)
MutantNewFd ==
    /\ devEvents' = IF devPhase = "running" THEN Post(devEvents, "STOP") ELSE devEvents
    /\ started' = FALSE
MutantNewFdStarted == devEvents' = <<>> /\ UNCHANGED started
NewFd == devEvents' = <<>> /\ started' = FALSE

CreateNew ==
    /\ Serving("CREATE") /\ ~SamePayload
    /\ CanSend(client) /\ tx' = Sent(client, "created")
    /\ Consume
    /\ key' = Wanted
    /\ devPhase' = "created" /\ devShape' = Wanted /\ devInput' = None
    /\ NewFd
    /\ UNCHANGED <<neutral, boundVars>>

\* TAG_DESTROY: the pad, its fd, its key and its neutral report go.  (Mutant:
\* the key stays.)
MutantForget == neutral' = None /\ started' = FALSE /\ UNCHANGED key
Forget == neutral' = None /\ started' = FALSE /\ key' = None

Destroy ==
    /\ Serving("DESTROY")
    /\ Consume
    /\ Forget
    /\ devPhase' = "closed" /\ devShape' = None
    /\ devInput' = None /\ devEvents' = <<>>
    /\ UNCHANGED <<tx, boundVars>>

\* TAG_INPUT: relayed once START was seen, dropped before.
Input ==
    /\ Serving("INPUT")
    /\ Consume
    /\ LET f == Head(rx[client]) IN
          IF started /\ devPhase # "closed"
            THEN KernelInput([shape |-> f.shape, val |-> f.val])
            ELSE UNCHANGED devVars
    /\ UNCHANGED <<padVars, tx, boundVars>>

\* TAG_NEUTRAL: an empty payload clears the stored report.  (Mutants: it is
\* stored like any other; nothing is stored before START, as with inputs; it
\* leaves what is stored.)
MutantStoredEmpty(f) == [shape |-> f.shape, val |-> f.val]
MutantStoredLate(f) == IF ~started THEN neutral ELSE [shape |-> f.shape, val |-> f.val]
MutantStoredKeeps(f) == IF f.val = None THEN neutral ELSE [shape |-> f.shape, val |-> f.val]
Stored(f) == IF f.val = None THEN None ELSE [shape |-> f.shape, val |-> f.val]

StoreNeutral ==
    /\ Serving("NEUTRAL")
    /\ Consume
    /\ neutral' = Stored(Head(rx[client]))
    /\ UNCHANGED <<key, started, devVars, tx, boundVars>>

\* TAG_GET_REPLY, TAG_SET_ACK: handed to the kernel's waiting request, which
\* is outside this model.
ForwardReply ==
    /\ Serving("REPLY")
    /\ Consume
    /\ UNCHANGED <<padVars, devVars, tx, boundVars>>

\* Holder::client_gone, at the end of the connection: everything the proxy
\* sent was served, the pad stays, and the stored report parks its state.
\* (Mutants: it does not; the pad goes with its proxy.)
MutantPark == UNCHANGED devVars
MutantParkDestroys == IF devPhase # "closed" THEN KernelDestroy ELSE UNCHANGED devVars
Park == IF started /\ neutral # None /\ devPhase # "closed"
          THEN KernelInput(neutral) ELSE UNCHANGED devVars

ClientGone ==
    /\ pc = "serve" /\ client # None
    /\ rx[client] = <<>> /\ link[client] = "hup"
    /\ Park
    /\ client' = None /\ link' = Closed(client)
    /\ PassOn(ready \ {"client"})
    /\ UNCHANGED <<backlog, rx, tx, padVars, boundVars>>

-----------------------------------------------------------------------------
(* Holder::uhid_event: one event of the fd held NOW.  When CREATE replaced  *)
(* the fd in this pass, the read waits for the new device to speak.         *)

NextEvent ==
    /\ pc = "event" /\ devPhase # "closed" /\ devEvents # <<>>
    /\ PassOn({}) /\ devEvents' = Tail(devEvents)
    /\ UNCHANGED <<devPhase, devShape, devInput, client, backlog, link, rx, boundVars>>

EventStart ==
    /\ NextEvent /\ Head(devEvents) = "START"
    /\ started' = TRUE
    /\ UNCHANGED <<key, neutral, tx>>

\* Forget the key, so that the next CREATE rebuilds.
EventStop ==
    /\ NextEvent /\ Head(devEvents) = "STOP"
    /\ started' = FALSE /\ key' = None
    /\ UNCHANGED <<neutral, tx>>

\* Outputs and requests go to whichever connection is being served; with none
\* an output is lost and a request is failed at once.
EventForward ==
    /\ NextEvent /\ Head(devEvents) \in {"OUTPUT", "REQ"}
    /\ client # None => CanSend(client)
    /\ tx' = IF client = None THEN tx ELSE Sent(client, Head(devEvents))
    /\ UNCHANGED padVars

\* TAG_DESTROY closed the fd in this pass.
EventNone ==
    /\ pc = "event" /\ devPhase = "closed"
    /\ PassOn({})
    /\ UNCHANGED <<padVars, devVars, sockVars, boundVars>>

-----------------------------------------------------------------------------
(* Exit, crash and start of the daemon                                     *)

\* SIGTERM at the top of the loop, or a crash anywhere: every fd is closed, so
\* the pad is gone and every proxy end that is still there is cut.
HolderDown ==
    /\ pc # "down" /\ restarts < MaxRestarts
    /\ restarts' = restarts + 1
    /\ pc' = "down" /\ ready' = {}
    /\ client' = None /\ backlog' = <<>>
    /\ key' = None /\ neutral' = None /\ started' = FALSE
    /\ devPhase' = "closed" /\ devShape' = None
    /\ devInput' = None /\ devEvents' = <<>>
    /\ link' = [c \in Conns |-> IF link[c] \in {"up", "cut"} THEN "cut" ELSE "free"]
    /\ rx' = [c \in Conns |-> <<>>]
    /\ UNCHANGED <<tx, refused, died>>

\* systemd, or ensure_holder_for in a proxy, starts the daemon again.
HolderStart ==
    /\ pc = "down"
    /\ pc' = "poll"
    /\ UNCHANGED <<ready, padVars, devVars, sockVars, boundVars>>

-----------------------------------------------------------------------------

Frames ==
    \/ CreateReuse \/ CreateFail \/ CreateNew \/ Destroy
    \/ Input \/ StoreNeutral \/ ForwardReply \/ ClientGone

HolderLoop ==
    \/ Poll \/ Admit \/ Refuse
    \/ Frames
    \/ EventStart \/ EventStop \/ EventForward \/ EventNone

Kernel == DevAdd \/ DevProbeFail \/ DevTalk

HolderNext == HolderLoop \/ Kernel \/ HolderDown \/ HolderStart
=============================================================================
