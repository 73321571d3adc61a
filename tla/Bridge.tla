------------------------------- MODULE Bridge -------------------------------
(***************************************************************************)
(* The overlay bridge of the proxy (crates/linux/src/audiobridge.rs): one  *)
(* accept thread, one reader thread per overlay, and the relay thread that *)
(* pushes button and stick events, all on one list of clients behind a     *)
(* mutex, and the flag that pauses the game's input.                       *)
(*                                                                         *)
(* Every critical section of the mutex is one action.  A client is known   *)
(* by the number of the fd the list owns; the reader thread has a clone of *)
(* the stream, so the connection outlives its entry in the list, and the   *)
(* number may be given to another one.                                     *)
(***************************************************************************)
EXTENDS Naturals, Sequences, FiniteSets

CONSTANTS
    Overlays,    \* connections of overlays
    Fds,         \* fd numbers the process may get for them
    MaxLines,    \* bound: lines of an overlay not read yet
    MaxDrops,    \* bound: writes to overlays that fail
    MaxClones,   \* bound: try_clone() calls that fail
    Slow         \* may a write to an open overlay time out?

ASSUME BridgeAssumption ==
    /\ {MaxLines, MaxDrops, MaxClones} \subseteq Nat
    /\ Slow \in BOOLEAN
    /\ Fds # {}

Modes == {"watch", "hold"}

VARIABLES
    app,      \* the overlay's end: "off", "open", "closed"
    wire,     \* mode lines of the overlay not read yet
    backlog,  \* connections the accept thread has not taken yet
    srv,      \* "none", "queued", "probing", "reading", "mute" (no reader), "ended"
    fd,       \* number the connection had when it was accepted (`key')
    clients,  \* BridgeState.clients
    paused,   \* PAUSED
    mine,     \* ghost: the mode the bridge last took from the overlay
    lost,     \* ghost: overlays that a failed write dropped, and those that were
              \* given the number of one the list lost but whose reader still runs
    drops, clones

appVars == <<app, wire, backlog>>
vars == <<appVars, srv, fd, clients, paused, mine, lost, drops, clones>>

Client == [fd : Fds, conn : Overlays, mode : Modes]

TypeOK ==
    /\ app \in [Overlays -> {"off", "open", "closed"}]
    /\ wire \in [Overlays -> Seq(Modes)]
    /\ backlog \in Seq(Overlays)
    /\ srv \in [Overlays -> {"none", "queued", "probing", "reading", "mute", "ended"}]
    /\ fd \in [Overlays -> Fds]
    /\ clients \subseteq Client
    /\ paused \in BOOLEAN
    /\ mine \in [Overlays -> Modes] /\ lost \subseteq Overlays
    /\ drops \in 0..MaxDrops /\ clones \in 0..MaxClones

Init ==
    /\ app = [o \in Overlays |-> "off"]
    /\ wire = [o \in Overlays |-> <<>>]
    /\ backlog = <<>>
    /\ srv = [o \in Overlays |-> "none"]
    /\ fd = [o \in Overlays |-> CHOOSE n \in Fds : TRUE]
    /\ clients = {} /\ paused = FALSE
    /\ mine = [o \in Overlays |-> "hold"] /\ lost = {}
    /\ drops = 0 /\ clones = 0

-----------------------------------------------------------------------------
(* The overlays                                                            *)

Connect(o) ==
    /\ app[o] # "open" /\ srv[o] \in {"none", "ended"}
    /\ app' = [app EXCEPT ![o] = "open"]
    /\ wire' = [wire EXCEPT ![o] = <<>>]
    /\ backlog' = Append(backlog, o)
    /\ srv' = [srv EXCEPT ![o] = "queued"]
    /\ mine' = [mine EXCEPT ![o] = "hold"]
    /\ UNCHANGED <<fd, clients, paused, lost, drops, clones>>

\* "mode watch" or "mode hold", right after connecting or at any time.
SendMode(o, m) ==
    /\ app[o] = "open" /\ Len(wire[o]) < MaxLines
    /\ wire' = [wire EXCEPT ![o] = Append(@, m)]
    /\ UNCHANGED <<app, backlog, srv, fd, clients, paused, mine, lost, drops, clones>>

Close(o) ==
    /\ app[o] = "open"
    /\ app' = [app EXCEPT ![o] = "closed"]
    /\ UNCHANGED <<wire, backlog, srv, fd, clients, paused, mine, lost, drops, clones>>

-----------------------------------------------------------------------------
(* sync_paused                                                             *)

AnyHold(cs) == \E c \in cs : c.mode = "hold"

\* PAUSED is recomputed from the list after every change of it.  (Mutants:
\* before the change; a resume is left to somebody else.)
MutantFlagEarly(cs) == AnyHold(clients)
MutantFlagSticky(cs) == paused \/ AnyHold(cs)
Flag(cs) == AnyHold(cs)

Sync(cs) == clients' = cs /\ paused' = Flag(cs)

-----------------------------------------------------------------------------
(* The accept thread: one connection at a time                             *)

\* Numbers of open streams.  (Mutant: the key is that of the clone made for the
\* negotiation, which is closed by the time the client is listed.)
MutantTaken == {fd[o] : o \in {p \in Overlays : srv[p] = "probing"}}
Taken == {c.fd : c \in clients} \cup {fd[o] : o \in {p \in Overlays : srv[p] = "probing"}}

\* A reader whose connection has no entry in the list any more.
Orphan(o) == srv[o] = "reading" /\ \A c \in clients : c.conn # o

Accept ==
    /\ backlog # <<>> /\ \A o \in Overlays : srv[o] # "probing"
    /\ backlog' = Tail(backlog)
    /\ srv' = [srv EXCEPT ![Head(backlog)] = "probing"]
    /\ \E n \in Fds \ Taken :
          /\ fd' = [fd EXCEPT ![Head(backlog)] = n]
          /\ lost' = IF \E o \in Overlays : Orphan(o) /\ fd[o] = n
                       THEN lost \cup {Head(backlog)} ELSE lost \ {Head(backlog)}
    /\ UNCHANGED <<app, wire, clients, paused, mine, drops, clones>>

\* The clone for the negotiation fails: the connection is closed.
ProbeFails(o) ==
    /\ srv[o] = "probing" /\ clones < MaxClones
    /\ clones' = clones + 1
    /\ srv' = [srv EXCEPT ![o] = "ended"]
    /\ UNCHANGED <<appVars, fd, clients, paused, mine, lost, drops>>

\* Silence, an early end and anything but a mode line mean hold.  (Mutant:
\* silence leaves the mode unset.)
MutantNegotiated(o) == IF wire[o] = <<>> THEN "unset" ELSE Head(wire[o])
Negotiated(o) == IF wire[o] = <<>> THEN "hold" ELSE Head(wire[o])

\* The buffered reader of the negotiation takes whatever is there and keeps
\* the first line.
Admit(o) ==
    /\ srv[o] = "probing"
    /\ mine' = [mine EXCEPT ![o] = Negotiated(o)]
    /\ wire' = [wire EXCEPT ![o] = <<>>]
    /\ Sync(clients \cup {[fd |-> fd[o], conn |-> o, mode |-> Negotiated(o)]})
    /\ UNCHANGED <<app, backlog, fd, lost, drops>>

\* The reader thread gets a clone of the stream, if there is one to be had.
AdmitRead(o) ==
    /\ Admit(o)
    /\ srv' = [srv EXCEPT ![o] = "reading"]
    /\ UNCHANGED clones

AdmitMute(o) ==
    /\ Admit(o) /\ clones < MaxClones
    /\ clones' = clones + 1
    /\ srv' = [srv EXCEPT ![o] = "mute"]

-----------------------------------------------------------------------------
(* The reader threads                                                      *)

Switched(o, m) == {IF c.fd = fd[o] THEN [c EXCEPT !.mode = m] ELSE c : c \in clients}

\* A mode line switches the client of the list that has this number.
ReadLine(o) ==
    /\ srv[o] = "reading" /\ wire[o] # <<>>
    /\ wire' = [wire EXCEPT ![o] = Tail(@)]
    /\ mine' = [mine EXCEPT ![o] = Head(wire[o])]
    /\ IF \E c \in clients : c.fd = fd[o]
         THEN Sync(Switched(o, Head(wire[o])))
         ELSE UNCHANGED <<clients, paused>>
    /\ UNCHANGED <<app, backlog, srv, fd, lost, drops, clones>>

\* End of file removes the client of the list that has this number.
\* (Mutant: it removes them all.)
MutantWithout(o) == {}
Without(o) == {c \in clients : c.fd # fd[o]}

\* The list owns the stream; without a reader nothing else keeps it open.
Freed(cs) ==
    [o \in Overlays |->
        IF srv[o] = "mute" /\ (\E c \in cs : c.conn = o) THEN "ended" ELSE srv[o]]

ReadEnd(o) ==
    /\ srv[o] = "reading" /\ app[o] = "closed" /\ wire[o] = <<>>
    /\ srv' = [Freed(clients \ Without(o)) EXCEPT ![o] = "ended"]
    /\ Sync(Without(o))
    /\ UNCHANGED <<appVars, fd, mine, lost, drops, clones>>

-----------------------------------------------------------------------------
(* The relay thread                                                        *)

\* One control report with something new in it: button edges for everybody or
\* stick samples for hold clients.  A client whose write fails or takes more
\* than 20 ms is dropped; its reader still holds the connection.
Feed ==
    \E targets \in {clients, {c \in clients : c.mode = "hold"}} :
    \E late \in SUBSET {c \in targets : Slow /\ app[c.conn] = "open"} :
        LET dead == late \cup {c \in targets : app[c.conn] # "open"} IN
        /\ dead # {} /\ drops < MaxDrops
        /\ drops' = drops + 1
        /\ Sync(clients \ dead) /\ srv' = Freed(dead)
        /\ lost' = lost \cup {c.conn : c \in dead}
        /\ UNCHANGED <<appVars, fd, mine, clones>>

-----------------------------------------------------------------------------

Reader(o) == ReadLine(o) \/ ReadEnd(o)

Next ==
    \/ Accept \/ Feed
    \/ \E o \in Overlays :
          \/ Connect(o) \/ Close(o) \/ (\E m \in Modes : SendMode(o, m))
          \/ ProbeFails(o) \/ AdmitRead(o) \/ AdmitMute(o)
          \/ Reader(o)

Spec == Init /\ [][Next]_vars

\* The threads run; overlays and the pad do as they like.
FairSpec ==
    /\ Spec
    /\ WF_vars(Accept)
    /\ \A o \in Overlays : WF_vars(AdmitRead(o)) /\ WF_vars(Reader(o))

-----------------------------------------------------------------------------
(* Properties                                                              *)

\* The flag the relay loop reads without the lock never disagrees with the
\* list (audiobridge.rs:207-216), whichever thread changed the list last.
PauseFollowsList == paused <=> AnyHold(clients)

\* No two clients of the list go by the same number, which is all the readers
\* and the relay thread know them by (188, 200, 299).
NamesAreUnique == \A c, d \in clients : c.fd = d.fd => c = d

Served(o) == app[o] = "open" /\ srv[o] \in {"reading", "mute"}

\* "while ANY hold client is connected the proxy suppresses input forwarding"
\* (7-9): no other overlay's connect, switch or end resumes the game under one
\* that holds it, also when other overlays were dropped by a failed write and
\* their readers end, or switch modes, later.  (Not: an overlay that was dropped
\* itself, and one that has the number of such a reader.)
HoldMeansPaused ==
    \A o \in Overlays \ lost : Served(o) /\ mine[o] = "hold" => paused

\* Input comes back for good when the overlays are gone (10-11), whether they
\* closed before, during or after the negotiation or were dropped.  (A client
\* without a reader has to wait for the user to press something.)
Gone(o) == app[o] # "open" /\ srv[o] # "mute"
Resumed == <>[](\A o \in Overlays : Gone(o)) => <>[]~paused

(* What the comments say and the code does not do (violation run)          *)

\* "Resume happens when the last hold client disconnects (or switches to watch
\* mode)" (10-11): and for no other reason.
ResumeAfterLastHold ==
    [][paused /\ ~paused' =>
          \A o \in Overlays : ~(Served(o)' /\ mine'[o] = "hold")]_vars
=============================================================================
