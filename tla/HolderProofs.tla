----------------------------- MODULE HolderProofs -----------------------------
(***************************************************************************)
(* Proofs about HolderSession, for any number of connections and any set   *)
(* of create payloads: type correctness, the agreement of the create key   *)
(* with the kernel's device, and the promise of VirtualPad.                *)
(***************************************************************************)
EXTENDS HolderSession, TLAPS

USE HolderAssumption, SessionAssumption

-----------------------------------------------------------------------------
(* Type correctness                                                        *)

\* A stage of the loop runs for an fd that poll() reported.
LoopOK ==
    /\ pc = "accept" => backlog # <<>>
    /\ pc # "accept" => "listener" \notin ready

TypeInv == TypeOK /\ LoopOK

LEMMA InitType == Init => TypeInv
<1> SUFFICES ASSUME Init PROVE TypeInv
  OBVIOUS
<1>1. /\ pc \in Stages /\ ready \subseteq Fds
      /\ client \in Conns \cup {None} /\ backlog \in Seq(Conns)
      /\ key \in Shapes \cup {None} /\ neutral \in Report \cup {None}
  BY DEF Init, HolderInit, Stages
<1>5. started \in BOOLEAN
  BY Zenon DEF Init, HolderInit
<1>2. /\ devPhase \in {"closed", "created", "running", "dead"}
      /\ devShape \in Shapes \cup {None}
      /\ devInput \in Report \cup {None} /\ devEvents \in Seq(Event)
  BY DEF Init, HolderInit
<1>3. /\ link \in [Conns -> {"free", "up", "hup", "cut"}]
      /\ rx \in [Conns -> Seq(Frame)] /\ tx \in [Conns -> Seq(Answer)]
      /\ refused \in Nat /\ died \in Nat /\ restarts \in Nat
  BY DEF Init, HolderInit
<1>4. SessTypeOK /\ LoopOK
  BY DEF Init, HolderInit, SessTypeOK, LoopOK
<1> QED
  BY <1>1, <1>2, <1>3, <1>4, <1>5 DEF TypeInv, TypeOK, HolderTypeOK

\* What the holder reads off a connection it serves is a frame.
LEMMA ServedFrame ==
  ASSUME TypeInv, NEW t, Serving(t)
  PROVE  /\ client \in Conns
         /\ Head(rx[client]) \in Frame
         /\ Head(rx[client]).tag = t
         /\ [rx EXCEPT ![client] = Tail(@)] \in [Conns -> Seq(Frame)]
BY DEF TypeInv, TypeOK, HolderTypeOK, Serving

\* Going on to the next stage keeps the loop well-typed, once the listener was
\* looked at.
LEMMA PassOnType ==
  ASSUME NEW R, R \subseteq Fds, PassOn(R)
  PROVE  /\ pc' \in Stages /\ ready' \subseteq Fds
         /\ "listener" \in R <=> pc' = "accept"
         /\ "listener" \notin R => "listener" \notin ready'
BY DEF PassOn, Stages, Fds

LEMMA SentType ==
  ASSUME TypeInv, NEW c \in Conns, NEW m \in Answer
  PROVE  Sent(c, m) \in [Conns -> Seq(Answer)]
BY DEF TypeInv, TypeOK, HolderTypeOK, Sent

LEMMA SendType ==
  ASSUME TypeInv, NEW c \in Conns, NEW f \in Frame, Send(c, f)
  PROVE  rx' \in [Conns -> Seq(Frame)]
BY DEF TypeInv, TypeOK, HolderTypeOK, Send

LEMMA KernelDestroyType ==
  ASSUME TypeInv, KernelDestroy
  PROVE  /\ devPhase' = "dead" /\ devShape' \in Shapes \cup {None}
         /\ devInput' \in Report \cup {None} /\ devEvents' \in Seq(Event)
BY DEF TypeInv, TypeOK, HolderTypeOK, KernelDestroy, Post, Event

\* Every step leaves `started' a Boolean.
LEMMA StartedType == TypeInv /\ [Next]_vars => started' \in BOOLEAN
<1> SUFFICES ASSUME TypeInv, [Next]_vars PROVE started' \in BOOLEAN
  OBVIOUS
<1>1. started \in BOOLEAN
  BY Zenon DEF TypeInv, TypeOK, HolderTypeOK
<1>2. CASE UNCHANGED vars
  BY <1>1, <1>2, Zenon DEF vars, holderVars, padVars
<1>3. CASE HolderLoop
  <2>1. ASSUME Poll \/ Admit \/ Refuse \/ EventForward \/ EventNone PROVE started' = started
    BY <2>1, Zenon DEF Poll, Admit, Refuse, EventForward, EventNone, padVars
  <2>2. ASSUME CreateReuse \/ Input \/ StoreNeutral \/ ForwardReply \/ ClientGone
        PROVE  started' = started
    BY <2>2, Zenon DEF CreateReuse, Input, StoreNeutral, ForwardReply, ClientGone, padVars
  <2>3. CASE CreateFail \/ CreateNew \/ Destroy \/ EventStart \/ EventStop
    BY <2>3, Zenon DEF CreateFail, CreateNew, NewFd, Destroy, Forget, EventStart, EventStop
  <2>4. QED
    BY <1>1, <1>3, <2>1, <2>2, <2>3, Zenon DEF HolderLoop, Frames
<1>4. CASE Kernel \/ HolderDown \/ HolderStart
  BY <1>1, <1>4, Zenon DEF Kernel, DevAdd, DevProbeFail, DevTalk, HolderDown, HolderStart, padVars
<1>5. CASE \E c \in Conns :
              Connect(c) \/ Session(c) \/ SendInput(c) \/ Lower(c) \/ Hangup(c)
  BY <1>1, <1>5, Zenon
  DEF Connect, Session, SendCreate, RecvAck, RecvOther, SendNeutral, SendInput, RelayRecv,
      Lower, LinkLost, Hangup, Step, Drop, padVars
<1>6. QED
  BY <1>2, <1>3, <1>4, <1>5, Zenon DEF Next, HolderNext

\* The kernel's own steps keep everything typed.
LEMMA KernelType ==
  ASSUME TypeInv, Kernel, UNCHANGED sessVars, started' \in BOOLEAN
  PROVE  TypeInv'
<1>1. /\ devPhase' \in {"closed", "created", "running", "dead"}
      /\ devShape' \in Shapes \cup {None}
      /\ devInput' \in Report \cup {None} /\ devEvents' \in Seq(Event)
  <2>1. CASE DevAdd
    BY <2>1 DEF DevAdd, Post, TypeInv, TypeOK, HolderTypeOK, Event
  <2>2. CASE DevProbeFail
    BY <2>2, KernelDestroyType DEF DevProbeFail
  <2>3. CASE DevTalk
    BY <2>3 DEF DevTalk, TypeInv, TypeOK, HolderTypeOK, Event
  <2>4. QED
    BY <2>1, <2>2, <2>3 DEF Kernel
<1>2. died' \in Nat /\ UNCHANGED <<refused, restarts>>
  BY DEF Kernel, DevAdd, DevProbeFail, DevTalk, boundVars, TypeInv, TypeOK, HolderTypeOK
<1>3. UNCHANGED <<loopVars, padVars, sockVars>>
  BY DEF Kernel, DevAdd, DevProbeFail, DevTalk
<1>4. QED
  BY <1>1, <1>2, <1>3
  DEF TypeInv, TypeOK, HolderTypeOK, SessTypeOK, LoopOK, loopVars, padVars, sockVars, sessVars

\* So do poll() and accept() ...
LEMMA ListenType ==
  ASSUME TypeInv, Poll \/ Admit \/ Refuse, UNCHANGED sessVars, started' \in BOOLEAN
  PROVE  TypeInv'
<1>1. CASE Poll
  <2>1. Readable \subseteq Fds
    BY DEF Readable
  <2>2. LoopOK' /\ pc' \in Stages /\ ready' \subseteq Fds
    BY <1>1, <2>1 DEF Poll, PassOn, LoopOK, Readable, Stages, sockVars
  <2>3. QED
    BY <1>1, <2>2
    DEF Poll, TypeInv, TypeOK, HolderTypeOK, SessTypeOK,
        padVars, devVars, sockVars, boundVars, sessVars
<1>2. ASSUME Admit \/ Refuse
      PROVE  /\ LoopOK' /\ pc' \in Stages /\ ready' \subseteq Fds
             /\ client' \in Conns \cup {None} /\ backlog' \in Seq(Conns)
             /\ Head(backlog) \in Conns
  <2>1. backlog # <<>> /\ backlog \in Seq(Conns) /\ backlog' = Tail(backlog)
    BY <1>2 DEF Admit, Refuse, TypeInv, TypeOK, HolderTypeOK, LoopOK
  <2>2. Head(backlog) \in Conns /\ backlog' \in Seq(Conns)
    BY <2>1
  <2>3. ready \ {"listener"} \subseteq Fds /\ PassOn(ready \ {"listener"})
    BY <1>2 DEF Admit, Refuse, AfterRefusal, TypeInv, TypeOK, HolderTypeOK
  <2>4. pc' \in Stages \ {"accept"} /\ ready' \subseteq Fds /\ "listener" \notin ready'
    BY <2>3 DEF PassOn, Stages
  <2>5. client' \in Conns \cup {None}
    BY <1>2, <2>2 DEF Admit, Refuse, TypeInv, TypeOK, HolderTypeOK
  <2>6. QED
    BY <2>2, <2>4, <2>5 DEF LoopOK
<1>3. CASE Admit
  BY <1>2, <1>3
  DEF Admit, TypeInv, TypeOK, HolderTypeOK, SessTypeOK, padVars, devVars, boundVars, sessVars
<1>4. CASE Refuse
  <2>1. tx' \in [Conns -> Seq(Answer)]
    BY <1>2, <1>4, SentType DEF Refuse, Answer
  <2>2. /\ link' \in [Conns -> {"free", "up", "hup", "cut"}]
        /\ rx' \in [Conns -> Seq(Frame)]
    BY <1>2, <1>4 DEF Refuse, Closed, TypeInv, TypeOK, HolderTypeOK
  <2>3. QED
    BY <1>2, <1>4, <2>1, <2>2
    DEF Refuse, TypeInv, TypeOK, HolderTypeOK, SessTypeOK, padVars, devVars, boundVars, sessVars
<1>5. QED
  BY <1>1, <1>3, <1>4

\* ... and the serving of a client, frame by frame ...
LEMMA FramesType ==
  ASSUME TypeInv, Frames, UNCHANGED sessVars, started' \in BOOLEAN
  PROVE  TypeInv'
<1>1. /\ LoopOK' /\ pc' \in Stages /\ ready' \subseteq Fds
      /\ client \in Conns /\ backlog' = backlog
  <2>1. /\ pc = "serve" /\ PassOn(ready \ {"client"}) /\ backlog' = backlog
        /\ client # None
    BY DEF Frames, CreateReuse, CreateFail, CreateNew, Destroy, Input, StoreNeutral,
           ForwardReply, ClientGone, Serving, Consume
  <2>2. ready \ {"client"} \subseteq Fds /\ "listener" \notin ready
    BY <2>1 DEF TypeInv, TypeOK, HolderTypeOK, LoopOK
  <2>3. pc' \in Stages \ {"accept"} /\ ready' \subseteq Fds /\ "listener" \notin ready'
    BY <2>1, <2>2 DEF PassOn, Stages
  <2>4. QED
    BY <2>1, <2>3 DEF LoopOK, TypeInv, TypeOK, HolderTypeOK
<1>2. /\ client' \in Conns \cup {None}
      /\ link' \in [Conns -> {"free", "up", "hup", "cut"}]
      /\ rx' \in [Conns -> Seq(Frame)]
  <2>1. CASE ClientGone
    BY <2>1, <1>1 DEF ClientGone, Closed, TypeInv, TypeOK, HolderTypeOK
  <2>2. ASSUME NEW t, Serving(t), Consume
        PROVE  /\ client' = client /\ link' = link
               /\ rx' \in [Conns -> Seq(Frame)]
    BY <2>2, ServedFrame DEF Consume
  <2>3. CASE ~ClientGone
    <3>1. /\ Consume
          /\ \/ Serving("CREATE") \/ Serving("DESTROY") \/ Serving("INPUT")
             \/ Serving("NEUTRAL") \/ Serving("REPLY")
      BY <2>3 DEF Frames, CreateReuse, CreateFail, CreateNew, Destroy, Input, StoreNeutral,
                  ForwardReply
    <3>2. client' = client /\ link' = link /\ rx' \in [Conns -> Seq(Frame)]
      BY <3>1, <2>2
    <3>3. QED
      BY <3>2 DEF TypeInv, TypeOK, HolderTypeOK
  <2>4. QED
    BY <2>1, <2>3
<1>3. /\ tx' \in [Conns -> Seq(Answer)]
      /\ refused' \in Nat /\ died' \in Nat /\ restarts' \in Nat
  <2>1. \A m \in Answer : Sent(client, m) \in [Conns -> Seq(Answer)]
    BY <1>1, SentType
  <2>2. "reused" \in Answer /\ "failed" \in Answer /\ "created" \in Answer
    BY DEF Answer
  <2>3. tx \in [Conns -> Seq(Answer)] /\ refused \in Nat /\ died \in Nat /\ restarts \in Nat
    BY DEF TypeInv, TypeOK, HolderTypeOK
  <2>4. \/ tx' = Sent(client, "reused") \/ tx' = Sent(client, "failed")
        \/ tx' = Sent(client, "created") \/ tx' = tx
    BY DEF Frames, CreateReuse, CreateFail, CreateNew, Destroy, Input, StoreNeutral,
           ForwardReply, ClientGone
  <2>5. refused' \in {refused, refused + 1} /\ died' = died /\ restarts' = restarts
    BY DEF Frames, CreateReuse, CreateFail, CreateNew, Destroy, Input, StoreNeutral,
           ForwardReply, ClientGone, boundVars
  <2>6. tx' \in [Conns -> Seq(Answer)]
    BY <2>1, <2>2, <2>3, <2>4, Zenon
  <2>7. refused' \in Nat /\ died' \in Nat /\ restarts' \in Nat
    BY <2>3, <2>5
  <2>8. QED
    BY <2>6, <2>7
<1>4. /\ key' \in Shapes \cup {None} /\ neutral' \in Report \cup {None}
      /\ devPhase' \in {"closed", "created", "running", "dead"}
      /\ devShape' \in Shapes \cup {None}
      /\ devInput' \in Report \cup {None} /\ devEvents' \in Seq(Event)
  <2>1. ASSUME NEW r \in Report, KernelInput(r)
        PROVE  /\ devPhase' \in {"closed", "created", "running", "dead"}
               /\ devShape' \in Shapes \cup {None}
               /\ devInput' \in Report \cup {None} /\ devEvents' \in Seq(Event)
    BY <2>1 DEF KernelInput, TypeInv, TypeOK, HolderTypeOK
  <2>2. ASSUME UNCHANGED devVars
        PROVE  /\ devPhase' \in {"closed", "created", "running", "dead"}
               /\ devShape' \in Shapes \cup {None}
               /\ devInput' \in Report \cup {None} /\ devEvents' \in Seq(Event)
    BY <2>2 DEF devVars, TypeInv, TypeOK, HolderTypeOK
  <2>3. ASSUME UNCHANGED padVars
        PROVE  key' \in Shapes \cup {None} /\ neutral' \in Report \cup {None}
    BY <2>3 DEF padVars, TypeInv, TypeOK, HolderTypeOK
  <2>4. CASE CreateReuse \/ ForwardReply
    BY <2>2, <2>3, <2>4 DEF CreateReuse, ForwardReply
  <2>5. CASE CreateFail
    BY <2>2, <2>5, KernelDestroyType DEF CreateFail, TypeInv, TypeOK, HolderTypeOK
  <2>6. CASE CreateNew
    <3>1. Wanted \in Shapes
      BY <2>6, ServedFrame DEF CreateNew, Wanted, Frame
    <3>2. QED
      BY <2>6, <3>1 DEF CreateNew, NewFd, TypeInv, TypeOK, HolderTypeOK
  <2>7. CASE Destroy
    BY <2>7 DEF Destroy, Forget
  <2>8. CASE Input
    <3>1. LET f == Head(rx[client]) IN [shape |-> f.shape, val |-> f.val] \in Report
      BY <2>8, ServedFrame DEF Input, Frame, Report
    <3>2. QED
      BY <2>1, <2>2, <2>3, <2>8, <3>1 DEF Input
  <2>9. CASE StoreNeutral
    <3>1. Stored(Head(rx[client])) \in Report \cup {None}
      BY <2>9, ServedFrame DEF StoreNeutral, Stored, Frame, Report
    <3>2. QED
      BY <2>2, <2>9, <3>1 DEF StoreNeutral, TypeInv, TypeOK, HolderTypeOK
  <2>10. CASE ClientGone
    BY <2>1, <2>2, <2>3, <2>10 DEF ClientGone, Park, TypeInv, TypeOK, HolderTypeOK
  <2>11. QED
    BY <2>4, <2>5, <2>6, <2>7, <2>8, <2>9, <2>10 DEF Frames
<1>5. QED
  BY <1>1, <1>2, <1>3, <1>4
  DEF TypeInv, TypeOK, HolderTypeOK, SessTypeOK, sessVars

\* ... and the reading of an event ...
LEMMA EventType ==
  ASSUME TypeInv, EventStart \/ EventStop \/ EventForward \/ EventNone,
         UNCHANGED sessVars, started' \in BOOLEAN
  PROVE  TypeInv'
<1>1. pc' = "poll" /\ ready' = {}
  BY DEF EventStart, EventStop, EventForward, EventNone, NextEvent, PassOn
<1>2. CASE EventNone
  BY <1>1, <1>2
  DEF EventNone, TypeInv, TypeOK, HolderTypeOK, SessTypeOK, LoopOK, Stages,
      padVars, devVars, sockVars, boundVars, sessVars
<1>3. CASE EventStart \/ EventStop \/ EventForward
  <2>1. NextEvent
    BY <1>3 DEF EventStart, EventStop, EventForward
  <2>2. devEvents' \in Seq(Event) /\ Head(devEvents) \in Event
    BY <2>1 DEF NextEvent, TypeInv, TypeOK, HolderTypeOK
  <2>3. key' \in Shapes \cup {None} /\ neutral' = neutral
    BY <1>3 DEF EventStart, EventStop, EventForward, padVars, TypeInv, TypeOK, HolderTypeOK
  <2>4. tx' \in [Conns -> Seq(Answer)]
    <3>1. CASE EventStart \/ EventStop
      BY <3>1 DEF EventStart, EventStop, TypeInv, TypeOK, HolderTypeOK
    <3>2. CASE EventForward /\ client = None
      BY <3>2 DEF EventForward, TypeInv, TypeOK, HolderTypeOK
    <3>3. CASE EventForward /\ client # None
      <4>1. client \in Conns /\ Head(devEvents) \in Answer
        BY <3>3 DEF EventForward, Answer, TypeInv, TypeOK, HolderTypeOK
      <4>2. QED
        BY <3>3, <4>1, SentType DEF EventForward
    <3>4. QED
      BY <1>3, <3>1, <3>2, <3>3
  <2>5. QED
    BY <1>1, <2>1, <2>2, <2>3, <2>4
    DEF NextEvent, TypeInv, TypeOK, HolderTypeOK, SessTypeOK, LoopOK, Stages,
        boundVars, sessVars
<1>4. QED
  BY <1>2, <1>3

\* ... and the exit and start of the daemon.
LEMMA DownType ==
  ASSUME TypeInv, HolderDown \/ HolderStart, UNCHANGED sessVars, started' \in BOOLEAN
  PROVE  TypeInv'
<1>1. CASE HolderDown
  <2>1. /\ pc' = "down" /\ ready' = {} /\ client' = None /\ backlog' = <<>>
        /\ key' = None /\ neutral' = None /\ devPhase' = "closed"
        /\ devShape' = None /\ devInput' = None /\ devEvents' = <<>>
    BY <1>1 DEF HolderDown
  <2>2. /\ link' \in [Conns -> {"free", "up", "hup", "cut"}]
        /\ rx' \in [Conns -> Seq(Frame)]
    BY <1>1 DEF HolderDown, TypeInv, TypeOK, HolderTypeOK
  <2>3. /\ tx' \in [Conns -> Seq(Answer)]
        /\ refused' \in Nat /\ died' \in Nat /\ restarts' \in Nat
    BY <1>1 DEF HolderDown, TypeInv, TypeOK, HolderTypeOK
  <2>4. QED
    <3>1. LoopOK' /\ SessTypeOK'
      BY <2>1 DEF LoopOK, TypeInv, TypeOK, SessTypeOK, sessVars
    <3>2. /\ pc' \in Stages /\ ready' \subseteq Fds /\ client' \in Conns \cup {None}
          /\ backlog' \in Seq(Conns) /\ devEvents' \in Seq(Event)
      BY <2>1 DEF Stages
    <3>3. /\ key' \in Shapes \cup {None} /\ neutral' \in Report \cup {None}
          /\ devPhase' \in {"closed", "created", "running", "dead"}
          /\ devShape' \in Shapes \cup {None} /\ devInput' \in Report \cup {None}
      BY <2>1
    <3>4. QED
      BY <3>1, <3>2, <3>3, <2>2, <2>3 DEF TypeInv, TypeOK, HolderTypeOK
<1>2. CASE HolderStart
  <2>1. pc' = "poll" /\ ready' = ready
    BY <1>2 DEF HolderStart
  <2>2. "listener" \notin ready
    BY <1>2 DEF HolderStart, TypeInv, LoopOK
  <2>3. QED
    BY <1>2, <2>1, <2>2
    DEF HolderStart, TypeInv, TypeOK, HolderTypeOK, SessTypeOK, LoopOK, Stages,
        padVars, devVars, sockVars, boundVars, sessVars
<1>3. QED
  BY <1>1, <1>2

\* A session leaves the daemon's own state alone ...
LEMMA SessionFrame ==
  ASSUME NEW c \in Conns, Connect(c) \/ Session(c) \/ SendInput(c) \/ Lower(c) \/ Hangup(c)
  PROVE  UNCHANGED <<loopVars, padVars, devVars, client, boundVars>>
BY DEF Connect, Session, SendCreate, RecvAck, RecvOther, SendNeutral, SendInput, RelayRecv,
       Lower, LinkLost, Hangup, Step, Drop

\* ... and sends frames.
LEMMA SessionType ==
  ASSUME TypeInv, NEW c \in Conns,
         Connect(c) \/ Session(c) \/ SendInput(c) \/ Lower(c) \/ Hangup(c),
         started' \in BOOLEAN
  PROVE  TypeInv'
<1>1. /\ sess \in [Conns -> {"off", "create", "wait", "neutral", "relay"}]
      /\ want \in [Conns -> Shapes \cup {None}] /\ (sess[c] # "off" => want[c] \in Shapes)
      /\ link \in [Conns -> {"free", "up", "hup", "cut"}]
      /\ rx \in [Conns -> Seq(Frame)] /\ tx \in [Conns -> Seq(Answer)]
      /\ backlog \in Seq(Conns)
  BY DEF TypeInv, TypeOK, HolderTypeOK, SessTypeOK
<1>2. rx' \in [Conns -> Seq(Frame)]
  <2>1. CASE SendCreate(c)
    <3>1. [tag |-> "CREATE", shape |-> want[c], val |-> None] \in Frame
      BY <1>1, <2>1 DEF SendCreate, Frame
    <3>2. QED
      BY <2>1, <3>1, SendType DEF SendCreate
  <2>2. CASE SendNeutral(c)
    <3>1. NeutralOf(want[c]) \in Frame
      BY <1>1, <2>2 DEF SendNeutral, NeutralOf, Frame, Values
    <3>2. QED
      BY <2>2, <3>1, SendType DEF SendNeutral
  <2>3. CASE SendInput(c)
    <3>1. \A v \in Values : [tag |-> "INPUT", shape |-> want[c], val |-> v] \in Frame
      BY <1>1, <2>3 DEF SendInput, Frame
    <3>2. QED
      BY <2>3, <3>1, SendType DEF SendInput
  <2>4. CASE RelayRecv(c) \/ Lower(c)
    <3>1. /\ [tag |-> "REPLY", shape |-> None, val |-> None] \in Frame
          /\ [tag |-> "DESTROY", shape |-> None, val |-> None] \in Frame
      BY DEF Frame
    <3>2. QED
      BY <1>1, <2>4, <3>1, SendType DEF RelayRecv, Lower
  <2>5. CASE Connect(c) \/ RecvAck(c) \/ RecvOther(c) \/ LinkLost(c) \/ Hangup(c)
    BY <1>1, <2>5 DEF Connect, RecvAck, RecvOther, LinkLost, Hangup
  <2>6. QED
    BY <2>1, <2>2, <2>3, <2>4, <2>5 DEF Session
<1>3. tx' \in [Conns -> Seq(Answer)]
  <2>1. CASE RecvAck(c)
    BY <1>1, <2>1 DEF RecvAck
  <2>2. CASE RelayRecv(c)
    BY <1>1, <2>2 DEF RelayRecv
  <2>3. CASE Drop(c)
    BY <1>1, <2>3 DEF Drop
  <2>4. CASE Connect(c) \/ SendCreate(c) \/ SendNeutral(c) \/ SendInput(c)
    BY <1>1, <2>4 DEF Connect, SendCreate, SendNeutral, SendInput
  <2>5. QED
    BY <2>1, <2>2, <2>3, <2>4 DEF Session, RecvOther, Lower, LinkLost, Hangup
<1>4. /\ link' \in [Conns -> {"free", "up", "hup", "cut"}] /\ backlog' \in Seq(Conns)
      /\ SessTypeOK'
  <2>1. CASE Connect(c)
    BY <1>1, <2>1 DEF Connect, TypeInv, TypeOK, SessTypeOK
  <2>2. CASE Drop(c)
    BY <1>1, <2>2 DEF Drop, TypeInv, TypeOK, SessTypeOK
  <2>3. ASSUME NEW s \in {"wait", "neutral", "relay"}, Step(c, s), link' = link,
               sess[c] # "off"
        PROVE  /\ link' \in [Conns -> {"free", "up", "hup", "cut"}] /\ backlog' \in Seq(Conns)
               /\ SessTypeOK'
    BY <1>1, <2>3 DEF Step, TypeInv, TypeOK, SessTypeOK
  <2>4. CASE SendCreate(c) \/ RecvAck(c)
    BY <2>3, <2>4 DEF SendCreate, RecvAck
  <2>5. CASE SendNeutral(c) \/ SendInput(c) \/ RelayRecv(c)
    BY <2>3, <2>5 DEF SendNeutral, SendInput, RelayRecv
  <2>6. QED
    BY <2>1, <2>2, <2>4, <2>5 DEF Session, RecvOther, Lower, LinkLost, Hangup
<1>5. LoopOK'
  <2>1. UNCHANGED loopVars /\ (backlog' = backlog \/ backlog' = Append(backlog, c))
    BY DEF Connect, Session, SendCreate, RecvAck, RecvOther, SendNeutral, SendInput, RelayRecv,
           Lower, LinkLost, Hangup, Step, Drop
  <2>2. backlog # <<>> => backlog' # <<>>
    BY <1>1, <2>1
  <2>3. QED
    BY <2>1, <2>2 DEF LoopOK, TypeInv, loopVars
<1>6. QED
  BY <1>2, <1>3, <1>4, <1>5, SessionFrame
  DEF TypeInv, TypeOK, HolderTypeOK, loopVars, padVars, devVars, boundVars

LEMMA TypeNext == TypeInv /\ [Next]_vars => TypeInv'
<1> SUFFICES ASSUME TypeInv, [Next]_vars PROVE TypeInv'
  OBVIOUS
<1>1. started' \in BOOLEAN
  BY StartedType
<1>2. CASE HolderNext /\ UNCHANGED sessVars
  BY <1>1, <1>2, KernelType, ListenType, FramesType, EventType, DownType
  DEF HolderNext, HolderLoop
<1>3. CASE \E c \in Conns :
              Connect(c) \/ Session(c) \/ SendInput(c) \/ Lower(c) \/ Hangup(c)
  BY <1>1, <1>3, SessionType
<1>4. CASE UNCHANGED vars
  <2>1. /\ UNCHANGED <<pc, ready, client, backlog, key, neutral, devPhase, devShape, devInput>>
        /\ UNCHANGED <<devEvents, link, rx, tx, refused, died, restarts, sess, want>>
    BY <1>4 DEF vars, holderVars, loopVars, padVars, devVars, sockVars, boundVars, sessVars
  <2>2. QED
    BY <1>1, <2>1 DEF TypeInv, TypeOK, HolderTypeOK, SessTypeOK, LoopOK
<1>5. QED
  BY <1>2, <1>3, <1>4 DEF Next

\* Type correctness: whatever the proxies, the kernel and the daemon do, every
\* variable keeps its type, the payload of a stored report and of every frame
\* in a socket included.
THEOREM TypeCorrect == Spec => []TypeOK
<1>1. TypeInv => TypeOK
  BY DEF TypeInv
<1>2. QED
  BY InitType, TypeNext, <1>1, PTL DEF Spec

-----------------------------------------------------------------------------
(* The create key and the device                                           *)

NoStop(q) == \A i \in 1..Len(q) : q[i] # "STOP"

\* What makes the key follow the device: a STOP is on the fd of a dead device
\* only, and an fd whose device was not added has nothing to read.
KeyInv ==
    /\ LiveMeansKey
    /\ Live => devShape \in Shapes /\ NoStop(devEvents)
    /\ devPhase \in {"closed", "created"} => devEvents = <<>> /\ ~started

LEMMA PostNoStop ==
  ASSUME NEW q \in Seq(Event), NEW e \in Event, NoStop(q), e # "STOP"
  PROVE  NoStop(Post(q, e)) /\ NoStop(Append(q, e))
BY DEF NoStop, Post

LEMMA TailNoStop ==
  ASSUME NEW q \in Seq(Event), q # <<>>, NoStop(q)
  PROVE  NoStop(Tail(q)) /\ Head(q) # "STOP"
BY DEF NoStop

\* A step that leaves the pad, its device and the fd alone, but for the last
\* input, keeps KeyInv.
LEMMA KeyKept ==
  ASSUME KeyInv, UNCHANGED <<key, started, devPhase, devShape, devEvents>>
  PROVE  KeyInv'
BY DEF KeyInv, LiveMeansKey, Live, NoStop

\* A step that leaves no live device behind keeps it too.
LEMMA KeyDead ==
  ASSUME devPhase' = "dead"
  PROVE  KeyInv'
BY DEF KeyInv, LiveMeansKey, Live

LEMMA KeyInit == Init => KeyInv
BY Zenon DEF Init, HolderInit, KeyInv, LiveMeansKey, Live

LEMMA KeyKernel ==
  ASSUME TypeInv, KeyInv, Kernel PROVE KeyInv'
<1>1. devEvents \in Seq(Event) /\ {"START", "OUTPUT", "REQ"} \subseteq Event
  BY DEF TypeInv, TypeOK, HolderTypeOK, Event
<1>2. CASE DevAdd
  <2>1. NoStop(devEvents)
    BY <1>2 DEF DevAdd, KeyInv, Live
  <2>2. NoStop(devEvents')
    BY <1>1, <1>2, <2>1, PostNoStop DEF DevAdd
  <2>3. QED
    BY <1>2, <2>2 DEF DevAdd, padVars, KeyInv, LiveMeansKey, Live
<1>3. CASE DevProbeFail
  BY <1>3, KeyDead DEF DevProbeFail, KernelDestroy
<1>4. CASE DevTalk
  <2>1. NoStop(devEvents)
    BY <1>4 DEF DevTalk, KeyInv, Live
  <2>2. NoStop(devEvents')
    BY <1>1, <1>4, <2>1, PostNoStop DEF DevTalk
  <2>3. QED
    BY <1>4, <2>2 DEF DevTalk, padVars, KeyInv, LiveMeansKey, Live
<1>5. QED
  BY <1>2, <1>3, <1>4 DEF Kernel

LEMMA KeyFrames ==
  ASSUME TypeInv, KeyInv, Frames PROVE KeyInv'
<1>1. CASE CreateReuse \/ StoreNeutral \/ ForwardReply
  BY <1>1, KeyKept DEF CreateReuse, StoreNeutral, ForwardReply, padVars, devVars
<1>2. CASE Input
  BY <1>2, KeyKept DEF Input, KernelInput, padVars, devVars
<1>3. CASE ClientGone
  BY <1>3, KeyKept DEF ClientGone, Park, KernelInput, padVars, devVars
<1>4. CASE CreateFail
  <2>1. CASE devPhase = "closed"
    BY <1>4, <2>1, Zenon DEF CreateFail, devVars, KeyInv, LiveMeansKey, Live
  <2>2. CASE devPhase # "closed"
    BY <1>4, <2>2, KeyDead DEF CreateFail, KernelDestroy
  <2>3. QED
    BY <2>1, <2>2
<1>5. CASE CreateNew
  <2>1. Wanted \in Shapes
    BY <1>5, ServedFrame DEF CreateNew, Wanted, Frame
  <2>2. /\ devPhase' = "created" /\ devShape' = Wanted /\ key' = Wanted
        /\ devEvents' = <<>> /\ ~started'
    BY <1>5, Zenon DEF CreateNew, NewFd
  <2>3. QED
    BY <2>1, <2>2 DEF KeyInv, LiveMeansKey, Live, NoStop
<1>6. CASE Destroy
  BY <1>6, Zenon DEF Destroy, Forget, KeyInv, LiveMeansKey, Live
<1>7. QED
  BY <1>1, <1>2, <1>3, <1>4, <1>5, <1>6 DEF Frames

LEMMA KeyEvents ==
  ASSUME TypeInv, KeyInv, EventStart \/ EventStop \/ EventForward \/ EventNone
  PROVE  KeyInv'
<1>1. CASE EventNone
  BY <1>1, KeyKept DEF EventNone, padVars, devVars
<1>2. CASE EventStart \/ EventStop \/ EventForward
  <2>1. /\ devEvents \in Seq(Event) /\ devEvents # <<>> /\ devEvents' = Tail(devEvents)
        /\ UNCHANGED <<devPhase, devShape>>
        /\ devPhase \notin {"closed", "created"}
    BY <1>2 DEF EventStart, EventStop, EventForward, NextEvent, TypeInv, TypeOK, HolderTypeOK,
                KeyInv
  <2>2. Live => NoStop(devEvents') /\ Head(devEvents) # "STOP"
    BY <2>1, TailNoStop DEF KeyInv
  <2>3. Live => key' = key
    BY <1>2, <2>2 DEF EventStart, EventStop, EventForward, padVars
  <2>4. QED
    BY <2>1, <2>2, <2>3 DEF KeyInv, LiveMeansKey, Live
<1>3. QED
  BY <1>1, <1>2

LEMMA KeyNext == TypeInv /\ KeyInv /\ [Next]_vars => KeyInv'
<1> SUFFICES ASSUME TypeInv, KeyInv, [Next]_vars PROVE KeyInv'
  OBVIOUS
<1>1. CASE Poll \/ Admit \/ Refuse
  BY <1>1, KeyKept DEF Poll, Admit, Refuse, padVars, devVars
<1>2. CASE HolderDown
  BY <1>2, Zenon DEF HolderDown, KeyInv, LiveMeansKey, Live
<1>3. CASE HolderStart
  BY <1>3, KeyKept DEF HolderStart, padVars, devVars
<1>4. CASE \E c \in Conns :
              Connect(c) \/ Session(c) \/ SendInput(c) \/ Lower(c) \/ Hangup(c)
  BY <1>4, SessionFrame, KeyKept DEF padVars, devVars
<1>5. CASE UNCHANGED vars
  BY <1>5, KeyKept DEF vars, holderVars, padVars, devVars
<1>6. QED
  BY <1>1, <1>2, <1>3, <1>4, <1>5, KeyKernel, KeyFrames, KeyEvents
  DEF Next, HolderNext, HolderLoop

\* The inductive invariant holds in every state.
LEMMA Inductive == Spec => [](TypeInv /\ KeyInv)
<1>1. TypeInv /\ KeyInv /\ [Next]_vars => (TypeInv /\ KeyInv)'
  BY TypeNext, KeyNext
<1>2. QED
  BY InitType, KeyInit, <1>1, PTL DEF Spec

\* A live pad has its own payload as the key, and `started' speaks of the device
\* behind the fd and no earlier one, for any number of proxies, any shapes,
\* refusals, failed probes and restarts.
THEOREM KnowsCorrect == Spec => []KnowsDevice
<1>1. TypeInv /\ KeyInv => KnowsDevice
  <2>1. KeyInv => LiveMeansKey
    BY DEF KeyInv
  <2>2. TypeInv /\ KeyInv => StartedMeansAdded
    BY DEF TypeInv, TypeOK, HolderTypeOK, KeyInv, StartedMeansAdded
  <2>3. QED
    BY <2>1, <2>2 DEF KnowsDevice
<1>2. QED
  BY Inductive, <1>1, PTL

-----------------------------------------------------------------------------
(* The daemon keeps the promise of VirtualPad                              *)

PadNow == IF Live THEN [shape |-> devShape, added |-> devPhase = "running"] ELSE None

LEMMA AddedRecord ==
  ASSUME NEW s, NEW a, NEW b
  PROVE  [[shape |-> s, added |-> a] EXCEPT !.added = b] = [shape |-> s, added |-> b]
BY SMT

LEMMA PromiseInit == Init => Promise!Init
BY DEF Init, HolderInit, Promise!Init, Live

\* A step that leaves the daemon up or down, the device and the client is a
\* stutter of the promise.
LEMMA PromiseStutter ==
  ASSUME (pc' # "down") = (pc # "down"), UNCHANGED <<devPhase, devShape, client>>
  PROVE  UNCHANGED Promise!vars
BY DEF Promise!vars, Live

\* What a client asks of the pad.
LEMMA PromiseFrames ==
  ASSUME TypeInv, KeyInv, Frames
  PROVE  [Promise!Next]_(Promise!vars)
<1>1. pc = "serve" /\ pc' # "down" /\ client # None
  BY DEF Frames, CreateReuse, CreateFail, CreateNew, Destroy, Input, StoreNeutral,
         ForwardReply, ClientGone, Serving, Consume, PassOn
<1>2. CASE CreateReuse \/ StoreNeutral \/ ForwardReply
  BY <1>1, <1>2, PromiseStutter
  DEF CreateReuse, StoreNeutral, ForwardReply, Consume, devVars
<1>3. CASE Input
  BY <1>1, <1>3, PromiseStutter DEF Input, Consume, KernelInput, devVars
<1>4. CASE ClientGone
  <2>1. UNCHANGED <<devPhase, devShape>> /\ client' = None
    BY <1>4 DEF ClientGone, Park, KernelInput, devVars
  <2>2. Promise!Release
    BY <1>1, <2>1 DEF Promise!Release, Live
  <2>3. QED
    BY <2>2 DEF Promise!Next
<1>5. CASE CreateFail
  <2>1. ~Live' /\ client' = client
    BY <1>5 DEF CreateFail, Consume, KernelDestroy, devVars, Live
  <2>2. Promise!Unplug
    BY <1>1, <2>1 DEF Promise!Unplug
  <2>3. QED
    BY <2>2 DEF Promise!Next
<1>6. CASE CreateNew
  <2>1. /\ Wanted \in Shapes /\ key # Wanted /\ client' = client
        /\ devPhase' = "created" /\ devShape' = Wanted
    BY <1>6, ServedFrame DEF CreateNew, Wanted, Frame, SamePayload, Consume
  <2>2. Live => devShape # Wanted
    BY <2>1 DEF KeyInv, LiveMeansKey
  <2>3. Promise!Plug(Wanted)
    BY <1>1, <2>1, <2>2 DEF Promise!Plug, Promise!Fresh, Live
  <2>4. QED
    BY <2>1, <2>3 DEF Promise!Next
<1>7. CASE Destroy
  <2>1. ~Live' /\ client' = client
    BY <1>7 DEF Destroy, Consume, Live
  <2>2. Promise!Unplug
    BY <1>1, <2>1 DEF Promise!Unplug
  <2>3. QED
    BY <2>2 DEF Promise!Next
<1>8. QED
  BY <1>2, <1>3, <1>4, <1>5, <1>6, <1>7 DEF Frames

LEMMA PromiseNext ==
  TypeInv /\ KeyInv /\ [Next]_vars => [Promise!Next]_(Promise!vars)
<1> SUFFICES ASSUME TypeInv, KeyInv, [Next]_vars
             PROVE  [Promise!Next]_(Promise!vars)
  OBVIOUS
<1>1. CASE Poll \/ Refuse
  BY <1>1, PromiseStutter DEF Poll, Refuse, PassOn, devVars, sockVars
<1>2. CASE Admit
  <2>1. /\ pc # "down" /\ pc' # "down" /\ client = None /\ client' = Head(backlog)
        /\ UNCHANGED <<devPhase, devShape>> /\ Head(backlog) \in Conns
    BY <1>2 DEF Admit, PassOn, devVars, TypeInv, TypeOK, HolderTypeOK, LoopOK
  <2>2. Promise!Acquire(Head(backlog))
    BY <2>1 DEF Promise!Acquire, Live
  <2>3. QED
    BY <2>1, <2>2 DEF Promise!Next
<1>3. CASE EventStart \/ EventStop \/ EventForward \/ EventNone
  BY <1>3, PromiseStutter
  DEF EventStart, EventStop, EventForward, EventNone, NextEvent, PassOn, devVars, sockVars
<1>4. CASE DevAdd
  <2>1. /\ Live /\ devPhase' = "running" /\ UNCHANGED <<pc, client, devShape>>
    BY <1>4 DEF DevAdd, Live, loopVars, sockVars
  <2>2. Live'
    BY <2>1 DEF Live
  <2>3. PadNow # None /\ PadNow' = [PadNow EXCEPT !.added = TRUE]
    <3>1. PadNow = [shape |-> devShape, added |-> FALSE]
      BY <1>4, <2>1 DEF PadNow, DevAdd
    <3>2. PadNow' = [shape |-> devShape, added |-> TRUE]
      BY <2>1, <2>2 DEF PadNow
    <3>3. [PadNow EXCEPT !.added = TRUE] = [shape |-> devShape, added |-> TRUE]
      BY <3>1, AddedRecord, Zenon
    <3>4. PadNow # None
      <4>1. devShape \in Shapes
        BY <2>1 DEF KeyInv
      <4>2. PadNow \in [shape : Shapes, added : BOOLEAN]
        BY <3>1, <4>1
      <4>3. QED
        BY <4>2 DEF SessionAssumption
    <3>5. QED
      BY <3>2, <3>3, <3>4, Zenon
  <2>4. Promise!KernelAdds
    BY <2>1, <2>3 DEF Promise!KernelAdds, PadNow
  <2>5. QED
    BY <2>4 DEF Promise!Next
<1>5. CASE DevProbeFail
  <2>1. ~Live' /\ UNCHANGED <<pc, client>>
    BY <1>5 DEF DevProbeFail, KernelDestroy, Live, loopVars, sockVars
  <2>2. Promise!KernelGivesUp
    BY <2>1 DEF Promise!KernelGivesUp
  <2>3. QED
    BY <2>2 DEF Promise!Next
<1>6. CASE DevTalk
  BY <1>6, PromiseStutter DEF DevTalk, loopVars, sockVars
<1>7. CASE HolderDown
  <2>1. Promise!Down
    BY <1>7 DEF HolderDown, Live, Promise!Down
  <2>2. QED
    BY <2>1 DEF Promise!Next
<1>8. CASE HolderStart
  <2>1. Promise!Up
    BY <1>8 DEF HolderStart, devVars, sockVars, Live, Promise!Up
  <2>2. QED
    BY <2>1 DEF Promise!Next
<1>9. CASE \E c \in Conns :
              Connect(c) \/ Session(c) \/ SendInput(c) \/ Lower(c) \/ Hangup(c)
  BY <1>9, SessionFrame, PromiseStutter DEF loopVars, devVars
<1>10. CASE UNCHANGED vars
  BY <1>10, PromiseStutter DEF vars, holderVars, loopVars, devVars, sockVars
<1>11. QED
  BY <1>1, <1>2, <1>3, <1>4, <1>5, <1>6, <1>7, <1>8, <1>9, <1>10, PromiseFrames
  DEF Next, HolderNext, HolderLoop, Kernel

\* The daemon implements VirtualPad: it never destroys or replaces a pad
\* unless the client being served asks for another shape or for none, for any
\* number of clients, refusals, failed probes and restarts.
THEOREM PromiseKept == Spec => KeepsPromise
<1>1. Spec => Promise!Init /\ [][Promise!Next]_(Promise!vars)
  BY PromiseInit, Inductive, PromiseNext, PTL DEF Spec
<1>2. QED
  BY <1>1 DEF KeepsPromise, Promise!Spec

=============================================================================
