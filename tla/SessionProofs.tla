---------------------------- MODULE SessionProofs ----------------------------
(***************************************************************************)
(* Proofs about what the proxies send and what becomes of it, for any      *)
(* number of connections, shapes, refusals, failed probes and restarts: an *)
(* input the kernel applied and the report the pad is parked with belong   *)
(* to the pad that is there.  The argument follows a frame through the     *)
(* socket: what is still in it (Stream), what the daemon has read of it    *)
(* (Heard, Prepared), what that means for the pad (Served, Padded).        *)
(***************************************************************************)
EXTENDS HolderProofs

USE HolderAssumption, SessionAssumption

Carrying == {"CREATE", "INPUT", "NEUTRAL"}
Open(c)  == link[c] \in {"up", "hup"}

\* Where the connections are: one end of an open one is the daemon's, and the
\* queue and the client are different open connections.
Placed ==
    /\ \A c \in Conns : /\ ~Open(c) => rx[c] = <<>>
                        /\ sess[c] # "off" <=> link[c] \in {"up", "cut"}
    /\ client # None => Open(client)
    /\ \A i \in 1..Len(backlog) : Open(backlog[i]) /\ backlog[i] # client
    /\ \A i, j \in 1..Len(backlog) : backlog[i] = backlog[j] => i = j

\* All frames of q that carry a shape carry s.
Of(q, s) == \A i \in 1..Len(q) : q[i].tag \in Carrying => q[i].shape = s

\* A CREATE comes first, a NEUTRAL right behind it, and it is the shape's own.
Ordered(q) ==
    \A i \in 1..Len(q) :
        /\ q[i].tag = "NEUTRAL" => q[i].val = NeutralOf(q[i].shape).val
        /\ i > 1 => /\ q[i].tag # "CREATE"
                    /\ q[i - 1].tag = "CREATE" <=> q[i].tag = "NEUTRAL"

\* What is in the socket agrees with how far its session is.
Sending(q, s) ==
    /\ s = "create" => q = <<>>
    /\ s \in {"wait", "neutral"} => \A i \in 1..Len(q) : q[i].tag = "CREATE"
    /\ s = "relay" /\ q # <<>> => q[Len(q)].tag # "CREATE"

Stream(c) ==
    /\ Ordered(rx[c]) /\ Sending(rx[c], sess[c])
    /\ \E s \in Shapes \cup {None} : Of(rx[c], s) /\ (sess[c] # "off" => want[c] = s)

Streams == \A c \in Conns : Stream(c)

\* The daemon has read the CREATE of a stream, and the NEUTRAL too.
Heard(c) == IF rx[c] = <<>> THEN sess[c] \in {"wait", "neutral", "relay"}
                            ELSE Head(rx[c]).tag # "CREATE"
Prepared(c) == IF rx[c] = <<>> THEN sess[c] = "relay"
                               ELSE Head(rx[c]).tag \notin {"CREATE", "NEUTRAL"}

Unheard == \A i \in 1..Len(backlog) : ~Heard(backlog[i])

\* A pad that is live after the client's CREATE was read is the client's, and
\* after its NEUTRAL, so is the stored report.
Served ==
    client # None /\ Live =>
        /\ Heard(client) => /\ Of(rx[client], devShape)
                            /\ sess[client] # "off" => want[client] = devShape
        /\ Prepared(client) => neutral = NeutralFor(devShape)

Padded ==
    /\ neutral # None => neutral.val = "rest"
    /\ devPhase = "created" => devInput = None
    /\ devPhase = "running" /\ devInput # None => started
    /\ Pressed => /\ devInput.shape = devShape
                  /\ devShape \in NeutralShapes => client # None /\ neutral # None

-----------------------------------------------------------------------------
(* Queues of frames                                                        *)

LEMMA TailQueue ==
  ASSUME NEW S, NEW q \in Seq(S), q # <<>>
  PROVE  /\ Tail(q) \in Seq(S) /\ Len(Tail(q)) = Len(q) - 1
         /\ \A i \in 1..Len(Tail(q)) : i + 1 \in 1..Len(q) /\ Tail(q)[i] = q[i + 1]
         /\ Head(q) = q[1] /\ 1 \in 1..Len(q) /\ Len(q) \in Nat
         /\ Tail(q) = <<>> => Len(q) = 1
<1>1. /\ Tail(q) \in Seq(S) /\ Len(Tail(q)) = Len(q) - 1
      /\ \A i \in 1..Len(Tail(q)) : i + 1 \in 1..Len(q) /\ Tail(q)[i] = q[i + 1]
      /\ Head(q) = q[1] /\ 1 \in 1..Len(q) /\ Len(q) \in Nat
  OBVIOUS
<1>2. ASSUME NEW e, e = <<>> PROVE Len(e) = 0
  BY <1>2
<1>3. Tail(q) = <<>> => Len(Tail(q)) = 0
  BY <1>2, Zenon
<1>4. Tail(q) = <<>> => Len(q) = 1
  BY <1>1, <1>3
<1>5. QED
  BY <1>1, <1>4, Zenon

LEMMA AppendQueue ==
  ASSUME NEW S, NEW q \in Seq(S), NEW f \in S
  PROVE  /\ Append(q, f) \in Seq(S) /\ Append(q, f) # <<>>
         /\ Len(Append(q, f)) = Len(q) + 1 /\ Len(q) \in Nat
         /\ \A i \in 1..Len(q) : Append(q, f)[i] = q[i]
         /\ Append(q, f)[Len(q) + 1] = f
OBVIOUS

\* Reading a frame leaves a queue in order.
LEMMA TailOf ==
  ASSUME NEW q \in Seq(Frame), q # <<>>, NEW s, Of(q, s)
  PROVE  Of(Tail(q), s)
BY TailQueue DEF Of

LEMMA TailOrdered ==
  ASSUME NEW q \in Seq(Frame), q # <<>>, Ordered(q)
  PROVE  Ordered(Tail(q))
<1> SUFFICES ASSUME NEW i \in 1..Len(Tail(q))
             PROVE  /\ Tail(q)[i].tag = "NEUTRAL" =>
                           Tail(q)[i].val = NeutralOf(Tail(q)[i].shape).val
                    /\ i > 1 => /\ Tail(q)[i].tag # "CREATE"
                                /\ Tail(q)[i - 1].tag = "CREATE" <=> Tail(q)[i].tag = "NEUTRAL"
  BY DEF Ordered
<1>1. i + 1 \in 1..Len(q) /\ Tail(q)[i] = q[i + 1] /\ i \in Nat
  BY TailQueue
<1>2. i > 1 => Tail(q)[i - 1] = q[i]
  <2>1. i > 1 => i - 1 \in 1..Len(Tail(q)) /\ (i - 1) + 1 = i
    BY <1>1, TailQueue
  <2>2. QED
    BY <2>1, TailQueue
<1>3. /\ q[i + 1].tag = "NEUTRAL" => q[i + 1].val = NeutralOf(q[i + 1].shape).val
      /\ i + 1 > 1 /\ (i + 1) - 1 = i
  BY <1>1 DEF Ordered
<1>4. q[i + 1].tag # "CREATE" /\ (q[i].tag = "CREATE" <=> q[i + 1].tag = "NEUTRAL")
  BY <1>1, <1>3 DEF Ordered
<1>5. QED
  BY <1>1, <1>2, <1>3, <1>4

LEMMA TailSending ==
  ASSUME NEW q \in Seq(Frame), q # <<>>, NEW s, Sending(q, s)
  PROVE  Sending(Tail(q), s)
<1>1. s # "create"
  BY DEF Sending
<1>2. s \in {"wait", "neutral"} => \A i \in 1..Len(Tail(q)) : Tail(q)[i].tag = "CREATE"
  BY TailQueue DEF Sending
<1>3. Tail(q) # <<>> => Tail(q)[Len(Tail(q))] = q[Len(q)]
  <2>1. Tail(q) # <<>> => Len(Tail(q)) \in 1..Len(Tail(q))
    BY TailQueue
  <2>2. QED
    BY <2>1, TailQueue
<1>4. QED
  BY <1>1, <1>2, <1>3 DEF Sending

LEMMA AppendOf ==
  ASSUME NEW q \in Seq(Frame), NEW f \in Frame, NEW s, Of(q, s),
         f.tag \in Carrying => f.shape = s
  PROVE  Of(Append(q, f), s)
BY AppendQueue DEF Of

LEMMA AppendOrdered ==
  ASSUME NEW q \in Seq(Frame), NEW f \in Frame, Ordered(q),
         f.tag = "NEUTRAL" => f.val = NeutralOf(f.shape).val,
         q # <<>> => (f.tag # "CREATE" /\ (q[Len(q)].tag = "CREATE" <=> f.tag = "NEUTRAL"))
  PROVE  Ordered(Append(q, f))
<1> SUFFICES ASSUME NEW i \in 1..Len(Append(q, f))
             PROVE  /\ Append(q, f)[i].tag = "NEUTRAL" =>
                           Append(q, f)[i].val = NeutralOf(Append(q, f)[i].shape).val
                    /\ i > 1 => /\ Append(q, f)[i].tag # "CREATE"
                                /\ Append(q, f)[i - 1].tag = "CREATE"
                                      <=> Append(q, f)[i].tag = "NEUTRAL"
  BY DEF Ordered
<1>1. CASE i \in 1..Len(q)
  <2>1. Append(q, f)[i] = q[i] /\ (i > 1 => Append(q, f)[i - 1] = q[i - 1])
    BY <1>1, AppendQueue
  <2>2. QED
    BY <1>1, <2>1 DEF Ordered
<1>2. CASE i = Len(q) + 1
  <2>1. Append(q, f)[i] = f
    BY <1>2, AppendQueue
  <2>2. i > 1 => q # <<>> /\ Append(q, f)[i - 1] = q[Len(q)]
    BY <1>2, AppendQueue
  <2>3. QED
    BY <2>1, <2>2
<1>3. QED
  BY <1>1, <1>2, AppendQueue

-----------------------------------------------------------------------------
(* Where the connections are                                               *)

\* A frame is read off the client's socket and nothing else moves.
LEMMA FrameRead ==
  ASSUME TypeInv, Frames, ~ClientGone
  PROVE  /\ client \in Conns /\ rx[client] \in Seq(Frame) /\ rx[client] # <<>>
         /\ Head(rx[client]) = rx[client][1] /\ Head(rx[client]) \in Frame
         /\ rx' = [rx EXCEPT ![client] = Tail(@)]
         /\ UNCHANGED <<client, backlog, link>>
<1>1. /\ Consume
      /\ \/ Serving("CREATE") \/ Serving("DESTROY") \/ Serving("INPUT")
         \/ Serving("NEUTRAL") \/ Serving("REPLY")
  BY DEF Frames, CreateReuse, CreateFail, CreateNew, Destroy, Input, StoreNeutral,
         ForwardReply
<1>2. client \in Conns /\ rx[client] \in Seq(Frame) /\ rx[client] # <<>>
  BY <1>1 DEF Serving, TypeInv, TypeOK, HolderTypeOK
<1>3. QED
  BY <1>1, <1>2 DEF Consume

\* What a session may do to its connection.
LEMMA SessionMoves ==
  ASSUME TypeInv, NEW c \in Conns,
         Connect(c) \/ Session(c) \/ SendInput(c) \/ Lower(c) \/ Hangup(c)
  PROVE  /\ \A d \in Conns \ {c} : /\ rx'[d] = rx[d] /\ sess'[d] = sess[d]
                                   /\ want'[d] = want[d] /\ link'[d] = link[d]
         /\ link[c] # "up" => rx'[c] = rx[c]
         /\ \/ Connect(c)
            \/ sess[c] # "off" /\ Drop(c)
            \/ /\ sess[c] # "off" /\ sess'[c] # "off" /\ want'[c] = want[c]
               /\ UNCHANGED <<link, backlog>>
<1>1. /\ sess \in [Conns -> {"off", "create", "wait", "neutral", "relay"}]
      /\ want \in [Conns -> Shapes \cup {None}] /\ rx \in [Conns -> Seq(Frame)]
      /\ link \in [Conns -> {"free", "up", "hup", "cut"}]
  BY DEF TypeInv, TypeOK, HolderTypeOK, SessTypeOK
<1>2. CASE Connect(c)
  BY <1>1, <1>2 DEF Connect
<1>3. CASE RecvOther(c) \/ LinkLost(c) \/ Hangup(c)
  BY <1>1, <1>3 DEF RecvOther, LinkLost, Hangup, Drop
<1>4. CASE Lower(c)
  BY <1>1, <1>4 DEF Lower, Send, Drop
<1>5. CASE SendCreate(c) \/ SendNeutral(c)
  BY <1>1, <1>5 DEF SendCreate, SendNeutral, Send, Step
<1>6. CASE SendInput(c)
  BY <1>1, <1>6 DEF SendInput, Send, Step
<1>7. CASE RecvAck(c)
  BY <1>1, <1>7 DEF RecvAck, Step
<1>8. CASE RelayRecv(c)
  BY <1>1, <1>8 DEF RelayRecv, Send, Step
<1>9. QED
  BY <1>2, <1>3, <1>4, <1>5, <1>6, <1>7, <1>8 DEF Session

LEMMA PlacedKept ==
  ASSUME Placed, UNCHANGED <<client, backlog, link, rx, sess>>
  PROVE  Placed'
BY DEF Placed, Open

LEMMA PlacedSession ==
  ASSUME TypeInv, Placed, NEW c \in Conns,
         Connect(c) \/ Session(c) \/ SendInput(c) \/ Lower(c) \/ Hangup(c)
  PROVE  Placed'
<1>1. /\ link \in [Conns -> {"free", "up", "hup", "cut"}] /\ rx \in [Conns -> Seq(Frame)]
      /\ sess \in [Conns -> {"off", "create", "wait", "neutral", "relay"}]
      /\ backlog \in Seq(Conns) /\ client' = client /\ client \in Conns \cup {None}
  BY SessionFrame DEF TypeInv, TypeOK, HolderTypeOK, SessTypeOK
<1>2. CASE Connect(c)
  <2>1. /\ link[c] = "free" /\ backlog' = Append(backlog, c) /\ rx' = rx
        /\ link' = [link EXCEPT ![c] = "up"] /\ sess' = [sess EXCEPT ![c] = "create"]
    BY <1>2 DEF Connect
  <2>2. client # c /\ \A i \in 1..Len(backlog) : backlog[i] # c
    BY <2>1 DEF Placed, Open
  <2>3. /\ \A d \in Conns : Open(d) => Open(d)'
        /\ Open(c)'
        /\ \A d \in Conns : (~Open(d))' => rx'[d] = <<>>
        /\ \A d \in Conns : sess'[d] # "off" <=> link'[d] \in {"up", "cut"}
    BY <1>1, <2>1 DEF Open, Placed
  <2>4. \A i \in 1..Len(backlog') :
           \/ (i = Len(backlog) + 1 /\ backlog'[i] = c)
           \/ (i \in 1..Len(backlog) /\ backlog'[i] = backlog[i])
    <3>1. /\ Len(backlog') = Len(backlog) + 1 /\ Len(backlog) \in Nat
          /\ \A i \in 1..Len(backlog) : backlog'[i] = backlog[i]
          /\ backlog'[Len(backlog) + 1] = c
      <4>1. backlog \in Seq(Conns) /\ c \in Conns
        BY <1>1
      <4>2. /\ Len(Append(backlog, c)) = Len(backlog) + 1 /\ Len(backlog) \in Nat
            /\ \A i \in 1..Len(backlog) : Append(backlog, c)[i] = backlog[i]
            /\ Append(backlog, c)[Len(backlog) + 1] = c
        BY <4>1
      <4>3. QED
        BY <2>1, <4>2, Zenon
    <3>2. \A i \in 1..(Len(backlog) + 1) : i = Len(backlog) + 1 \/ i \in 1..Len(backlog)
      BY <3>1
    <3>3. QED
      BY <3>1, <3>2, Zenon
  <2>5. \A i \in 1..Len(backlog) : backlog[i] \in Conns
    BY <1>1
  <2>6. \A i \in 1..Len(backlog') : link'[backlog'[i]] \in {"up", "hup"} /\ backlog'[i] # client'
    BY <1>1, <2>2, <2>3, <2>4, <2>5 DEF Placed, Open
  <2>7. \A i, j \in 1..Len(backlog') : backlog'[i] = backlog'[j] => i = j
    BY <2>2, <2>4 DEF Placed
  <2>8. client' # None => link'[client'] \in {"up", "hup"}
    BY <1>1, <2>3 DEF Placed, Open
  <2>9. QED
    BY <2>3, <2>6, <2>7, <2>8 DEF Placed, Open
<1>3. CASE sess[c] # "off" /\ Drop(c)
  <2>1. /\ link' = [link EXCEPT ![c] = IF @ = "up" THEN "hup" ELSE "free"]
        /\ sess' = [sess EXCEPT ![c] = "off"] /\ backlog' = backlog
        /\ link[c] \in {"up", "cut"}
        /\ link[c] # "up" => rx'[c] = rx[c]
        /\ \A d \in Conns \ {c} : rx'[d] = rx[d]
    BY <1>1, <1>3, SessionMoves DEF Drop, Placed
  <2>2. \A d \in Conns : (Open(d) <=> Open(d)') /\ (~Open(d) => rx'[d] = rx[d])
    BY <1>1, <2>1 DEF Open
  <2>3. \A d \in Conns : sess'[d] # "off" <=> link'[d] \in {"up", "cut"}
    BY <1>1, <2>1 DEF Placed
  <2>4. \A d \in Conns : (~Open(d))' => rx'[d] = <<>>
    BY <2>2 DEF Placed, Open
  <2>5. \A i \in 1..Len(backlog) : link'[backlog[i]] \in {"up", "hup"}
    BY <1>1, <2>2 DEF Placed, Open
  <2>6. client # None => link'[client] \in {"up", "hup"}
    BY <1>1, <2>2 DEF Placed, Open
  <2>7. client' = client /\ backlog' = backlog
    BY <1>1, <2>1
  <2>8. \A i \in 1..Len(backlog) : link'[backlog[i]] \in {"up", "hup"} /\ backlog[i] # client
    BY <2>5, Zenon DEF Placed
  <2>9. \A i \in 1..Len(backlog') : link'[backlog'[i]] \in {"up", "hup"} /\ backlog'[i] # client'
    BY <2>7, <2>8
  <2>10. \A i, j \in 1..Len(backlog') : backlog'[i] = backlog'[j] => i = j
    BY <2>7 DEF Placed
  <2>11. client' # None => link'[client'] \in {"up", "hup"}
    BY <2>6, <2>7
  <2>12. QED
    BY <2>3, <2>4, <2>9, <2>10, <2>11 DEF Placed, Open
<1>4. CASE sess[c] # "off" /\ sess'[c] # "off" /\ UNCHANGED <<link, backlog>>
  <2>1. /\ \A d \in Conns : sess'[d] # "off" <=> sess[d] # "off"
        /\ \A d \in Conns : link[d] # "up" => rx'[d] = rx[d]
    BY <1>4, SessionMoves
  <2>2. QED
    BY <1>1, <1>4, <2>1 DEF Placed, Open
<1>5. QED
  BY <1>2, <1>3, <1>4, SessionMoves

\* What accept() takes off the queue is none of those that stay in it, and not
\* the client.
LEMMA Taken ==
  ASSUME TypeInv, Placed, Admit \/ Refuse
  PROVE  /\ Head(backlog) \in Conns /\ Open(Head(backlog)) /\ Head(backlog) # client
         /\ \A i \in 1..Len(backlog') :
               /\ backlog'[i] \in Conns /\ Open(backlog'[i])
               /\ backlog'[i] # client /\ backlog'[i] # Head(backlog)
               /\ \E j \in 1..Len(backlog) : backlog'[i] = backlog[j]
         /\ \A i, j \in 1..Len(backlog') : backlog'[i] = backlog'[j] => i = j
         /\ \E j \in 1..Len(backlog) : Head(backlog) = backlog[j]
<1>1. backlog \in Seq(Conns) /\ backlog # <<>> /\ backlog' = Tail(backlog)
  BY DEF Admit, Refuse, TypeInv, TypeOK, HolderTypeOK, LoopOK
<1>2. /\ Head(backlog) = backlog[1] /\ 1 \in 1..Len(backlog)
      /\ \A i \in 1..Len(backlog') : i + 1 \in 1..Len(backlog) /\ backlog'[i] = backlog[i + 1]
  BY <1>1, TailQueue
<1>3. \A j \in 1..Len(backlog) : backlog[j] \in Conns
  BY <1>1
<1>4. \A j \in 1..Len(backlog) : backlog[j] \in Conns /\ Open(backlog[j]) /\ backlog[j] # client
  BY <1>3, Zenon DEF Placed
<1>5. Head(backlog) \in Conns /\ Open(Head(backlog)) /\ Head(backlog) # client
  BY <1>2, <1>4, Zenon
<1>6. \A i \in 1..Len(backlog') :
         backlog'[i] \in Conns /\ Open(backlog'[i]) /\ backlog'[i] # client
  BY <1>2, <1>4, Zenon
<1>7. \A i \in 1..Len(backlog') : i + 1 # 1
  OBVIOUS
<1>8. \A i \in 1..Len(backlog') : backlog'[i] # Head(backlog)
  BY <1>2, <1>7 DEF Placed
<1>9. \A i, j \in 1..Len(backlog') : backlog'[i] = backlog'[j] => i + 1 = j + 1
  BY <1>2 DEF Placed
<1>10. \A i, j \in 1..Len(backlog') : backlog'[i] = backlog'[j] => i = j
  BY <1>9
<1>11. \A i \in 1..Len(backlog') : \E j \in 1..Len(backlog) : backlog'[i] = backlog[j]
  BY <1>2, Zenon
<1>12. QED
  BY <1>2, <1>5, <1>6, <1>8, <1>10, <1>11, Zenon

LEMMA PlacedNext == TypeInv /\ Placed /\ [Next]_vars => Placed'
<1> SUFFICES ASSUME TypeInv, Placed, [Next]_vars PROVE Placed'
  OBVIOUS
<1>1. /\ link \in [Conns -> {"free", "up", "hup", "cut"}] /\ rx \in [Conns -> Seq(Frame)]
      /\ sess \in [Conns -> {"off", "create", "wait", "neutral", "relay"}]
      /\ backlog \in Seq(Conns) /\ client \in Conns \cup {None}
      /\ \A i \in 1..Len(backlog) : backlog[i] \in Conns
  BY DEF TypeInv, TypeOK, HolderTypeOK, SessTypeOK
<1>2. CASE Kernel /\ UNCHANGED sessVars
  BY <1>2, PlacedKept DEF Kernel, DevAdd, DevProbeFail, DevTalk, sockVars, sessVars
<1>3. CASE (EventStart \/ EventStop \/ EventForward \/ EventNone) /\ UNCHANGED sessVars
  BY <1>3, PlacedKept
  DEF EventStart, EventStop, EventForward, EventNone, NextEvent, sockVars, sessVars
<1>4. CASE (Poll \/ HolderStart) /\ UNCHANGED sessVars
  BY <1>4, PlacedKept DEF Poll, HolderStart, sockVars, sessVars
<1>5. CASE UNCHANGED vars
  BY <1>5, PlacedKept DEF vars, holderVars, sockVars, sessVars
<1>6. CASE HolderDown /\ UNCHANGED sessVars
  BY <1>1, <1>6 DEF HolderDown, Placed, Open, sessVars
<1>7. CASE Frames /\ ~ClientGone /\ UNCHANGED sessVars
  <2>1. UNCHANGED <<client, backlog, link, sess>>
    BY <1>7, FrameRead DEF sessVars
  <2>2. \A d \in Conns : rx[d] = <<>> => rx'[d] = <<>>
    BY <1>1, <1>7, FrameRead
  <2>3. QED
    BY <2>1, <2>2 DEF Placed, Open
<1>8. CASE ClientGone /\ UNCHANGED sessVars
  <2>1. /\ client \in Conns /\ client' = None /\ rx[client] = <<>>
        /\ link' = [link EXCEPT ![client] = "free"] /\ link[client] = "hup"
        /\ UNCHANGED <<backlog, rx, sess>>
    BY <1>1, <1>8 DEF ClientGone, Closed, sessVars
  <2>2. \A i \in 1..Len(backlog) : backlog[i] # None
    BY <1>1 DEF HolderAssumption
  <2>3. \A d \in Conns \ {client} : link'[d] = link[d]
    BY <1>1, <2>1
  <2>4. /\ \A d \in Conns : (~Open(d))' => rx'[d] = <<>>
        /\ \A d \in Conns : sess'[d] # "off" <=> link'[d] \in {"up", "cut"}
    BY <1>1, <2>1, <2>3 DEF Placed, Open
  <2>5. \A i \in 1..Len(backlog) : link'[backlog[i]] \in {"up", "hup"}
    BY <1>1, <2>3 DEF Placed, Open
  <2>6. \A i \in 1..Len(backlog) : backlog'[i] # client'
    BY <2>1, <2>2
  <2>7. \A i, j \in 1..Len(backlog') : backlog'[i] = backlog'[j] => i = j
    BY <2>1 DEF Placed
  <2>8. UNCHANGED backlog /\ client' = None
    BY <2>1
  <2>9. (\A i \in 1..Len(backlog) : Open(backlog[i]) /\ backlog[i] # client)'
    BY <2>5, <2>6, <2>8 DEF Open
  <2>10. (client # None => Open(client))'
    BY <2>8
  <2>11. QED
    BY <2>4, <2>7, <2>9, <2>10, Zenon DEF Placed
<1>11. CASE Admit /\ UNCHANGED sessVars
  <2>1. UNCHANGED <<link, rx, sess>> /\ client' = Head(backlog)
    BY <1>11 DEF Admit, sessVars
  <2>2. QED
    BY <1>11, <2>1, Taken DEF Placed, Open
<1>12. CASE Refuse /\ UNCHANGED sessVars
  <2>1. /\ link' = [link EXCEPT ![Head(backlog)] = IF @ = "up" THEN "cut" ELSE "free"]
        /\ rx' = [rx EXCEPT ![Head(backlog)] = <<>>] /\ UNCHANGED <<client, sess>>
    BY <1>12 DEF Refuse, Closed, sessVars
  <2>2. \A d \in Conns \ {Head(backlog)} : link'[d] = link[d] /\ rx'[d] = rx[d]
    BY <1>1, <2>1
  <2>3. rx'[Head(backlog)] = <<>> /\ link'[Head(backlog)] \in {"cut", "free"}
        /\ (link[Head(backlog)] = "up" <=> link'[Head(backlog)] = "cut")
    BY <1>1, <1>12, Taken, <2>1
  <2>4. \A d \in Conns : (~Open(d))' => rx'[d] = <<>>
    BY <2>2, <2>3 DEF Placed, Open
  <2>5. \A d \in Conns : sess'[d] # "off" <=> link'[d] \in {"up", "cut"}
    BY <1>12, Taken, <2>1, <2>2, <2>3 DEF Placed, Open
  <2>6. \A d \in Conns \ {Head(backlog)} : Open(d) => Open(d)'
    BY <2>2 DEF Open
  <2>7. QED
    BY <1>1, <1>12, Taken, <2>1, <2>4, <2>5, <2>6 DEF Placed, Open
<1>13. CASE \E c \in Conns :
               Connect(c) \/ Session(c) \/ SendInput(c) \/ Lower(c) \/ Hangup(c)
  BY <1>13, PlacedSession
<1>14. QED
  BY <1>2, <1>3, <1>4, <1>5, <1>6, <1>7, <1>8, <1>11, <1>12, <1>13
  DEF Next, HolderNext, HolderLoop, Frames, Kernel

-----------------------------------------------------------------------------
(* What is in the sockets                                                  *)

\* What a session appends to its stream, and where it is then.
Sends(c, f) ==
    /\ link[c] = "up" /\ rx'[c] = Append(rx[c], f) /\ f \in Frame
    /\ f.tag \in Carrying => f.shape = want[c]
    /\ \/ sess[c] = "create" /\ f.tag = "CREATE" /\ sess'[c] \in {"wait", "neutral"}
       \/ /\ sess[c] = "neutral" /\ f.tag = "NEUTRAL" /\ sess'[c] = "relay"
          /\ f.val = NeutralOf(f.shape).val
       \/ sess[c] = "relay" /\ f.tag \notin {"CREATE", "NEUTRAL"} /\ sess'[c] \in {"relay", "off"}

\* What it does without sending: it ends, stays where it is, hears the answer
\* to its CREATE, or sends into a connection the daemon has cut.
Silent(c) ==
    /\ rx'[c] = rx[c]
    /\ \/ sess'[c] \in {"off", sess[c]}
       \/ sess[c] = "wait" /\ sess'[c] = "neutral"
       \/ rx[c] = <<>> /\ ~Open(c) /\ sess'[c] = "relay"

LEMMA SessionSends ==
  ASSUME TypeInv, Placed, NEW c \in Conns, Session(c) \/ SendInput(c) \/ Lower(c) \/ Hangup(c)
  PROVE  /\ sess[c] # "off" /\ (sess'[c] # "off" => want'[c] = want[c])
         /\ Silent(c) \/ \E f \in Frame : Sends(c, f)
<1>1. /\ sess \in [Conns -> {"off", "create", "wait", "neutral", "relay"}]
      /\ want \in [Conns -> Shapes \cup {None}] /\ rx \in [Conns -> Seq(Frame)]
      /\ link \in [Conns -> {"free", "up", "hup", "cut"}]
      /\ sess[c] # "off" => want[c] \in Shapes
  BY DEF TypeInv, TypeOK, HolderTypeOK, SessTypeOK
<1>2. link[c] # "up" => ~Open(c) \/ sess[c] = "off"
  BY DEF Placed, Open
<1>3. ~Open(c) => rx[c] = <<>>
  BY DEF Placed
<1>4. CASE RecvOther(c) \/ LinkLost(c) \/ Hangup(c)
  BY <1>1, <1>4 DEF RecvOther, LinkLost, Hangup, Drop, Silent
<1>5. CASE RecvAck(c)
  BY <1>1, <1>5 DEF RecvAck, Step, Silent
<1>6. CASE SendCreate(c)
  <2> DEFINE f == [tag |-> "CREATE", shape |-> want[c], val |-> None]
  <2>1. sess[c] = "create" /\ link[c] = "up" /\ sess'[c] \in {"wait", "neutral"} /\ want' = want
    BY <1>1, <1>6 DEF SendCreate, Step
  <2>2. rx'[c] = Append(rx[c], f)
    BY <1>1, <1>6, <2>1 DEF SendCreate, Send
  <2>3. f \in Frame /\ f.tag = "CREATE" /\ f.shape = want[c]
    BY <1>1, <2>1 DEF Frame
  <2>4. Sends(c, f)
    BY <2>1, <2>2, <2>3 DEF Sends
  <2>5. QED
    BY <2>1, <2>3, <2>4
<1>7. CASE SendNeutral(c)
  <2> DEFINE f == NeutralOf(want[c])
  <2>1. sess[c] = "neutral" /\ sess'[c] = "relay" /\ want' = want
    BY <1>1, <1>7 DEF SendNeutral, Step
  <2>2. rx'[c] = IF link[c] = "up" THEN Append(rx[c], f) ELSE rx[c]
    BY <1>1, <1>7 DEF SendNeutral, Send
  <2>3. /\ f \in Frame /\ f.tag = "NEUTRAL" /\ f.shape = want[c]
        /\ f.val = NeutralOf(f.shape).val
    BY <1>1, <2>1 DEF NeutralOf, Frame, Values
  <2>4. CASE link[c] = "up"
    <3>1. Sends(c, f)
      BY <2>1, <2>2, <2>3, <2>4 DEF Sends
    <3>2. QED
      BY <2>1, <2>3, <3>1
  <2>5. CASE link[c] # "up"
    BY <1>2, <1>3, <2>1, <2>2, <2>5 DEF Silent
  <2>6. QED
    BY <2>4, <2>5
<1>8. ASSUME NEW f \in Frame, sess[c] = "relay", f.tag \notin {"CREATE", "NEUTRAL"},
             f.tag \in Carrying => f.shape = want[c],
             Send(c, f), sess'[c] \in {"relay", "off"}
      PROVE  Silent(c) \/ Sends(c, f)
  <2>1. rx'[c] = IF link[c] = "up" THEN Append(rx[c], f) ELSE rx[c]
    BY <1>1, <1>8 DEF Send
  <2>2. QED
    BY <1>8, <2>1 DEF Sends, Silent
<1>9. CASE SendInput(c)
  <2>1. sess[c] = "relay" /\ sess'[c] = "relay" /\ want' = want
    BY <1>1, <1>9 DEF SendInput, Step
  <2>2. PICK v \in Values : Send(c, [tag |-> "INPUT", shape |-> want[c], val |-> v])
    BY <1>9 DEF SendInput
  <2>3. LET f == [tag |-> "INPUT", shape |-> want[c], val |-> v]
        IN  f \in Frame /\ f.tag = "INPUT" /\ f.shape = want[c]
    BY <1>1, <2>1 DEF Frame
  <2>4. QED
    BY <1>8, <2>1, <2>2, <2>3
<1>10. CASE RelayRecv(c)
  <2> DEFINE f == [tag |-> "REPLY", shape |-> None, val |-> None]
  <2>1. sess[c] = "relay" /\ sess'[c] = "relay" /\ want' = want /\ (rx' = rx \/ Send(c, f))
    BY <1>1, <1>10 DEF RelayRecv, Step
  <2>2. f \in Frame /\ f.tag = "REPLY"
    BY DEF Frame
  <2>3. QED
    BY <1>8, <2>1, <2>2 DEF Carrying, Silent
<1>11. CASE Lower(c)
  <2> DEFINE f == [tag |-> "DESTROY", shape |-> None, val |-> None]
  <2>1. sess[c] = "relay" /\ sess'[c] = "off" /\ Send(c, f)
    BY <1>1, <1>11 DEF Lower, Drop
  <2>2. f \in Frame /\ f.tag = "DESTROY"
    BY DEF Frame
  <2>3. QED
    BY <1>8, <2>1, <2>2 DEF Carrying
<1>12. QED
  BY <1>4, <1>5, <1>6, <1>7, <1>9, <1>10, <1>11 DEF Session

\* A stream that is left alone is one still, and so is one that is cut off.
LEMMA StreamKept ==
  ASSUME NEW c, Stream(c), sess'[c] = sess[c], want'[c] = want[c], rx'[c] \in {rx[c], <<>>}
  PROVE  Stream(c)'
<1>1. CASE rx'[c] = rx[c]
  BY <1>1 DEF Stream
<1>2. CASE rx'[c] = <<>>
  <2>1. Ordered(<<>>) /\ Sending(<<>>, sess[c]) /\ \A s \in Shapes \cup {None} : Of(<<>>, s)
    BY DEF Ordered, Sending, Of
  <2>2. QED
    BY <1>2, <2>1 DEF Stream
<1>3. QED
  BY <1>1, <1>2

LEMMA StreamSends ==
  ASSUME TypeInv, NEW c \in Conns, Stream(c), NEW f \in Frame, Sends(c, f), sess[c] # "off",
         sess'[c] # "off" => want'[c] = want[c]
  PROVE  Stream(c)'
<1>1. rx[c] \in Seq(Frame) /\ rx'[c] = Append(rx[c], f)
  BY DEF Sends, TypeInv, TypeOK, HolderTypeOK
<1>2. Of(rx[c], want[c]) /\ want[c] \in Shapes
  BY DEF Stream, TypeInv, TypeOK, SessTypeOK
<1>3. Of(rx'[c], want[c])
  BY <1>1, <1>2, AppendOf DEF Sends
<1>4. rx[c] # <<>> => /\ Len(rx[c]) \in 1..Len(rx[c])
                      /\ sess[c] # "create"
                      /\ sess[c] = "neutral" => rx[c][Len(rx[c])].tag = "CREATE"
                      /\ sess[c] = "relay" => rx[c][Len(rx[c])].tag # "CREATE"
  BY <1>1 DEF Stream, Sending
<1>5. Ordered(rx'[c])
  <2>1. f.tag = "NEUTRAL" => f.val = NeutralOf(f.shape).val
    BY DEF Sends
  <2>2. rx[c] # <<>> => /\ f.tag # "CREATE"
                        /\ rx[c][Len(rx[c])].tag = "CREATE" <=> f.tag = "NEUTRAL"
    BY <1>4 DEF Sends
  <2>3. Ordered(rx[c])
    BY DEF Stream
  <2>4. QED
    BY <1>1, <2>1, <2>2, <2>3, AppendOrdered
<1>6. Sending(rx'[c], sess'[c])
  <2>1. /\ rx'[c] # <<>> /\ Len(rx'[c]) = Len(rx[c]) + 1 /\ rx'[c][Len(rx[c]) + 1] = f
    BY <1>1
  <2>2. sess[c] = "create" => rx[c] = <<>> /\ Len(rx[c]) = 0
    BY DEF Stream, Sending
  <2>3. sess'[c] \in {"wait", "neutral"} => \A i \in 1..Len(rx'[c]) : rx'[c][i].tag = "CREATE"
    BY <2>1, <2>2 DEF Sends
  <2>4. sess'[c] # "create" /\ (sess'[c] = "relay" => f.tag # "CREATE")
    BY DEF Sends
  <2>5. QED
    BY <2>1, <2>3, <2>4 DEF Sending
<1>7. QED
  BY <1>2, <1>3, <1>5, <1>6 DEF Stream

LEMMA StreamSession ==
  ASSUME TypeInv, Placed, Streams, NEW c \in Conns,
         Connect(c) \/ Session(c) \/ SendInput(c) \/ Lower(c) \/ Hangup(c)
  PROVE  Streams'
<1>1. \A d \in Conns \ {c} : Stream(d)'
  BY SessionMoves, StreamKept DEF Streams
<1>2. Stream(c)
  BY DEF Streams
<1>3. CASE Connect(c)
  <2>1. /\ rx'[c] = <<>> /\ sess'[c] = "create"
    BY <1>3 DEF Connect, Placed, Open, TypeInv, TypeOK, HolderTypeOK, SessTypeOK
  <2>2. \E s \in Shapes : want'[c] = s
    BY <1>3 DEF Connect, TypeInv, TypeOK, SessTypeOK
  <2>3. Ordered(<<>>) /\ Sending(<<>>, "create") /\ \A s \in Shapes \cup {None} : Of(<<>>, s)
    BY DEF Ordered, Sending, Of
  <2>4. Stream(c)'
    BY <2>1, <2>2, <2>3 DEF Stream
  <2>5. QED
    BY <1>1, <2>4 DEF Streams
<1>4. ASSUME Session(c) \/ SendInput(c) \/ Lower(c) \/ Hangup(c) PROVE Stream(c)'
  <2>1. CASE \E f \in Frame : Sends(c, f)
    BY <1>2, <1>4, <2>1, SessionSends, StreamSends
  <2>2. CASE Silent(c)
    <3>1. rx'[c] = rx[c] /\ (sess'[c] # "off" => want'[c] = want[c]) /\ sess[c] # "off"
      BY <1>4, <2>2, SessionSends DEF Silent
    <3>2. Sending(rx[c], sess'[c])
      BY <1>2, <2>2 DEF Silent, Stream, Sending
    <3>3. QED
      BY <1>2, <3>1, <3>2 DEF Stream
  <2>3. QED
    BY <1>4, <2>1, <2>2, SessionSends
<1>5. QED
  BY <1>1, <1>3, <1>4 DEF Streams

LEMMA StreamsNext == TypeInv /\ Placed /\ Streams /\ [Next]_vars => Streams'
<1> SUFFICES ASSUME TypeInv, Placed, Streams, [Next]_vars PROVE Streams'
  OBVIOUS
<1>1. rx \in [Conns -> Seq(Frame)] /\ backlog \in Seq(Conns)
  BY DEF TypeInv, TypeOK, HolderTypeOK
<1>2. ASSUME UNCHANGED <<sess, want>>, \A c \in Conns : rx'[c] \in {rx[c], <<>>}
      PROVE  Streams'
  BY <1>2, StreamKept DEF Streams
<1>3. CASE HolderNext /\ ~Frames /\ UNCHANGED sessVars
  <2>1. CASE Refuse
    BY <1>1, <1>2, <1>3, <2>1 DEF Refuse, sessVars
  <2>2. CASE HolderDown
    BY <1>1, <1>2, <1>3, <2>2 DEF HolderDown, sessVars
  <2>3. CASE EventStart \/ EventStop \/ EventForward \/ EventNone
    BY <1>2, <1>3, <2>3
    DEF EventStart, EventStop, EventForward, EventNone, NextEvent, sockVars, sessVars
  <2>4. CASE Poll \/ Admit \/ HolderStart \/ Kernel
    BY <1>2, <1>3, <2>4
    DEF Poll, Admit, HolderStart, Kernel, DevAdd, DevProbeFail, DevTalk, sockVars, sessVars
  <2>5. QED
    BY <1>3, <2>1, <2>2, <2>3, <2>4 DEF HolderNext, HolderLoop
<1>4. CASE ClientGone /\ UNCHANGED sessVars
  BY <1>2, <1>4 DEF ClientGone, sessVars
<1>5. CASE Frames /\ ~ClientGone /\ UNCHANGED sessVars
  <2>1. /\ client \in Conns /\ rx[client] \in Seq(Frame) /\ rx[client] # <<>>
        /\ rx' = [rx EXCEPT ![client] = Tail(@)] /\ UNCHANGED <<client, sess, want>>
    BY <1>5, FrameRead DEF sessVars
  <2>2. rx'[client] = Tail(rx[client]) /\ Stream(client)
    BY <1>1, <2>1 DEF Streams
  <2>3. Stream(client)'
    <3>1. Ordered(Tail(rx[client])) /\ Sending(Tail(rx[client]), sess[client])
      BY <2>1, <2>2, TailOrdered, TailSending DEF Stream
    <3>2. \E s \in Shapes \cup {None} :
             Of(Tail(rx[client]), s) /\ (sess[client] # "off" => want[client] = s)
      BY <2>1, <2>2, TailOf DEF Stream
    <3>3. QED
      BY <2>1, <2>2, <3>1, <3>2 DEF Stream
  <2>4. \A c \in Conns \ {client} : Stream(c)'
    BY <1>1, <2>1, StreamKept DEF Streams
  <2>5. QED
    BY <2>1, <2>3, <2>4 DEF Streams
<1>6. CASE \E c \in Conns :
              Connect(c) \/ Session(c) \/ SendInput(c) \/ Lower(c) \/ Hangup(c)
  BY <1>6, StreamSession
<1>7. CASE UNCHANGED vars
  BY <1>2, <1>7 DEF vars, holderVars, sockVars, sessVars
<1>8. QED
  BY <1>3, <1>4, <1>5, <1>6, <1>7 DEF Next

-----------------------------------------------------------------------------
(* What the daemon has heard                                               *)

\* A session's own steps never make the daemon hear anything new: what it has
\* read, it has read.  What they add is of the shape the session announced.
LEMMA SessionHeard ==
  ASSUME TypeInv, Placed, Streams, NEW c \in Conns, Open(c),
         Session(c) \/ SendInput(c) \/ Lower(c) \/ Hangup(c)
  PROVE  /\ sess[c] # "off"
         /\ Heard(c)' => Heard(c)
         /\ Prepared(c)' => Prepared(c)
         /\ sess'[c] # "off" => want'[c] = want[c]
         /\ Of(rx[c], want[c]) => Of(rx'[c], want[c])
<1>1. rx[c] \in Seq(Frame) /\ sess[c] # "off"
  BY SessionSends DEF TypeInv, TypeOK, HolderTypeOK
<1>2. CASE Silent(c)
  BY <1>1, <1>2, SessionSends DEF Silent, Heard, Prepared
<1>3. CASE \E f \in Frame : Sends(c, f)
  <2>1. PICK f \in Frame : Sends(c, f)
    BY <1>3
  <2>2. rx'[c] = Append(rx[c], f) /\ rx'[c] # <<>> /\ (f.tag \in Carrying => f.shape = want[c])
    BY <1>1, <2>1 DEF Sends
  <2>3. Of(rx[c], want[c]) => Of(rx'[c], want[c])
    BY <1>1, <2>2, AppendOf
  <2>4. CASE rx[c] # <<>>
    <3>1. Head(rx'[c]) = Head(rx[c])
      BY <1>1, <2>2, <2>4
    <3>2. (Heard(c)' => Heard(c)) /\ (Prepared(c)' => Prepared(c))
      BY <2>2, <2>4, <3>1 DEF Heard, Prepared
    <3>3. QED
      BY <1>1, <2>3, <3>2, SessionSends
  <2>5. CASE rx[c] = <<>>
    <3>1. Head(rx'[c]) = f
      BY <1>1, <2>2, <2>5
    <3>2. (Heard(c)' => Heard(c)) /\ (Prepared(c)' => Prepared(c))
      BY <2>1, <2>2, <2>5, <3>1 DEF Heard, Prepared, Sends
    <3>3. QED
      BY <1>1, <2>3, <3>2, SessionSends
  <2>6. QED
    BY <2>4, <2>5
<1>4. QED
  BY <1>2, <1>3, SessionSends

LEMMA UnheardNext ==
  TypeInv /\ Placed /\ Streams /\ Unheard /\ [Next]_vars => Unheard'
<1> SUFFICES ASSUME TypeInv, Placed, Streams, Unheard, [Next]_vars PROVE Unheard'
  OBVIOUS
<1>1. /\ rx \in [Conns -> Seq(Frame)] /\ backlog \in Seq(Conns)
      /\ sess \in [Conns -> {"off", "create", "wait", "neutral", "relay"}]
      /\ \A i \in 1..Len(backlog) :
            backlog[i] \in Conns /\ Open(backlog[i]) /\ backlog[i] # client
  BY DEF Placed, TypeInv, TypeOK, HolderTypeOK, SessTypeOK
<1>2. ASSUME \A i \in 1..Len(backlog') :
                /\ \E j \in 1..Len(backlog) : backlog'[i] = backlog[j]
                /\ rx'[backlog'[i]] = rx[backlog'[i]] /\ sess'[backlog'[i]] = sess[backlog'[i]]
      PROVE  Unheard'
  BY <1>2 DEF Unheard, Heard
<1>3. CASE HolderNext /\ UNCHANGED sessVars
  <2>1. CASE Admit \/ Refuse
    <3>1. /\ Head(backlog) \in Conns
          /\ \A i \in 1..Len(backlog') :
                /\ backlog'[i] \in Conns /\ backlog'[i] # Head(backlog)
                /\ \E j \in 1..Len(backlog) : backlog'[i] = backlog[j]
      BY <2>1, Taken
    <3>2. sess' = sess /\ \A c \in Conns \ {Head(backlog)} : rx'[c] = rx[c]
      BY <1>1, <1>3, <2>1 DEF Admit, Refuse, sessVars
    <3>3. QED
      BY <1>2, <3>1, <3>2
  <2>2. CASE HolderDown
    BY <2>2 DEF HolderDown, Unheard
  <2>3. CASE ClientGone
    BY <1>2, <1>3, <2>3 DEF ClientGone, sessVars
  <2>4. CASE Frames /\ ~ClientGone
    <3>1. /\ backlog' = backlog /\ sess' = sess
          /\ \A c \in Conns \ {client} : rx'[c] = rx[c]
      BY <1>1, <1>3, <2>4, FrameRead DEF sessVars
    <3>2. QED
      BY <1>1, <1>2, <3>1
  <2>5. CASE EventStart \/ EventStop \/ EventForward \/ EventNone
    BY <1>2, <1>3, <2>5
    DEF EventStart, EventStop, EventForward, EventNone, NextEvent, sockVars, sessVars
  <2>6. CASE Poll \/ HolderStart \/ Kernel
    BY <1>2, <1>3, <2>6
    DEF Poll, HolderStart, Kernel, DevAdd, DevProbeFail, DevTalk, sockVars, sessVars
  <2>7. QED
    BY <1>3, <2>1, <2>2, <2>3, <2>4, <2>5, <2>6 DEF HolderNext, HolderLoop
<1>4. ASSUME NEW c \in Conns, Connect(c) PROVE Unheard'
  <2>1. /\ backlog' = Append(backlog, c) /\ rx' = rx /\ sess' = [sess EXCEPT ![c] = "create"]
        /\ link[c] = "free"
    BY <1>4 DEF Connect
  <2>2. rx'[c] = <<>> /\ sess'[c] = "create"
    BY <1>1, <2>1 DEF Placed, Open
  <2>3. ~Heard(c)'
    BY <2>2 DEF Heard
  <2>4. \A i \in 1..Len(backlog) : backlog[i] # c /\ ~Heard(backlog[i])
    BY <1>1, <2>1 DEF Unheard, Open
  <2>5. \A d \in Conns \ {c} : Heard(d)' = Heard(d)
    BY <1>1, <2>1 DEF Heard
  <2>6. \A d \in Conns : (\E i \in 1..Len(backlog) : d = backlog[i]) => ~Heard(d)'
    BY <2>4, <2>5
  <2>7. \A i \in 1..Len(backlog') :
           backlog'[i] = c \/ \E j \in 1..Len(backlog) : backlog'[i] = backlog[j]
    BY <1>1, <2>1
  <2>8. \A d \in Conns : (\E i \in 1..Len(backlog') : d = backlog'[i]) => ~Heard(d)'
    BY <2>3, <2>6, <2>7, Zenon
  <2>9. \A i \in 1..Len(backlog') : backlog'[i] \in Conns
    BY <1>1, <2>7
  <2>10. QED
    BY <2>8, <2>9 DEF Unheard, Heard
<1>5. ASSUME NEW c \in Conns, Session(c) \/ SendInput(c) \/ Lower(c) \/ Hangup(c)
      PROVE  Unheard'
  <2>1. backlog' = backlog /\ \A d \in Conns \ {c} : rx'[d] = rx[d] /\ sess'[d] = sess[d]
    <3>1. backlog' = backlog
      BY <1>5 DEF Session, SendCreate, RecvAck, RecvOther, SendNeutral, SendInput, RelayRecv,
                  Lower, LinkLost, Hangup, Step, Drop
    <3>2. QED
      BY <1>5, <3>1, SessionMoves
  <2>2. Open(c) /\ ~Heard(c) => ~Heard(c)'
    BY <1>5, SessionHeard
  <2>3. \A d \in Conns : Open(d) /\ ~Heard(d) => ~Heard(d)'
    BY <2>1, <2>2 DEF Heard
  <2>4. \A i \in 1..Len(backlog) : backlog[i] \in Conns /\ Open(backlog[i]) /\ ~Heard(backlog[i])
    BY <1>1 DEF Unheard
  <2>5. QED
    BY <2>1, <2>3, <2>4 DEF Unheard, Heard
<1>6. CASE UNCHANGED vars
  BY <1>2, <1>6 DEF vars, holderVars, sockVars, sessVars
<1>7. QED
  BY <1>3, <1>4, <1>5, <1>6 DEF Next

-----------------------------------------------------------------------------
(* What that means for the pad                                             *)

\* The report a NEUTRAL leaves in the daemon.
LEMMA StoredFits ==
  ASSUME NEW f \in Frame, f.tag = "NEUTRAL", f.val = NeutralOf(f.shape).val
  PROVE  Stored(f) = NeutralFor(f.shape) /\ (Stored(f) # None => Stored(f).val = "rest")
BY DEF Stored, NeutralOf, NeutralFor, Values

LEMMA NeutralIsReport ==
  ASSUME NEW s \in Shapes PROVE s \in NeutralShapes => NeutralFor(s) # None
<1>1. [shape |-> s, val |-> "rest"] \in Report
  BY DEF Report, Values
<1>2. QED
  BY <1>1 DEF NeutralFor, SessionAssumption

\* A CREATE that was read is the first frame of its session: all that follows
\* is of its shape, and the NEUTRAL is still to be read.
LEMMA CreateRead ==
  ASSUME TypeInv, Streams, Serving("CREATE"), Consume
  PROVE  /\ Of(rx'[client], Wanted)
         /\ sess[client] # "off" => want[client] = Wanted
         /\ rx'[client] = <<>> => sess[client] # "relay"
         /\ rx'[client] # <<>> => Head(rx'[client]).tag = "NEUTRAL"
<1> DEFINE q == rx[client]
<1>1. /\ client \in Conns /\ q \in Seq(Frame) /\ q # <<>> /\ Head(q).tag = "CREATE"
      /\ rx'[client] = Tail(q) /\ Stream(client)
  BY DEF Serving, Consume, Streams, TypeInv, TypeOK, HolderTypeOK
<1>2. PICK s \in Shapes \cup {None} : Of(q, s) /\ (sess[client] # "off" => want[client] = s)
  BY <1>1 DEF Stream
<1>3. Head(q) = q[1] /\ 1 \in 1..Len(q)
  BY <1>1, TailQueue
<1>4. Wanted = s
  BY <1>1, <1>2, <1>3 DEF Of, Wanted, Carrying
<1>5. Of(Tail(q), Wanted)
  BY <1>1, <1>2, <1>4, TailOf
<1>6. Tail(q) # <<>> => Head(Tail(q)).tag = "NEUTRAL"
  <2>1. Tail(q) # <<>> => 2 \in 1..Len(q) /\ Head(Tail(q)) = q[2]
    BY <1>1
  <2>2. 2 \in 1..Len(q) => (q[1].tag = "CREATE" <=> q[2].tag = "NEUTRAL")
    <3>1. \A i \in 1..Len(q) : i > 1 => (q[i - 1].tag = "CREATE" <=> q[i].tag = "NEUTRAL")
      BY <1>1 DEF Stream, Ordered
    <3>2. 2 > 1 /\ 2 - 1 = 1
      OBVIOUS
    <3>3. QED
      BY <3>1, <3>2
  <2>3. QED
    BY <1>1, <1>3, <2>1, <2>2
<1>7. Tail(q) = <<>> => sess[client] # "relay"
  <2>1. Tail(q) = <<>> => Len(q) = 1
    BY <1>1, TailQueue
  <2>2. QED
    BY <1>1, <1>3, <2>1 DEF Stream, Sending
<1>8. QED
  BY <1>1, <1>2, <1>4, <1>5, <1>6, <1>7

\* Any other frame is of the shape the pad has, if the pad is live.
LEMMA OtherRead ==
  ASSUME TypeInv, Streams, Served, NEW t \in {"DESTROY", "INPUT", "NEUTRAL", "REPLY"},
         Serving(t), Consume, Live
  PROVE  /\ Heard(client) /\ (Prepared(client) <=> t # "NEUTRAL")
         /\ Of(rx'[client], devShape)
         /\ sess[client] # "off" => want[client] = devShape
         /\ t \in Carrying => Head(rx[client]).shape = devShape
<1> DEFINE q == rx[client]
<1>1. /\ client \in Conns /\ q \in Seq(Frame) /\ q # <<>> /\ Head(q).tag = t
      /\ rx'[client] = Tail(q) /\ client # None
  BY DEF Serving, Consume, TypeInv, TypeOK, HolderTypeOK
<1>2. Heard(client) /\ (Prepared(client) <=> t # "NEUTRAL")
  BY <1>1 DEF Heard, Prepared
<1>3. Of(q, devShape) /\ (sess[client] # "off" => want[client] = devShape)
  BY <1>1, <1>2 DEF Served
<1>4. Of(Tail(q), devShape)
  BY <1>1, <1>3, TailOf
<1>5. t \in Carrying => Head(q).shape = devShape
  <2>1. Head(q) = q[1] /\ 1 \in 1..Len(q)
    BY <1>1, TailQueue
  <2>2. QED
    BY <1>1, <1>3, <2>1 DEF Of
<1>6. QED
  BY <1>1, <1>2, <1>3, <1>4, <1>5

\* A NEUTRAL is the report of its shape.
LEMMA NeutralRead ==
  ASSUME TypeInv, Streams, Serving("NEUTRAL")
  PROVE  LET f == Head(rx[client]) IN f \in Frame /\ f.val = NeutralOf(f.shape).val
<1>1. client \in Conns /\ rx[client] \in Seq(Frame) /\ rx[client] # <<>>
      /\ Head(rx[client]).tag = "NEUTRAL"
  BY DEF Serving, TypeInv, TypeOK, HolderTypeOK
<1>2. /\ Head(rx[client]) = rx[client][1] /\ 1 \in 1..Len(rx[client])
      /\ Head(rx[client]) \in Frame
  BY <1>1, TailQueue
<1>3. QED
  BY <1>1, <1>2 DEF Streams, Stream, Ordered

LEMMA ServedFrames ==
  ASSUME TypeInv, KeyInv, Placed, Streams, Served, Frames, UNCHANGED sessVars
  PROVE  Served'
<1>1. UNCHANGED <<sess, want>>
  BY DEF sessVars
<1>2. ASSUME Of(rx'[client], devShape'), client' = client,
             sess[client] # "off" => want[client] = devShape',
             Prepared(client)' => neutral' = NeutralFor(devShape')
      PROVE  Served'
  BY <1>1, <1>2 DEF Served
<1>3. CASE ClientGone
  BY <1>3 DEF ClientGone, Served
<1>4. CASE CreateFail
  <2>1. ~Live'
    BY <1>4 DEF CreateFail, KernelDestroy, Live, devVars
  <2>2. QED
    BY <2>1 DEF Served
<1>5. CASE Destroy
  <2>1. ~Live'
    BY <1>5 DEF Destroy, Live
  <2>2. QED
    BY <2>1 DEF Served
<1>6. CASE CreateReuse \/ CreateNew
  <2>1. Live' => devShape' = Wanted
    BY <1>6 DEF CreateReuse, CreateNew, SamePayload, devVars, KeyInv, LiveMeansKey, Live
  <2>2. Serving("CREATE") /\ Consume /\ client' = client
    BY <1>6 DEF CreateReuse, CreateNew, Consume
  <2>3. ~Prepared(client)'
    BY <1>1, <2>2, CreateRead DEF Prepared
  <2>4. QED
    BY <1>2, <2>1, <2>2, <2>3, CreateRead DEF Served
<1>7. CASE Input \/ ForwardReply
  <2>1. UNCHANGED <<devPhase, devShape, neutral, client>>
    BY <1>7 DEF Input, ForwardReply, Consume, KernelInput, devVars, padVars
  <2>2. Consume /\ (Serving("INPUT") \/ Serving("REPLY"))
    BY <1>7 DEF Input, ForwardReply
  <2>3. client # None
    BY <2>2 DEF Serving
  <2>4. Live => /\ Of(rx'[client], devShape) /\ Prepared(client)
                /\ sess[client] # "off" => want[client] = devShape
    BY <2>2, OtherRead
  <2>5. QED
    BY <1>2, <2>1, <2>3, <2>4 DEF Served, Live
<1>8. CASE StoreNeutral
  <2>1. UNCHANGED <<devPhase, devShape, client>> /\ Serving("NEUTRAL") /\ Consume
    BY <1>8 DEF StoreNeutral, Consume, devVars
  <2>2. Live => /\ Of(rx'[client], devShape) /\ Head(rx[client]).shape = devShape
                /\ sess[client] # "off" => want[client] = devShape
    BY <2>1, OtherRead DEF Carrying
  <2>3. Head(rx[client]).tag = "NEUTRAL"
    BY <2>1 DEF Serving
  <2>4. Live => neutral' = NeutralFor(devShape)
    BY <1>8, <2>1, <2>2, <2>3, NeutralRead, StoredFits DEF StoreNeutral
  <2>5. QED
    BY <1>2, <2>1, <2>2, <2>4 DEF Served, Live
<1>9. QED
  BY <1>3, <1>4, <1>5, <1>6, <1>7, <1>8 DEF Frames

LEMMA ServedKept ==
  ASSUME Served, UNCHANGED <<client, devShape, neutral, sess, want>>, Live' => Live,
         client # None => rx'[client] = rx[client]
  PROVE  Served'
BY DEF Served, Heard, Prepared

LEMMA ServedNext ==
  TypeInv /\ KeyInv /\ Placed /\ Streams /\ Unheard /\ Served /\ [Next]_vars => Served'
<1> SUFFICES ASSUME TypeInv, KeyInv, Placed, Streams, Unheard, Served, [Next]_vars
             PROVE  Served'
  OBVIOUS
<1>1. /\ rx \in [Conns -> Seq(Frame)] /\ client \in Conns \cup {None}
      /\ sess \in [Conns -> {"off", "create", "wait", "neutral", "relay"}]
  BY DEF TypeInv, TypeOK, HolderTypeOK, SessTypeOK
<1>2. CASE Kernel /\ UNCHANGED sessVars
  BY <1>2, ServedKept
  DEF Kernel, DevAdd, DevProbeFail, DevTalk, KernelDestroy, Live, padVars, sockVars, sessVars
<1>3. CASE (EventStart \/ EventStop \/ EventForward \/ EventNone) /\ UNCHANGED sessVars
  BY <1>3, ServedKept
  DEF EventStart, EventStop, EventForward, EventNone, NextEvent, Live, padVars, devVars,
      sockVars, sessVars
<1>4. CASE (Poll \/ HolderStart) /\ UNCHANGED sessVars
  BY <1>4, ServedKept DEF Poll, HolderStart, Live, padVars, devVars, sockVars, sessVars
<1>5. CASE UNCHANGED vars
  BY <1>5, ServedKept DEF vars, holderVars, Live, padVars, devVars, sockVars, sessVars
<1>6. CASE HolderDown
  BY <1>6 DEF HolderDown, Served
<1>7. CASE Admit /\ UNCHANGED sessVars
  <2>1. ~Heard(Head(backlog)) /\ client' = Head(backlog) /\ UNCHANGED <<rx, sess>>
    BY <1>7, Taken DEF Admit, Unheard, sessVars
  <2>2. ~Heard(client)' /\ ~Prepared(client)'
    BY <2>1 DEF Heard, Prepared
  <2>3. QED
    BY <2>2 DEF Served
<1>8. CASE Refuse /\ UNCHANGED sessVars
  <2>1. Head(backlog) # client
    BY <1>8, Taken
  <2>2. QED
    BY <1>1, <1>8, <2>1, ServedKept DEF Refuse, Live, padVars, devVars, sessVars
<1>9. CASE Frames /\ UNCHANGED sessVars
  BY <1>9, ServedFrames
<1>10. ASSUME NEW c \in Conns,
              Connect(c) \/ Session(c) \/ SendInput(c) \/ Lower(c) \/ Hangup(c)
       PROVE  Served'
  <2>1. UNCHANGED <<client, devPhase, devShape, neutral>>
    BY <1>10, SessionFrame DEF padVars, devVars
  <2>2. CASE client = c
    <3>1. Open(c) /\ c # None
      BY <2>2 DEF Placed, HolderAssumption
    <3>2. ~Connect(c)
      BY <3>1 DEF Connect, Open
    <3>3. /\ sess[c] # "off" /\ (Heard(c)' => Heard(c)) /\ (Prepared(c)' => Prepared(c))
          /\ sess'[c] # "off" => want'[c] = want[c]
          /\ Of(rx[c], want[c]) => Of(rx'[c], want[c])
      BY <1>10, <3>1, <3>2, SessionHeard
    <3>4. Heard(c) /\ Live => want[c] = devShape /\ Of(rx[c], devShape)
      BY <2>2, <3>1, <3>3 DEF Served
    <3>5. Prepared(c) /\ Live => neutral = NeutralFor(devShape)
      BY <2>2, <3>1 DEF Served
    <3>6. Live' = Live /\ client' = c
      BY <2>1, <2>2 DEF Live
    <3>7. Heard(c)' /\ Live' =>
             Of(rx'[c], devShape') /\ (sess'[c] # "off" => want'[c] = devShape')
      BY <2>1, <3>3, <3>4, <3>6
    <3>8. Prepared(c)' /\ Live' => neutral' = NeutralFor(devShape')
      BY <2>1, <3>3, <3>5, <3>6
    <3>9. QED
      BY <3>6, <3>7, <3>8 DEF Served, Heard, Prepared
  <2>3. CASE client # c
    <3>1. client # None => /\ rx'[client] = rx[client] /\ sess'[client] = sess[client]
                           /\ want'[client] = want[client]
      BY <1>1, <1>10, <2>3, SessionMoves
    <3>2. QED
      BY <2>1, <3>1 DEF Served, Heard, Prepared, Live
  <2>4. QED
    BY <2>2, <2>3
<1>11. QED
  BY <1>2, <1>3, <1>4, <1>5, <1>6, <1>7, <1>8, <1>9, <1>10 DEF Next, HolderNext, HolderLoop

\* Nothing is applied to a pad that was not added, and what is pressed on one
\* that was is its own and can be let go of.
LEMMA PaddedFrames ==
  ASSUME TypeInv, KeyInv, Placed, Streams, Served, Padded, Frames
  PROVE  Padded'
<1>1. devShape \in Shapes \cup {None} /\ (Live => devShape \in Shapes)
  BY DEF KeyInv, TypeInv, TypeOK, HolderTypeOK
<1>2. CASE CreateReuse \/ ForwardReply
  BY <1>2 DEF CreateReuse, ForwardReply, Consume, padVars, devVars, Padded, Pressed
<1>3. CASE CreateFail
  <2>1. /\ devPhase' \in {"dead", "closed"} /\ neutral' = neutral
    BY <1>3 DEF CreateFail, KernelDestroy, devVars
  <2>2. QED
    BY <2>1 DEF Padded, Pressed
<1>4. CASE CreateNew
  <2>1. devPhase' = "created" /\ devInput' = None /\ neutral' = neutral
    BY <1>4 DEF CreateNew
  <2>2. QED
    BY <2>1 DEF Padded, Pressed
<1>5. CASE Destroy
  <2>1. devPhase' = "closed" /\ neutral' = None
    BY <1>5 DEF Destroy, Forget
  <2>2. QED
    BY <2>1 DEF Padded, Pressed
<1>6. CASE Input
  <2> DEFINE f == Head(rx[client])
  <2>1. /\ UNCHANGED <<started, neutral, client, devPhase, devShape>> /\ client # None
        /\ Consume /\ Serving("INPUT")
    BY <1>6 DEF Input, Consume, Serving, KernelInput, padVars, devVars
  <2>2. CASE UNCHANGED devInput
    BY <2>1, <2>2 DEF Padded, Pressed
  <2>3. CASE ~UNCHANGED devInput
    <3>1. started /\ devPhase = "running" /\ devInput' = [shape |-> f.shape, val |-> f.val]
      BY <1>6, <2>3 DEF Input, KernelInput, devVars
    <3>2. f.shape = devShape /\ neutral = NeutralFor(devShape)
      BY <2>1, <3>1, OtherRead DEF Served, Live, Carrying
    <3>3. devShape \in NeutralShapes => neutral # None
      BY <1>1, <3>1, <3>2, NeutralIsReport DEF Live
    <3>4. devInput'.shape = devShape'
      BY <2>1, <3>1, <3>2
    <3>5. started' /\ devPhase' = "running"
      BY <2>1, <3>1, Zenon
    <3>6. QED
      BY <2>1, <3>3, <3>4, <3>5 DEF Padded, Pressed
  <2>4. QED
    BY <2>2, <2>3
<1>7. CASE StoreNeutral
  <2> DEFINE f == Head(rx[client])
  <2>1. /\ UNCHANGED <<started, client, devPhase, devShape, devInput>>
        /\ neutral' = Stored(f) /\ Consume /\ Serving("NEUTRAL")
    BY <1>7 DEF StoreNeutral, Consume, devVars
  <2>2. /\ f \in Frame /\ f.tag = "NEUTRAL" /\ f.val = NeutralOf(f.shape).val
        /\ client # None
    BY <2>1, NeutralRead DEF Serving
  <2>3. neutral' = NeutralFor(f.shape) /\ (neutral' # None => neutral'.val = "rest")
    BY <2>1, <2>2, StoredFits
  <2>4. Live => f.shape = devShape
    BY <2>1, OtherRead DEF Carrying
  <2>5. Live /\ devShape \in NeutralShapes => neutral' # None
    BY <1>1, <2>3, <2>4, NeutralIsReport
  <2>6. QED
    BY <2>1, <2>2, <2>3, <2>5 DEF Padded, Pressed, Live
<1>8. CASE ClientGone
  <2>1. UNCHANGED <<started, neutral, devPhase, devShape>>
    BY <1>8 DEF ClientGone, Park, KernelInput, padVars, devVars
  <2>2. devInput' = IF started /\ neutral # None /\ devPhase = "running" THEN neutral ELSE devInput
    BY <1>8 DEF ClientGone, Park, KernelInput, devVars
  <2>3. CASE started /\ neutral # None /\ devPhase = "running"
    <3>1. devInput' = neutral /\ neutral.val = "rest" /\ started'
      BY <2>1, <2>2, <2>3 DEF Padded
    <3>2. ~Pressed' /\ devPhase' = "running"
      BY <2>1, <2>3, <3>1 DEF Pressed
    <3>3. QED
      BY <2>1, <3>1, <3>2 DEF Padded
  <2>4. CASE ~(started /\ neutral # None /\ devPhase = "running")
    <3>1. devInput' = devInput
      BY <2>2, <2>4
    <3>2. Pressed => started /\ neutral = None
      BY <2>4 DEF Pressed, Padded
    <3>3. Pressed' => devInput'.shape = devShape' /\ devShape' \notin NeutralShapes
      BY <2>1, <3>1, <3>2 DEF Pressed, Padded
    <3>4. QED
      BY <2>1, <3>1, <3>3 DEF Padded
  <2>5. QED
    BY <2>3, <2>4
<1>9. QED
  BY <1>2, <1>3, <1>4, <1>5, <1>6, <1>7, <1>8 DEF Frames

LEMMA PaddedNext ==
  TypeInv /\ KeyInv /\ Placed /\ Streams /\ Served /\ Padded /\ [Next]_vars => Padded'
<1> SUFFICES ASSUME TypeInv, KeyInv, Placed, Streams, Served, Padded, [Next]_vars
             PROVE  Padded'
  OBVIOUS
<1>1. ASSUME UNCHANGED <<client, neutral, started, devPhase, devShape, devInput>>
      PROVE  Padded'
  BY <1>1 DEF Padded, Pressed
<1>2. CASE DevAdd
  <2>1. devPhase' = "running" /\ devInput' = None /\ neutral' = neutral
    BY <1>2 DEF DevAdd, padVars, Padded
  <2>2. QED
    BY <2>1 DEF Padded, Pressed
<1>3. CASE DevProbeFail
  <2>1. devPhase' = "dead" /\ neutral' = neutral
    BY <1>3 DEF DevProbeFail, KernelDestroy, padVars
  <2>2. QED
    BY <2>1 DEF Padded, Pressed
<1>4. CASE DevTalk
  BY <1>1, <1>4 DEF DevTalk, padVars, sockVars
<1>5. CASE EventStart \/ EventStop \/ EventForward
  <2>1. NextEvent /\ neutral' = neutral
    BY <1>5 DEF EventStart, EventStop, EventForward, padVars
  <2>2. /\ UNCHANGED <<client, devPhase, devShape, devInput>>
        /\ devPhase \notin {"closed", "created"} /\ devEvents \in Seq(Event)
        /\ devEvents # <<>>
    BY <2>1 DEF NextEvent, KeyInv, TypeInv, TypeOK, HolderTypeOK
  <2>3. EventStop => devPhase # "running"
    BY <2>2, TailNoStop DEF EventStop, KeyInv, Live
  <2>4. devPhase = "running" => (started => started')
    BY <1>5, <2>3, Zenon DEF EventStart, EventForward, padVars
  <2>5. QED
    BY <2>1, <2>2, <2>4 DEF Padded, Pressed
<1>6. CASE EventNone \/ Poll \/ Refuse \/ HolderStart
  BY <1>1, <1>6 DEF EventNone, Poll, Refuse, HolderStart, padVars, devVars, sockVars
<1>7. CASE Admit
  <2>1. UNCHANGED <<neutral, started, devPhase, devShape, devInput>> /\ client = None
    BY <1>7 DEF Admit, padVars, devVars
  <2>2. QED
    BY <2>1 DEF Padded, Pressed
<1>8. CASE HolderDown
  <2>1. devPhase' = "closed" /\ neutral' = None
    BY <1>8 DEF HolderDown
  <2>2. QED
    BY <2>1 DEF Padded, Pressed
<1>9. CASE Frames
  BY <1>9, PaddedFrames
<1>10. CASE \E c \in Conns :
               Connect(c) \/ Session(c) \/ SendInput(c) \/ Lower(c) \/ Hangup(c)
  BY <1>1, <1>10, SessionFrame DEF padVars, devVars
<1>11. CASE UNCHANGED vars
  BY <1>1, <1>11 DEF vars, holderVars, padVars, devVars, sockVars
<1>12. QED
  BY <1>2, <1>3, <1>4, <1>5, <1>6, <1>7, <1>8, <1>9, <1>10, <1>11
  DEF Next, HolderNext, HolderLoop, Kernel

-----------------------------------------------------------------------------
(* The theorems                                                            *)

SessionInv ==
    TypeInv /\ KeyInv /\ Placed /\ Streams /\ Unheard /\ Served /\ Padded

LEMMA SessionInit == Init => SessionInv
<1> SUFFICES ASSUME Init PROVE SessionInv
  OBVIOUS
<1>1. Placed /\ Unheard /\ Served
  BY DEF Init, HolderInit, Placed, Open, Unheard, Served
<1>2. Streams
  <2>1. /\ Ordered(<<>>) /\ Sending(<<>>, "off") /\ \A s \in Shapes \cup {None} : Of(<<>>, s)
    BY DEF Ordered, Sending, Of
  <2>2. QED
    BY <2>1 DEF Init, HolderInit, Streams, Stream
<1>3. Padded
  BY DEF Init, HolderInit, Padded, Pressed
<1>4. QED
  BY <1>1, <1>2, <1>3, InitType, KeyInit DEF SessionInv

LEMMA SessionInductive == Spec => []SessionInv
<1>1. SessionInv /\ [Next]_vars => SessionInv'
  BY TypeNext, KeyNext, PlacedNext, StreamsNext, UnheardNext, ServedNext, PaddedNext
  DEF SessionInv
<1>2. QED
  BY SessionInit, <1>1, PTL DEF Spec

\* An input that is down on the pad is one its own proxy sent, for any number
\* of proxies that die with frames in their sockets, are refused or change the
\* pad's shape.
THEOREM HeldInputBelongs == Spec => []HeldInputMatchesPad
<1>1. SessionInv => HeldInputMatchesPad
  BY DEF SessionInv, Padded, HeldInputMatchesPad
<1>2. QED
  BY SessionInductive, <1>1, PTL

\* With no proxy served nothing is pressed on a pad whose transport has a
\* neutral report.
THEOREM ParkedHolds == Spec => []ParkedWithoutProxy
<1>1. SessionInv => ParkedWithoutProxy
  BY DEF SessionInv, Padded, ParkedWithoutProxy
<1>2. QED
  BY SessionInductive, <1>1, PTL

\* The report a relaying proxy's pad will be parked with is that pad's own.
THEOREM StoredFitsPad == Spec => []StoredNeutralFits
<1>1. SessionInv => StoredNeutralFits
  BY DEF SessionInv, Served, Prepared, StoredNeutralFits, HolderAssumption
<1>2. QED
  BY SessionInductive, <1>1, PTL

-----------------------------------------------------------------------------
(* "Reused", when the kernel neither refuses nor gives up a device          *)

Calm == MaxRefused = 0 /\ MaxDied = 0

\* The key goes with the pad on every way the pad can go.
NoCorpse == devPhase # "dead" /\ (key # None => Live)

LEMMA NoCorpseNext == Calm /\ TypeInv /\ NoCorpse /\ [Next]_vars => NoCorpse'
<1> SUFFICES ASSUME Calm, TypeInv, NoCorpse, [Next]_vars PROVE NoCorpse'
  OBVIOUS
<1>1. ASSUME UNCHANGED <<key, devPhase>> PROVE NoCorpse'
  BY <1>1 DEF NoCorpse, Live
<1>2. CASE Frames
  <2>1. ~CreateFail
    BY DEF CreateFail, Calm, TypeInv, TypeOK, HolderTypeOK
  <2>2. CASE CreateNew \/ Destroy
    BY <2>2 DEF CreateNew, Destroy, Forget, NoCorpse, Live
  <2>3. CASE CreateReuse \/ Input \/ StoreNeutral \/ ForwardReply \/ ClientGone
    BY <1>1, <2>3
    DEF CreateReuse, Input, StoreNeutral, ForwardReply, ClientGone, Park, KernelInput,
        padVars, devVars
  <2>4. QED
    BY <1>2, <2>1, <2>2, <2>3 DEF Frames
<1>3. CASE Kernel
  <2>1. ~DevProbeFail
    BY DEF DevProbeFail, Calm, TypeInv, TypeOK, HolderTypeOK
  <2>2. QED
    BY <1>3, <2>1 DEF Kernel, DevAdd, DevTalk, padVars, NoCorpse, Live
<1>4. CASE EventStart \/ EventStop \/ EventForward
  BY <1>4 DEF EventStart, EventStop, EventForward, NextEvent, padVars, NoCorpse, Live
<1>5. CASE HolderDown
  BY <1>5 DEF HolderDown, NoCorpse
<1>6. CASE Poll \/ Admit \/ Refuse \/ EventNone \/ HolderStart
  BY <1>1, <1>6 DEF Poll, Admit, Refuse, EventNone, HolderStart, padVars, devVars
<1>7. CASE \E c \in Conns :
              Connect(c) \/ Session(c) \/ SendInput(c) \/ Lower(c) \/ Hangup(c)
  BY <1>1, <1>7, SessionFrame DEF padVars, devVars
<1>8. CASE UNCHANGED vars
  BY <1>1, <1>8 DEF vars, holderVars, padVars, devVars
<1>9. QED
  BY <1>2, <1>3, <1>4, <1>5, <1>6, <1>7, <1>8 DEF Next, HolderNext, HolderLoop

LEMMA SentSays ==
  ASSUME TypeInv, NEW c \in Conns, NEW m \in Answer, tx' = Sent(c, m), SaysReused
  PROVE  m = "reused"
<1>1. tx \in [Conns -> Seq(Answer)]
  BY DEF TypeInv, TypeOK, HolderTypeOK
<1>2. PICK d \in Conns : Len(tx'[d]) > Len(tx[d]) /\ tx'[d][Len(tx'[d])] = "reused"
  BY DEF SaysReused
<1>3. tx'[d] # tx[d]
  BY <1>1, <1>2
<1>4. d = c /\ tx'[d] = Append(tx[d], m)
  BY <1>1, <1>3 DEF Sent
<1>5. Append(tx[d], m)[Len(Append(tx[d], m))] = m
  BY <1>1
<1>6. QED
  BY <1>2, <1>4, <1>5

\* Only the answer to a CREATE for the very pad says so.
LEMMA OnlyReuseSays == TypeInv /\ [Next]_vars /\ SaysReused => CreateReuse
<1> SUFFICES ASSUME TypeInv, [Next]_vars, SaysReused PROVE CreateReuse
  OBVIOUS
<1>1. tx \in [Conns -> Seq(Answer)] /\ client \in Conns \cup {None}
  BY DEF TypeInv, TypeOK, HolderTypeOK
<1>2. {"created", "failed", "NOTICE", "OUTPUT", "REQ"} \subseteq Answer
  BY DEF Answer
<1>3. tx' # tx
  BY <1>1 DEF SaysReused
<1>4. CASE Frames /\ ~CreateReuse
  <2>1. client \in Conns
    BY <1>1, <1>4 DEF Frames, CreateFail, CreateNew, Destroy, Input, StoreNeutral, ForwardReply,
                      ClientGone, Serving
  <2>2. \/ tx' = tx \/ tx' = Sent(client, "failed") \/ tx' = Sent(client, "created")
    BY <1>4 DEF Frames, CreateFail, CreateNew, Destroy, Input, StoreNeutral, ForwardReply,
                ClientGone
  <2>3. QED
    BY <1>2, <1>3, <2>1, <2>2, SentSays
<1>5. CASE Refuse
  <2>1. Head(backlog) \in Conns
    BY <1>5 DEF Refuse, TypeInv, TypeOK, HolderTypeOK, LoopOK
  <2>2. QED
    BY <1>2, <1>5, <2>1, SentSays DEF Refuse
<1>6. CASE EventForward
  BY <1>1, <1>2, <1>3, <1>6, SentSays DEF EventForward
<1>7. CASE EventStart \/ EventStop \/ EventNone \/ Poll \/ Admit \/ HolderDown \/ HolderStart \/ Kernel
  BY <1>3, <1>7
  DEF EventStart, EventStop, EventNone, Poll, Admit, HolderDown, HolderStart,
      Kernel, DevAdd, DevProbeFail, DevTalk, sockVars
<1>8. CASE UNCHANGED vars
  BY <1>3, <1>8 DEF vars, holderVars, sockVars
<1>9. ASSUME NEW c \in Conns,
             Connect(c) \/ Session(c) \/ SendInput(c) \/ Lower(c) \/ Hangup(c)
      PROVE  FALSE
  <2>1. \/ tx' = tx \/ tx' = [tx EXCEPT ![c] = <<>>]
        \/ tx[c] # <<>> /\ tx' = [tx EXCEPT ![c] = Tail(@)]
    BY <1>9 DEF Connect, Session, SendCreate, RecvAck, RecvOther, SendNeutral, SendInput,
                RelayRecv, Lower, LinkLost, Hangup, Drop
  <2>2. \A d \in Conns : Len(tx'[d]) <= Len(tx[d])
    <3>1. ASSUME NEW q \in Seq(Answer)
          PROVE  Len(q) <= Len(q) /\ Len(<<>>) <= Len(q) /\ (q # <<>> => Len(Tail(q)) <= Len(q))
      OBVIOUS
    <3>2. \A d \in Conns : \/ tx'[d] = tx[d] \/ tx'[d] = <<>>
                           \/ tx[d] # <<>> /\ tx'[d] = Tail(tx[d])
      BY <1>1, <2>1
    <3>3. QED
      BY <1>1, <3>1, <3>2
  <2>3. \A d \in Conns : Len(tx'[d]) \in Nat /\ Len(tx[d]) \in Nat
    BY <1>1, <2>1
  <2>4. QED
    BY <2>2, <2>3 DEF SaysReused
<1>10. QED
  BY <1>4, <1>5, <1>6, <1>7, <1>8, <1>9 DEF Next, HolderNext, HolderLoop, Frames

\* A proxy that is told its pad is reused has a live pad, as long as the kernel
\* refuses no device and gives none up.  (It takes one that does for the corpse
\* of NoReuseOfCorpse.)
THEOREM ReuseFindsPad == ASSUME Calm PROVE Spec => ReusedIsLive
<1>1. Init => NoCorpse
  BY DEF Init, HolderInit, NoCorpse
<1>2. Spec => [](TypeInv /\ NoCorpse)
  <2>1. TypeInv /\ NoCorpse /\ [Next]_vars => (TypeInv /\ NoCorpse)'
    BY TypeNext, NoCorpseNext
  <2>2. QED
    BY InitType, <1>1, <2>1, PTL DEF Spec
<1>3. TypeInv /\ NoCorpse /\ [Next]_vars => [SaysReused => Live]_vars
  <2> SUFFICES ASSUME TypeInv, NoCorpse, [Next]_vars, SaysReused PROVE Live
    OBVIOUS
  <2>1. CreateReuse
    BY OnlyReuseSays
  <2>2. key = Wanted /\ Wanted \in Shapes
    BY <2>1, ServedFrame DEF CreateReuse, SamePayload, Wanted, Frame
  <2>3. QED
    BY <2>2 DEF NoCorpse, HolderAssumption
<1>4. QED
  BY <1>2, <1>3, PTL DEF Spec, ReusedIsLive

=============================================================================
