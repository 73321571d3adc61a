---------------------------- MODULE BridgeProofs ----------------------------
(***************************************************************************)
(* What the overlay bridge keeps for any number of overlays, lines, failed *)
(* writes and failed clones.  The bounds occur in guards only.             *)
(***************************************************************************)
EXTENDS Bridge, TLAPS

-----------------------------------------------------------------------------
(* Types                                                                   *)

\* What the accept thread takes from the wire is a mode.
LEMMA NegotiatedMode ==
    ASSUME TypeOK, NEW o \in Overlays
    PROVE  Negotiated(o) \in Modes
<1>1. wire[o] \in Seq(Modes)
  BY DEF TypeOK
<1>2. CASE wire[o] = <<>>
  BY <1>2 DEF Negotiated, Modes
<1>3. CASE wire[o] # <<>>
  BY <1>1, <1>3 DEF Negotiated
<1> QED BY <1>2, <1>3

\* The flag is a truth value, whatever the list.
LEMMA FlagBoolean == \A cs : Flag(cs) \in BOOLEAN
BY DEF Flag, AnyHold

\* A stream that is closed leaves a connection that was mute ended.
LEMMA FreedType ==
    ASSUME TypeOK, NEW cs
    PROVE  /\ Freed(cs) \in [Overlays -> {"none", "queued", "probing", "reading", "mute", "ended"}]
           /\ \A o \in Overlays : Freed(cs)[o] = srv[o] \/ (srv[o] = "mute" /\ Freed(cs)[o] = "ended")
BY DEF Freed, TypeOK

\* Every step of the bridge and its overlays keeps the types.
LEMMA TypeStep ==
    ASSUME TypeOK, [Next]_vars
    PROVE  TypeOK'
<1> USE BridgeAssumption, FlagBoolean DEF TypeOK
<1>1. ASSUME NEW o \in Overlays, Connect(o) PROVE TypeOK'
  BY <1>1 DEF Connect, Modes
<1>2. ASSUME NEW o \in Overlays, Close(o) PROVE TypeOK'
  BY <1>2 DEF Close
<1>3. ASSUME NEW o \in Overlays, NEW m \in Modes, SendMode(o, m) PROVE TypeOK'
  BY <1>3 DEF SendMode
<1>4. CASE Accept
  <2>1. /\ Head(backlog) \in Overlays /\ Tail(backlog) \in Seq(Overlays)
    BY <1>4 DEF Accept
  <2>2. lost' \subseteq Overlays
    BY <1>4, <2>1 DEF Accept
  <2> QED BY <1>4, <2>1, <2>2 DEF Accept
<1>5. ASSUME NEW o \in Overlays, ProbeFails(o) PROVE TypeOK'
  BY <1>5 DEF ProbeFails, appVars
<1>6. ASSUME NEW o \in Overlays, AdmitRead(o) PROVE TypeOK'
  <2>1. [fd |-> fd[o], conn |-> o, mode |-> Negotiated(o)] \in Client
    BY NegotiatedMode DEF Client
  <2> QED BY <1>6, <2>1, NegotiatedMode DEF AdmitRead, Admit, Sync
<1>7. ASSUME NEW o \in Overlays, AdmitMute(o) PROVE TypeOK'
  <2>1. [fd |-> fd[o], conn |-> o, mode |-> Negotiated(o)] \in Client
    BY NegotiatedMode DEF Client
  <2> QED BY <1>7, <2>1, NegotiatedMode DEF AdmitMute, Admit, Sync
<1>8. ASSUME NEW o \in Overlays, ReadLine(o) PROVE TypeOK'
  <2>1. wire[o] \in Seq(Modes) /\ Head(wire[o]) \in Modes /\ Tail(wire[o]) \in Seq(Modes)
    BY <1>8 DEF ReadLine
  <2>2. Switched(o, Head(wire[o])) \subseteq Client
    BY <2>1 DEF Switched, Client
  <2> QED BY <1>8, <2>1, <2>2 DEF ReadLine, Sync
<1>9. ASSUME NEW o \in Overlays, ReadEnd(o) PROVE TypeOK'
  BY <1>9, FreedType DEF ReadEnd, Sync, Without, appVars
<1>10. CASE Feed
  <2>1. lost' \subseteq Overlays
    BY <1>10 DEF Feed, Client
  <2>2. srv' \in [Overlays -> {"none", "queued", "probing", "reading", "mute", "ended"}]
    BY <1>10, FreedType DEF Feed
  <2>3. clients' \subseteq Client /\ paused' \in BOOLEAN
    BY <1>10 DEF Feed, Sync
  <2> QED BY <1>10, <2>1, <2>2, <2>3 DEF Feed, appVars
<1>11. CASE UNCHANGED vars
  BY <1>11 DEF vars, appVars
<1> QED
  BY <1>1, <1>2, <1>3, <1>4, <1>5, <1>6, <1>7, <1>8, <1>9, <1>10, <1>11 DEF Next, Reader

\* Nothing has connected yet.
LEMMA TypeInit ==
    ASSUME Init PROVE TypeOK
<1>1. (CHOOSE n \in Fds : TRUE) \in Fds
  BY BridgeAssumption
<1>2. 0 \in 0..MaxDrops /\ 0 \in 0..MaxClones
  BY BridgeAssumption
<1>3. fd \in [Overlays -> Fds]
  BY <1>1 DEF Init
<1>4. paused \in BOOLEAN
  BY Zenon DEF Init
<1>5. clients \subseteq Client
  BY DEF Init
<1>6. /\ app \in [Overlays -> {"off", "open", "closed"}]
      /\ wire \in [Overlays -> Seq(Modes)] /\ backlog \in Seq(Overlays)
      /\ srv \in [Overlays -> {"none", "queued", "probing", "reading", "mute", "ended"}]
      /\ mine \in [Overlays -> Modes] /\ lost \subseteq Overlays
  BY DEF Init, Modes
<1>7. drops \in 0..MaxDrops /\ clones \in 0..MaxClones
  BY <1>2 DEF Init
<1> QED BY <1>3, <1>4, <1>5, <1>6, <1>7 DEF TypeOK

\* Type correctness of the bridge and its overlays.
THEOREM BridgeTypeCorrect == Spec => []TypeOK
<1> QED BY TypeInit, TypeStep, PTL DEF Spec

-----------------------------------------------------------------------------
(* The flag                                                                *)

\* A step that leaves the list alone leaves the flag alone, and one that
\* changes it recomputes the flag under the same lock (audiobridge.rs:207-216).
THEOREM PauseCorrect == Spec => []PauseFollowsList
<1>1. ASSUME Init PROVE PauseFollowsList
  BY <1>1 DEF Init, PauseFollowsList, AnyHold
<1>2. ASSUME PauseFollowsList, [Next]_vars PROVE PauseFollowsList'
  <2>1. (UNCHANGED <<clients, paused>>) \/ \E cs : Sync(cs)
    BY <1>2 DEF Next, Reader, Connect, Close, SendMode, Accept, ProbeFails,
         AdmitRead, AdmitMute, Admit, ReadLine, ReadEnd, Feed, vars
  <2>2. CASE UNCHANGED <<clients, paused>>
    BY <1>2, <2>2 DEF PauseFollowsList, AnyHold
  <2>3. ASSUME NEW cs, Sync(cs) PROVE PauseFollowsList'
    BY <2>3 DEF Sync, Flag, PauseFollowsList, AnyHold
  <2> QED BY <2>1, <2>2, <2>3
<1> QED BY <1>1, <1>2, PTL DEF Spec

-----------------------------------------------------------------------------
(* Names                                                                   *)

\* The list and the connection being negotiated have different numbers, and one
\* connection at a time is negotiated.
NamesInv ==
    /\ NamesAreUnique
    /\ \A o \in Overlays : srv[o] = "probing" => \A c \in clients : c.fd # fd[o]
    /\ \A o, p \in Overlays : srv[o] = "probing" /\ srv[p] = "probing" => o = p

\* The number of a listed client is taken for as long as it is listed, for the
\* list owns the stream.
LEMMA NamesStep ==
    ASSUME TypeOK, NamesInv, [Next]_vars
    PROVE  NamesInv'
<1> USE DEF NamesInv, NamesAreUnique
<1>1. ASSUME NEW o \in Overlays, Connect(o) PROVE NamesInv'
  BY <1>1 DEF Connect, TypeOK
<1>2. ASSUME NEW o \in Overlays, Close(o) \/ \E m \in Modes : SendMode(o, m) PROVE NamesInv'
  BY <1>2 DEF Close, SendMode
<1>3. CASE Accept
  <2>1. Head(backlog) \in Overlays
    BY <1>3 DEF Accept, TypeOK
  <2>2. PICK n \in Fds \ Taken : fd' = [fd EXCEPT ![Head(backlog)] = n]
    BY <1>3 DEF Accept
  <2>3. \A c \in clients : c.fd # n
    BY <2>2 DEF Taken
  <2> QED BY <1>3, <2>1, <2>2, <2>3 DEF Accept, TypeOK
<1>4. ASSUME NEW o \in Overlays, ProbeFails(o) PROVE NamesInv'
  BY <1>4 DEF ProbeFails, TypeOK
<1>5. ASSUME NEW o \in Overlays, AdmitRead(o) \/ AdmitMute(o) PROVE NamesInv'
  <2> DEFINE new == [fd |-> fd[o], conn |-> o, mode |-> Negotiated(o)]
  <2>1. clients' = clients \cup {new} /\ new.fd = fd[o]
    BY <1>5 DEF AdmitRead, AdmitMute, Admit, Sync
  <2>2. srv[o] = "probing" /\ fd' = fd
    BY <1>5 DEF AdmitRead, AdmitMute, Admit
  <2>3. \A p \in Overlays : srv'[p] # "probing"
    BY <1>5, <2>2 DEF AdmitRead, AdmitMute, TypeOK
  <2> HIDE DEF new
  <2> QED BY <2>1, <2>2, <2>3
<1>6. ASSUME NEW o \in Overlays, ReadLine(o) PROVE NamesInv'
  <2>1. CASE UNCHANGED clients
    BY <1>6, <2>1 DEF ReadLine
  <2>2. CASE clients' = Switched(o, Head(wire[o]))
    <3>1. \A d \in clients' : \E c \in clients :
             d = IF c.fd = fd[o] THEN [c EXCEPT !.mode = Head(wire[o])] ELSE c
      BY <2>2 DEF Switched
    <3>2. \A c \in clients : \A m : [c EXCEPT !.mode = m].fd = c.fd
      BY DEF TypeOK, Client
    <3>3. \A d \in clients' : \E c \in clients :
             /\ d.fd = c.fd
             /\ d = IF c.fd = fd[o] THEN [c EXCEPT !.mode = Head(wire[o])] ELSE c
      <4> TAKE d \in clients'
      <4>1. PICK c \in clients :
               d = IF c.fd = fd[o] THEN [c EXCEPT !.mode = Head(wire[o])] ELSE c
        BY <3>1
      <4>2. d.fd = c.fd
        BY <4>1, <3>2
      <4> QED BY <4>1, <4>2
    <3>4. UNCHANGED <<srv, fd>>
      BY <1>6 DEF ReadLine
    <3>5. NamesAreUnique'
      BY <3>3
    <3> QED BY <3>3, <3>4, <3>5
  <2> QED BY <1>6, <2>1, <2>2 DEF ReadLine, Sync
<1>7. ASSUME NEW o \in Overlays, ReadEnd(o) PROVE NamesInv'
  <2>1. clients' \subseteq clients /\ fd' = fd
    BY <1>7 DEF ReadEnd, Sync, Without
  <2>2. \A p \in Overlays : srv'[p] = "probing" => srv[p] = "probing"
    BY <1>7, FreedType DEF ReadEnd
  <2> QED BY <2>1, <2>2
<1>8. CASE Feed
  <2>1. clients' \subseteq clients /\ fd' = fd
    BY <1>8 DEF Feed, Sync
  <2>2. \A p \in Overlays : srv'[p] = "probing" => srv[p] = "probing"
    BY <1>8, FreedType DEF Feed
  <2> QED BY <2>1, <2>2
<1>9. CASE UNCHANGED vars
  BY <1>9 DEF vars
<1> QED BY <1>1, <1>2, <1>3, <1>4, <1>5, <1>6, <1>7, <1>8, <1>9 DEF Next, Reader

\* No two listed clients go by the same number (audiobridge.rs:188, 200, 299).
THEOREM NamesCorrect == Spec => []NamesAreUnique
<1>1. ASSUME Init PROVE NamesInv
  BY <1>1 DEF Init, NamesInv, NamesAreUnique
<1>2. NamesInv => NamesAreUnique
  BY DEF NamesInv
<1> QED BY <1>1, <1>2, NamesStep, BridgeTypeCorrect, PTL DEF Spec

-----------------------------------------------------------------------------
(* Who is in the list                                                      *)

Open == {"reading", "mute"}
Entry(o) == [fd |-> fd[o], conn |-> o, mode |-> mine[o]]

\* The list is what the bridge took from the overlays it serves, the lost ones
\* apart; every entry has the number of its connection.
Kept == \A o \in Overlays \ lost : srv[o] \in Open => Entry(o) \in clients
Own ==
    \A c \in clients :
        /\ srv[c.conn] \in Open /\ c.fd = fd[c.conn]
        /\ c.conn \notin lost => c = Entry(c.conn)

\* A reader that outlived its entry has the number of no other overlay but lost
\* ones, so what it still does to the list by number meets nobody else.
Apart ==
    \A p, o \in Overlays :
        /\ Orphan(p) /\ p # o
        /\ o \notin lost /\ srv[o] \in Open \cup {"probing"}
        => fd[p] # fd[o]

ListInv == Kept /\ Own /\ Apart

\* A connection in the listen queue is there once.
QueueInv ==
    /\ \A i \in 1..Len(backlog) : srv[backlog[i]] = "queued"
    /\ \A i, j \in 1..Len(backlog) : backlog[i] = backlog[j] => i = j

LEMMA QueueStep ==
    ASSUME TypeOK, QueueInv, [Next]_vars
    PROVE  QueueInv'
<1> USE DEF QueueInv
<1>1. ASSUME NEW o \in Overlays, Connect(o) PROVE QueueInv'
  <2>1. /\ Len(backlog') = Len(backlog) + 1 /\ Len(backlog) \in Nat
        /\ \A i \in 1..Len(backlog) : backlog'[i] = backlog[i] /\ backlog[i] \in Overlays
        /\ backlog'[Len(backlog) + 1] = o
    BY <1>1 DEF Connect, TypeOK
  <2>2. /\ srv' = [srv EXCEPT ![o] = "queued"] /\ srv[o] # "queued"
    BY <1>1 DEF Connect
  <2>3. \A i \in 1..Len(backlog) : backlog[i] # o
    BY <2>2
  <2>4. \A i \in 1..Len(backlog') :
           \/ i \in 1..Len(backlog) /\ backlog'[i] = backlog[i]
           \/ i = Len(backlog) + 1 /\ backlog'[i] = o
    BY <2>1
  <2>5. srv'[o] = "queued" /\ \A p \in Overlays \ {o} : srv'[p] = srv[p]
    BY <2>2 DEF TypeOK
  <2>6. \A i \in 1..Len(backlog') : srv'[backlog'[i]] = "queued"
    BY <2>1, <2>3, <2>4, <2>5
  <2>7. \A i, j \in 1..Len(backlog') : backlog'[i] = backlog'[j] => i = j
    BY <2>3, <2>4
  <2> QED BY <2>6, <2>7
<1>2. CASE Accept
  <2>1. /\ Len(backlog') = Len(backlog) - 1 /\ Len(backlog) \in Nat \ {0}
        /\ \A i \in 1..Len(backlog') : backlog'[i] = backlog[i + 1] /\ backlog[i + 1] \in Overlays
        /\ Head(backlog) = backlog[1]
    BY <1>2 DEF Accept, TypeOK
  <2>2. srv' = [srv EXCEPT ![backlog[1]] = "probing"]
    BY <1>2, <2>1 DEF Accept
  <2>3. \A i \in 1..Len(backlog') : i + 1 \in 1..Len(backlog) /\ i + 1 # 1
    BY <2>1
  <2>4. 1 \in 1..Len(backlog)
    BY <2>1
  <2>5. \A i \in 1..Len(backlog') : backlog[i + 1] # backlog[1]
    BY <2>3, <2>4
  <2>6. \A p \in Overlays : p # backlog[1] => srv'[p] = srv[p]
    BY <2>2 DEF TypeOK
  <2>7. \A i \in 1..Len(backlog') : srv'[backlog'[i]] = "queued"
    BY <2>1, <2>3, <2>5, <2>6
  <2>8. \A i, j \in 1..Len(backlog') : backlog'[i] = backlog'[j] => i = j
    <3> TAKE i, j \in 1..Len(backlog')
    <3> HAVE backlog'[i] = backlog'[j]
    <3>1. backlog[i + 1] = backlog[j + 1]
      BY <2>1
    <3>2. i + 1 = j + 1
      BY <2>3, <3>1
    <3> QED BY <2>1, <3>2
  <2> QED BY <2>7, <2>8
<1>3. ASSUME UNCHANGED backlog, \A p \in Overlays : srv[p] = "queued" => srv'[p] = "queued"
      PROVE  QueueInv'
  <2>1. \A i \in 1..Len(backlog) : backlog[i] \in Overlays
    BY DEF TypeOK
  <2> QED BY <1>3, <2>1
<1>4. ASSUME NEW o \in Overlays,
             ProbeFails(o) \/ AdmitRead(o) \/ AdmitMute(o) \/ ReadLine(o) \/ ReadEnd(o)
      PROVE  QueueInv'
  <2>1. \A p \in Overlays : srv[p] = "queued" => srv'[p] = "queued"
    <3>1. ASSUME ReadEnd(o) PROVE \A p \in Overlays : srv[p] = "queued" => srv'[p] = "queued"
      <4>1. /\ srv[o] = "reading" /\ srv' = [Freed(clients \ Without(o)) EXCEPT ![o] = "ended"]
        BY <3>1 DEF ReadEnd
      <4> QED BY <4>1, FreedType
    <3>2. ASSUME ReadLine(o) PROVE srv' = srv
      BY <3>2 DEF ReadLine
    <3>3. ASSUME ProbeFails(o) \/ AdmitRead(o) \/ AdmitMute(o)
          PROVE  \A p \in Overlays : srv[p] = "queued" => srv'[p] = "queued"
      BY <3>3 DEF ProbeFails, AdmitRead, AdmitMute, Admit, TypeOK
    <3> QED BY <1>4, <3>1, <3>2, <3>3
  <2>2. UNCHANGED backlog
    BY <1>4 DEF ProbeFails, AdmitRead, AdmitMute, Admit, ReadLine, ReadEnd, appVars
  <2> QED BY <1>3, <2>1, <2>2
<1>5. CASE Feed
  <2>1. UNCHANGED backlog
    BY <1>5 DEF Feed, appVars
  <2>2. \A p \in Overlays : srv[p] = "queued" => srv'[p] = "queued"
    BY <1>5, FreedType DEF Feed
  <2> QED BY <1>3, <2>1, <2>2
<1>6. ASSUME NEW o \in Overlays, Close(o) \/ \E m \in Modes : SendMode(o, m) PROVE QueueInv'
  BY <1>3, <1>6 DEF Close, SendMode
<1>7. CASE UNCHANGED vars
  BY <1>3, <1>7 DEF vars, appVars
<1> QED BY <1>1, <1>2, <1>4, <1>5, <1>6, <1>7 DEF Next, Reader

LEMMA ListStep ==
    ASSUME TypeOK, NamesInv, QueueInv, ListInv, [Next]_vars
    PROVE  ListInv'
<1> USE DEF ListInv, Kept, Own, Apart, Entry, Open
<1>t. \A c \in clients : c.conn \in Overlays
  BY DEF TypeOK, Client
<1>u. \A c, d \in clients : c.conn = d.conn \/ c.fd = d.fd => c = d
  BY DEF NamesInv, NamesAreUnique
<1>1. ASSUME NEW o \in Overlays, Connect(o) PROVE ListInv'
  <2>1. /\ srv'[o] = "queued" /\ UNCHANGED <<clients, fd, lost>>
        /\ \A p \in Overlays : p # o => srv'[p] = srv[p] /\ mine'[p] = mine[p]
        /\ srv[o] \in {"none", "ended"}
    BY <1>1 DEF Connect, TypeOK
  <2>2. \A c \in clients : c.conn # o
    BY <2>1
  <2>3. Kept' /\ Own'
    BY <1>t, <2>1, <2>2
  <2>4. Apart'
    BY <2>1 DEF Orphan
  <2> QED BY <2>3, <2>4
<1>2. ASSUME NEW o \in Overlays, Close(o) \/ \E m \in Modes : SendMode(o, m) PROVE ListInv'
  BY <1>2 DEF Close, SendMode, Orphan
<1>3. CASE Accept
  <2> DEFINE h == Head(backlog)
  <2>1. h \in Overlays /\ srv[h] = "queued"
    <3>1. h = backlog[1] /\ 1 \in 1..Len(backlog) /\ h \in Overlays
      BY <1>3 DEF Accept, TypeOK
    <3> QED BY <3>1 DEF QueueInv
  <2>2. PICK n \in Fds \ Taken :
           /\ fd' = [fd EXCEPT ![h] = n]
           /\ lost' = IF \E o \in Overlays : Orphan(o) /\ fd[o] = n
                       THEN lost \cup {h} ELSE lost \ {h}
    BY <1>3 DEF Accept
  <2>3. /\ srv'[h] = "probing" /\ fd'[h] = n /\ UNCHANGED <<clients, mine>>
        /\ \A p \in Overlays : p # h => srv'[p] = srv[p] /\ fd'[p] = fd[p]
    BY <1>3, <2>1, <2>2 DEF Accept, TypeOK
  <2>4. \A c \in clients : c.conn # h
    BY <2>1
  <2>5. \A p \in Overlays : p # h => (p \in lost' <=> p \in lost)
    BY <2>2
  <2>6. h \notin lost' => \A p \in Overlays : Orphan(p) => fd[p] # n
    BY <2>2
  <2> HIDE DEF h
  <2>7. Kept' /\ Own'
    BY <1>t, <2>1, <2>3, <2>4, <2>5
  <2>8. \A p \in Overlays : Orphan(p)' => Orphan(p) /\ p # h
    BY <2>1, <2>3 DEF Orphan
  <2>9. Apart'
    BY <2>3, <2>5, <2>6, <2>8
  <2> QED BY <2>7, <2>9
<1>4. ASSUME NEW o \in Overlays, ProbeFails(o) PROVE ListInv'
  <2>1. /\ srv[o] = "probing" /\ srv'[o] = "ended" /\ UNCHANGED <<clients, mine, fd, lost>>
        /\ \A p \in Overlays : p # o => srv'[p] = srv[p]
    BY <1>4 DEF ProbeFails, TypeOK
  <2>2. Kept' /\ Own'
    BY <1>t, <2>1
  <2>3. Apart'
    BY <2>1 DEF Orphan
  <2> QED BY <2>2, <2>3
<1>5. ASSUME NEW o \in Overlays, AdmitRead(o) \/ AdmitMute(o) PROVE ListInv'
  <2>1. /\ srv[o] = "probing" /\ srv'[o] \in {"reading", "mute"} /\ UNCHANGED <<fd, lost>>
        /\ \A p \in Overlays : p # o => srv'[p] = srv[p] /\ mine'[p] = mine[p]
        /\ mine'[o] = Negotiated(o)
    BY <1>5 DEF AdmitRead, AdmitMute, Admit, TypeOK
  <2>2. clients' = clients \cup {[fd |-> fd[o], conn |-> o, mode |-> Negotiated(o)]}
    BY <1>5 DEF AdmitRead, AdmitMute, Admit, Sync
  <2>3. \A c \in clients : c.conn # o
    BY <2>1
  <2>4. Kept' /\ Own'
    BY <1>t, <2>1, <2>2, <2>3
  <2>5. \A p \in Overlays : Orphan(p)' => Orphan(p) /\ p # o
    <3> DEFINE new == [fd |-> fd[o], conn |-> o, mode |-> Negotiated(o)]
    <3>0. new \in clients' /\ new.conn = o
      BY <2>2
    <3> HIDE DEF new
    <3>1. (clients \subseteq clients') /\ (\E c \in clients' : c.conn = o)
      BY <2>2, <3>0
    <3> QED BY <2>1, <3>1 DEF Orphan
  <2>6. Apart'
    BY <2>1, <2>5
  <2> QED BY <2>4, <2>6
<1>6. ASSUME NEW o \in Overlays, ReadLine(o) PROVE ListInv'
  <2> DEFINE m == Head(wire[o])
             F(c) == IF c.fd = fd[o] THEN [c EXCEPT !.mode = m] ELSE c
  <2>1. /\ srv[o] = "reading" /\ UNCHANGED <<srv, fd, lost>> /\ mine'[o] = m
        /\ \A p \in Overlays : p # o => mine'[p] = mine[p]
    BY <1>6 DEF ReadLine, TypeOK
  <2>2. \/ clients' = {F(c) : c \in clients}
        \/ UNCHANGED clients /\ \A c \in clients : c.fd # fd[o]
    BY <1>6 DEF ReadLine, Sync, Switched
  <2>3. \A c \in clients : F(c).fd = c.fd /\ F(c).conn = c.conn
    BY DEF TypeOK, Client
  <2>4. \A c \in clients : c.conn = o => F(c) = [fd |-> c.fd, conn |-> c.conn, mode |-> m]
    BY DEF TypeOK, Client
  \* An entry with this number is the reader's own, or of one that is not spoken of.
  <2>5. \A c \in clients : c.fd = fd[o] /\ c.conn # o => c.conn \in lost
    <3> SUFFICES ASSUME NEW c \in clients, c.fd = fd[o], c.conn # o, c.conn \notin lost
                 PROVE  FALSE
      OBVIOUS
    <3>1. \A d \in clients : d.conn # o
      BY <1>u
    <3> QED BY <1>t, <2>1, <3>1 DEF Orphan
  <2>6. \A c \in clients : F(c).conn \notin lost => F(c) = Entry(c.conn)'
    <3> TAKE c \in clients
    <3>1. CASE c.conn = o
      BY <2>1, <2>3, <2>4, <3>1
    <3>2. CASE c.conn # o
      BY <1>t, <2>1, <2>3, <2>5, <3>2
    <3> QED BY <3>1, <3>2
  <2> HIDE DEF F, m
  <2>7. \A d \in clients' : \E c \in clients : d.conn = c.conn /\ d.fd = c.fd
    BY <2>2, <2>3
  <2>8. \A c \in clients : \E d \in clients' : d.conn = c.conn
    BY <2>2, <2>3
  <2>9. \A p \in Overlays : Orphan(p)' <=> Orphan(p)
    BY <2>1, <2>7, <2>8 DEF Orphan
  <2>10. Apart'
    BY <2>1, <2>9
  <2>11. CASE clients' = {F(c) : c \in clients}
    <3>1. Own'
      BY <2>1, <2>3, <2>6, <2>11
    <3>2. Kept'
      <4> SUFFICES ASSUME NEW p \in Overlays, p \notin lost, srv[p] \in Open
                   PROVE  Entry(p)' \in clients'
        BY <2>1
      <4>1. Entry(p) \in clients /\ Entry(p).conn = p
        OBVIOUS
      <4>2. F(Entry(p)) \in clients' /\ F(Entry(p)).conn = p
        BY <2>3, <2>11, <4>1
      <4> QED BY <2>6, <4>1, <4>2
    <3> QED BY <2>10, <3>1, <3>2
  <2>12. CASE UNCHANGED clients /\ \A c \in clients : c.fd # fd[o]
    <3>1. \A c \in clients : c.conn # o
      BY <2>12
    <3>2. Entry(o) \notin clients
      BY <2>12
    <3>3. o \in lost
      BY <2>1, <3>2
    <3> QED BY <1>t, <2>1, <2>10, <2>12, <3>1, <3>3
  <2> QED BY <2>2, <2>11, <2>12
<1>7. ASSUME NEW o \in Overlays, ReadEnd(o) PROVE ListInv'
  <2>1. /\ srv[o] = "reading" /\ srv'[o] = "ended" /\ UNCHANGED <<mine, fd, lost>>
        /\ \A p \in Overlays : p # o => srv'[p] = Freed(clients \ Without(o))[p]
        /\ clients' = {c \in clients : c.fd # fd[o]} /\ clients' = Without(o)
    BY <1>7 DEF ReadEnd, TypeOK, Sync, Without, Freed
  <2>2. \A p \in Overlays : p # o =>
           \/ srv'[p] = srv[p]
           \/ srv[p] = "mute" /\ srv'[p] = "ended" /\ \E c \in clients \ clients' : c.conn = p
    BY <2>1 DEF Freed
  <2>3. \A p \in Overlays : srv[p] = "mute" /\ srv'[p] # "ended" =>
           \A c \in clients \ clients' : c.conn # p
    BY <2>1 DEF Freed
  <2>4. \A c \in clients \ clients' : c.fd = fd[o]
    BY <2>1
  \* Who loses an entry is the overlay that ended, or one that is not spoken of.
  <2>5. \A c \in clients \ clients' : c.conn = o \/ c.conn \in lost
    <3> SUFFICES ASSUME NEW c \in clients \ clients', c.conn # o, c.conn \notin lost
                 PROVE  FALSE
      OBVIOUS
    <3>1. \A d \in clients : d.conn # o
      BY <1>u, <2>4
    <3> QED BY <1>t, <2>1, <2>4, <3>1 DEF Orphan
  <2>6. \A c \in clients' : c.conn # o
    <3> SUFFICES ASSUME NEW c \in clients', c.conn = o PROVE FALSE
      OBVIOUS
    <3> QED BY <2>1
  <2>7. Kept'
    BY <2>1, <2>2, <2>5
  <2>8. Own'
    <3> SUFFICES ASSUME NEW c \in clients'
                 PROVE  srv'[c.conn] = srv[c.conn]
      BY <1>t, <2>1, <2>6
    <3>1. c \in clients /\ c.conn \in Overlays /\ c.conn # o
      BY <1>t, <2>1, <2>6
    <3>2. \A d \in clients \ clients' : d.conn # c.conn
      BY <1>u, <2>1, <3>1
    <3> QED BY <2>2, <3>1, <3>2
  \* A reader that has just become an orphan had an entry with its number.
  <2>9. Apart'
    <3> SUFFICES ASSUME NEW p \in Overlays, NEW q \in Overlays, Orphan(p)', q \notin lost,
                        srv'[q] \in Open \cup {"probing"}, p # q, fd[p] = fd[q]
                 PROVE  FALSE
      BY <2>1
    <3>1. srv[p] = "reading" /\ p # o /\ \A c \in clients' : c.conn # p
      BY <2>1, <2>2 DEF Orphan
    <3>2. srv'[q] = srv[q] /\ q # o
      BY <2>1, <2>2
    <3>3. PICK c \in clients : c.conn = p
      BY <3>1, <3>2 DEF Orphan
    <3>4. c.fd = fd[p]
      BY <3>3
    <3>5. srv[q] # "probing"
      BY <3>4 DEF NamesInv
    <3>6. Entry(q) \in clients /\ Entry(q).fd = fd[q] /\ Entry(q).conn = q
      BY <3>2, <3>5
    <3> QED BY <1>u, <3>3, <3>4, <3>6
  <2> QED BY <2>7, <2>8, <2>9
<1>8. CASE Feed
  <2>1. PICK dead \in SUBSET clients :
           /\ clients' = clients \ dead /\ srv' = Freed(dead)
           /\ lost' = lost \cup {c.conn : c \in dead}
    <3>1. PICK targets \in {clients, {c \in clients : c.mode = "hold"}} :
             \E late \in SUBSET {c \in targets : Slow /\ app[c.conn] = "open"} :
                LET dead == late \cup {c \in targets : app[c.conn] # "open"} IN
                /\ clients' = clients \ dead /\ srv' = Freed(dead)
                /\ lost' = lost \cup {c.conn : c \in dead}
      BY <1>8 DEF Feed, Sync
    <3>2. PICK late \in SUBSET {c \in targets : Slow /\ app[c.conn] = "open"} :
             LET dead == late \cup {c \in targets : app[c.conn] # "open"} IN
             /\ clients' = clients \ dead /\ srv' = Freed(dead)
             /\ lost' = lost \cup {c.conn : c \in dead}
      BY <3>1
    <3> DEFINE dead == late \cup {c \in targets : app[c.conn] # "open"}
    <3>3. dead \in SUBSET clients
      BY <3>1, <3>2
    <3> WITNESS dead \in SUBSET clients
    <3> QED BY <3>2
  <2>2. UNCHANGED <<fd, mine>>
    BY <1>8 DEF Feed
  <2>3. \A p \in Overlays :
           \/ srv'[p] = srv[p]
           \/ srv[p] = "mute" /\ srv'[p] = "ended" /\ \E c \in dead : c.conn = p
    BY <2>1 DEF Freed
  <2>4. \A c \in dead : c.conn \in lost'
    BY <2>1
  <2>5. lost \subseteq lost'
    BY <2>1
  <2>6. Kept'
    BY <2>1, <2>2, <2>3, <2>4, <2>5
  <2>7. Own'
    <3> SUFFICES ASSUME NEW c \in clients'
                 PROVE  srv'[c.conn] = srv[c.conn]
      BY <1>t, <2>1, <2>2, <2>5
    <3>1. \A d \in dead : d.conn # c.conn
      BY <1>u, <2>1
    <3> QED BY <1>t, <2>1, <2>3, <3>1
  <2>8. Apart'
    <3> SUFFICES ASSUME NEW p \in Overlays, NEW q \in Overlays, Orphan(p)', q \notin lost',
                        srv'[q] \in Open \cup {"probing"}, p # q, fd[p] = fd[q]
                 PROVE  FALSE
      BY <2>2
    <3>1. srv[p] = "reading" /\ srv'[q] = srv[q] /\ q \notin lost
      BY <2>3, <2>5 DEF Orphan
    <3>2. PICK c \in clients : c.conn = p
      BY <3>1 DEF Orphan
    <3>3. c.fd = fd[p]
      BY <3>2
    <3>4. srv[q] # "probing"
      BY <3>3 DEF NamesInv
    <3>5. Entry(q) \in clients /\ Entry(q).fd = fd[q] /\ Entry(q).conn = q
      BY <3>1, <3>4
    <3> QED BY <1>u, <3>2, <3>3, <3>5
  <2> QED BY <2>6, <2>7, <2>8
<1>9. CASE UNCHANGED vars
  BY <1>9 DEF vars, appVars, Orphan
<1> QED BY <1>1, <1>2, <1>3, <1>4, <1>5, <1>6, <1>7, <1>8, <1>9 DEF Next, Reader

\* The game is paused under every overlay that is served and holds it
\* (audiobridge.rs:7-9), for any number of overlays that connect, switch, close
\* and are dropped in any order: whose write did not fail and who did not get
\* the number of a reader that outlived its entry keeps its own.
THEOREM HoldPauses == Spec => []HoldMeansPaused
<1>1. ASSUME Init PROVE NamesInv /\ QueueInv /\ ListInv
  BY <1>1 DEF Init, NamesInv, NamesAreUnique, QueueInv, ListInv, Kept, Own, Apart, Open, Orphan
<1>2. ListInv /\ PauseFollowsList => HoldMeansPaused
  BY DEF ListInv, Kept, Open, Entry, PauseFollowsList, AnyHold, HoldMeansPaused, Served
<1> QED
  BY <1>1, <1>2, ListStep, NamesStep, QueueStep, BridgeTypeCorrect, PauseCorrect, PTL DEF Spec
=============================================================================
