------------------------------ MODULE SinkProofs ------------------------------
(* What holds of the sink for any number of sessions, outputs and jack edges,  *)
(* any queue and any sequence numbers: the types, one writer at a time, one    *)
(* numbering per link, a truthful mirror, outputs in order of which the newest *)
(* stays, a stop the capture loop hears, and an attach the writer cannot miss. *)
EXTENDS Sink, TLAPS

Sending == writer \in {"hello", "top", "keep", "flush"}

-----------------------------------------------------------------------------
(* Types, in parts that are each inductive given the parts before.             *)

Flags ==
    /\ relay \in BOOLEAN /\ stop \in BOOLEAN /\ quitPtr \in BOOLEAN /\ quit \in BOOLEAN
    /\ primed \in BOOLEAN /\ jack \in BOOLEAN

(* The generation counts L2CAP sessions since the sink was spawned. *)
Control ==
    /\ main \in {"idle", "attach", "bump", "session", "stop", "join", "exited"}
    /\ kind \in {"l2cap", "other", "exit"} /\ handle \in {"none", "owner", "stub"}
    /\ capture \in {"start", "publish", "check", "run", "off"}
    /\ writer \in {"wait", "fd", "hello", "top", "keep", "flush", "off"}
    /\ session \in 0..MaxSessions /\ intr \in 0..MaxSessions /\ gen \in 0..MaxSessions
    /\ gen <= session /\ (main \in {"attach", "bump"} => gen < session)
    /\ seen \in 0..MaxSessions /\ curGen \in 0..MaxSessions /\ link \in 0..MaxSessions
    /\ out \in Versions /\ flips \in 0..MaxFlips

Queued == queue \in Seq(Versions) /\ Len(queue) <= QueueCap

Streamed ==
    /\ engaged \in {"none", "jack", "speaker"} /\ mirror \in {Nothing, 0, 1}
    /\ seq \in 0..(SeqMod - 1) /\ silent \in 0..(Quiet - 1) /\ wanted \in Versions

Padded == alive \subseteq Links /\ pad \in [Links -> Pads]

Typed == Flags /\ Control /\ Queued /\ Streamed /\ Padded

LEMMA TypedIsTypeOK == Typed => TypeOK
  BY DEF Typed, Flags, Control, Queued, Streamed, Padded, TypeOK

LEMMA Constant ==
    /\ MaxSessions \in Nat /\ MaxSessions > 0 /\ MaxOut \in Nat /\ MaxOut > 0
    /\ QueueCap \in Nat /\ QueueCap > 0 /\ SeqMod \in Nat /\ SeqMod > 1
    /\ Quiet \in Nat /\ Quiet > 0 /\ MaxFlips \in Nat
  BY SinkAssumption DEF SinkAssumption

LEMMA Fresh == 0 \in Versions /\ Blank \in Pads /\ 0 \in 0..MaxSessions /\ 0 \in 0..MaxFlips
  BY Constant DEF Versions, Blank, Pads

LEMMA Remainder == \A a \in Nat : a % SeqMod \in 0..(SeqMod - 1)
  BY Constant

LEMMA MotorsType == \A v \in Versions : Motors(v) \in {0, 1}
  BY Constant DEF Motors, Versions

LEMMA InitTypes == ASSUME Init PROVE Typed
  <1>1. Flags
    BY DEF Init, Flags
  <1>2. Control
    BY Fresh DEF Init, Control
  <1>3. Queued
    BY Constant DEF Init, Queued
  <1>4. Streamed
    BY Constant, Fresh DEF Init, Streamed
  <1>5. Padded
    BY Fresh DEF Init, Padded
  <1> QED
    BY <1>1, <1>2, <1>3, <1>4, <1>5 DEF Typed

LEMMA FlagTypes == ASSUME Flags, [Next]_vars PROVE Flags'
    <1> USE DEF Flags, mainVars, shared, captureVars, writerVars, stream, world, WorldElse,
              PadElse
  <1>1. CASE AttachFd
    BY <1>1 DEF AttachFd
  <1>2. CASE AttachGen
    BY <1>2 DEF AttachGen
  <1>3. CASE RaiseStop
    BY <1>3 DEF RaiseStop
  <1>4. CASE Join
    BY <1>4 DEF Join
  <1>5. CASE StartL2cap
    BY <1>5 DEF StartL2cap, Spawn
  <1>6. CASE StartOther
    BY <1>6 DEF StartOther
  <1>7. CASE EndSession
    BY <1>7 DEF EndSession
  <1>8. CASE Exit
    BY <1>8 DEF Exit, Gone
  <1>9. CASE JackFlips
    BY <1>9 DEF JackFlips
  <1>10. CASE Output
    BY <1>10 DEF Output
  <1>11. CASE CaptureStep
    BY <1>11 DEF CaptureStep
  <1>12. CASE CaptureFails
    BY <1>12 DEF CaptureFails
  <1>13. CASE CaptureQuits
    BY <1>13 DEF CaptureQuits
  <1>14. ASSUME NEW l \in Links, PadDrops(l) PROVE Flags'
    BY <1>14 DEF PadDrops
  <1>15. CASE ReadGen
    BY <1>15 DEF ReadGen
  <1>16. CASE TakeFd
    BY <1>16 DEF TakeFd, Reset
  <1>17. CASE Hello
    BY <1>17 DEF Hello, Lost, Reset, Send, SendSplit
  <1>18. CASE Stopping
    BY <1>18 DEF Stopping, Reset
  <1>19. CASE Engage
    BY <1>19 DEF Engage, Lost, Reset, Send, SendSplit
  <1>20. CASE KeepAlive
    BY <1>20 DEF KeepAlive, Lost, Reset, Send, SendSplit
  <1>21. CASE NoKeepAlive
    BY <1>21 DEF NoKeepAlive
  <1>22. CASE Flush
    BY <1>22 DEF Flush, Lost, Reset, Send
  <1>23. CASE QuietWindow
    BY <1>23 DEF QuietWindow
  <1>24. CASE LoudWindow
    BY <1>24 DEF LoudWindow, Lost, Reset, Send
  <1>25. CASE UNCHANGED vars
    BY <1>25 DEF vars
  <1> QED
    BY <1>1, <1>2, <1>3, <1>4, <1>5, <1>6, <1>7, <1>8, <1>9, <1>10, <1>11, <1>12,
       <1>13, <1>14, <1>15, <1>16, <1>17, <1>18, <1>19, <1>20, <1>21, <1>22, <1>23, <1>24, <1>25
       DEF Next, MainStep, Capture, Writer, World

LEMMA ControlTypes == ASSUME Control, [Next]_vars PROVE Control'
    <1> USE DEF Control, mainVars, shared, captureVars, writerVars, stream, world, WorldElse,
              PadElse
  <1>1. CASE AttachFd
    BY <1>1 DEF AttachFd
  <1>2. CASE AttachGen
    BY Constant, <1>2 DEF AttachGen, Bumped
  <1>3. CASE RaiseStop
    BY <1>3 DEF RaiseStop
  <1>4. CASE Join
    BY <1>4 DEF Join
  <1>5. CASE StartL2cap
    <2>1. gen' \in {0, gen} /\ gen' < session'
      BY Constant, <1>5 DEF StartL2cap, Spawn
    <2> QED
      BY Constant, <1>5, <2>1 DEF StartL2cap, Spawn
  <1>6. CASE StartOther
    BY <1>6 DEF StartOther
  <1>7. CASE EndSession
    BY Constant, <1>7 DEF EndSession, Detached
  <1>8. CASE Exit
    BY Constant, <1>8 DEF Exit, Gone, Detached
  <1>9. CASE JackFlips
    BY Constant, <1>9 DEF JackFlips
  <1>10. CASE Output
    BY Constant, <1>10 DEF Output, Versions
  <1>11. CASE CaptureStep
    BY <1>11 DEF CaptureStep, CaptureAfter
  <1>12. CASE CaptureFails
    BY <1>12 DEF CaptureFails
  <1>13. CASE CaptureQuits
    BY <1>13 DEF CaptureQuits
  <1>14. ASSUME NEW l \in Links, PadDrops(l) PROVE Control'
    BY <1>14 DEF PadDrops
  <1>15. CASE ReadGen
    BY <1>15 DEF ReadGen
  <1>16. CASE TakeFd
    BY Constant, <1>16 DEF TakeFd, Reset
  <1>17. CASE Hello
    BY <1>17 DEF Hello, Lost, Reset, Send, SendSplit
  <1>18. CASE Stopping
    BY <1>18 DEF Stopping, Reset
  <1>19. CASE Engage
    BY <1>19 DEF Engage, Lost, Reset, Send, SendSplit
  <1>20. CASE KeepAlive
    BY <1>20 DEF KeepAlive, Lost, Reset, Send, SendSplit
  <1>21. CASE NoKeepAlive
    BY <1>21 DEF NoKeepAlive
  <1>22. CASE Flush
    BY <1>22 DEF Flush, Lost, Reset, Send
  <1>23. CASE QuietWindow
    BY <1>23 DEF QuietWindow
  <1>24. CASE LoudWindow
    BY <1>24 DEF LoudWindow, Lost, Reset, Send
  <1>25. CASE UNCHANGED vars
    BY <1>25 DEF vars
  <1> QED
    BY <1>1, <1>2, <1>3, <1>4, <1>5, <1>6, <1>7, <1>8, <1>9, <1>10, <1>11, <1>12,
       <1>13, <1>14, <1>15, <1>16, <1>17, <1>18, <1>19, <1>20, <1>21, <1>22, <1>23, <1>24, <1>25
       DEF Next, MainStep, Capture, Writer, World

LEMMA QueueTypes == ASSUME Control, Queued, [Next]_vars PROVE Queued'
    <1> USE DEF Queued, mainVars, shared, captureVars, writerVars, stream, world, WorldElse,
              PadElse
  <1>1. CASE AttachFd
    BY <1>1 DEF AttachFd
  <1>2. CASE AttachGen
    BY <1>2 DEF AttachGen
  <1>3. CASE RaiseStop
    BY <1>3 DEF RaiseStop
  <1>4. CASE Join
    BY <1>4 DEF Join
  <1>5. CASE StartL2cap
    <2>1. queue' = <<>> \/ queue' = queue
      BY <1>5 DEF StartL2cap, Spawn
    <2>2. <<>> \in Seq(Versions) /\ Len(<<>>) <= QueueCap
      BY Constant
    <2> QED
      BY <2>1, <2>2
  <1>6. CASE StartOther
    BY <1>6 DEF StartOther
  <1>7. CASE EndSession
    BY <1>7 DEF EndSession
  <1>8. CASE Exit
    BY <1>8 DEF Exit, Gone
  <1>9. CASE JackFlips
    BY <1>9 DEF JackFlips
  <1>10. CASE Output
    <2>0. out < MaxOut /\ out \in Versions
      BY <1>10 DEF Output, Control
    <2>1. out + 1 \in Versions
      BY <2>0, Constant DEF Versions
    <2>2. queue' = Enqueued(out + 1)
      BY <1>10 DEF Output
    <2>3. CASE Len(queue) >= QueueCap
      <3>1. queue # <<>> /\ Tail(queue) \in Seq(Versions) /\ Len(Tail(queue)) = Len(queue) - 1
        BY Constant, <2>3
      <3> QED
        BY Constant, <2>1, <2>2, <2>3, <3>1 DEF Enqueued
    <2>4. CASE ~(Len(queue) >= QueueCap)
      BY Constant, <2>1, <2>2, <2>4 DEF Enqueued
    <2> QED
      BY <2>3, <2>4
  <1>11. CASE CaptureStep
    BY <1>11 DEF CaptureStep
  <1>12. CASE CaptureFails
    BY <1>12 DEF CaptureFails
  <1>13. CASE CaptureQuits
    BY <1>13 DEF CaptureQuits
  <1>14. ASSUME NEW l \in Links, PadDrops(l) PROVE Queued'
    BY <1>14 DEF PadDrops
  <1>15. CASE ReadGen
    BY <1>15 DEF ReadGen
  <1>16. CASE TakeFd
    BY <1>16 DEF TakeFd, Reset
  <1>17. CASE Hello
    BY <1>17 DEF Hello, Lost, Reset, Send, SendSplit
  <1>18. CASE Stopping
    BY <1>18 DEF Stopping, Reset
  <1>19. CASE Engage
    BY <1>19 DEF Engage, Lost, Reset, Send, SendSplit
  <1>20. CASE KeepAlive
    BY <1>20 DEF KeepAlive, Lost, Reset, Send, SendSplit
  <1>21. CASE NoKeepAlive
    BY <1>21 DEF NoKeepAlive
  <1>22. CASE Flush
    <2>1. queue # <<>> /\ queue' = Tail(queue)
      BY <1>22 DEF Flush
    <2> QED
      BY <2>1, Constant
  <1>23. CASE QuietWindow
    BY <1>23 DEF QuietWindow
  <1>24. CASE LoudWindow
    BY <1>24 DEF LoudWindow, Lost, Reset, Send
  <1>25. CASE UNCHANGED vars
    BY <1>25 DEF vars
  <1> QED
    BY <1>1, <1>2, <1>3, <1>4, <1>5, <1>6, <1>7, <1>8, <1>9, <1>10, <1>11, <1>12,
       <1>13, <1>14, <1>15, <1>16, <1>17, <1>18, <1>19, <1>20, <1>21, <1>22, <1>23, <1>24, <1>25
       DEF Next, MainStep, Capture, Writer, World

LEMMA AdvanceType == ASSUME Streamed PROVE \A n \in {1, 2} : Advance(n) \in 0..(SeqMod - 1)
  <1>1. \A n \in {1, 2} : seq + n \in Nat
    BY Constant DEF Streamed
  <1> QED
    BY <1>1, Remainder DEF Advance

LEMMA TakenType ==
    ASSUME Queued, queue # <<>>
    PROVE  Taken \in Versions /\ Tail(queue) \in Seq(Versions)
  BY DEF Queued, Taken

LEMMA StreamTypes == ASSUME Queued, Streamed, [Next]_vars PROVE Streamed'
    <1> USE DEF Streamed, mainVars, shared, captureVars, writerVars, stream, world, WorldElse,
              PadElse
  <1>1. CASE AttachFd
    BY <1>1 DEF AttachFd
  <1>2. CASE AttachGen
    BY <1>2 DEF AttachGen
  <1>3. CASE RaiseStop
    BY <1>3 DEF RaiseStop
  <1>4. CASE Join
    BY <1>4 DEF Join
  <1>5. CASE StartL2cap
    BY Constant, Fresh, AdvanceType, <1>5 DEF StartL2cap, Spawn
  <1>6. CASE StartOther
    BY <1>6 DEF StartOther
  <1>7. CASE EndSession
    BY <1>7 DEF EndSession
  <1>8. CASE Exit
    BY <1>8 DEF Exit, Gone
  <1>9. CASE JackFlips
    BY <1>9 DEF JackFlips
  <1>10. CASE Output
    BY <1>10 DEF Output
  <1>11. CASE CaptureStep
    BY <1>11 DEF CaptureStep
  <1>12. CASE CaptureFails
    BY <1>12 DEF CaptureFails
  <1>13. CASE CaptureQuits
    BY <1>13 DEF CaptureQuits
  <1>14. ASSUME NEW l \in Links, PadDrops(l) PROVE Streamed'
    BY <1>14 DEF PadDrops
  <1>15. CASE ReadGen
    BY <1>15 DEF ReadGen
  <1>16. CASE TakeFd
    BY Constant, Fresh, AdvanceType, <1>16 DEF TakeFd, Reset
  <1>17. CASE Hello
    BY Constant, Fresh, AdvanceType, <1>17 DEF Hello, Lost, Reset, Send, SendSplit
  <1>18. CASE Stopping
    BY Constant, Fresh, AdvanceType, <1>18 DEF Stopping, Reset
  <1>19. CASE Engage
    BY Constant, Fresh, AdvanceType, <1>19 DEF Engage, Lost, Reset, Send, SendSplit, PathOf
  <1>20. CASE KeepAlive
    BY Constant, Fresh, AdvanceType, <1>20 DEF KeepAlive, Lost, Reset, Send, SendSplit
  <1>21. CASE NoKeepAlive
    BY <1>21 DEF NoKeepAlive
  <1>22. CASE Flush
    <2>1. Taken \in Versions /\ Motors(Taken) \in {0, 1}
      BY <1>22, TakenType, MotorsType DEF Flush
    <2> QED
      BY Constant, Fresh, AdvanceType, <1>22, <2>1 DEF Flush, Lost, Reset, Send, Tracked, Absorbed
  <1>23. CASE QuietWindow
    BY Constant, Fresh, AdvanceType, <1>23 DEF QuietWindow
  <1>24. CASE LoudWindow
    <2>1. wanted \in Versions /\ Motors(wanted) \in {0, 1}
      BY MotorsType
    <2> QED
      BY Constant, Fresh, AdvanceType, <1>24, <2>1 DEF LoudWindow, Lost, Reset, Send
  <1>25. CASE UNCHANGED vars
    BY <1>25 DEF vars
  <1> QED
    BY <1>1, <1>2, <1>3, <1>4, <1>5, <1>6, <1>7, <1>8, <1>9, <1>10, <1>11, <1>12,
       <1>13, <1>14, <1>15, <1>16, <1>17, <1>18, <1>19, <1>20, <1>21, <1>22, <1>23, <1>24, <1>25
       DEF Next, MainStep, Capture, Writer, World


(* What a report does to the pad that gets it, and to no other. *)
LEMMA Sends ==
    ASSUME Typed, NEW n \in {1, 2}, NEW v \in Versions, NEW j \in BOOLEAN, Send(n, v, j)
    PROVE  /\ link \in alive /\ link \in Links
           /\ seq' = Advance(n) /\ pad' \in [Links -> Pads]
           /\ pad'[link].got = (pad[link].got + n) % SeqMod
           /\ pad'[link].next = (seq + n) % SeqMod
           /\ pad'[link].state = v
           /\ \A l \in Links : l # link => pad'[l] = pad[l]
  <1>1. link \in alive /\ link \in Links /\ pad \in [Links -> Pads] /\ pad[link] \in Pads
    BY DEF Send, Typed, Padded
  <1>2. pad[link].got \in Nat
    BY <1>1, Constant DEF Pads
  <1>3. pad[link].got + n \in Nat
    BY <1>2
  <1>4. (pad[link].got + n) % SeqMod \in 0..(SeqMod - 1)
    BY <1>3, Remainder
  <1>5. (seq + n) % SeqMod \in 0..(SeqMod - 1)
    BY AdvanceType DEF Typed, Advance
  <1> DEFINE r == [got |-> (pad[link].got + n) % SeqMod, next |-> (seq + n) % SeqMod,
                   state |-> v, path |-> j]
  <1>6. r \in Pads
    BY <1>4, <1>5 DEF Pads
  <1>7. pad' = [pad EXCEPT ![link] = r] /\ seq' = Advance(n)
    BY DEF Send
  <1>8. r.got = (pad[link].got + n) % SeqMod /\ r.next = (seq + n) % SeqMod /\ r.state = v
    OBVIOUS
  <1> HIDE DEF r
  <1> QED
    BY <1>1, <1>6, <1>7, <1>8

LEMMA StateType == ASSUME Typed, link \in alive PROVE State \in Versions /\ Path \in BOOLEAN
  BY DEF Typed, Padded, State, Path, Pads

LEMMA RouteType == Route \in BOOLEAN
  BY DEF Route

(* A report in two writes takes its number and leaves the pad as it is.        *)
LEMMA Splits ==
    ASSUME Typed, SendSplit
    PROVE  /\ link \in alive /\ link \in Links
           /\ seq' = Advance(1) /\ pad' \in [Links -> Pads]
           /\ pad'[link].got = (pad[link].got + 1) % SeqMod
           /\ pad'[link].next = (seq + 1) % SeqMod
           /\ pad'[link].state = pad[link].state
           /\ \A l \in Links : l # link => pad'[l] = pad[l]
  <1>1. Send(1, State, Path) /\ link \in alive
    BY DEF SendSplit, Send
  <1>2. State \in Versions /\ Path \in BOOLEAN
    BY <1>1, StateType
  <1> QED
    BY <1>1, <1>2, Sends DEF State

(* A relayed output leaves the pad with what was taken from the queue.         *)
LEMMA Relays ==
    ASSUME Typed, queue # <<>>, \E path \in {Path, Route} : Send(1, Taken, path)
    PROVE  /\ link \in alive /\ link \in Links
           /\ seq' = Advance(1) /\ pad' \in [Links -> Pads]
           /\ pad'[link].got = (pad[link].got + 1) % SeqMod
           /\ pad'[link].next = (seq + 1) % SeqMod
           /\ pad'[link].state = Taken
           /\ \A l \in Links : l # link => pad'[l] = pad[l]
  <1>1. PICK path \in {Path, Route} : Send(1, Taken, path)
    OBVIOUS
  <1>2. link \in alive
    BY <1>1 DEF Send
  <1>3. Taken \in Versions /\ path \in BOOLEAN
    BY <1>2, StateType, RouteType, TakenType DEF Typed
  <1> QED
    BY <1>1, <1>3, Sends

LEMMA PadTypes == ASSUME Typed, [Next]_vars PROVE Padded'
    <1> USE DEF Padded, Typed, mainVars, shared, captureVars, writerVars, stream, world,
              WorldElse, PadElse
  <1>1. CASE AttachFd
    BY <1>1 DEF AttachFd
  <1>2. CASE AttachGen
    BY <1>2 DEF AttachGen
  <1>3. CASE RaiseStop
    BY <1>3 DEF RaiseStop
  <1>4. CASE Join
    BY <1>4 DEF Join
  <1>5. CASE StartL2cap
    <2>1. alive' = alive \cup {session + 1} /\ pad' = pad /\ session < MaxSessions
      BY <1>5 DEF StartL2cap
    <2>2. session + 1 \in Links
      BY <2>1, Constant DEF Control, Links
    <2> QED
      BY <2>1, <2>2
  <1>6. CASE StartOther
    BY <1>6 DEF StartOther
  <1>7. CASE EndSession
    BY <1>7 DEF EndSession
  <1>8. CASE Exit
    BY <1>8 DEF Exit, Gone
  <1>9. CASE JackFlips
    BY <1>9 DEF JackFlips
  <1>10. CASE Output
    BY <1>10 DEF Output
  <1>11. CASE CaptureStep
    BY <1>11 DEF CaptureStep
  <1>12. CASE CaptureFails
    BY <1>12 DEF CaptureFails
  <1>13. CASE CaptureQuits
    BY <1>13 DEF CaptureQuits
  <1>14. ASSUME NEW l \in Links, PadDrops(l) PROVE Padded'
    BY Constant, Fresh, <1>14 DEF PadDrops
  <1>15. CASE ReadGen
    BY <1>15 DEF ReadGen
  <1>16. CASE TakeFd
    BY <1>16 DEF TakeFd, Reset
  <1>17. CASE Hello
    <2>1. CASE SendSplit
      BY <1>17, <2>1, Splits DEF Hello
    <2>2. CASE pad' = pad
      BY <1>17, <2>2 DEF Hello
    <2> QED
      BY <1>17, <2>1, <2>2 DEF Hello, Lost
  <1>18. CASE Stopping
    BY <1>18 DEF Stopping, Reset
  <1>19. CASE Engage
    <2>1. CASE SendSplit
      BY <1>19, <2>1, Splits DEF Engage
    <2>2. CASE pad' = pad
      BY <1>19, <2>2 DEF Engage
    <2> QED
      BY <1>19, <2>1, <2>2 DEF Engage, Lost
  <1>20. CASE KeepAlive
    <2>1. CASE SendSplit
      BY <1>20, <2>1, Splits DEF KeepAlive
    <2>2. CASE pad' = pad
      BY <1>20, <2>2 DEF KeepAlive
    <2> QED
      BY <1>20, <2>1, <2>2 DEF KeepAlive, Lost
  <1>21. CASE NoKeepAlive
    BY <1>21 DEF NoKeepAlive
  <1>22. CASE Flush
    <2>1. CASE (\E path \in {Path, Route} : Send(1, Taken, path))
      BY <1>22, <2>1, Relays DEF Flush
    <2>2. CASE pad' = pad
      BY <1>22, <2>2 DEF Flush
    <2> QED
      BY <1>22, <2>1, <2>2 DEF Flush, Lost
  <1>23. CASE QuietWindow
    BY <1>23 DEF QuietWindow
  <1>24. CASE LoudWindow
    <2> DEFINE n == IF primed THEN 1 ELSE 2
    <2>1. CASE Send(n, wanted, Route)
      <3>1. n \in {1, 2} /\ wanted \in Versions /\ Route \in BOOLEAN
        BY RouteType DEF Streamed
      <3> HIDE DEF n
      <3> QED
        BY <1>24, <2>1, <3>1, Sends DEF LoudWindow
    <2>2. CASE pad' = pad
      BY <1>24, <2>2 DEF LoudWindow
    <2> QED
      BY <1>24, <2>1, <2>2 DEF LoudWindow, Lost
  <1>25. CASE UNCHANGED vars
    BY <1>25 DEF vars
  <1> QED
    BY <1>1, <1>2, <1>3, <1>4, <1>5, <1>6, <1>7, <1>8, <1>9, <1>10, <1>11, <1>12,
       <1>13, <1>14, <1>15, <1>16, <1>17, <1>18, <1>19, <1>20, <1>21, <1>22, <1>23, <1>24, <1>25
       DEF Next, MainStep, Capture, Writer, World

LEMMA StepTypes == ASSUME Typed, [Next]_vars PROVE Typed'
  BY FlagTypes, ControlTypes, QueueTypes, StreamTypes, PadTypes DEF Typed

(* Every variable of the sink and its threads keeps its type: the queue stays  *)
(* within its bound, and the generation within the sessions.                   *)
THEOREM SinkTypeCorrect == Spec => []TypeOK
  <1>1. Init => Typed
    BY InitTypes
  <1>2. Typed /\ [Next]_vars => Typed'
    BY StepTypes
  <1>3. Typed => TypeOK
    BY TypedIsTypeOK
  <1> QED
    BY <1>1, <1>2, <1>3, PTL DEF Spec

-----------------------------------------------------------------------------
(* Whose turn it is. *)

(* While sessions come and go, a sink that is reachable is not being stopped   *)
(* and one that is not runs no thread.                                         *)
Life ==
    /\ main \in {"idle", "attach", "bump", "session"} =>
          IF relay THEN ~stop ELSE writer = "off" /\ capture = "off"
    /\ main = "join" => ~relay

(* Whose link Shared.intr is, and that the writer's is not a later one. *)
Ends ==
    /\ main \in {"attach", "bump"} => kind = "l2cap"
    /\ intr # 0 => main \in {"bump", "session"} /\ kind = "l2cap" /\ intr = session
    /\ link <= session /\ (main = "attach" => link < session)
    /\ Sending => link # 0
    /\ \A l \in Links : l > session \/ (main = "attach" /\ l = session) => pad[l] = Blank

(* A step that spawns a sink finds both threads of the former one ended. *)
OneAtATime == relay' /\ ~relay => writer = "off" /\ capture = "off"

LEMMA LifeStep == ASSUME Flags, Control, Life, [Next]_vars PROVE Life' /\ OneAtATime
    <1> USE DEF Life, OneAtATime, Control, mainVars, shared, captureVars, writerVars, stream,
              world, WorldElse, PadElse
  <1>1. CASE AttachFd
    BY <1>1 DEF AttachFd
  <1>2. CASE AttachGen
    BY <1>2 DEF AttachGen
  <1>3. CASE RaiseStop
    BY <1>3 DEF RaiseStop
  <1>4. CASE Join
    BY <1>4 DEF Join, Joined
  <1>5. CASE StartL2cap
    BY <1>5 DEF StartL2cap, Spawn
  <1>6. CASE StartOther
    BY <1>6 DEF StartOther
  <1>7. CASE EndSession
    BY <1>7 DEF EndSession
  <1>8. CASE Exit
    BY <1>8 DEF Exit, Gone
  <1>9. CASE JackFlips
    BY <1>9 DEF JackFlips
  <1>10. CASE Output
    BY <1>10 DEF Output
  <1>11. CASE CaptureStep
    BY <1>11 DEF CaptureStep, CaptureAfter
  <1>12. CASE CaptureFails
    BY <1>12 DEF CaptureFails
  <1>13. CASE CaptureQuits
    BY <1>13 DEF CaptureQuits
  <1>14. ASSUME NEW l \in Links, PadDrops(l) PROVE Life' /\ OneAtATime
    BY <1>14 DEF PadDrops
  <1>15. CASE ReadGen
    BY <1>15 DEF ReadGen
  <1>16. CASE TakeFd
    BY <1>16 DEF TakeFd, Reset
  <1>17. CASE Hello
    BY <1>17 DEF Hello, Lost, Reset, Send, SendSplit
  <1>18. CASE Stopping
    BY <1>18 DEF Stopping, Reset
  <1>19. CASE Engage
    BY <1>19 DEF Engage, Lost, Reset, Send, SendSplit
  <1>20. CASE KeepAlive
    BY <1>20 DEF KeepAlive, Lost, Reset, Send, SendSplit
  <1>21. CASE NoKeepAlive
    BY <1>21 DEF NoKeepAlive
  <1>22. CASE Flush
    BY <1>22 DEF Flush, Lost, Reset, Send
  <1>23. CASE QuietWindow
    BY <1>23 DEF QuietWindow, Flushed
  <1>24. CASE LoudWindow
    BY <1>24 DEF LoudWindow, Lost, Reset, Send
  <1>25. CASE UNCHANGED vars
    BY <1>25 DEF vars
  <1> QED
    BY <1>1, <1>2, <1>3, <1>4, <1>5, <1>6, <1>7, <1>8, <1>9, <1>10, <1>11, <1>12,
       <1>13, <1>14, <1>15, <1>16, <1>17, <1>18, <1>19, <1>20, <1>21, <1>22, <1>23, <1>24, <1>25
       DEF Next, MainStep, Capture, Writer, World

(* A sink is spawned only when neither thread of the former one runs.          *)
THEOREM OneWriterHolds == Spec => OneWriter
  <1>1. Init => Typed /\ Life
    BY InitTypes DEF Init, Life
  <1>2. Typed /\ Life /\ [Next]_vars => (Typed /\ Life)' /\ OneAtATime
    BY StepTypes, LifeStep DEF Typed
  <1>3. OneAtATime => [relay' /\ ~relay => writer = "off" /\ capture = "off"]_vars
    BY DEF OneAtATime
  <1> QED
    BY <1>1, <1>2, <1>3, PTL DEF Spec, OneWriter

LEMMA EndsStep == ASSUME Typed, Life, Ends, [Next]_vars PROVE Ends'
    <1> USE DEF Ends, Typed, Control, Padded, Sending, Links, mainVars, shared, captureVars,
              writerVars, stream, world, WorldElse, PadElse
  <1>1. CASE AttachFd
    BY <1>1 DEF AttachFd
  <1>2. CASE AttachGen
    BY <1>2 DEF AttachGen
  <1>3. CASE RaiseStop
    BY <1>3 DEF RaiseStop
  <1>4. CASE Join
    BY <1>4 DEF Join
  <1>5. CASE StartL2cap
    BY <1>5 DEF StartL2cap, Spawn
  <1>6. CASE StartOther
    BY <1>6 DEF StartOther
  <1>7. CASE EndSession
    BY <1>7 DEF EndSession, Detached
  <1>8. CASE Exit
    BY <1>8 DEF Exit, Gone, Detached
  <1>9. CASE JackFlips
    BY <1>9 DEF JackFlips
  <1>10. CASE Output
    BY <1>10 DEF Output
  <1>11. CASE CaptureStep
    BY <1>11 DEF CaptureStep
  <1>12. CASE CaptureFails
    BY <1>12 DEF CaptureFails
  <1>13. CASE CaptureQuits
    BY <1>13 DEF CaptureQuits
  <1>14. ASSUME NEW l \in Links, PadDrops(l) PROVE Ends'
    BY <1>14 DEF PadDrops
  <1>15. CASE ReadGen
    BY <1>15 DEF ReadGen
  <1>16. CASE TakeFd
    BY <1>16 DEF TakeFd, Reset
  <1>17. CASE Hello
    <2>1. Sending /\ UNCHANGED <<main, kind, session, intr, link>>
      BY <1>17 DEF Hello, Lost
    <2>2. \A l \in Links : l # link => pad'[l] = pad[l]
      BY <1>17 DEF Hello, Lost, Send, SendSplit
    <2> QED
      BY Constant, <2>1, <2>2
  <1>18. CASE Stopping
    BY <1>18 DEF Stopping, Reset
  <1>19. CASE Engage
    <2>1. Sending /\ UNCHANGED <<main, kind, session, intr, link>>
      BY <1>19 DEF Engage, Lost
    <2>2. \A l \in Links : l # link => pad'[l] = pad[l]
      BY <1>19 DEF Engage, Lost, Send, SendSplit
    <2> QED
      BY Constant, <2>1, <2>2
  <1>20. CASE KeepAlive
    <2>1. Sending /\ UNCHANGED <<main, kind, session, intr, link>>
      BY <1>20 DEF KeepAlive, Lost
    <2>2. \A l \in Links : l # link => pad'[l] = pad[l]
      BY <1>20 DEF KeepAlive, Lost, Send, SendSplit
    <2> QED
      BY Constant, <2>1, <2>2
  <1>21. CASE NoKeepAlive
    BY <1>21 DEF NoKeepAlive
  <1>22. CASE Flush
    <2>1. writer = "flush" /\ writer' \in {"flush", "wait"}
          /\ UNCHANGED <<main, kind, session, intr, link>>
      BY <1>22 DEF Flush, Lost
    <2>2. \A l \in Links : l # link => pad'[l] = pad[l]
      BY <1>22 DEF Flush, Lost, Send
    <2> QED
      BY Constant, <2>1, <2>2
  <1>23. CASE QuietWindow
    BY <1>23 DEF QuietWindow, Flushed
  <1>24. CASE LoudWindow
    <2>1. Sending /\ UNCHANGED <<main, kind, session, intr, link>>
      BY <1>24 DEF LoudWindow, Lost, Flushed
    <2>2. \A l \in Links : l # link => pad'[l] = pad[l]
      BY <1>24 DEF LoudWindow, Lost, Send
    <2> QED
      BY Constant, <2>1, <2>2
  <1>25. CASE UNCHANGED vars
    BY <1>25 DEF vars
  <1> QED
    BY <1>1, <1>2, <1>3, <1>4, <1>5, <1>6, <1>7, <1>8, <1>9, <1>10, <1>11, <1>12,
       <1>13, <1>14, <1>15, <1>16, <1>17, <1>18, <1>19, <1>20, <1>21, <1>22, <1>23, <1>24, <1>25
       DEF Next, MainStep, Capture, Writer, World

-----------------------------------------------------------------------------
(* One numbering per link. *)

(* The link of the session is still without a report from this writer.         *)
Unserved == writer # "off" /\ ~(writer = "wait" /\ stop) /\ ~(Sending /\ link = intr)

(* The writer's next number is the one its link expects, and a link it has     *)
(* still to serve expects 0.                                                   *)
Numbers ==
    /\ SeqUnified
    /\ Sending /\ link \in alive => seq = pad[link].got
    /\ intr \in alive /\ Unserved => pad[intr].got = 0

LEMMA NoLinkZero == ASSUME Typed PROVE 0 \notin alive /\ 0 # session + 1
  BY DEF Typed, Control, Padded, Links

LEMMA NumbersStep == ASSUME Typed, Life, Ends, Numbers, [Next]_vars PROVE Numbers'
    <1> USE DEF Numbers, SeqUnified, Unserved, Ends, Typed, Flags, Control, Streamed, Padded,
              Sending, mainVars, shared, captureVars, writerVars, stream, world, WorldElse,
              PadElse
  <1>1. CASE AttachFd
    <2>1. main = "attach" /\ intr' = session /\ UNCHANGED <<alive, pad, link, seq, writer>>
      BY <1>1 DEF AttachFd
    <2>2. session \in alive => pad[session].got = 0
      BY <2>1 DEF Blank
    <2> QED
      BY <2>1, <2>2
  <1>2. CASE AttachGen
    BY <1>2 DEF AttachGen
  <1>3. CASE RaiseStop
    BY <1>3 DEF RaiseStop
  <1>4. CASE Join
    BY <1>4 DEF Join
  <1>5. CASE StartL2cap
    <2>1. intr' = 0 /\ alive' = alive \cup {session + 1} /\ UNCHANGED pad
      BY <1>5 DEF StartL2cap, Spawn
    <2>2. UNCHANGED <<writer, link, seq>> \/ writer' = "wait"
      BY <1>5 DEF StartL2cap, Spawn
    <2>3. link \in alive' => link \in alive
      BY <2>1, <2>2, NoLinkZero
    <2> QED
      BY <2>1, <2>2, <2>3, NoLinkZero
  <1>6. CASE StartOther
    BY <1>6 DEF StartOther
  <1>7. CASE EndSession
    <2>1. intr' = 0 /\ UNCHANGED <<alive, pad, link, seq, writer>>
      BY <1>7 DEF EndSession, Detached
    <2> QED
      BY <2>1, NoLinkZero
  <1>8. CASE Exit
    <2>1. intr' = 0 /\ UNCHANGED <<alive, pad, link, seq>> /\ (writer' = writer \/ writer' = "off")
      BY <1>8 DEF Exit, Gone, Detached
    <2> QED
      BY <2>1, NoLinkZero
  <1>9. CASE JackFlips
    BY <1>9 DEF JackFlips
  <1>10. CASE Output
    BY <1>10 DEF Output
  <1>11. CASE CaptureStep
    BY <1>11 DEF CaptureStep
  <1>12. CASE CaptureFails
    BY <1>12 DEF CaptureFails
  <1>13. CASE CaptureQuits
    BY <1>13 DEF CaptureQuits
  <1>14. ASSUME NEW l \in Links, PadDrops(l) PROVE Numbers'
    <2>1. l \notin alive' /\ alive' \subseteq alive /\ pad' = [pad EXCEPT ![l] = Blank]
          /\ UNCHANGED <<writer, link, intr, seq>>
      BY <1>14 DEF PadDrops
    <2>2. UNCHANGED stop
      BY <1>14 DEF PadDrops
    <2>3. Blank.next = Blank.got
      BY DEF Blank
    <2>4. SeqUnified'
      BY <2>1, <2>3
    <2> QED
      BY <2>1, <2>2, <2>4
  <1>15. CASE ReadGen
    BY <1>15 DEF ReadGen
  <1>16. CASE TakeFd
    BY <1>16 DEF TakeFd, Reset
  <1>17. CASE Hello
    <2>1. CASE SendSplit
      <3>1. pad'[link].got = (pad[link].got + 1) % SeqMod /\ pad'[link].next = (seq + 1) % SeqMod
            /\ seq' = (seq + 1) % SeqMod /\ \A l \in Links : l # link => pad'[l] = pad[l]
        BY <2>1, Splits DEF Advance
      <3>2. Sending /\ Sending' /\ link \in alive /\ UNCHANGED <<link, intr, alive>>
        BY <1>17, <2>1, Splits DEF Hello, Lost
      <3> QED
        BY <3>1, <3>2
    <2>2. CASE ~SendSplit
      BY <1>17, <2>2 DEF Hello, Lost, Reset
    <2> QED
      BY <2>1, <2>2
  <1>18. CASE Stopping
    BY <1>18 DEF Stopping, Reset
  <1>19. CASE Engage
    <2>1. CASE SendSplit
      <3>1. pad'[link].got = (pad[link].got + 1) % SeqMod /\ pad'[link].next = (seq + 1) % SeqMod
            /\ seq' = (seq + 1) % SeqMod /\ \A l \in Links : l # link => pad'[l] = pad[l]
        BY <2>1, Splits DEF Advance
      <3>2. Sending /\ Sending' /\ link \in alive /\ UNCHANGED <<link, intr, alive>>
        BY <1>19, <2>1, Splits DEF Engage, Lost
      <3> QED
        BY <3>1, <3>2
    <2>2. CASE ~SendSplit
      BY <1>19, <2>2 DEF Engage, Lost, Reset
    <2> QED
      BY <2>1, <2>2
  <1>20. CASE KeepAlive
    <2>1. CASE SendSplit
      <3>1. pad'[link].got = (pad[link].got + 1) % SeqMod /\ pad'[link].next = (seq + 1) % SeqMod
            /\ seq' = (seq + 1) % SeqMod /\ \A l \in Links : l # link => pad'[l] = pad[l]
        BY <2>1, Splits DEF Advance
      <3>2. Sending /\ Sending' /\ link \in alive /\ UNCHANGED <<link, intr, alive>>
        BY <1>20, <2>1, Splits DEF KeepAlive, Lost
      <3> QED
        BY <3>1, <3>2
    <2>2. CASE ~SendSplit
      BY <1>20, <2>2 DEF KeepAlive, Lost, Reset
    <2> QED
      BY <2>1, <2>2
  <1>21. CASE NoKeepAlive
    BY <1>21 DEF NoKeepAlive
  <1>22. CASE Flush
    <2>1. CASE (\E path \in {Path, Route} : Send(1, Taken, path))
      <3>1. pad'[link].got = (pad[link].got + 1) % SeqMod /\ pad'[link].next = (seq + 1) % SeqMod
            /\ seq' = (seq + 1) % SeqMod /\ \A l \in Links : l # link => pad'[l] = pad[l]
        BY <1>22, <2>1, Relays DEF Advance, Flush
      <3>2. Sending /\ Sending' /\ link \in alive /\ UNCHANGED <<link, intr, alive>>
        BY <1>22, <2>1, Relays DEF Flush, Lost
      <3> QED
        BY <3>1, <3>2
    <2>2. CASE ~(\E path \in {Path, Route} : Send(1, Taken, path))
      BY <1>22, <2>2 DEF Flush, Lost, Reset
    <2> QED
      BY <2>1, <2>2
  <1>23. CASE QuietWindow
    BY <1>23 DEF QuietWindow, Flushed
  <1>24. CASE LoudWindow
    <2> DEFINE n == IF primed THEN 1 ELSE 2
    <2>1. n \in {1, 2} /\ wanted \in Versions /\ Route \in BOOLEAN
      BY RouteType
    <2>2. Lost \/ (Send(n, wanted, Route) /\ writer' = "top")
      BY <1>24 DEF LoudWindow
    <2>3. writer = "flush" /\ UNCHANGED <<link, intr, alive>>
      BY <1>24 DEF LoudWindow, Flushed
    <2> HIDE DEF n
    <2>4. CASE Send(n, wanted, Route) /\ writer' = "top"
      <3>1. pad'[link].got = (pad[link].got + n) % SeqMod /\ pad'[link].next = (seq + n) % SeqMod
            /\ seq' = (seq + n) % SeqMod /\ \A l \in Links : l # link => pad'[l] = pad[l]
        BY <2>1, <2>4, Sends DEF Advance
      <3> QED
        BY <2>3, <2>4, <3>1 DEF Send
    <2>5. CASE Lost
      BY <2>3, <2>5 DEF Lost, Reset
    <2> QED
      BY <2>2, <2>4, <2>5
  <1>25. CASE UNCHANGED vars
    BY <1>25 DEF vars
  <1> QED
    BY <1>1, <1>2, <1>3, <1>4, <1>5, <1>6, <1>7, <1>8, <1>9, <1>10, <1>11, <1>12,
       <1>13, <1>14, <1>15, <1>16, <1>17, <1>18, <1>19, <1>20, <1>21, <1>22, <1>23, <1>24, <1>25
       DEF Next, MainStep, Capture, Writer, World

LEMMA Preserved ==
    ASSUME Typed, Life, Ends, Numbers, [Next]_vars PROVE (Typed /\ Life /\ Ends /\ Numbers)'
  BY StepTypes, LifeStep, EndsStep, NumbersStep DEF Typed

LEMMA Initially == ASSUME Init PROVE Typed /\ Life /\ Ends /\ Numbers
  <1>1. Typed /\ Life
    BY InitTypes DEF Init, Life
  <1>2. Ends
    BY DEF Init, Ends, Sending
  <1>3. Numbers
    BY DEF Init, Numbers, SeqUnified, Blank, Sending
  <1> QED
    BY <1>1, <1>2, <1>3

(* The reports on a link are numbered one after the other from 0, whatever     *)
(* branch of the writer's loop sends them and whichever session it serves.     *)
THEOREM SeqUnifiedHolds == Spec => []SeqUnified
  <1>1. Numbers => SeqUnified
    BY DEF Numbers
  <1> QED
    BY Initially, Preserved, <1>1, PTL DEF Spec

-----------------------------------------------------------------------------
(* What the writer knows of the pad. *)

LEMMA MirrorStep == ASSUME Typed, Ends, MirrorTruthful, [Next]_vars PROVE MirrorTruthful'
    <1> USE DEF MirrorTruthful, Typed, Flags, Streamed, Padded, mainVars, shared, captureVars,
              writerVars, stream, world, WorldElse, PadElse
  <1>1. CASE AttachFd
    BY <1>1 DEF AttachFd
  <1>2. CASE AttachGen
    BY <1>2 DEF AttachGen
  <1>3. CASE RaiseStop
    BY <1>3 DEF RaiseStop
  <1>4. CASE Join
    BY <1>4 DEF Join
  <1>5. CASE StartL2cap
    <2>1. mirror' \in {mirror, Nothing} /\ link' \in {link, 0} /\ alive' = alive \cup {session + 1}
          /\ UNCHANGED pad
      BY <1>5 DEF StartL2cap, Spawn
    <2>2. link # session + 1
      BY Constant DEF Ends, Control
    <2>3. link' \in alive' => link' = link /\ link \in alive
      BY <2>1, <2>2, NoLinkZero
    <2> QED
      BY <2>1, <2>3
  <1>6. CASE StartOther
    BY <1>6 DEF StartOther
  <1>7. CASE EndSession
    BY <1>7 DEF EndSession, Detached
  <1>8. CASE Exit
    BY <1>8 DEF Exit, Gone, Detached
  <1>9. CASE JackFlips
    BY <1>9 DEF JackFlips
  <1>10. CASE Output
    BY <1>10 DEF Output
  <1>11. CASE CaptureStep
    BY <1>11 DEF CaptureStep
  <1>12. CASE CaptureFails
    BY <1>12 DEF CaptureFails
  <1>13. CASE CaptureQuits
    BY <1>13 DEF CaptureQuits
  <1>14. ASSUME NEW l \in Links, PadDrops(l) PROVE MirrorTruthful'
    BY <1>14 DEF PadDrops
  <1>15. CASE ReadGen
    BY <1>15 DEF ReadGen
  <1>16. CASE TakeFd
    BY <1>16 DEF TakeFd, Reset
  <1>17. CASE Hello
    <2>1. CASE SendSplit
      <3>1. pad'[link].state = pad[link].state /\ link \in alive
        BY <2>1, Splits
      <3>2. UNCHANGED <<link, alive>>
        BY <1>17 DEF Hello
      <3>3. mirror' = mirror
        BY <1>17, <3>1 DEF Hello, Lost
      <3> QED
        BY <3>1, <3>2, <3>3
    <2>2. CASE ~SendSplit
      BY <1>17, <2>2 DEF Hello, Lost, Reset
    <2> QED
      BY <2>1, <2>2
  <1>18. CASE Stopping
    BY <1>18 DEF Stopping, Reset
  <1>19. CASE Engage
    <2>1. CASE SendSplit
      <3>1. pad'[link].state = pad[link].state /\ link \in alive
        BY <2>1, Splits
      <3>2. UNCHANGED <<link, alive>>
        BY <1>19 DEF Engage
      <3>3. mirror' = mirror
        BY <1>19, <3>1 DEF Engage, Lost
      <3> QED
        BY <3>1, <3>2, <3>3
    <2>2. CASE ~SendSplit
      BY <1>19, <2>2 DEF Engage, Lost, Reset
    <2> QED
      BY <2>1, <2>2
  <1>20. CASE KeepAlive
    <2>1. CASE SendSplit
      <3>1. pad'[link].state = pad[link].state /\ link \in alive
        BY <2>1, Splits
      <3>2. UNCHANGED <<link, alive>>
        BY <1>20 DEF KeepAlive
      <3>3. mirror' = mirror
        BY <1>20, <3>1 DEF KeepAlive, Lost
      <3> QED
        BY <3>1, <3>2, <3>3
    <2>2. CASE ~SendSplit
      BY <1>20, <2>2 DEF KeepAlive, Lost, Reset
    <2> QED
      BY <2>1, <2>2
  <1>21. CASE NoKeepAlive
    BY <1>21 DEF NoKeepAlive
  <1>22. CASE Flush
    <2>1. CASE (\E path \in {Path, Route} : Send(1, Taken, path)) /\ mirror' = Motors(Taken)
      <3>1. pad'[link].state = Taken /\ UNCHANGED <<link, alive>>
        BY <1>22, <2>1, Relays DEF Flush
      <3> QED
        BY <2>1, <3>1
    <2>2. CASE UNCHANGED <<pad, mirror>> \/ Lost
      BY <1>22, <2>2 DEF Flush, Lost, Reset
    <2> QED
      BY <1>22, <2>1, <2>2 DEF Flush, Absorbed
  <1>23. CASE QuietWindow
    BY <1>23 DEF QuietWindow, Flushed
  <1>24. CASE LoudWindow
    <2> DEFINE n == IF primed THEN 1 ELSE 2
    <2>1. n \in {1, 2} /\ wanted \in Versions /\ Route \in BOOLEAN
      BY RouteType
    <2>2. Lost \/ (Send(n, wanted, Route) /\ mirror' = Motors(wanted))
      BY <1>24 DEF LoudWindow
    <2>3. UNCHANGED <<link, alive>>
      BY <1>24 DEF LoudWindow
    <2> HIDE DEF n
    <2>4. CASE Send(n, wanted, Route) /\ mirror' = Motors(wanted)
      <3>1. pad'[link].state = wanted
        BY <2>1, <2>4, Sends
      <3> QED
        BY <2>3, <2>4, <3>1
    <2>5. CASE Lost
      BY <2>5 DEF Lost, Reset
    <2> QED
      BY <2>2, <2>4, <2>5
  <1>25. CASE UNCHANGED vars
    BY <1>25 DEF vars
  <1> QED
    BY <1>1, <1>2, <1>3, <1>4, <1>5, <1>6, <1>7, <1>8, <1>9, <1>10, <1>11, <1>12,
       <1>13, <1>14, <1>15, <1>16, <1>17, <1>18, <1>19, <1>20, <1>21, <1>22, <1>23, <1>24, <1>25
       DEF Next, MainStep, Capture, Writer, World

(* The change detection never withholds an output the pad does not have.       *)
THEOREM MirrorHolds == Spec => []MirrorTruthful
  <1>1. Init => MirrorTruthful
    BY DEF Init, MirrorTruthful
  <1>2. Typed /\ Life /\ Ends /\ Numbers /\ MirrorTruthful /\ [Next]_vars => MirrorTruthful'
    BY MirrorStep
  <1> QED
    BY Initially, Preserved, <1>1, <1>2, PTL DEF Spec

-----------------------------------------------------------------------------
(* Outputs in order. *)

(* What is on its way to the pad is at least as new as what the pad has, from  *)
(* the tracked state over the queue to the last output written.                *)
Ahead ==
    /\ wanted <= out
    /\ \A i \in 1..Len(queue) : wanted <= queue[i] /\ queue[i] <= out
    /\ \A i, j \in 1..Len(queue) : i <= j => queue[i] <= queue[j]

Behind ==
    /\ link \in alive => pad[link].state <= wanted
    /\ intr \in alive => pad[intr].state <= wanted

(* What a step may do to the links that stay. *)
Forward == \A l \in alive' : pad'[l].state >= pad[l].state

LEMMA States == ASSUME Typed PROVE \A l \in Links : pad[l].state \in Nat
  BY Constant DEF Typed, Padded, Pads, Versions

LEMMA AheadStep == ASSUME Typed, Ahead, [Next]_vars PROVE Ahead'
    <1> USE DEF Ahead, mainVars, shared, captureVars, writerVars, stream, world, WorldElse,
              PadElse
  <1>1. CASE AttachFd
    BY <1>1 DEF AttachFd
  <1>2. CASE AttachGen
    BY <1>2 DEF AttachGen
  <1>3. CASE RaiseStop
    BY <1>3 DEF RaiseStop
  <1>4. CASE Join
    BY <1>4 DEF Join
  <1>5. CASE StartL2cap
    <2>1. UNCHANGED <<queue, wanted, out>> \/ (queue' = <<>> /\ wanted' = 0 /\ UNCHANGED out)
      <3>1. CASE relay
        BY <1>5, <3>1 DEF StartL2cap
      <3>2. CASE ~relay
        BY <1>5, <3>2 DEF StartL2cap, Spawn
      <3> QED
        BY <3>1, <3>2
    <2>2. 0 <= out
      BY Constant DEF Typed, Control, Versions
    <2> QED
      BY <2>1, <2>2
  <1>6. CASE StartOther
    BY <1>6 DEF StartOther
  <1>7. CASE EndSession
    BY <1>7 DEF EndSession
  <1>8. CASE Exit
    BY <1>8 DEF Exit, Gone
  <1>9. CASE JackFlips
    BY <1>9 DEF JackFlips
  <1>10. CASE Output
    <2> DEFINE rest == IF Len(queue) >= QueueCap THEN Tail(queue) ELSE queue
    <2>1. queue' = Append(rest, out + 1) /\ out' = out + 1 /\ UNCHANGED wanted
      BY <1>10 DEF Output, Enqueued
    <2>2. queue \in Seq(Versions) /\ out \in Nat /\ wanted \in Nat
      BY Constant DEF Typed, Queued, Control, Streamed, Versions
    <2>3. \A i \in 1..Len(queue) : queue[i] \in Nat
      BY <2>2, Constant DEF Versions
    <2>4. /\ rest \in Seq(Versions)
          /\ \A i \in 1..Len(rest) : rest[i] \in Nat /\ wanted <= rest[i] /\ rest[i] <= out
          /\ \A i, j \in 1..Len(rest) : i <= j => rest[i] <= rest[j]
      <3>1. CASE Len(queue) >= QueueCap
        <4>1. queue # <<>> /\ rest = Tail(queue)
          BY <2>2, <3>1, Constant
        <4>2. Len(rest) = Len(queue) - 1 /\ rest \in Seq(Versions)
              /\ \A i \in 1..Len(rest) : rest[i] = queue[i + 1] /\ i + 1 \in 1..Len(queue)
          BY <2>2, <4>1
        <4> HIDE DEF rest
        <4>3. \A i \in 1..Len(rest) : rest[i] \in Nat /\ wanted <= rest[i] /\ rest[i] <= out
          BY <2>3, <4>2
        <4>4. \A i, j \in 1..Len(rest) : i <= j => rest[i] <= rest[j]
          BY <4>2
        <4> QED
          BY <4>2, <4>3, <4>4
      <3>2. CASE ~(Len(queue) >= QueueCap)
        BY <2>2, <2>3, <3>2
      <3> QED
        BY <3>1, <3>2
    <2> HIDE DEF rest
    <2>5. /\ Len(queue') = Len(rest) + 1 /\ queue'[Len(rest) + 1] = out + 1
          /\ \A i \in 1..Len(rest) : queue'[i] = rest[i]
      BY <2>1, <2>2, <2>4 DEF Versions
    <2> QED
      BY <2>1, <2>2, <2>4, <2>5
  <1>11. CASE CaptureStep
    BY <1>11 DEF CaptureStep
  <1>12. CASE CaptureFails
    BY <1>12 DEF CaptureFails
  <1>13. CASE CaptureQuits
    BY <1>13 DEF CaptureQuits
  <1>14. ASSUME NEW l \in Links, PadDrops(l) PROVE Ahead'
    BY <1>14 DEF PadDrops
  <1>15. CASE ReadGen
    BY <1>15 DEF ReadGen
  <1>16. CASE TakeFd
    BY <1>16 DEF TakeFd, Reset
  <1>17. CASE Hello
    BY <1>17 DEF Hello, Lost, Reset, Send, SendSplit
  <1>18. CASE Stopping
    BY <1>18 DEF Stopping, Reset
  <1>19. CASE Engage
    BY <1>19 DEF Engage, Lost, Reset, Send, SendSplit
  <1>20. CASE KeepAlive
    BY <1>20 DEF KeepAlive, Lost, Reset, Send, SendSplit
  <1>21. CASE NoKeepAlive
    BY <1>21 DEF NoKeepAlive
  <1>22. CASE Flush
    <2>1. queue # <<>> /\ queue' = Tail(queue) /\ wanted' = queue[1] /\ UNCHANGED out
      BY <1>22 DEF Flush, Tracked, Taken
    <2>2. queue \in Seq(Versions)
      BY DEF Typed, Queued
    <2>3. Len(queue) \in Nat /\ 1 \in 1..Len(queue) /\ Len(queue') = Len(queue) - 1
          /\ \A i \in 1..Len(queue') : queue'[i] = queue[i + 1] /\ i + 1 \in 1..Len(queue)
      BY <2>1, <2>2
    <2>4. \A i \in 1..Len(queue') : wanted' <= queue'[i] /\ queue'[i] <= out'
      BY <2>1, <2>3
    <2>5. \A i, j \in 1..Len(queue') : i <= j => queue'[i] <= queue'[j]
      BY <2>3
    <2> QED
      BY <2>1, <2>3, <2>4, <2>5
  <1>23. CASE QuietWindow
    BY <1>23 DEF QuietWindow
  <1>24. CASE LoudWindow
    BY <1>24 DEF LoudWindow, Lost, Reset, Send
  <1>25. CASE UNCHANGED vars
    BY <1>25 DEF vars
  <1> QED
    BY <1>1, <1>2, <1>3, <1>4, <1>5, <1>6, <1>7, <1>8, <1>9, <1>10, <1>11, <1>12,
       <1>13, <1>14, <1>15, <1>16, <1>17, <1>18, <1>19, <1>20, <1>21, <1>22, <1>23, <1>24, <1>25
       DEF Next, MainStep, Capture, Writer, World

(* A step that sends nothing and leaves the links alone. *)
LEMMA Steady ==
    ASSUME Typed, Behind, UNCHANGED <<pad, wanted, alive>>,
           link' \in {link, intr}, intr' \in {intr, 0}
    PROVE  Behind' /\ Forward
  <1>1. \A l \in alive : pad[l].state \in Nat
    BY States DEF Typed, Padded
  <1>2. Forward
    BY <1>1 DEF Forward
  <1> QED
    BY <1>2, NoLinkZero DEF Behind

(* A report with a state between the pad's and the tracked one. *)
LEMMA Sent ==
    ASSUME Typed, Behind, UNCHANGED <<link, intr, alive>>, link \in alive,
           NEW v \in Nat, pad[link].state <= v, v <= wanted', wanted <= wanted', wanted' \in Nat,
           pad'[link].state = v, \A l \in Links : l # link => pad'[l] = pad[l]
    PROVE  Behind' /\ Forward
  <1>1. alive \subseteq Links /\ wanted \in Nat /\ \A l \in alive : pad[l].state \in Nat
    BY States, Constant DEF Typed, Padded, Streamed, Versions
  <1>2. Forward
    <2> SUFFICES ASSUME NEW l \in alive' PROVE pad'[l].state >= pad[l].state
      BY DEF Forward
    <2>1. CASE l = link
      BY <1>1, <2>1
    <2>2. CASE l # link
      BY <1>1, <2>2
    <2> QED
      BY <2>1, <2>2
  <1>3. link \in alive' => pad'[link'].state <= wanted'
    OBVIOUS
  <1>4. intr' \in alive' => pad'[intr'].state <= wanted'
    <2>1. CASE intr = link
      BY <2>1
    <2>2. CASE intr # link /\ intr \in alive
      BY <1>1, <2>2 DEF Behind
    <2> QED
      BY <2>1, <2>2
  <1> QED
    BY <1>2, <1>3, <1>4 DEF Behind

LEMMA BehindStep == ASSUME Typed, Ends, Ahead, Behind, [Next]_vars PROVE Behind' /\ Forward
    <1> USE DEF Flushed, mainVars, shared, captureVars, writerVars, stream, world, WorldElse,
              PadElse
  <1>1. CASE AttachFd
    <2>1. main = "attach" /\ intr' = session /\ UNCHANGED <<alive, pad, wanted, link>>
      BY <1>1 DEF AttachFd
    <2>2. session \in alive => pad[session].state = 0
      BY <2>1 DEF Ends, Blank, Typed, Padded
    <2>3. 0 <= wanted /\ \A l \in alive : pad[l].state \in Nat
      BY Constant, States DEF Typed, Padded, Streamed, Versions
    <2> QED
      BY <2>1, <2>2, <2>3 DEF Behind, Forward
  <1>2. CASE AttachGen
    BY Steady, <1>2 DEF AttachGen
  <1>3. CASE RaiseStop
    BY Steady, <1>3 DEF RaiseStop
  <1>4. CASE Join
    BY Steady, <1>4 DEF Join
  <1>5. CASE StartL2cap
    <2>1. alive' = alive \cup {session + 1} /\ UNCHANGED pad /\ session < MaxSessions
      BY <1>5 DEF StartL2cap
    <2>2. UNCHANGED <<wanted, link, intr>> \/ (link' = 0 /\ intr' = 0)
      <3>1. CASE relay
        BY <1>5, <3>1 DEF StartL2cap
      <3>2. CASE ~relay
        BY <1>5, <3>2 DEF StartL2cap, Spawn
      <3> QED
        BY <3>1, <3>2
    <2>3. link # session + 1 /\ intr # session + 1 /\ session + 1 \in Links
      BY <2>1, Constant DEF Ends, Typed, Control, Links
    <2>4. \A l \in alive' : pad[l].state \in Nat
      BY <2>1, <2>3, States DEF Typed, Padded
    <2> QED
      BY <2>1, <2>2, <2>3, <2>4, NoLinkZero DEF Behind, Forward
  <1>6. CASE StartOther
    BY Steady, <1>6 DEF StartOther
  <1>7. CASE EndSession
    BY Steady, <1>7 DEF EndSession, Detached
  <1>8. CASE Exit
    BY Steady, <1>8 DEF Exit, Gone, Detached
  <1>9. CASE JackFlips
    BY Steady, <1>9 DEF JackFlips
  <1>10. CASE Output
    BY Steady, <1>10 DEF Output
  <1>11. CASE CaptureStep
    BY Steady, <1>11 DEF CaptureStep
  <1>12. CASE CaptureFails
    BY Steady, <1>12 DEF CaptureFails
  <1>13. CASE CaptureQuits
    BY Steady, <1>13 DEF CaptureQuits
  <1>14. ASSUME NEW l \in Links, PadDrops(l) PROVE Behind' /\ Forward
    <2>1. alive' = alive \ {l} /\ UNCHANGED <<wanted, link, intr>>
          /\ \A k \in alive : k # l => pad'[k] = pad[k]
      BY <1>14 DEF PadDrops, Typed, Padded
    <2>2. \A k \in alive : pad[k].state \in Nat
      BY States DEF Typed, Padded
    <2> QED
      BY <2>1, <2>2 DEF Behind, Forward
  <1>15. CASE ReadGen
    BY Steady, <1>15 DEF ReadGen
  <1>16. CASE TakeFd
    BY Steady, <1>16 DEF TakeFd, Reset
  <1>17. CASE Hello
    <2>1. CASE SendSplit
      <3>1. /\ pad'[link].state = pad[link].state /\ link \in alive /\ link \in Links
            /\ \A l \in Links : l # link => pad'[l] = pad[l]
        BY <2>1, Splits
      <3>2. UNCHANGED <<link, alive, intr, wanted>>
        BY <1>17 DEF Hello
      <3>3. pad[link].state \in Nat /\ pad[link].state <= wanted /\ wanted \in Nat
        BY Constant, States, <3>1 DEF Behind, Typed, Streamed, Versions
      <3> QED
        BY <3>1, <3>2, <3>3, Sent
    <2>2. CASE ~SendSplit
      BY <1>17, <2>2, Steady DEF Hello, Lost
    <2> QED
      BY <2>1, <2>2
  <1>18. CASE Stopping
    BY Steady, <1>18 DEF Stopping, Reset
  <1>19. CASE Engage
    <2>1. CASE SendSplit
      <3>1. /\ pad'[link].state = pad[link].state /\ link \in alive /\ link \in Links
            /\ \A l \in Links : l # link => pad'[l] = pad[l]
        BY <2>1, Splits
      <3>2. UNCHANGED <<link, alive, intr, wanted>>
        BY <1>19 DEF Engage
      <3>3. pad[link].state \in Nat /\ pad[link].state <= wanted /\ wanted \in Nat
        BY Constant, States, <3>1 DEF Behind, Typed, Streamed, Versions
      <3> QED
        BY <3>1, <3>2, <3>3, Sent
    <2>2. CASE ~SendSplit
      BY <1>19, <2>2, Steady DEF Engage, Lost
    <2> QED
      BY <2>1, <2>2
  <1>20. CASE KeepAlive
    <2>1. CASE SendSplit
      <3>1. /\ pad'[link].state = pad[link].state /\ link \in alive /\ link \in Links
            /\ \A l \in Links : l # link => pad'[l] = pad[l]
        BY <2>1, Splits
      <3>2. UNCHANGED <<link, alive, intr, wanted>>
        BY <1>20 DEF KeepAlive
      <3>3. pad[link].state \in Nat /\ pad[link].state <= wanted /\ wanted \in Nat
        BY Constant, States, <3>1 DEF Behind, Typed, Streamed, Versions
      <3> QED
        BY <3>1, <3>2, <3>3, Sent
    <2>2. CASE ~SendSplit
      BY <1>20, <2>2, Steady DEF KeepAlive, Lost
    <2> QED
      BY <2>1, <2>2
  <1>21. CASE NoKeepAlive
    BY Steady, <1>21 DEF NoKeepAlive
  <1>22. CASE Flush
    <2>1. UNCHANGED <<link, intr, alive>> /\ queue # <<>> /\ wanted' = Taken
      BY <1>22 DEF Flush, Tracked
    <2>2. Taken \in Versions /\ Taken \in Nat /\ wanted \in Nat
      BY <2>1, Constant, TakenType DEF Typed, Streamed, Versions
    <2>3. wanted <= Taken
      BY <2>1 DEF Ahead, Taken, Typed, Queued
    <2>4. CASE (\E path \in {Path, Route} : Send(1, Taken, path))
      <3>1. link \in alive
        BY <2>1, <2>4, Relays
      <3>2. pad'[link].state = Taken /\ \A l \in Links : l # link => pad'[l] = pad[l]
        BY <2>1, <2>4, Relays
      <3>3. pad[link].state <= Taken
        BY <2>2, <2>3, <3>1, States DEF Behind, Typed, Padded
      <3> QED
        BY <2>1, <2>2, <2>3, <3>1, <3>2, <3>3, Sent
    <2>5. CASE UNCHANGED pad
      <3>1. \A l \in alive : pad[l].state \in Nat
        BY States DEF Typed, Padded
      <3> QED
        BY <2>1, <2>2, <2>3, <2>5, <3>1 DEF Behind, Forward
    <2> QED
      BY <1>22, <2>4, <2>5 DEF Flush, Lost
  <1>23. CASE QuietWindow
    BY Steady, <1>23 DEF QuietWindow, Flushed
  <1>24. CASE LoudWindow
    <2> DEFINE n == IF primed THEN 1 ELSE 2
    <2>1. n \in {1, 2} /\ Route \in BOOLEAN
      BY RouteType
    <2>2. Lost \/ Send(n, wanted, Route)
      BY <1>24 DEF LoudWindow
    <2>3. UNCHANGED <<link, intr, alive, wanted>>
      BY <1>24 DEF LoudWindow
    <2>4. wanted \in Versions /\ wanted \in Nat
      BY Constant DEF Typed, Streamed, Versions
    <2> HIDE DEF n
    <2>5. CASE Send(n, wanted, Route)
      <3>1. link \in alive
        BY <2>5 DEF Send
      <3>2. pad'[link].state = wanted /\ \A l \in Links : l # link => pad'[l] = pad[l]
        BY <2>1, <2>4, <2>5, Sends
      <3> QED
        BY <2>3, <2>4, <3>1, <3>2, Sent DEF Behind
    <2>6. CASE Lost
      BY <2>3, <2>6, Steady DEF Lost
    <2> QED
      BY <2>2, <2>5, <2>6
  <1>25. CASE UNCHANGED vars
    BY Steady, <1>25 DEF vars
  <1> QED
    BY <1>1, <1>2, <1>3, <1>4, <1>5, <1>6, <1>7, <1>8, <1>9, <1>10, <1>11, <1>12,
       <1>13, <1>14, <1>15, <1>16, <1>17, <1>18, <1>19, <1>20, <1>21, <1>22, <1>23, <1>24, <1>25
       DEF Next, MainStep, Capture, Writer, World

(* On no link does the pad get an older output after a newer one.              *)
THEOREM InOrderHolds == Spec => InOrder
  <1>1. Init => Ahead /\ Behind
    BY DEF Init, Ahead, Behind
  <1>2. Typed /\ Life /\ Ends /\ Numbers /\ Ahead /\ Behind /\ [Next]_vars
        => (Ahead /\ Behind)' /\ Forward
    BY AheadStep, BehindStep
  <1>3. Forward => [\A l \in alive' : pad'[l].state >= pad[l].state]_vars
    BY DEF Forward
  <1> QED
    BY Initially, Preserved, <1>1, <1>2, <1>3, PTL DEF Spec, InOrder

-----------------------------------------------------------------------------
(* The newest output. *)

(* A step that leaves the queue, the tracked state and the game alone.         *)
Unwritten == UNCHANGED <<queue, wanted, out>>

LEMMA NewestStep == ASSUME Typed, NewestKept, [Next]_vars PROVE NewestKept'
  <1>1. CASE Unwritten
    BY <1>1 DEF Unwritten, NewestKept, Newest
  <1>2. CASE AttachFd \/ AttachGen \/ RaiseStop \/ Join
    BY <1>1, <1>2 DEF AttachFd, AttachGen, RaiseStop, Join, Unwritten, shared, captureVars,
                      writerVars, world
  <1>3. CASE StartL2cap
    <2>1. CASE relay
      BY <1>1, <1>3, <2>1 DEF StartL2cap, Unwritten, shared, writerVars
    <2>2. CASE ~relay
      BY <1>3, <2>2 DEF StartL2cap, Spawn, NewestKept, Newest
    <2> QED
      BY <2>1, <2>2
  <1>4. CASE StartOther \/ EndSession \/ Exit \/ JackFlips
    BY <1>1, <1>4 DEF StartOther, EndSession, Exit, Gone, JackFlips, Unwritten, shared,
                      writerVars, world
  <1>5. CASE Output
    <2>1. queue' = Enqueued(out + 1) /\ out' = out + 1 /\ out \in Nat
      BY <1>5, Constant DEF Output, Typed, Control, Versions
    <2> DEFINE rest == IF Len(queue) >= QueueCap THEN Tail(queue) ELSE queue
    <2>2. queue \in Seq(Nat)
      BY Constant DEF Typed, Queued, Versions
    <2>3. rest \in Seq(Nat)
      BY <2>2, Constant
    <2>4. queue' = Append(rest, out + 1)
      BY <2>1 DEF Enqueued
    <2> HIDE DEF rest
    <2>5. queue' # <<>> /\ Len(queue') = Len(rest) + 1 /\ queue'[Len(rest) + 1] = out + 1
      BY <2>1, <2>3, <2>4
    <2> QED
      BY <2>1, <2>5 DEF NewestKept, Newest
  <1>6. CASE CaptureStep \/ CaptureFails \/ CaptureQuits \/ \E l \in Links : PadDrops(l)
    BY <1>1, <1>6 DEF CaptureStep, CaptureFails, CaptureQuits, PadDrops, Unwritten, shared,
                      writerVars, world
  <1>7. CASE ReadGen \/ TakeFd \/ Hello \/ Stopping \/ Engage \/ KeepAlive \/ NoKeepAlive
    BY <1>1, <1>7 DEF ReadGen, TakeFd, Hello, Stopping, Engage, KeepAlive, NoKeepAlive,
                      Unwritten, PadElse, WorldElse, shared, world
  <1>8. CASE QuietWindow \/ LoudWindow
    <2>1. UNCHANGED wanted /\ UNCHANGED PadElse
      BY <1>8 DEF QuietWindow, LoudWindow
    <2> QED
      BY <1>1, <2>1 DEF Unwritten, PadElse, WorldElse, shared
  <1>9. CASE Flush
    <2>1. queue # <<>> /\ queue' = Tail(queue) /\ wanted' = queue[1] /\ out' = out
      BY <1>9 DEF Flush, Tracked, Taken
    <2>2. queue \in Seq(Versions) /\ queue[Len(queue)] \in {0, out}
      BY <2>1 DEF Typed, Queued, NewestKept, Newest
    <2>3. CASE Len(queue) = 1
      BY <2>1, <2>2, <2>3 DEF NewestKept, Newest
    <2>4. CASE Len(queue) # 1
      <3>1. Len(queue) \in Nat /\ Len(queue') = Len(queue) - 1
            /\ \A i \in 1..Len(queue') : queue'[i] = queue[i + 1]
        BY <2>1, <2>2
      <3>2. Len(queue) > 1
        <4>1. 1 \in 1..Len(queue)
          BY <2>1, <2>2
        <4> QED
          BY <2>4, <3>1, <4>1
      <3>3. Len(queue') \in 1..Len(queue') /\ Len(queue') + 1 = Len(queue)
        BY <3>1, <3>2
      <3>4. queue'[Len(queue')] = queue[Len(queue)] /\ queue' # <<>>
        BY <3>1, <3>3
      <3> QED
        BY <2>1, <2>2, <3>4 DEF NewestKept, Newest
    <2> QED
      BY <2>3, <2>4
  <1>10. CASE UNCHANGED vars
    BY <1>1, <1>10 DEF vars, Unwritten, shared, writerVars, world
  <1> QED
    BY <1>2, <1>3, <1>4, <1>5, <1>6, <1>7, <1>8, <1>9, <1>10
       DEF Next, MainStep, Capture, Writer, World

(* Whatever the queue holds, it is never the game's last output that gives way *)
(* to a full queue, a stream or a new link.                                    *)
THEOREM NewestKeptHolds == Spec => []NewestKept
  <1>1. Init => Typed /\ NewestKept
    BY InitTypes DEF Init, NewestKept, Newest
  <1>2. Typed /\ NewestKept /\ [Next]_vars => (Typed /\ NewestKept)'
    BY StepTypes, NewestStep
  <1> QED
    BY <1>1, <1>2, PTL DEF Spec

-----------------------------------------------------------------------------
(* Stopping the capture loop.                                                  *)

(* The handle of the loop is published before the flag is looked at, and stop   *)
(* raises the flag before it looks for the handle: one of them sees the other.  *)
Told ==
    /\ StopHeard
    /\ capture \in {"check", "run"} => quitPtr
    /\ main = "join" => stop

LEMMA ToldStep == ASSUME Flags, Control, Told, [Next]_vars PROVE Told'
    <1> USE DEF Told, StopHeard, Flags, Control, mainVars, shared, captureVars, writerVars,
              stream, world, WorldElse, PadElse
  <1>1. CASE AttachFd
    BY <1>1 DEF AttachFd
  <1>2. CASE AttachGen
    BY <1>2 DEF AttachGen, Bumped
  <1>3. CASE RaiseStop
    BY <1>3 DEF RaiseStop
  <1>4. CASE Join
    BY <1>4 DEF Join, Joined
  <1>5. CASE StartL2cap
    BY <1>5 DEF StartL2cap, Spawn
  <1>6. CASE StartOther
    BY <1>6 DEF StartOther
  <1>7. CASE EndSession
    BY <1>7 DEF EndSession, Detached
  <1>8. CASE Exit
    BY <1>8 DEF Exit, Gone, Detached
  <1>9. CASE JackFlips
    BY <1>9 DEF JackFlips
  <1>10. CASE Output
    BY <1>10 DEF Output
  <1>11. CASE CaptureStep
    <2>1. main' = main /\ stop' = stop
      BY <1>11 DEF CaptureStep
    <2>2. CASE capture = "start"
      <3>1. capture' = "publish"
        BY <1>11, <2>2 DEF CaptureStep, CaptureAfter
      <3> QED
        BY <2>1, <3>1
    <2>3. CASE capture = "publish"
      <3>1. capture' = "check"
        BY <1>11, <2>3 DEF CaptureStep, CaptureAfter
      <3>2. quitPtr'
        BY <1>11, <2>3, Zenon DEF CaptureStep
      <3> QED
        BY <2>1, <3>1, <3>2
    <2>4. CASE capture = "check"
      <3>1. quitPtr' /\ (stop => quit')
        BY <1>11, <2>4, Zenon DEF CaptureStep
      <3> QED
        BY <2>1, <3>1
    <2> QED
      BY <1>11, <2>2, <2>3, <2>4 DEF CaptureStep
  <1>12. CASE CaptureFails
    BY <1>12 DEF CaptureFails
  <1>13. CASE CaptureQuits
    BY <1>13 DEF CaptureQuits
  <1>14. ASSUME NEW l \in Links, PadDrops(l) PROVE Told'
    BY <1>14 DEF PadDrops
  <1>15. CASE ReadGen
    BY <1>15 DEF ReadGen
  <1>16. CASE TakeFd
    BY <1>16 DEF TakeFd, Reset
  <1>17. CASE Hello
    BY <1>17 DEF Hello, Lost, Reset
  <1>18. CASE Stopping
    BY <1>18 DEF Stopping, Reset
  <1>19. CASE Engage
    BY <1>19 DEF Engage, Lost, Reset
  <1>20. CASE KeepAlive
    BY <1>20 DEF KeepAlive, Lost, Reset
  <1>21. CASE NoKeepAlive
    BY <1>21 DEF NoKeepAlive
  <1>22. CASE Flush
    BY <1>22 DEF Flush, Lost, Reset
  <1>23. CASE QuietWindow
    BY <1>23 DEF QuietWindow, Flushed
  <1>24. CASE LoudWindow
    BY <1>24 DEF LoudWindow, Lost, Reset
  <1>25. CASE UNCHANGED vars
    BY <1>25 DEF vars
  <1> QED
    BY <1>1, <1>2, <1>3, <1>4, <1>5, <1>6, <1>7, <1>8, <1>9, <1>10, <1>11, <1>12,
       <1>13, <1>14, <1>15, <1>16, <1>17, <1>18, <1>19, <1>20, <1>21, <1>22, <1>23, <1>24, <1>25
       DEF Next, MainStep, Capture, Writer, World

(* In no interleaving of start and stop does Sink::stop wait for a capture loop  *)
(* that was not told to quit.                                                  *)
THEOREM StopHeardHolds == Spec => []StopHeard
  <1>1. Init => Typed /\ Told
    BY InitTypes DEF Init, Told, StopHeard
  <1>2. Typed /\ Told /\ [Next]_vars => (Typed /\ Told)'
    BY StepTypes, ToldStep DEF Typed
  <1>3. Told => StopHeard
    BY DEF Told
  <1> QED
    BY <1>1, <1>2, <1>3, PTL DEF Spec

-----------------------------------------------------------------------------
(* Attaching a link the writer cannot miss.                                    *)

(* The writer knows no generation that is still to come, an attached link is    *)
(* there to be taken, and the generation moves after it.                       *)
Attached ==
    /\ AttachSeen
    /\ curGen <= gen /\ seen <= gen
    /\ main \in {"bump", "session"} /\ kind = "l2cap" => intr = session
    /\ main \in {"stop", "join"} => kind # "l2cap"

LEMMA AttachedStep == ASSUME Control, Attached, [Next]_vars PROVE Attached'
    <1> USE DEF Attached, AttachSeen, Control, mainVars, shared, captureVars, writerVars,
              stream, world, WorldElse, PadElse
  <1>1. CASE AttachFd
    BY <1>1 DEF AttachFd
  <1>2. CASE AttachGen
    BY <1>2 DEF AttachGen, Bumped
  <1>3. CASE RaiseStop
    BY <1>3 DEF RaiseStop
  <1>4. CASE Join
    BY <1>4 DEF Join, Joined
  <1>5. CASE StartL2cap
    BY <1>5 DEF StartL2cap, Spawn
  <1>6. CASE StartOther
    BY <1>6 DEF StartOther
  <1>7. CASE EndSession
    BY <1>7 DEF EndSession, Detached
  <1>8. CASE Exit
    BY <1>8 DEF Exit, Gone, Detached
  <1>9. CASE JackFlips
    BY <1>9 DEF JackFlips
  <1>10. CASE Output
    BY <1>10 DEF Output
  <1>11. CASE CaptureStep
    BY <1>11 DEF CaptureStep, CaptureAfter
  <1>12. CASE CaptureFails
    BY <1>12 DEF CaptureFails
  <1>13. CASE CaptureQuits
    BY <1>13 DEF CaptureQuits
  <1>14. ASSUME NEW l \in Links, PadDrops(l) PROVE Attached'
    BY <1>14 DEF PadDrops
  <1>15. CASE ReadGen
    BY <1>15 DEF ReadGen
  <1>16. CASE TakeFd
    BY <1>16 DEF TakeFd, Reset
  <1>17. CASE Hello
    BY <1>17 DEF Hello, Lost, Reset
  <1>18. CASE Stopping
    BY <1>18 DEF Stopping, Reset
  <1>19. CASE Engage
    BY <1>19 DEF Engage, Lost, Reset
  <1>20. CASE KeepAlive
    BY <1>20 DEF KeepAlive, Lost, Reset
  <1>21. CASE NoKeepAlive
    BY <1>21 DEF NoKeepAlive
  <1>22. CASE Flush
    BY <1>22 DEF Flush, Lost, Reset
  <1>23. CASE QuietWindow
    BY <1>23 DEF QuietWindow, Flushed
  <1>24. CASE LoudWindow
    BY <1>24 DEF LoudWindow, Lost, Reset
  <1>25. CASE UNCHANGED vars
    BY <1>25 DEF vars
  <1> QED
    BY <1>1, <1>2, <1>3, <1>4, <1>5, <1>6, <1>7, <1>8, <1>9, <1>10, <1>11, <1>12,
       <1>13, <1>14, <1>15, <1>16, <1>17, <1>18, <1>19, <1>20, <1>21, <1>22, <1>23, <1>24, <1>25
       DEF Next, MainStep, Capture, Writer, World

(* For any number of sessions and in any order of attach_pad's two writes and    *)
(* the writer's two reads, a new link is never taken for one that is served.    *)
THEOREM AttachSeenHolds == Spec => []AttachSeen
  <1>1. Init => Typed /\ Attached
    <2>1. Init => Attached
      BY DEF Init, Attached, AttachSeen
    <2> QED
      BY <2>1, InitTypes
  <1>2. Typed /\ Attached /\ [Next]_vars => (Typed /\ Attached)'
    BY StepTypes, AttachedStep DEF Typed
  <1>3. Attached => AttachSeen
    BY DEF Attached
  <1> QED
    BY <1>1, <1>2, <1>3, PTL DEF Spec

=============================================================================
