-------------------------- MODULE PadSessionProofs --------------------------
(* What holds of a session with the real pad for every number of tries, reads  *)
(* and frames: the types, that a report is never taken for another one, that   *)
(* no other model is taken for a DualSense, that the driver accepts what it is *)
(* shown, that the probe advances, and the promise of FeatureServer.           *)
EXTENDS PadSession, TLAPS

-----------------------------------------------------------------------------
(* Records.                                                                    *)

(* No report is None. *)
LEMMA ReportIsNotNone == \A d \in Data : d # None
  <1>1. SUFFICES ASSUME NEW d \in Data, d = None PROVE FALSE
    OBVIOUS
  <1>2. DOMAIN d = {"id", "mac", "crc"}
    BY DEF Data
  <1>3. DOMAIN d = {"none"}
    BY <1>1 DEF None
  <1> QED
    BY <1>2, <1>3

(* A frame that carries a report carries one of the pad's. *)
LEMMA FrameData == \A f \in Frames : f.kind = "report" => f.data \in Data
  BY DEF Frames

(* A GET names a report. *)
LEMMA GetNames == \A r \in Requests : r.op = "get" => r.id \in Ids
  BY DEF Requests

(* What the driver is shown is a report with the same id. *)
LEMMA PresentedKeepsId ==
    \A d \in Data : Presented(d) \in Data /\ Presented(d).id = d.id
  <1> SUFFICES ASSUME NEW d \in Data PROVE Presented(d) \in Data /\ Presented(d).id = d.id
    OBVIOUS
  <1> DEFINE h == IF d.id # "serial" THEN d
                  ELSE [d EXCEPT !.mac = "virtual", !.crc =
                          CASE L2cap -> "kernel"
                            [] mode = "hidrawBt" -> "set"
                            [] OTHER -> "zero"]
  <1>1. h \in Data /\ h.id = d.id
    BY DEF Data
  <1>2. [h EXCEPT !.crc = "zero"] \in Data /\ [h EXCEPT !.crc = "zero"].id = h.id
    BY <1>1 DEF Data
  <1>3. Presented(d) = IF UsbView THEN [h EXCEPT !.crc = "zero"] ELSE h
    BY DEF Presented
  <1> HIDE DEF h
  <1> QED
    BY <1>1, <1>2, <1>3

(* The pad's reports are reports. *)
LEMMA ReportType ==
    ASSUME NEW id \in Ids
    PROVE  Report(id) \in Data /\ Report(id).id = id
  BY DEF Report, Data

-----------------------------------------------------------------------------
(* Types.                                                                      *)

(* Where the session is decides what it holds: a question under way, and the   *)
(* driver's request while the control channel is read for it.                  *)
Shape ==
    /\ pc = "ask" => todo # <<>> /\ reads < Reads
    /\ pc = "fetch" => request \in Requests /\ request.op = "get"

TInv == TypeOK /\ Shape

LEMMA Bounds ==
    ASSUME SessionAssumption
    PROVE  /\ Tries \in Nat /\ Tries >= 1 /\ Reads \in Nat /\ Reads >= 1
           /\ Fetches \in Nat /\ Fetches >= 1 /\ MaxQueue \in Nat /\ MaxQueue >= 1
  BY DEF SessionAssumption

LEMMA Nothing ==
    /\ <<>> \in Seq(Ids) /\ <<>> \in Seq(Ids \cup {"header", "body"}) /\ <<>> \in Seq(Frames)
    /\ Empty \in [Ids -> Data \cup {None}]
  BY DEF Empty

LEMMA InitTypes == ASSUME SessionAssumption, Init PROVE TInv
  <1>1. 0 \in 0..Tries /\ 0 \in 0..(Reads + Fetches)
    BY Bounds
  <1>2. TypeOK
    BY <1>1, Nothing DEF Init, TypeOK
  <1>3. Shape
    BY DEF Init, Shape
  <1> QED
    BY <1>2, <1>3 DEF TInv

LEMMA WriteType ==
    ASSUME asked \in Seq(Ids \cup {"header", "body"}),
           NEW packets \in Seq(Ids \cup {"header", "body"}), Write(packets)
    PROVE  asked' \in Seq(Ids \cup {"header", "body"})
  <1>1. asked \o packets \in Seq(Ids \cup {"header", "body"})
    OBVIOUS
  <1>2. asked' = asked \o packets \/ asked' = asked
    BY DEF Write
  <1> QED
    BY <1>1, <1>2

(* A question is a packet, a SET is two.                                       *)
LEMMA One == \A id \in Ids : <<id>> \in Seq(Ids \cup {"header", "body"})
  OBVIOUS

LEMMA Two == <<"header", "body">> \in Seq(Ids \cup {"header", "body"})
  OBVIOUS

(* Going on to the next report, or to the DualShock 4's. *)
LEMMA GoOnTypes ==
    ASSUME SessionAssumption, TInv, pc = "ask", NEW got \in BOOLEAN, GoOn(got)
    PROVE  /\ todo' \in Seq(Ids) /\ ds4' \in BOOLEAN /\ reads' = 0 /\ tries' \in 0..Tries
           /\ asked' \in Seq(Ids \cup {"header", "body"})
           /\ pc' \in {"init", "ask"} /\ (pc' = "ask" => todo' # <<>>)
  <1>1. todo \in Seq(Ids) /\ todo # <<>> /\ asked \in Seq(Ids \cup {"header", "body"})
    BY DEF TInv, TypeOK, Shape
  <1>2. Ds4Probe \in Seq(Ids) /\ Ds4Probe # <<>>
    BY DEF Ds4Probe, Ids
  <1>3. Rest(got) \in Seq(Ids)
    BY <1>1, <1>2 DEF Rest
  <1> DEFINE r == Rest(got)
  <1>4. /\ todo' = r /\ reads' = 0
        /\ IF r = <<>> THEN pc' = "init" /\ tries' = 0 /\ UNCHANGED asked
                       ELSE pc' = "ask" /\ tries' = 1 /\ Write(<<Head(r)>>)
    BY DEF GoOn
  <1>5. ds4' \in BOOLEAN
    BY Zenon DEF GoOn
  <1> HIDE DEF r
  <1>6. r \in Seq(Ids)
    BY <1>3 DEF r
  <1>7. CASE r = <<>>
    BY <1>1, <1>4, <1>5, <1>6, <1>7, Bounds
  <1>8. CASE r # <<>>
    <2>1. Head(r) \in Ids
      BY <1>6, <1>8
    <2>2. asked' \in Seq(Ids \cup {"header", "body"})
      BY <1>1, <1>4, <1>8, <2>1, One, WriteType
    <2> QED
      BY <1>4, <1>5, <1>6, <1>8, <2>2, Bounds
  <1> QED
    BY <1>7, <1>8

LEMMA ClosedTypes == ASSUME SessionAssumption, TInv, Closed PROVE TInv'
  <1>1. 0 \in 0..Tries /\ 0 \in 0..(Reads + Fetches)
    BY Bounds
  <1>2. mode' \in Modes /\ pad' \in {"ds5", "ds4"}
    BY DEF Closed, TInv, TypeOK
  <1>3. TypeOK'
    BY <1>1, <1>2, Nothing DEF Closed, TypeOK
  <1>4. Shape'
    BY DEF Closed, Shape
  <1> QED
    BY <1>3, <1>4 DEF TInv

(* What the pad does changes its own channels only. *)
LEMMA PadTypes ==
    ASSUME SessionAssumption, TInv, PadAnswers \/ PadIgnores \/ PadTalks \/ PadHangsUp
    PROVE  TInv'
  <1> USE DEF TInv
  <1>1. frames \in Seq(Frames) /\ asked \in Seq(Ids \cup {"header", "body"})
    BY DEF TypeOK
  <1>2. \A f \in Frames : Append(frames, f) \in Seq(Frames)
    BY <1>1
  <1>3. \A id \in Ids : [kind |-> "report", data |-> Report(id)] \in Frames
    BY <1>1, ReportType DEF Frames
  <1>4. [kind |-> "handshake"] \in Frames /\ [kind |-> "other"] \in Frames
    BY DEF Frames
  <1>5. CASE PadAnswers
    <2>1. Head(asked) \in Ids \cup {"header", "body"} /\ asked' \in Seq(Ids \cup {"header", "body"})
      BY <1>1, <1>5 DEF PadAnswers
    <2>3. Head(asked) \in Supported[pad] => Head(asked) \in Ids
      BY DEF TypeOK, Supported, Ids
    <2>4. frames' \in Seq(Frames)
      BY <1>2, <1>3, <1>4, <1>5, <2>3 DEF PadAnswers
    <2>5. TypeOK'
      BY <1>5, <2>1, <2>4 DEF PadAnswers, TypeOK, openVars, kernel
    <2>6. Shape'
      BY <1>5 DEF PadAnswers, Shape, openVars, kernel
    <2> QED
      BY <2>5, <2>6
  <1>6. CASE PadIgnores
    <2>1. asked' \in Seq(Ids \cup {"header", "body"})
      BY <1>1, <1>6 DEF PadIgnores
    <2>2. TypeOK' /\ Shape'
      BY <1>6, <2>1 DEF PadIgnores, TypeOK, Shape, openVars, kernel
    <2> QED
      BY <2>2
  <1>7. CASE PadTalks
    <2>1. frames' \in Seq(Frames)
      BY <1>2, <1>3, <1>4, <1>7 DEF PadTalks, Ids
    <2>2. TypeOK' /\ Shape'
      BY <1>7, <2>1 DEF PadTalks, TypeOK, Shape, openVars, kernel
    <2> QED
      BY <2>2
  <1>8. CASE PadHangsUp
    BY <1>8, Nothing DEF PadHangsUp, TypeOK, Shape, openVars, kernel
  <1> QED
    BY <1>5, <1>6, <1>7, <1>8

(* A frame that is read was a frame, and what matches is a report. *)
LEMMA ReadTypes ==
    ASSUME TInv, frames # <<>>, frames' = Tail(frames)
    PROVE  /\ frames' \in Seq(Frames) /\ Head(frames) \in Frames
           /\ Head(frames).kind = "report" => Head(frames).data \in Data
  <1>1. frames \in Seq(Frames)
    BY DEF TInv, TypeOK
  <1>2. Head(frames) \in Frames /\ Tail(frames) \in Seq(Frames)
    BY <1>1
  <1> QED
    BY <1>2, FrameData

LEMMA OpenTypes ==
    ASSUME SessionAssumption, TInv, Connect \/ IntrTimeout \/ Open
    PROVE  TInv'
  <1>1. CASE Connect
    <2>2. TypeOK' /\ Shape'
      BY <1>1 DEF Connect, TInv, TypeOK, Shape, openVars, kernel
    <2> QED
      BY <2>2 DEF TInv
  <1>2. CASE IntrTimeout
    BY <1>2, ClosedTypes DEF IntrTimeout
  <1>3. CASE IntrAccept
    <2>1. asked' \in Seq(Ids \cup {"header", "body"})
      <3>1. <<"serial">> \in Seq(Ids \cup {"header", "body"})
        BY One DEF Ids
      <3> QED
        BY <1>3, <3>1, WriteType DEF IntrAccept, TInv, TypeOK
    <2>2. todo' \in Seq(Ids) /\ todo' # <<>> /\ tries' \in 0..Tries
          /\ reads' \in 0..(Reads + Fetches) /\ reads' < Reads
      BY <1>3, Bounds DEF IntrAccept, Probe, Ids
    <2>3. TypeOK' /\ Shape'
      BY <1>3, <2>1, <2>2 DEF IntrAccept, TInv, TypeOK, Shape, kernel
    <2> QED
      BY <2>3 DEF TInv
  <1>4. CASE AskRead
    <2> DEFINE f == Head(frames)
               id == Head(todo)
    <2>1. frames' \in Seq(Frames) /\ (f.kind = "report" => f.data \in Data)
      BY <1>4, ReadTypes DEF AskRead
    <2>2. id \in Ids /\ todo \in Seq(Ids) /\ todo # <<>>
      BY <1>4 DEF AskRead, TInv, TypeOK, Shape
    <2>3. /\ pc = "ask" /\ mode' = mode /\ pad' = pad /\ up' = up
          /\ request' = request /\ answer' = answer
      BY <1>4 DEF AskRead, kernel
    <2>4. \/ Matches(f, id) /\ cache' = [cache EXCEPT ![id] = f.data] /\ GoOn(TRUE)
          \/ GoOn(FALSE) /\ UNCHANGED cache
          \/ ~Again /\ reads' = reads + 1 /\ UNCHANGED <<pc, todo, ds4, tries, asked, cache>>
          \/ /\ reads' = 0 /\ tries < Tries /\ tries' = tries + 1 /\ Write(<<id>>)
             /\ UNCHANGED <<pc, todo, ds4, cache>>
      BY <1>4 DEF AskRead
    <2>5. cache' \in [Ids -> Data \cup {None}]
      <3>1. CASE Matches(f, id) /\ cache' = [cache EXCEPT ![id] = f.data]
        BY <2>1, <2>2, <3>1 DEF Matches, TInv, TypeOK
      <3>2. CASE UNCHANGED cache
        BY <3>2 DEF TInv, TypeOK
      <3> QED
        BY <2>4, <3>1, <3>2
    <2>6. /\ todo' \in Seq(Ids) /\ ds4' \in BOOLEAN /\ tries' \in 0..Tries
          /\ reads' \in 0..(Reads + Fetches)
          /\ asked' \in Seq(Ids \cup {"header", "body"})
          /\ pc' \in {"init", "ask"} /\ (pc' = "ask" => todo' # <<>> /\ reads' < Reads)
      <3>1. CASE GoOn(TRUE) \/ GoOn(FALSE)
        <4>1. PICK got \in BOOLEAN : GoOn(got)
          BY <3>1
        <4>2. 0 \in 0..(Reads + Fetches) /\ 0 < Reads
          BY Bounds
        <4>3. /\ todo' \in Seq(Ids) /\ ds4' \in BOOLEAN /\ reads' = 0 /\ tries' \in 0..Tries
              /\ asked' \in Seq(Ids \cup {"header", "body"})
              /\ pc' \in {"init", "ask"} /\ (pc' = "ask" => todo' # <<>>)
          BY <2>3, <4>1, GoOnTypes
        <4> QED
          BY <4>2, <4>3
      <3>2. CASE ~Again /\ reads' = reads + 1 /\ UNCHANGED <<pc, todo, ds4, tries, asked, cache>>
        <4>1. reads < Reads /\ reads \in Nat
          BY <2>3 DEF TInv, TypeOK, Shape
        <4>2. reads' \in 0..(Reads + Fetches) /\ reads' < Reads
          BY <3>2, <4>1, Bounds DEF Again
        <4> QED
          BY <2>2, <2>3, <3>2, <4>2 DEF TInv, TypeOK
      <3>3. CASE /\ reads' = 0 /\ tries < Tries /\ tries' = tries + 1 /\ Write(<<id>>)
                 /\ UNCHANGED <<pc, todo, ds4, cache>>
        <4>1. asked' \in Seq(Ids \cup {"header", "body"})
          BY <2>2, <3>3, One, WriteType DEF TInv, TypeOK
        <4>2. tries' \in 0..Tries /\ reads' \in 0..(Reads + Fetches) /\ reads' < Reads
          BY <3>3, Bounds DEF TInv, TypeOK
        <4> QED
          BY <2>2, <2>3, <3>3, <4>1, <4>2 DEF TInv, TypeOK
      <3> QED
        BY <2>4, <3>1, <3>2, <3>3
    <2>7. TypeOK' /\ Shape'
      BY <2>1, <2>3, <2>5, <2>6 DEF TInv, TypeOK, Shape
    <2> QED
      BY <2>7 DEF TInv
  <1>5. CASE AskGivesUp
    <2>1. pc = "ask" /\ GoOn(FALSE)
      BY <1>5 DEF AskGivesUp
    <2>2. 0 \in 0..(Reads + Fetches) /\ 0 < Reads
      BY Bounds
    <2>3. TypeOK' /\ Shape'
      BY <1>5, <2>1, <2>2, GoOnTypes DEF AskGivesUp, TInv, TypeOK, Shape, kernel
    <2> QED
      BY <2>3 DEF TInv
  <1>6. CASE Opened
    BY <1>6 DEF Opened, TInv, TypeOK, Shape, padVars, openVars, kernel
  <1>7. CASE NotOpened
    BY <1>7, ClosedTypes DEF NotOpened
  <1> QED
    BY <1>1, <1>2, <1>3, <1>4, <1>5, <1>6, <1>7 DEF Open

(* The driver's answer is a report or an error. *)
LEMMA ReplyType ==
    ASSUME TInv, request # None, request.op = "get", NEW d \in Data, Reply(d)
    PROVE  answer' \in Answers /\ request' = None
  <1>1. request.id \in Ids
    BY GetNames DEF TInv, TypeOK
  <1>2. Presented(d) \in Data
    BY PresentedKeepsId
  <1> QED
    BY <1>1, <1>2 DEF Reply, Answers

LEMMA AckType ==
    ASSUME NEW e \in {"none", "EINVAL", "EIO"}, Ack(e)
    PROVE  answer' \in Answers /\ request' = None
  BY DEF Ack, Answers

LEMMA ServeTypes ==
    ASSUME SessionAssumption, TInv, DriverAsks \/ Serve \/ Drain
    PROVE  TInv'
  <1>1. /\ pc \in {"listen", "intr", "ask", "init", "relay", "fetch"}
        /\ cache \in [Ids -> Data \cup {None}]
        /\ asked \in Seq(Ids \cup {"header", "body"})
        /\ request # None => request \in Requests
    BY DEF TInv, TypeOK
  <1>2. 0 \in 0..(Reads + Fetches)
    BY Bounds
  <1>3. CASE DriverAsks
    BY <1>3 DEF DriverAsks, TInv, TypeOK, Shape, padVars, openVars
  <1>4. CASE GetCached
    <2>1. cache[request.id] \in Data
      BY <1>1, <1>4, GetNames DEF GetCached
    <2>2. answer' \in Answers /\ request' = None
      BY <1>4, <2>1, ReplyType DEF GetCached
    <2> QED
      BY <1>4, <2>2 DEF GetCached, TInv, TypeOK, Shape, padVars, openVars
  <1>5. CASE GetMiss
    <2>1. asked' \in Seq(Ids \cup {"header", "body"})
      BY <1>1, <1>5, GetNames, One, WriteType DEF GetMiss
    <2> QED
      BY <1>1, <1>2, <1>5, <2>1 DEF GetMiss, TInv, TypeOK, Shape, kernel
  <1>6. CASE FetchRead
    <2> DEFINE f == Head(frames)
    <2>1. frames' \in Seq(Frames) /\ (f.kind = "report" => f.data \in Data)
      BY <1>6, ReadTypes DEF FetchRead
    <2>2. request \in Requests /\ request.op = "get" /\ request.id \in Ids
      BY <1>1, <1>6, GetNames DEF FetchRead, TInv, Shape
    <2>3. /\ mode' = mode /\ pad' = pad /\ up' = up /\ asked' = asked
          /\ todo' = todo /\ ds4' = ds4 /\ tries' = tries
      BY <1>6 DEF FetchRead
    <2>4. \/ /\ Matches(f, request.id) /\ cache' = [cache EXCEPT ![request.id] = f.data]
             /\ Reply(f.data) /\ pc' = "relay" /\ reads' = 0
          \/ reads + 1 < Fetches /\ reads' = reads + 1 /\ UNCHANGED <<pc, cache, kernel>>
          \/ Ack("EINVAL") /\ pc' = "relay" /\ reads' = 0 /\ UNCHANGED cache
      BY <1>6 DEF FetchRead
    <2>5. CASE /\ Matches(f, request.id) /\ cache' = [cache EXCEPT ![request.id] = f.data]
               /\ Reply(f.data) /\ pc' = "relay" /\ reads' = 0
      <3>1. f.data \in Data
        BY <2>1, <2>5 DEF Matches
      <3>2. answer' \in Answers /\ request' = None
        BY <1>6, <2>2, <2>5, <3>1, ReplyType DEF FetchRead
      <3>3. cache' \in [Ids -> Data \cup {None}]
        BY <1>1, <2>2, <2>5, <3>1
      <3> QED
        BY <1>2, <2>1, <2>3, <2>5, <3>2, <3>3 DEF TInv, TypeOK, Shape
    <2>6. CASE reads + 1 < Fetches /\ reads' = reads + 1 /\ UNCHANGED <<pc, cache, kernel>>
      <3>1. reads' \in 0..(Reads + Fetches)
        BY <2>6, Bounds DEF TInv, TypeOK
      <3>2. pc' = "fetch" /\ request' = request /\ answer' = answer /\ cache' = cache
        BY <1>6, <2>6 DEF FetchRead, kernel
      <3> QED
        BY <2>1, <2>2, <2>3, <3>1, <3>2 DEF TInv, TypeOK, Shape
    <2>7. CASE Ack("EINVAL") /\ pc' = "relay" /\ reads' = 0 /\ UNCHANGED cache
      BY <1>2, <2>1, <2>3, <2>7, AckType DEF TInv, TypeOK, Shape
    <2> QED
      BY <2>4, <2>5, <2>6, <2>7
  <1>7. CASE FetchFails
    BY <1>2, <1>7, AckType DEF FetchFails, TInv, TypeOK, Shape, padVars
  <1>8. CASE GetHidraw
    <2>1. answer' \in Answers /\ request' = None
      <3>1. CASE request.id \in Supported[pad] /\ Reply(Report(request.id))
        <4>1. Report(request.id) \in Data
          BY <1>1, <1>8, GetNames, ReportType DEF GetHidraw
        <4> QED
          BY <1>8, <3>1, <4>1, ReplyType DEF GetHidraw
      <3>2. CASE Ack("EINVAL") \/ Ack("EIO")
        BY <3>2, AckType
      <3> QED
        BY <1>8, <3>1, <3>2 DEF GetHidraw
    <2> QED
      BY <1>8, <2>1 DEF GetHidraw, TInv, TypeOK, Shape, padVars, openVars
  <1>9. CASE SetReport
    <2>1. answer' \in Answers /\ request' = None
      BY <1>9, AckType DEF SetReport
    <2>2. asked' \in Seq(Ids \cup {"header", "body"})
      BY <1>1, <1>9, Two, WriteType DEF SetReport
    <2> QED
      BY <1>9, <2>1, <2>2 DEF SetReport, TInv, TypeOK, Shape, openVars
  <1>10. CASE Drain
    <2> DEFINE f == Head(frames)
    <2>1. frames' \in Seq(Frames) /\ (f.kind = "report" => f.data \in Data)
      BY <1>10, ReadTypes DEF Drain
    <2>2. cache' \in [Ids -> Data \cup {None}]
      <3>1. CASE f.kind = "report"
        <4>1. cache' = [cache EXCEPT ![f.data.id] = f.data]
          BY <1>10, <3>1 DEF Drain, Drained
        <4>2. f.data.id \in Ids
          BY <2>1, <3>1 DEF Data
        <4> QED
          BY <1>1, <2>1, <3>1, <4>1, <4>2
      <3>2. CASE f.kind # "report"
        BY <1>1, <1>10, <3>2 DEF Drain, Drained
      <3> QED
        BY <3>1, <3>2
    <2> QED
      BY <1>10, <2>1, <2>2 DEF Drain, TInv, TypeOK, Shape, openVars, kernel
  <1> QED
    BY <1>3, <1>4, <1>5, <1>6, <1>7, <1>8, <1>9, <1>10 DEF Serve

(* Every step keeps the types. *)
LEMMA StepTypes == ASSUME SessionAssumption, TInv, [Next]_vars PROVE TInv'
  <1>1. CASE SessionOver \/ PadGone
    BY <1>1, ClosedTypes DEF SessionOver, PadGone
  <1>2. CASE UNCHANGED vars
    BY <1>2 DEF vars, padVars, openVars, kernel, TInv, TypeOK, Shape
  <1> QED
    BY <1>1, <1>2, PadTypes, OpenTypes, ServeTypes DEF Next, Proxy, World

(* Session state, channels, cache and the driver's request and answer keep     *)
(* their types in every mode and for any number of tries and frames.          *)
THEOREM SessionTypeCorrect == Spec => []TypeOK
  <1>1. Init => TInv
    BY SessionAssumption, InitTypes
  <1>2. TInv /\ [Next]_vars => TInv'
    BY SessionAssumption, StepTypes
  <1>3. TInv => TypeOK
    BY DEF TInv
  <1> QED
    BY <1>1, <1>2, <1>3, PTL DEF Spec

-----------------------------------------------------------------------------
(* What is cached, answered and on its way is the pad's own.                   *)

OwnFrames(p) == {f \in Frames : f.kind = "report" => f.data.id \in Supported[p]}

Own == frames \in Seq(OwnFrames(pad))
Cached == \A id \in Ids : cache[id] # None => cache[id].id = id /\ id \in Supported[pad]
RightAnswer == "data" \in DOMAIN answer => answer.data.id = answer.id
Fresh == pc = "listen" => ~up /\ frames = <<>> /\ cache = Empty

RInv == TInv /\ Own /\ Cached /\ RightAnswer /\ Fresh

LEMMA InitRight == ASSUME SessionAssumption, Init PROVE RInv
  <1>1. Own /\ Cached /\ Fresh
    BY DEF Init, Own, Cached, Fresh, Empty
  <1>2. RightAnswer
    BY DEF Init, RightAnswer, None
  <1> QED
    BY <1>1, <1>2, InitTypes DEF RInv

LEMMA ClosedRight == ASSUME SessionAssumption, RInv, Closed PROVE RInv'
  <1>1. Own' /\ Cached' /\ Fresh'
    BY DEF Closed, Own, Cached, Fresh, Empty
  <1>2. RightAnswer'
    BY DEF Closed, RightAnswer, None
  <1> QED
    BY <1>1, <1>2, ClosedTypes DEF RInv

(* A pad's report is one it has. *)
LEMMA OwnReport ==
    ASSUME SessionAssumption, TInv, NEW id \in Ids, id \in Supported[pad]
    PROVE  [kind |-> "report", data |-> Report(id)] \in OwnFrames(pad)
  <1>1. Report(id) \in Data /\ Report(id).id = id
    BY ReportType DEF TInv, TypeOK
  <1> QED
    BY <1>1 DEF OwnFrames, Frames

LEMMA PadRight ==
    ASSUME SessionAssumption, RInv, PadAnswers \/ PadIgnores \/ PadTalks \/ PadHangsUp
    PROVE  RInv'
  <1>1. TInv /\ TInv' /\ pad' = pad /\ cache' = cache /\ answer' = answer /\ pc' = pc /\ up
    BY PadTypes DEF RInv, PadAnswers, PadIgnores, PadTalks, PadHangsUp, kernel
  <1>2. Cached' /\ RightAnswer' /\ Fresh'
    BY <1>1 DEF RInv, Cached, RightAnswer, Fresh
  <1>3. \A f \in OwnFrames(pad) : Append(frames, f) \in Seq(OwnFrames(pad))
    BY DEF RInv, Own
  <1>4. [kind |-> "handshake"] \in OwnFrames(pad) /\ [kind |-> "other"] \in OwnFrames(pad)
    BY DEF OwnFrames, Frames
  <1>5. Supported[pad] \subseteq Ids /\ "calib" \in Supported[pad]
    BY DEF RInv, TInv, TypeOK, Supported, Ids
  <1>6. Own'
    <2>1. CASE PadAnswers
      BY <1>1, <1>3, <1>4, <1>5, <2>1, OwnReport DEF PadAnswers, Own
    <2>2. CASE PadTalks
      BY <1>1, <1>3, <1>4, <1>5, <2>2, OwnReport DEF PadTalks, Own
    <2>3. CASE PadIgnores
      BY <1>1, <2>3 DEF PadIgnores, Own, RInv
    <2>4. CASE PadHangsUp
      BY <1>1, <2>4 DEF PadHangsUp, Own
    <2> QED
      BY <2>1, <2>2, <2>3, <2>4
  <1> QED
    BY <1>1, <1>2, <1>6 DEF RInv

(* A frame of the pad's that matches is the report that was asked for. *)
LEMMA OwnRead ==
    ASSUME RInv, frames # <<>>, frames' = Tail(frames), pad' = pad
    PROVE  /\ Own'
           /\ Head(frames).kind = "report"
                => Head(frames).data \in Data /\ Head(frames).data.id \in Supported[pad]
  <1>1. frames \in Seq(OwnFrames(pad))
    BY DEF RInv, Own
  <1>2. Head(frames) \in OwnFrames(pad) /\ Tail(frames) \in Seq(OwnFrames(pad))
    BY <1>1
  <1>3. Head(frames) \in Frames
    BY <1>2 DEF OwnFrames
  <1> QED
    BY <1>2, <1>3, FrameData DEF OwnFrames, Own

(* A report of the pad's keeps the cache right. *)
LEMMA Cache ==
    ASSUME RInv, NEW d \in Data, d.id \in Supported[pad], pad' = pad,
           cache' = [cache EXCEPT ![d.id] = d]
    PROVE  Cached'
  <1>1. cache \in [Ids -> Data \cup {None}]
    BY DEF RInv, TInv, TypeOK
  <1> QED
    BY <1>1 DEF RInv, Cached

LEMMA OpenRight ==
    ASSUME SessionAssumption, RInv, Connect \/ IntrTimeout \/ Open
    PROVE  RInv'
  <1>1. CASE IntrTimeout \/ NotOpened
    BY <1>1, ClosedRight DEF IntrTimeout, NotOpened
  <1>2. CASE Connect
    <2>1. frames' = <<>> /\ cache' = Empty /\ answer' = answer /\ pc' # "listen"
      BY <1>2 DEF Connect, RInv, Fresh, kernel
    <2>2. Own' /\ Cached' /\ RightAnswer' /\ Fresh'
      BY <2>1 DEF Own, Cached, RightAnswer, Fresh, Empty, RInv
    <2> QED
      BY <1>2, <2>2, OpenTypes DEF RInv
  <1>3. CASE IntrAccept \/ AskGivesUp \/ Opened
    <2>1. /\ pad' = pad /\ frames' = frames /\ cache' = cache /\ answer' = answer
          /\ pc' # "listen"
      BY <1>3 DEF IntrAccept, AskGivesUp, Opened, GoOn, kernel, padVars
    <2>2. Own' /\ Cached' /\ RightAnswer' /\ Fresh'
      BY <2>1 DEF Own, Cached, RightAnswer, Fresh, RInv
    <2> QED
      BY <1>3, <2>2, OpenTypes DEF RInv, Open
  <1>4. CASE AskRead
    <2>1. /\ frames # <<>> /\ frames' = Tail(frames) /\ pad' = pad /\ answer' = answer
          /\ pc' # "listen"
      BY <1>4 DEF AskRead, GoOn, kernel
    <2>2. \/ /\ Matches(Head(frames), Head(todo))
             /\ cache' = [cache EXCEPT ![Head(todo)] = Head(frames).data]
          \/ UNCHANGED cache
      BY <1>4 DEF AskRead
    <2>3. Own' /\ RightAnswer' /\ Fresh'
      BY <2>1, OwnRead DEF RightAnswer, Fresh, RInv
    <2>4. Cached'
      <3>1. CASE Matches(Head(frames), Head(todo))
                 /\ cache' = [cache EXCEPT ![Head(todo)] = Head(frames).data]
        BY <2>1, <3>1, OwnRead, Cache DEF Matches
      <3>2. CASE UNCHANGED cache
        BY <2>1, <3>2 DEF Cached, RInv
      <3> QED
        BY <2>2, <3>1, <3>2
    <2> QED
      BY <1>4, <2>3, <2>4, OpenTypes DEF RInv, Open
  <1> QED
    BY <1>1, <1>2, <1>3, <1>4 DEF Open

(* What answers a request is the report it names. *)
LEMMA Replied ==
    ASSUME NEW d \in Data, d.id = request.id, Reply(d)
    PROVE  RightAnswer'
  <1>1. Presented(d).id = d.id
    BY PresentedKeepsId
  <1> QED
    BY <1>1 DEF Reply, RightAnswer

LEMMA Refused == ASSUME NEW e, Ack(e) PROVE RightAnswer'
  <1>1. answer' = [err |-> e]
    BY DEF Ack
  <1>2. DOMAIN answer' = {"err"}
    BY <1>1
  <1> QED
    BY <1>2 DEF RightAnswer

LEMMA ServeRight ==
    ASSUME SessionAssumption, RInv, DriverAsks \/ Serve \/ Drain
    PROVE  RInv'
  <1>1. TInv /\ TInv' /\ Own /\ Cached /\ RightAnswer /\ cache \in [Ids -> Data \cup {None}]
    BY ServeTypes DEF RInv, TInv, TypeOK
  <1>2. pad' = pad /\ pc' # "listen"
    BY DEF DriverAsks, Serve, Drain, GetCached, GetMiss, FetchRead, FetchFails, GetHidraw,
           SetReport, padVars
  <1>3. request # None /\ request.op = "get" => request.id \in Ids
    BY <1>1, GetNames DEF TInv, TypeOK
  <1>4. Own' /\ Cached' /\ RightAnswer'
    <2>1. CASE DriverAsks
      <3>1. RightAnswer'
        BY <2>1 DEF DriverAsks, RightAnswer, None
      <3> QED
        BY <1>1, <2>1, <3>1 DEF DriverAsks, Own, Cached, padVars
    <2>2. CASE GetCached
      <3>1. cache[request.id] \in Data /\ cache[request.id].id = request.id
        BY <1>1, <1>3, <2>2 DEF GetCached, Cached
      <3>2. RightAnswer'
        BY <2>2, <3>1, Replied DEF GetCached
      <3> QED
        BY <1>1, <2>2, <3>2 DEF GetCached, Own, Cached, padVars
    <2>3. CASE GetMiss
      BY <1>1, <2>3 DEF GetMiss, Own, Cached, RightAnswer, kernel
    <2>4. CASE FetchRead
      <3> DEFINE f == Head(frames)
      <3>1. Own' /\ (f.kind = "report" => f.data \in Data /\ f.data.id \in Supported[pad])
        BY <1>2, <2>4, OwnRead DEF FetchRead
      <3>2. \/ /\ Matches(f, request.id) /\ cache' = [cache EXCEPT ![request.id] = f.data]
               /\ Reply(f.data)
            \/ UNCHANGED <<cache, kernel>>
            \/ Ack("EINVAL") /\ UNCHANGED cache
        BY <2>4 DEF FetchRead
      <3>3. CASE /\ Matches(f, request.id) /\ cache' = [cache EXCEPT ![request.id] = f.data]
                 /\ Reply(f.data)
        <4>1. f.data \in Data /\ f.data.id \in Supported[pad] /\ f.data.id = request.id
          BY <3>1, <3>3 DEF Matches
        <4>2. Cached'
          BY <1>2, <3>3, <4>1, Cache
        <4>3. RightAnswer'
          BY <3>3, <4>1, Replied
        <4> QED
          BY <3>1, <4>2, <4>3
      <3>4. CASE UNCHANGED <<cache, kernel>>
        BY <1>1, <1>2, <3>1, <3>4 DEF Cached, RightAnswer, kernel
      <3>5. CASE Ack("EINVAL") /\ UNCHANGED cache
        BY <1>1, <1>2, <3>1, <3>5, Refused DEF Cached
      <3> QED
        BY <3>2, <3>3, <3>4, <3>5
    <2>5. CASE FetchFails
      BY <1>1, <2>5, Refused DEF FetchFails, Own, Cached, padVars
    <2>6. CASE GetHidraw
      <3>1. CASE request.id \in Supported[pad] /\ Reply(Report(request.id))
        <4>1. Report(request.id) \in Data /\ Report(request.id).id = request.id
          BY <1>1, <1>3, <2>6, ReportType DEF GetHidraw, TInv, TypeOK
        <4> QED
          BY <1>1, <2>6, <3>1, <4>1, Replied DEF GetHidraw, Own, Cached, padVars
      <3>2. CASE Ack("EINVAL") \/ Ack("EIO")
        BY <1>1, <2>6, <3>2, Refused DEF GetHidraw, Own, Cached, padVars
      <3> QED
        BY <2>6, <3>1, <3>2 DEF GetHidraw
    <2>7. CASE SetReport
      <3>1. RightAnswer'
        BY <2>7, Refused DEF SetReport
      <3> QED
        BY <1>1, <2>7, <3>1 DEF SetReport, Own, Cached
    <2>8. CASE Drain
      <3> DEFINE f == Head(frames)
      <3>1. Own' /\ (f.kind = "report" => f.data \in Data /\ f.data.id \in Supported[pad])
        BY <1>2, <2>8, OwnRead DEF Drain
      <3>2. Cached'
        <4>1. CASE f.kind = "report"
          BY <1>2, <2>8, <3>1, <4>1, Cache DEF Drain, Drained
        <4>2. CASE f.kind # "report"
          BY <1>1, <1>2, <2>8, <4>2 DEF Drain, Drained, Cached
        <4> QED
          BY <4>1, <4>2
      <3> QED
        BY <1>1, <2>8, <3>1, <3>2 DEF Drain, RightAnswer, kernel
    <2> QED
      BY <2>1, <2>2, <2>3, <2>4, <2>5, <2>6, <2>7, <2>8 DEF Serve
  <1>5. Fresh'
    BY <1>2 DEF Fresh
  <1> QED
    BY <1>1, <1>4, <1>5 DEF RInv

LEMMA StepRight == ASSUME SessionAssumption, RInv, [Next]_vars PROVE RInv'
  <1>1. CASE SessionOver \/ PadGone
    BY <1>1, ClosedRight DEF SessionOver, PadGone
  <1>2. CASE UNCHANGED vars
    <2>1. TInv'
      BY <1>2, StepTypes DEF RInv
    <2> QED
      BY <1>2, <2>1 DEF vars, padVars, kernel, RInv, Own, Cached, RightAnswer, Fresh
  <1> QED
    BY <1>1, <1>2, PadRight, OpenRight, ServeRight DEF Next, Proxy, World

(* However late, unasked or out of order the pad's reports come, none is       *)
(* cached under another id and no answer carries another report.               *)
THEOREM RightReportHolds == Spec => []RightReport
  <1>1. Init => RInv
    BY SessionAssumption, InitRight
  <1>2. RInv /\ [Next]_vars => RInv'
    BY SessionAssumption, StepRight
  <1>3. RInv => RightReport
    BY DEF RInv, Cached, RightAnswer, RightReport
  <1> QED
    BY <1>1, <1>2, <1>3, PTL DEF Spec

-----------------------------------------------------------------------------
(* A pad without a serial report is probed as a DualShock 4.                   *)

Probed ==
    ~ds4 =>
        /\ pc = "ask" => (todo = Probe \/ (todo = <<"calib">> /\ cache["serial"] # None))
        /\ L2cap /\ pc \in {"init", "relay", "fetch"} => cache["serial"] # None

(* What is cached stays cached while the session lasts. *)
LEMMA CacheStays ==
    ASSUME RInv, cache["serial"] # None,
           \/ UNCHANGED cache
           \/ \E id \in Ids, d \in Data : cache' = [cache EXCEPT ![id] = d]
    PROVE  cache'["serial"] # None
  <1>1. cache \in [Ids -> Data \cup {None}] /\ "serial" \in Ids
    BY DEF RInv, TInv, TypeOK, Ids
  <1> QED
    BY <1>1, ReportIsNotNone

LEMMA GoOnProbed ==
    ASSUME RInv, Probed, pc = "ask", NEW got \in BOOLEAN, GoOn(got),
           ~ds4 /\ todo = Probe /\ got => cache'["serial"] # None,
           cache["serial"] # None => cache'["serial"] # None
    PROVE  Probed'
  <1>1. CASE ds4
    BY <1>1 DEF GoOn, Probed
  <1>2. CASE ~ds4 /\ todo = Probe
    <2>1. Head(todo) = "serial" /\ Tail(todo) = <<"calib">>
      BY <1>2 DEF Probe
    <2>2. CASE got
      <3>1. Rest(got) = <<"calib">>
        BY <2>1, <2>2 DEF Rest
      <3>2. pc' = "ask" /\ todo' = <<"calib">>
        BY <3>1 DEF GoOn
      <3> QED
        BY <1>2, <2>2, <3>2 DEF Probed
    <2>3. CASE ~got
      BY <2>1, <2>3 DEF GoOn, Probed
    <2> QED
      BY <2>2, <2>3
  <1>3. CASE ~ds4 /\ todo = <<"calib">> /\ cache["serial"] # None
    <2>1. Head(todo) = "calib" /\ Tail(todo) = <<>>
      BY <1>3
    <2>2. Rest(got) = <<>>
      BY <2>1 DEF Rest
    <2>3. pc' = "init"
      BY <2>2 DEF GoOn
    <2> QED
      BY <1>3, <2>3 DEF Probed
  <1> QED
    BY <1>1, <1>2, <1>3 DEF Probed

LEMMA StepProbed ==
    ASSUME SessionAssumption, RInv, Probed, [Next]_vars
    PROVE  Probed'
  <1>1. cache \in [Ids -> Data \cup {None}]
    BY DEF RInv, TInv, TypeOK
  <1>2. CASE Closed
    BY <1>2 DEF Closed, Probed
  <1>3. CASE PadAnswers \/ PadIgnores \/ PadTalks \/ PadHangsUp \/ UNCHANGED vars
    BY <1>3 DEF PadAnswers, PadIgnores, PadTalks, PadHangsUp, vars, openVars, Probed, L2cap
  <1>4. CASE Connect
    BY <1>4 DEF Connect, Probed, L2cap
  <1>5. CASE IntrAccept
    BY <1>5 DEF IntrAccept, Probed
  <1>6. CASE AskRead
    <2> DEFINE f == Head(frames)
               id == Head(todo)
    <2>1. /\ pc = "ask" /\ mode' = mode /\ frames # <<>> /\ frames' = Tail(frames) /\ pad' = pad
      BY <1>6 DEF AskRead
    <2>2. f.kind = "report" => f.data \in Data
      BY <2>1, OwnRead
    <2>3. id \in Ids
      BY <2>1 DEF RInv, TInv, TypeOK, Shape
    <2>4. \/ Matches(f, id) /\ cache' = [cache EXCEPT ![id] = f.data] /\ GoOn(TRUE)
          \/ UNCHANGED cache /\ GoOn(FALSE)
          \/ UNCHANGED <<pc, todo, ds4, cache>>
      BY <1>6 DEF AskRead
    <2>5. CASE Matches(f, id) /\ cache' = [cache EXCEPT ![id] = f.data] /\ GoOn(TRUE)
      <3>1. f.data \in Data
        BY <2>2, <2>5 DEF Matches
      <3>2. cache["serial"] # None => cache'["serial"] # None
        BY <2>3, <2>5, <3>1, CacheStays
      <3>3. todo = Probe => cache'["serial"] # None
        BY <1>1, <2>5, <3>1, ReportIsNotNone DEF Probe, Ids
      <3> QED
        BY <2>1, <2>5, <3>2, <3>3, GoOnProbed
    <2>6. CASE UNCHANGED cache /\ GoOn(FALSE)
      BY <2>1, <2>6, GoOnProbed
    <2>7. CASE UNCHANGED <<pc, todo, ds4, cache>>
      BY <2>1, <2>7 DEF Probed, L2cap
    <2> QED
      BY <2>4, <2>5, <2>6, <2>7
  <1>7. CASE AskGivesUp
    BY <1>7, GoOnProbed DEF AskGivesUp
  <1>8. CASE Opened
    BY <1>8 DEF Opened, Probed, openVars, L2cap
  <1>9. CASE DriverAsks \/ Serve \/ Drain
    <2>1. pc' \in {"relay", "fetch"} /\ pc \in {"relay", "fetch"} /\ ds4' = ds4 /\ mode' = mode
      BY <1>9 DEF DriverAsks, Serve, Drain, GetCached, GetMiss, FetchRead, FetchFails, GetHidraw,
                  SetReport, openVars, padVars
    <2>2. \/ UNCHANGED cache
          \/ \E id \in Ids, d \in Data : cache' = [cache EXCEPT ![id] = d]
      <3>1. CASE FetchRead
        <4>1. request.id \in Ids
          BY <3>1, GetNames DEF FetchRead, RInv, TInv, TypeOK, Shape
        <4>2. Head(frames).kind = "report" => Head(frames).data \in Data
          BY <3>1, OwnRead DEF FetchRead
        <4> QED
          BY <3>1, <4>1, <4>2 DEF FetchRead, Matches
      <3>2. CASE Drain
        <4>1. Head(frames).kind = "report" => Head(frames).data \in Data
          BY <3>2, OwnRead DEF Drain
        <4>2. \A d \in Data : d.id \in Ids
          BY DEF Data
        <4> QED
          BY <3>2, <4>1, <4>2 DEF Drain, Drained
      <3>3. CASE ~FetchRead /\ ~Drain
        BY <1>9, <3>3 DEF DriverAsks, Serve, GetCached, GetMiss, FetchFails, GetHidraw, SetReport
      <3> QED
        BY <3>1, <3>2, <3>3
    <2>3. cache["serial"] # None => cache'["serial"] # None
      BY <2>2, CacheStays
    <2> QED
      BY <2>1, <2>3 DEF Probed, L2cap
  <1>10. IntrTimeout \/ NotOpened \/ SessionOver \/ PadGone => Closed
    BY DEF IntrTimeout, NotOpened, SessionOver, PadGone
  <1>11. CASE Proxy
    BY <1>2, <1>5, <1>6, <1>7, <1>8, <1>9, <1>10, <1>11 DEF Proxy, Open
  <1>12. CASE World
    BY <1>2, <1>3, <1>4, <1>9, <1>10, <1>12 DEF World
  <1> QED
    BY <1>3, <1>11, <1>12 DEF Next

(* A pad that is not a DualSense is never served as one, whatever it answers,  *)
(* leaves unanswered or sends unasked.                                         *)
THEOREM NoPhantomHolds == Spec => []NoPhantom
  <1>1. Init => RInv /\ Probed
    BY SessionAssumption, InitRight DEF Init, Probed
  <1>2. RInv /\ Probed /\ [Next]_vars => (RInv /\ Probed)'
    BY SessionAssumption, StepRight, StepProbed
  <1>3. RInv /\ Probed => NoPhantom
    <2> SUFFICES ASSUME RInv, Probed, L2cap, pc \in {"relay", "fetch"}, ~ds4
                 PROVE  pad = "ds5"
      BY DEF NoPhantom
    <2>1. "serial" \in Supported[pad] /\ pad \in {"ds5", "ds4"}
      BY DEF RInv, TInv, TypeOK, Cached, Probed, Ids
    <2> QED
      BY <2>1 DEF Supported
  <1> QED
    BY <1>1, <1>2, <1>3, PTL DEF Spec

-----------------------------------------------------------------------------
(* What the driver accepts. Over L2CAP the pad's reports end in the kernel's    *)
(* CRC and only the serial number holds a MAC address.                         *)
Genuine(d) == d.crc = "kernel" /\ (d.id # "serial" => d.mac = "virtual")
GenuineFrames == {f \in Frames : f.kind = "report" => Genuine(f.data)}

(* A pad is probed while the driver has no answer.                             *)
Silent == pc \notin {"relay", "fetch"} => answer = None

GInv ==
    L2cap =>
        /\ frames \in Seq(GenuineFrames)
        /\ \A id \in Ids : cache[id] # None => Genuine(cache[id])
        /\ DriverTakesIt

(* What it is shown of a genuine report is what it accepts.                    *)
LEMMA PresentedTaken ==
    ASSUME L2cap, NEW d \in Data, Genuine(d)
    PROVE  /\ Presented(d).mac = "virtual"
           /\ Presented(d).crc = IF UsbView THEN "zero" ELSE "kernel"
  <1> DEFINE h == IF d.id # "serial" THEN d
                  ELSE [d EXCEPT !.mac = "virtual", !.crc =
                          CASE L2cap -> "kernel"
                            [] mode = "hidrawBt" -> "set"
                            [] OTHER -> "zero"]
  <1>1. h \in Data /\ h.mac = "virtual"
    BY DEF Data, Genuine
  <1>2. Presented(d) = IF UsbView THEN [h EXCEPT !.crc = "zero"] ELSE h
    BY DEF Presented
  <1>3. CASE UsbView
    <2>1. [h EXCEPT !.crc = "zero"].mac = h.mac /\ [h EXCEPT !.crc = "zero"].crc = "zero"
      BY <1>1 DEF Data
    <2> QED
      BY <1>1, <1>2, <1>3, <2>1
  <1>4. CASE ~UsbView
    <2>1. d.id = "serial" => h.crc = "kernel"
      BY DEF L2cap, Data
    <2>2. d.id # "serial" => h.crc = "kernel"
      BY DEF Genuine
    <2>3. h.crc = "kernel"
      BY <2>1, <2>2
    <2> QED
      BY <1>1, <1>2, <1>4, <2>3
  <1> QED
    BY <1>3, <1>4

LEMMA GenuineReport ==
    ASSUME SessionAssumption, RInv, L2cap, NEW id \in Ids
    PROVE  [kind |-> "report", data |-> Report(id)] \in GenuineFrames
  <1>1. Report(id) \in Data
    BY ReportType DEF RInv, TInv, TypeOK
  <1>2. Genuine(Report(id))
    BY DEF Report, Genuine, Bluetooth, L2cap
  <1> QED
    BY <1>1, <1>2 DEF GenuineFrames, Frames

(* A report that is read is genuine, and so are the frames behind it.          *)
LEMMA GenuineRead ==
    ASSUME RInv, GInv, L2cap, frames # <<>>, frames' = Tail(frames)
    PROVE  /\ frames' \in Seq(GenuineFrames)
           /\ Head(frames).kind = "report" => Genuine(Head(frames).data)
  <1>1. frames \in Seq(GenuineFrames)
    BY DEF GInv
  <1>2. Head(frames) \in GenuineFrames /\ Tail(frames) \in Seq(GenuineFrames)
    BY <1>1
  <1> QED
    BY <1>2 DEF GenuineFrames

LEMMA GenuineCache ==
    ASSUME RInv, GInv, L2cap, NEW id \in Ids, NEW d \in Data, Genuine(d),
           cache' = [cache EXCEPT ![id] = d]
    PROVE  \A x \in Ids : cache'[x] # None => Genuine(cache'[x])
  <1>1. cache \in [Ids -> Data \cup {None}]
    BY DEF RInv, TInv, TypeOK
  <1> QED
    BY <1>1 DEF GInv

LEMMA ReplyTaken ==
    ASSUME L2cap, mode' = mode, ds4' = ds4, NEW d \in Data, Genuine(d), Reply(d)
    PROVE  DriverTakesIt'
  <1>1. answer' = [id |-> request.id, data |-> Presented(d)]
    BY DEF Reply
  <1>2. answer'.data = Presented(d)
    BY <1>1
  <1> QED
    BY <1>2, PresentedTaken DEF DriverTakesIt, UsbView

(* An answer without a report is no matter, nor is one that stays.             *)
LEMMA NothingToTake ==
    ASSUME GInv, L2cap, mode' = mode,
           \/ answer' = answer /\ ds4' = ds4
           \/ answer' = None
           \/ \E e \in {"none", "EINVAL", "EIO"} : Ack(e)
    PROVE  DriverTakesIt'
  <1>1. CASE answer' = answer /\ ds4' = ds4
    BY <1>1 DEF GInv, DriverTakesIt, L2cap, UsbView
  <1>2. CASE answer' = None
    BY <1>2 DEF DriverTakesIt, None
  <1>3. CASE \E e \in {"none", "EINVAL", "EIO"} : Ack(e)
    <2>1. PICK e \in {"none", "EINVAL", "EIO"} : answer' = [err |-> e]
      BY <1>3 DEF Ack
    <2>2. DOMAIN answer' = {"err"}
      BY <2>1
    <2> QED
      BY <2>2 DEF DriverTakesIt
  <1> QED
    BY <1>1, <1>2, <1>3

LEMMA StepSilent == ASSUME SessionAssumption, RInv, Silent, [Next]_vars PROVE Silent'
  <1>1. CASE Closed
    BY <1>1 DEF Closed, Silent
  <1>2. CASE \/ PadAnswers \/ PadIgnores \/ PadTalks \/ PadHangsUp
             \/ Connect \/ IntrAccept \/ AskRead \/ AskGivesUp \/ UNCHANGED vars
    <2>1. answer' = answer /\ (pc' = pc \/ pc \notin {"relay", "fetch"})
      BY <1>2 DEF PadAnswers, PadIgnores, PadTalks, PadHangsUp, Connect, IntrAccept, AskRead,
                  AskGivesUp, kernel, vars
    <2> QED
      BY <2>1 DEF Silent
  <1>3. CASE Opened \/ DriverAsks \/ Serve \/ Drain
    <2>1. pc' \in {"relay", "fetch"}
      BY <1>3 DEF Opened, DriverAsks, Serve, Drain, GetCached, GetMiss, FetchRead, FetchFails,
                  GetHidraw, SetReport
    <2> QED
      BY <2>1 DEF Silent
  <1>4. IntrTimeout \/ NotOpened \/ SessionOver \/ PadGone => Closed
    BY DEF IntrTimeout, NotOpened, SessionOver, PadGone
  <1> QED
    BY <1>1, <1>2, <1>3, <1>4 DEF Next, Proxy, World, Open

LEMMA StepGenuine ==
    ASSUME SessionAssumption, RInv, GInv, Silent, [Next]_vars
    PROVE  GInv'
  <1>1. mode' = mode
    BY DEF Next, Proxy, World, Open, Serve, PadAnswers, PadIgnores, PadTalks, PadHangsUp,
           Closed, Connect, IntrTimeout, IntrAccept, AskRead, AskGivesUp, Opened, NotOpened,
           DriverAsks, GetCached, GetMiss, FetchRead, FetchFails, GetHidraw, SetReport, Drain,
           SessionOver, PadGone, vars
  <1>2. SUFFICES ASSUME L2cap
                 PROVE  /\ frames' \in Seq(GenuineFrames)
                        /\ \A id \in Ids : cache'[id] # None => Genuine(cache'[id])
                        /\ DriverTakesIt'
    BY <1>1 DEF GInv, L2cap
  <1>3. /\ frames \in Seq(GenuineFrames)
        /\ \A id \in Ids : cache[id] # None => Genuine(cache[id])
        /\ DriverTakesIt
    BY <1>2 DEF GInv
  <1>4. CASE Closed
    <2>1. answer' = None /\ frames' = <<>> /\ cache' = Empty
      BY <1>4 DEF Closed
    <2>2. DriverTakesIt'
      BY <1>1, <1>2, <2>1, NothingToTake
    <2> QED
      BY <2>1, <2>2 DEF Empty
  <1>5. CASE PadAnswers \/ PadIgnores \/ PadTalks \/ PadHangsUp
    <2>1. answer' = answer /\ cache' = cache /\ ds4' = ds4
      BY <1>5 DEF PadAnswers, PadIgnores, PadTalks, PadHangsUp, kernel, openVars
    <2>2. DriverTakesIt'
      BY <1>1, <1>2, <2>1, NothingToTake
    <2>3. [kind |-> "handshake"] \in GenuineFrames /\ [kind |-> "other"] \in GenuineFrames
      BY DEF GenuineFrames, Frames
    <2>4. \A f \in GenuineFrames : Append(frames, f) \in Seq(GenuineFrames)
      BY <1>3
    <2>5. Supported[pad] \subseteq Ids /\ "calib" \in Ids
      BY DEF RInv, TInv, TypeOK, Supported, Ids
    <2>6. \A id \in Ids : [kind |-> "report", data |-> Report(id)] \in GenuineFrames
      BY <1>2, GenuineReport
    <2>7. frames' \in Seq(GenuineFrames)
      <3>1. CASE PadAnswers
        BY <2>3, <2>4, <2>5, <2>6, <3>1 DEF PadAnswers
      <3>2. CASE PadTalks
        BY <2>3, <2>4, <2>5, <2>6, <3>2 DEF PadTalks
      <3>3. CASE PadIgnores
        BY <1>3, <3>3 DEF PadIgnores
      <3>4. CASE PadHangsUp
        <4>1. frames' = <<>>
          BY <3>4 DEF PadHangsUp
        <4> QED
          BY <4>1
      <3> QED
        BY <1>5, <3>1, <3>2, <3>3, <3>4
    <2> QED
      BY <1>3, <2>1, <2>2, <2>7
  <1>6. CASE Connect \/ IntrAccept \/ AskGivesUp \/ Opened \/ DriverAsks \/ UNCHANGED vars
    <2>1. /\ frames' = frames /\ cache' = cache
          /\ (answer' = answer /\ ds4' = ds4) \/ answer' = None
      BY <1>6 DEF Connect, IntrAccept, AskGivesUp, Opened, DriverAsks, vars, kernel, padVars,
                  openVars, Silent
    <2>2. DriverTakesIt'
      BY <1>1, <1>2, <2>1, NothingToTake
    <2> QED
      BY <1>3, <2>1, <2>2
  <1>7. CASE AskRead
    <2> DEFINE f == Head(frames)
               id == Head(todo)
    <2>1. /\ pc = "ask" /\ frames # <<>> /\ frames' = Tail(frames) /\ pad' = pad
          /\ answer' = None
      BY <1>7 DEF AskRead, kernel, Silent
    <2>2. /\ frames' \in Seq(GenuineFrames)
          /\ f.kind = "report" => f.data \in Data /\ Genuine(f.data)
      BY <1>2, <2>1, GenuineRead, OwnRead
    <2>3. id \in Ids
      BY <2>1 DEF RInv, TInv, TypeOK, Shape
    <2>4. \/ Matches(f, id) /\ cache' = [cache EXCEPT ![id] = f.data]
          \/ UNCHANGED cache
      BY <1>7 DEF AskRead
    <2>5. \A x \in Ids : cache'[x] # None => Genuine(cache'[x])
      BY <1>2, <1>3, <2>2, <2>3, <2>4, GenuineCache DEF Matches
    <2>6. DriverTakesIt'
      BY <1>1, <1>2, <2>1, NothingToTake
    <2> QED
      BY <2>2, <2>5, <2>6
  <1>8. CASE FetchRead
    <2> DEFINE f == Head(frames)
    <2>1. /\ frames # <<>> /\ frames' = Tail(frames) /\ pad' = pad /\ pc = "fetch"
          /\ ds4' = ds4
      BY <1>8 DEF FetchRead
    <2>2. /\ frames' \in Seq(GenuineFrames)
          /\ f.kind = "report" => f.data \in Data /\ Genuine(f.data)
      BY <1>2, <2>1, GenuineRead, OwnRead
    <2>3. request.id \in Ids
      BY <2>1, GetNames DEF RInv, TInv, Shape
    <2>4. \/ /\ Matches(f, request.id) /\ cache' = [cache EXCEPT ![request.id] = f.data]
             /\ Reply(f.data)
          \/ UNCHANGED <<cache, kernel>>
          \/ Ack("EINVAL") /\ UNCHANGED cache
      BY <1>8 DEF FetchRead
    <2>5. CASE /\ Matches(f, request.id) /\ cache' = [cache EXCEPT ![request.id] = f.data]
               /\ Reply(f.data)
      <3>1. f.data \in Data /\ Genuine(f.data)
        BY <2>2, <2>5 DEF Matches
      <3>2. DriverTakesIt'
        BY <1>1, <1>2, <2>1, <2>5, <3>1, ReplyTaken
      <3>3. \A x \in Ids : cache'[x] # None => Genuine(cache'[x])
        BY <1>2, <2>3, <2>5, <3>1, GenuineCache
      <3> QED
        BY <2>2, <3>2, <3>3
    <2>6. CASE cache' = cache /\ (answer' = answer \/ Ack("EINVAL"))
      <3>1. DriverTakesIt'
        BY <1>1, <1>2, <2>1, <2>6, NothingToTake
      <3> QED
        BY <1>3, <2>2, <2>6, <3>1
    <2> QED
      BY <2>4, <2>5, <2>6 DEF kernel
  <1>9. CASE GetCached
    <2>1. /\ frames' = frames /\ cache' = cache /\ request.id \in Ids
          /\ cache[request.id] # None /\ Reply(cache[request.id]) /\ ds4' = ds4
      BY <1>9, GetNames DEF GetCached, padVars, openVars, RInv, TInv, TypeOK
    <2>2. cache[request.id] \in Data /\ Genuine(cache[request.id])
      BY <1>3, <2>1 DEF RInv, TInv, TypeOK
    <2>3. DriverTakesIt'
      BY <1>1, <1>2, <2>1, <2>2, ReplyTaken
    <2> QED
      BY <1>3, <2>1, <2>3
  <1>10. CASE GetMiss \/ FetchFails \/ SetReport
    <2>1. /\ frames' = frames /\ cache' = cache
          /\ (answer' = answer /\ ds4' = ds4) \/ \E e \in {"none", "EINVAL", "EIO"} : Ack(e)
      BY <1>10 DEF GetMiss, FetchFails, SetReport, padVars, kernel
    <2>2. DriverTakesIt'
      BY <1>1, <1>2, <2>1, NothingToTake
    <2> QED
      BY <1>3, <2>1, <2>2
  <1>11. CASE Drain
    <2> DEFINE f == Head(frames)
    <2>1. /\ frames # <<>> /\ frames' = Tail(frames) /\ pad' = pad /\ answer' = answer
          /\ cache' = Drained(f) /\ ds4' = ds4
      BY <1>11 DEF Drain, kernel, openVars
    <2>2. /\ frames' \in Seq(GenuineFrames)
          /\ f.kind = "report" => f.data \in Data /\ Genuine(f.data)
      BY <1>2, <2>1, GenuineRead, OwnRead
    <2>3. \A d \in Data : d.id \in Ids
      BY DEF Data
    <2>4. \A x \in Ids : cache'[x] # None => Genuine(cache'[x])
      BY <1>2, <1>3, <2>1, <2>2, <2>3, GenuineCache DEF Drained
    <2>5. DriverTakesIt'
      BY <1>1, <1>2, <2>1, NothingToTake
    <2> QED
      BY <2>2, <2>4, <2>5
  <1>12. ~GetHidraw
    BY <1>2 DEF GetHidraw
  <1>13. IntrTimeout \/ NotOpened \/ SessionOver \/ PadGone => Closed
    BY DEF IntrTimeout, NotOpened, SessionOver, PadGone
  <1> QED
    BY <1>4, <1>5, <1>6, <1>7, <1>8, <1>9, <1>10, <1>11, <1>12, <1>13
       DEF Next, Proxy, World, Open, Serve

(* Over L2CAP, whichever way a report came, the driver is shown one it accepts: *)
(* never the real MAC, nor a CRC it would refuse.                              *)
THEOREM DriverTakesItHolds == Spec => []DriverTakesIt
  <1>1. Init => RInv /\ GInv /\ Silent
    <2> SUFFICES ASSUME Init PROVE RInv /\ GInv /\ Silent
      OBVIOUS
    <2>1. RInv
      BY SessionAssumption, InitRight
    <2>2. frames = <<>> /\ cache = Empty /\ answer = None
      BY DEF Init
    <2>3. DriverTakesIt
      BY <2>2 DEF DriverTakesIt, None
    <2> QED
      BY <2>1, <2>2, <2>3 DEF GInv, Empty, Silent
  <1>2. RInv /\ GInv /\ Silent /\ [Next]_vars => (RInv /\ GInv /\ Silent)'
    BY SessionAssumption, StepRight, StepGenuine, StepSilent
  <1>3. GInv => DriverTakesIt
    BY DEF GInv, DriverTakesIt
  <1> QED
    BY <1>1, <1>2, <1>3, PTL DEF Spec

-----------------------------------------------------------------------------
(* The probe of a pad comes to an end.                                         *)

(* The reports open() still asks for are those of one of three stages.         *)
Stage == pc = "ask" => todo \in {Probe, Ds4Probe, <<"calib">>}

LEMMA Lengths == Left(Probe) = 3 /\ Left(Ds4Probe) = 2 /\ Left(<<"calib">>) = 1
  <1>1. Len(Ds4Probe) = 2 /\ Len(<<"calib">>) = 1
    BY DEF Ds4Probe
  <1>2. Ds4Probe # Probe /\ <<"calib">> # Probe
    BY DEF Probe, Ds4Probe
  <1> QED
    BY <1>1, <1>2 DEF Left

(* A report that is there or given up leads to a later stage, or to the end.   *)
LEMMA GoOnCloser ==
    ASSUME Stage, pc = "ask", NEW got \in BOOLEAN, GoOn(got)
    PROVE  \/ pc' = "init"
           \/ /\ todo' \in {Ds4Probe, <<"calib">>}
              /\ Left(todo') < Left(todo)
  <1>1. /\ todo' = Rest(got)
        /\ pc' = "init" \/ Rest(got) # <<>>
    BY DEF GoOn
  <1>2. CASE todo = Probe
    <2>1. Head(todo) = "serial" /\ Tail(todo) = <<"calib">>
      BY <1>2 DEF Probe
    <2>2. Rest(got) \in {Ds4Probe, <<"calib">>}
      BY <2>1 DEF Rest
    <2>3. Left(Rest(got)) < Left(todo)
      BY <1>2, <2>2, Lengths
    <2> QED
      BY <1>1, <2>2, <2>3
  <1>3. CASE todo = Ds4Probe
    <2>1. Head(todo) = "info4" /\ Tail(todo) = <<"calib">>
      BY <1>3 DEF Ds4Probe
    <2>2. Rest(got) = <<"calib">>
      BY <2>1 DEF Rest
    <2>3. Left(Rest(got)) < Left(todo)
      BY <1>3, <2>2, Lengths
    <2> QED
      BY <1>1, <2>2, <2>3
  <1>4. CASE todo = <<"calib">>
    <2>1. Head(todo) = "calib" /\ Tail(todo) = <<>>
      BY <1>4
    <2>2. Rest(got) = <<>>
      BY <2>1 DEF Rest
    <2> QED
      BY <1>1, <2>2
  <1> QED
    BY <1>2, <1>3, <1>4 DEF Stage

(* Reading a frame or waiting in vain: a later stage, the end, or one more frame *)
(* or try of the few there are.                                                *)
LEMMA AskCloser ==
    ASSUME TInv, Stage, AskRead \/ AskGivesUp
    PROVE  /\ pc' # "ask" \/ Closer
           /\ Stage'
  <1>1. pc = "ask"
    BY DEF AskRead, AskGivesUp
  <1>2. reads \in Nat /\ tries \in 0..Tries
    BY DEF TInv, TypeOK
  <1>3. \/ \E got \in BOOLEAN : GoOn(got)
        \/ reads' = reads + 1 /\ UNCHANGED <<pc, todo, tries>>
        \/ tries < Tries /\ tries' = tries + 1 /\ UNCHANGED <<pc, todo>>
    BY DEF AskRead, AskGivesUp
  <1>4. CASE \E got \in BOOLEAN : GoOn(got)
    BY <1>1, <1>4, GoOnCloser DEF Closer, Stage
  <1>5. CASE reads' = reads + 1 /\ UNCHANGED <<pc, todo, tries>>
    <2>1. reads' > reads /\ tries' = tries /\ todo' = todo
      BY <1>2, <1>5
    <2> QED
      BY <1>5, <2>1 DEF Closer, Stage
  <1>6. CASE tries < Tries /\ tries' = tries + 1 /\ UNCHANGED <<pc, todo>>
    <2>1. tries' > tries /\ todo' = todo
      BY <1>2, <1>6
    <2> QED
      BY <1>6, <2>1 DEF Closer, Stage
  <1> QED
    BY <1>3, <1>4, <1>5, <1>6

LEMMA StepStage == ASSUME TInv, Stage, [Next]_vars PROVE Stage'
  <1>1. CASE Closed
    BY <1>1 DEF Closed, Stage
  <1>2. CASE Connect \/ Opened
    BY <1>2 DEF Connect, Opened, Stage
  <1>3. CASE IntrAccept
    BY <1>3 DEF IntrAccept, Stage
  <1>4. CASE AskRead \/ AskGivesUp
    BY <1>4, AskCloser
  <1>5. CASE PadAnswers \/ PadIgnores \/ PadTalks \/ PadHangsUp \/ DriverAsks \/ UNCHANGED vars
    BY <1>5 DEF PadAnswers, PadIgnores, PadTalks, PadHangsUp, DriverAsks, vars, openVars, Stage
  <1>6. CASE Serve \/ Drain
    <2>1. pc' # "ask"
      BY <1>6 DEF Serve, Drain, GetCached, GetMiss, FetchRead, FetchFails, GetHidraw, SetReport
    <2> QED
      BY <2>1 DEF Stage
  <1>7. IntrTimeout \/ NotOpened \/ SessionOver \/ PadGone => Closed
    BY DEF IntrTimeout, NotOpened, SessionOver, PadGone
  <1> QED
    BY <1>1, <1>2, <1>3, <1>4, <1>5, <1>6, <1>7 DEF Next, Proxy, World, Open

(* Whatever a pad sends and for any number of tries and frames, no frame that   *)
(* is read and no silence leaves the probe where it was or puts it back.       *)
THEOREM ProbeAdvancesHolds == Spec => ProbeAdvances
  <1>1. Init => TInv /\ Stage
    BY SessionAssumption, InitTypes DEF Init, Stage
  <1>2. TInv /\ Stage /\ [Next]_vars => (TInv /\ Stage)'
    BY SessionAssumption, StepTypes, StepStage
  <1>3. TInv /\ Stage /\ [Next]_vars
          => [AskRead \/ AskGivesUp => pc' # "ask" \/ Closer]_vars
    BY AskCloser
  <1> QED
    BY <1>1, <1>2, <1>3, PTL DEF Spec, ProbeAdvances

-----------------------------------------------------------------------------
(* The relay implements FeatureServer.                                         *)

(* A report with the id that was asked for is what the driver is given.        *)
LEMMA ServerGives ==
    ASSUME request # None, request.op = "get", NEW d \in Data, d.id = request.id, Reply(d)
    PROVE  Server!Give
  <1>1. Presented(d) \in Data /\ Presented(d).id = request.id
    BY PresentedKeepsId
  <1>2. answer' = [id |-> request.id, data |-> Presented(d)] /\ request' = None
    BY DEF Reply
  <1>3. Server!Waiting({"get"})
    BY <1>2 DEF Server!Waiting
  <1> QED
    BY <1>1, <1>2, <1>3 DEF Server!Give

LEMMA ServerRefuses ==
    ASSUME request # None, request.op = "get", NEW e \in {"EINVAL", "EIO"}, Ack(e)
    PROVE  Server!Refuse
  <1>1. answer' = [err |-> e] /\ request' = None
    BY DEF Ack
  <1> QED
    BY <1>1 DEF Server!Refuse, Server!Waiting

LEMMA ServerDoes ==
    ASSUME request # None, request.op \in {"set", "state"}, NEW e \in {"none", "EIO"}, Ack(e)
    PROVE  Server!Done
  <1>1. answer' = [err |-> e] /\ request' = None
    BY DEF Ack
  <1> QED
    BY <1>1 DEF Server!Done, Server!Waiting

(* Every step of the session is one of the server's or none.                   *)
LEMMA StepServes ==
    ASSUME SessionAssumption, RInv, [Next]_vars
    PROVE  [Server!Next]_(Server!vars)
  <1> USE DEF Server!Next, Server!vars
  <1>1. TInv /\ Cached /\ cache \in [Ids -> Data \cup {None}]
    BY DEF RInv, TInv, TypeOK
  <1>2. request # None /\ request.op = "get" => request.id \in Ids
    BY <1>1, GetNames DEF TInv, TypeOK
  <1>3. CASE Closed
    BY <1>3 DEF Closed, Server!Over
  <1>4. CASE \/ PadAnswers \/ PadIgnores \/ PadTalks \/ PadHangsUp
             \/ Connect \/ IntrAccept \/ AskRead \/ AskGivesUp \/ Opened
             \/ GetMiss \/ Drain \/ UNCHANGED vars
    <2>1. UNCHANGED kernel
      BY <1>4 DEF PadAnswers, PadIgnores, PadTalks, PadHangsUp, Connect, IntrAccept, AskRead,
                  AskGivesUp, Opened, GetMiss, Drain, vars
    <2> QED
      BY <2>1 DEF kernel
  <1>5. CASE DriverAsks
    BY <1>5 DEF DriverAsks, Requests, Server!Ask
  <1>6. CASE GetCached
    <2>1. cache[request.id] \in Data /\ cache[request.id].id = request.id
      BY <1>1, <1>2, <1>6 DEF GetCached, Cached
    <2> QED
      BY <1>6, <2>1, ServerGives DEF GetCached
  <1>7. CASE FetchRead
    <2> DEFINE f == Head(frames)
    <2>1. /\ frames # <<>> /\ frames' = Tail(frames) /\ pad' = pad
          /\ request # None /\ request.op = "get"
      BY <1>1, <1>7 DEF FetchRead, TInv, Shape
    <2>2. f.kind = "report" => f.data \in Data
      BY <2>1, OwnRead
    <2>3. \/ Matches(f, request.id) /\ Reply(f.data)
          \/ UNCHANGED kernel
          \/ Ack("EINVAL")
      BY <1>7 DEF FetchRead
    <2>4. CASE Matches(f, request.id) /\ Reply(f.data)
      BY <2>1, <2>2, <2>4, ServerGives DEF Matches
    <2>5. CASE Ack("EINVAL")
      BY <2>1, <2>5, ServerRefuses
    <2> QED
      BY <2>3, <2>4, <2>5 DEF kernel
  <1>8. CASE FetchFails
    BY <1>1, <1>8, ServerRefuses DEF FetchFails, TInv, Shape
  <1>9. CASE GetHidraw
    <2>1. Report(request.id) \in Data /\ Report(request.id).id = request.id
      BY <1>1, <1>2, <1>9, ReportType DEF GetHidraw, TInv, TypeOK
    <2> QED
      BY <1>9, <2>1, ServerGives, ServerRefuses DEF GetHidraw
  <1>10. CASE SetReport
    BY <1>10, ServerDoes DEF SetReport
  <1>11. IntrTimeout \/ NotOpened \/ SessionOver \/ PadGone => Closed
    BY DEF IntrTimeout, NotOpened, SessionOver, PadGone
  <1> QED
    BY <1>3, <1>4, <1>5, <1>6, <1>7, <1>8, <1>9, <1>10, <1>11
       DEF Next, Proxy, World, Open, Serve

(* Cache, channels and a pad that answers late, twice or unasked implement a    *)
(* server that answers each request once and in kind.                          *)
THEOREM ImplementsFeatureServer == Spec => ServesDriver
  <1>1. Init => Server!Init
    BY DEF Init, Server!Init
  <1>2. Init => RInv
    BY SessionAssumption, InitRight
  <1>3. RInv /\ [Next]_vars => RInv'
    BY SessionAssumption, StepRight
  <1>4. RInv /\ [Next]_vars => [Server!Next]_(Server!vars)
    BY SessionAssumption, StepServes
  <1> QED
    BY <1>1, <1>2, <1>3, <1>4, PTL DEF Spec, ServesDriver, Server!Spec

=============================================================================
