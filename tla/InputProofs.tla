---------------------------- MODULE InputProofs ----------------------------
(***************************************************************************)
(* What the input path keeps for any buttons, bindings, reports and        *)
(* options: types, the parked XInput pad, one run per press of a chord,    *)
(* the solo PS, and the press that closes an overlay.                      *)
(***************************************************************************)
EXTENDS InputPath, TLAPS

USE ChordAssumption, PathAssumption

-----------------------------------------------------------------------------
(* The recognizer                                                          *)

LEMMA ReportType ==
    ASSUME NEW r \in Report
    PROVE  r.down \subseteq Digital /\ r.l2 \in Levels
BY DEF Report

\* What fires is bound and pressed.
LEMMA FiredActive ==
    ASSUME NEW c \in Chord, NEW r \in Report
    PROVE  /\ Fired(c, r) \subseteq Active(c, r)
           /\ Fired(c, r) \cap c.prev = {}
           /\ Active(c, r) \subseteq c.bound /\ c.bound \subseteq Bound
           /\ Active(c, r) \subseteq Held(r)
<1>1. c.bound \subseteq Bound
  BY DEF Chord
<1>2. Active(c, r) \subseteq c.bound
  BY DEF Active
<1>3. Fired(c, r) \subseteq Active(c, r) /\ Fired(c, r) \cap c.prev = {}
  BY DEF Fired
<1>4. Active(c, r) \subseteq Held(r)
  BY ReportType DEF Active, Held, Latch, Levels
<1> QED BY <1>1, <1>2, <1>3, <1>4

\* feed() keeps the recognizer well-formed.
LEMMA FedType ==
    ASSUME NEW c \in Chord, NEW r \in Report, NEW l \in BOOLEAN
    PROVE  /\ Fed(c, r, l) \in Chord
           /\ Fed(c, r, l).prev = Active(c, r)
           /\ Fed(c, r, l).swallow = Swallowed(c, r)
           /\ Fed(c, r, l).bound = c.bound /\ Fed(c, r, l).tap = c.tap
           /\ Fed(c, r, l).hold = c.hold /\ Fed(c, r, l).skip = FALSE
<1>1. Active(c, r) \subseteq Bound
  BY FiredActive
<1>2. Swallowed(c, r) \subseteq Inputs
  BY FiredActive DEF Swallowed, Chord, Inputs, Digital
<1> DEFINE p == Active(c, r)
           s == Swallowed(c, r)
           h == PsDown(r)
           a == PsDown(r) /\ PairedBy(c, r)
           f == PsDown(r) /\ c.held /\ (c.holdFired \/ HoldRuns(c, r, l))
<1>3. h \in BOOLEAN
  BY DEF PsDown
<1>4. a \in BOOLEAN /\ f \in BOOLEAN
  BY Zenon
<1>5. Fed(c, r, l) = [c EXCEPT !.prev = p, !.swallow = s, !.skip = FALSE, !.held = h,
                               !.paired = a, !.holdFired = f]
  BY Zenon DEF Fed
<1> HIDE DEF p, s, h, a, f
<1>6. /\ Fed(c, r, l) \in Chord
      /\ Fed(c, r, l).prev = p /\ Fed(c, r, l).swallow = s
      /\ Fed(c, r, l).bound = c.bound /\ Fed(c, r, l).tap = c.tap
      /\ Fed(c, r, l).hold = c.hold /\ Fed(c, r, l).skip = FALSE
  BY <1>1, <1>2, <1>3, <1>4, <1>5 DEF Chord, p, s
<1> QED BY <1>6 DEF p, s

\* What feed() remembers of PS.
LEMMA FedFlags ==
    ASSUME NEW c \in Chord, NEW r \in Report, NEW l \in BOOLEAN
    PROVE  /\ Fed(c, r, l).held <=> PsDown(r)
           /\ Fed(c, r, l).paired <=> PsDown(r) /\ PairedBy(c, r)
           /\ Fed(c, r, l).holdFired
                <=> PsDown(r) /\ c.held /\ (c.holdFired \/ HoldRuns(c, r, l))
<1> DEFINE p == Active(c, r)
           s == Swallowed(c, r)
           h == PsDown(r)
           a == PsDown(r) /\ PairedBy(c, r)
           f == PsDown(r) /\ c.held /\ (c.holdFired \/ HoldRuns(c, r, l))
<1>1. Fed(c, r, l) = [c EXCEPT !.prev = p, !.swallow = s, !.skip = FALSE, !.held = h,
                               !.paired = a, !.holdFired = f]
  BY Zenon DEF Fed
<1> HIDE DEF p, s, h, a, f
<1>2. Fed(c, r, l).held = h /\ Fed(c, r, l).paired = a /\ Fed(c, r, l).holdFired = f
  BY <1>1 DEF Chord
<1> QED BY <1>2, Zenon DEF h, a, f

\* Commands of chords are not those of PS.
LEMMA ChordFree ==
    ASSUME NEW s \in SUBSET Bound
    PROVE  "tap" \notin s /\ "hold" \notin s
OBVIOUS

LEMMA RunsType ==
    ASSUME NEW c \in Chord, NEW r \in Report, NEW l \in BOOLEAN
    PROVE  Runs(c, r, l) \subseteq Bound \cup {"tap", "hold"}
BY FiredActive DEF Runs

LEMMA NewChordsType == \A u \in BOOLEAN : NewChords(u) \in Chord
BY DEF NewChords, Chord

-----------------------------------------------------------------------------
(* What a report shows                                                     *)

LEMMA RestType == Rest \in Report /\ Gated \in Report
BY DEF Rest, Gated, Report, Levels

LEMMA ShownType ==
    ASSUME TypeOK, NEW r \in Report
    PROVE  /\ Shown(r) \in Report /\ Out(r) \in Report
           /\ \A i \in Held(r) \ Held(Shown(r)) :
                 i \in Swallowed(cs, r) \/ (i = "ps" /\ Mode(r))
           /\ Mode(r) => "ps" \notin Held(Shown(r))
<1> DEFINE s == Strip(Fed(cs, r, long), r)
<1>1. Fed(cs, r, long).swallow = Swallowed(cs, r)
  <2>1. cs \in Chord /\ long \in BOOLEAN
    BY DEF TypeOK
  <2> QED BY <2>1, FedType
<1>2. s = [down |-> r.down \ Swallowed(cs, r),
           l2 |-> IF "l2" \in Swallowed(cs, r) THEN 0 ELSE r.l2]
  BY <1>1 DEF Strip
<1>3. s \in Report
  BY <1>2, ReportType DEF Report, Levels
<1>4. Shown(r) = IF Mode(r) THEN [s EXCEPT !.down = @ \ {"ps"}] ELSE s
  BY DEF Shown
<1> HIDE DEF s
<1>5. Shown(r) \in Report
  BY <1>3, <1>4 DEF Report
<1>6. /\ Shown(r).l2 = s.l2
      /\ Shown(r).down = IF Mode(r) THEN s.down \ {"ps"} ELSE s.down
  BY <1>3, <1>4 DEF Report
<1>7. Out(r) \in Report
  BY <1>5, RestType DEF Out
<1>8. s.down = r.down \ Swallowed(cs, r)
  BY <1>2
<1>9. s.l2 = IF "l2" \in Swallowed(cs, r) THEN 0 ELSE r.l2
  BY <1>2
<1>10. "l2" \notin r.down
  BY ReportType DEF Digital
<1>11. ASSUME NEW i \in Held(r), i \notin Held(Shown(r))
       PROVE  i \in Swallowed(cs, r) \/ (i = "ps" /\ Mode(r))
  <2>1. CASE i \in r.down
    BY <1>6, <1>8, <1>11, <2>1 DEF Held
  <2>2. CASE i = "l2" /\ r.l2 > 0
    BY <1>6, <1>9, <1>11, <2>2 DEF Held
  <2> QED BY <1>11, <2>1, <2>2 DEF Held
<1>12. Mode(r) => "ps" \notin Held(Shown(r))
  BY <1>6 DEF Held
<1> QED BY <1>5, <1>7, <1>11, <1>12

\* A report with a button or a trigger in it is live.
LEMMA LiveShown ==
    ASSUME NEW r, NEW i \in Held(r), i \notin Hats
    PROVE  Live(r)
BY DEF Live

-----------------------------------------------------------------------------
(* Types                                                                   *)

LEMMA PathTypeInit == ASSUME Init PROVE TypeOK
BY NewChordsType, RestType DEF Init, TypeOK

LEMMA RecognizeType ==
    ASSUME TypeOK, NEW r \in Reports, Recognize(r)
    PROVE  /\ cs' \in Chord /\ long' \in BOOLEAN /\ psSwallow' \in BOOLEAN /\ last' \in Report
           /\ ran' \subseteq Bound \cup {"tap", "hold"}
           /\ taken' \subseteq Inputs /\ spent' \subseteq Bound /\ under' \subseteq Inputs
           /\ alone' \in BOOLEAN /\ clean' \in BOOLEAN
           /\ UNCHANGED <<opts, session, paused, gate>>
<1>1. r \in Report
  OBVIOUS
<1>2. cs' \in Chord /\ Fed(cs, r, long).swallow = Swallowed(cs, r)
  <2>1. cs' = Fed(cs, r, long) /\ cs \in Chord /\ long \in BOOLEAN
    BY Zenon DEF Recognize, TypeOK
  <2> QED BY <1>1, <2>1, FedType
<1>3. ran' \subseteq Bound \cup {"tap", "hold"}
  BY <1>1, RunsType DEF Recognize, TypeOK
<1>4. Held(r) \subseteq Inputs
  BY <1>1, ReportType DEF Held, Inputs
<1>5. taken' \subseteq Inputs /\ under' \subseteq Inputs
  BY <1>4 DEF Recognize, Watch
<1>6. spent' \subseteq Bound
  BY <1>1, FiredActive DEF Recognize, Watch, TypeOK
<1>7. long' \in BOOLEAN /\ psSwallow' \in BOOLEAN
  <2>1. long' = (long /\ cs.held /\ PsDown(r)) /\ psSwallow' = Mode(r)
    BY DEF Recognize
  <2>2. Mode(r) \in BOOLEAN
    BY Zenon DEF Mode, TypeOK
  <2> QED BY <2>1, <2>2, Zenon DEF PsDown
<1>8. alone' \in BOOLEAN /\ clean' \in BOOLEAN
  BY Zenon DEF Recognize, Watch
<1> QED BY <1>1, <1>2, <1>3, <1>5, <1>6, <1>7, <1>8 DEF Recognize, flagVars

LEMMA PathTypeStep ==
    ASSUME TypeOK, [Next]_vars
    PROVE  TypeOK'
<1>1. ASSUME NEW r \in Reports, Frame(r) PROVE TypeOK'
  <2>1. Recognize(r)
    BY <1>1 DEF Frame, Suppress, HoldBack, SkipReport, Forward, Passes
  <2>2. Shown(r) \in Report /\ Out(r) \in Report
    BY ShownType
  <2>3. pauseBreak' \in BOOLEAN /\ gateBreak' \in BOOLEAN /\ pace' \in BOOLEAN
    BY <1>1 DEF Frame, Suppress, HoldBack, SkipReport, Forward, Passes, breakVars,
         GatedNow, Live, TypeOK
  <2>4. game' \in Report /\ xiUp' \in BOOLEAN /\ xiPad' \in Report
    BY <1>1, <2>2, RestType DEF Frame, Suppress, HoldBack, SkipReport, Forward, outVars,
         Parked, Tapped, TypeOK
  <2> QED BY <2>1, <2>3, <2>4, RecognizeType DEF TypeOK
<1>2. CASE ThreeSeconds
  BY <1>2 DEF ThreeSeconds, TypeOK, flagVars, breakVars, outVars, ghostVars
<1>3. CASE PaceOver
  BY <1>3 DEF PaceOver, TypeOK, chordVars, flagVars, outVars, ghostVars
<1>4. CASE PauseFlips
  BY <1>4 DEF PauseFlips, TypeOK, chordVars, breakVars, outVars, ghostVars
<1>5. CASE GateFlips
  BY <1>5 DEF GateFlips, TypeOK, chordVars, breakVars, outVars, ghostVars
<1>6. CASE SessionEnd
  BY <1>6, RestType DEF SessionEnd, TypeOK, chordVars, flagVars, breakVars
<1>7. ASSUME NEW want \in BOOLEAN, SessionStart(want) PROVE TypeOK'
  BY <1>7, RestType DEF SessionStart, Raised, TypeOK, chordVars, ghostVars
<1>8. ASSUME NEW want \in BOOLEAN, NEW parses \in BOOLEAN, Reload(parses, want) PROVE TypeOK'
  BY <1>8, RestType, NewChordsType DEF Reload, Raised, TypeOK, flagVars, breakVars
<1>9. CASE XiLost
  BY <1>9, RestType DEF XiLost, TypeOK, chordVars, flagVars, breakVars, ghostVars
<1>10. CASE UNCHANGED vars
  BY <1>10 DEF vars, TypeOK, chordVars, flagVars, breakVars, outVars, ghostVars
<1> QED BY <1>1, <1>2, <1>3, <1>4, <1>5, <1>6, <1>7, <1>8, <1>9, <1>10 DEF Next

\* Type correctness of the input path.
THEOREM PathTypeCorrect == Spec => []TypeOK
<1> QED BY PathTypeInit, PathTypeStep, PTL DEF Spec

-----------------------------------------------------------------------------
(* The XInput pad                                                          *)

\* A pad whose link is down is parked or gone.
XiInv == XiParked /\ XiFollows /\ (~xiUp => xiPad = Rest)

LEMMA XiStep ==
    ASSUME TypeOK, XiInv, [Next]_vars
    PROVE  XiInv'
<1> USE DEF XiInv, XiParked, XiFollows
<1>1. ASSUME NEW r \in Reports, Frame(r) PROVE XiInv'
  <2>1. CASE Suppress(r)
    BY <2>1 DEF Suppress, Parked
  <2>2. CASE HoldBack(r)
    BY <2>2 DEF HoldBack, breakVars, outVars
  <2>3. CASE SkipReport(r)
    BY <2>3 DEF SkipReport, Passes, outVars
  <2>4. CASE Forward(r)
    BY <2>4 DEF Forward, Passes, Tapped
  <2> QED BY <1>1, <2>1, <2>2, <2>3, <2>4 DEF Frame
<1>2. CASE ThreeSeconds \/ PaceOver \/ PauseFlips \/ GateFlips \/ XiLost
  BY <1>2 DEF ThreeSeconds, PaceOver, PauseFlips, GateFlips, XiLost, breakVars, outVars
<1>3. CASE SessionEnd
  BY <1>3 DEF SessionEnd
<1>4. ASSUME NEW want \in BOOLEAN, SessionStart(want) PROVE XiInv'
  BY <1>4 DEF SessionStart, Raised
<1>5. ASSUME NEW want \in BOOLEAN, NEW parses \in BOOLEAN, Reload(parses, want) PROVE XiInv'
  BY <1>5 DEF Reload, Raised, breakVars
<1>6. CASE UNCHANGED vars
  BY <1>6 DEF vars, breakVars, outVars
<1> QED BY <1>1, <1>2, <1>3, <1>4, <1>5, <1>6 DEF Next

\* Behind an overlay the XInput pad is at rest, and it never shows anything the
\* DualSense pad does not (proxy.rs:1570-1573, 1622-1637).
THEOREM XiCorrect == Spec => []XiFaithful
<1>1. Init => XiInv
  BY DEF Init, XiInv, XiParked, XiFollows
<1>2. XiInv => XiFaithful
  BY DEF XiInv, XiFaithful
<1> QED BY <1>1, <1>2, XiStep, PathTypeCorrect, PTL DEF Spec

-----------------------------------------------------------------------------
(* One run per press                                                       *)

\* What ran is remembered as pressed until it is let go, and what was down in
\* the last report is, whoever saw it, or the next report is one to skip.
SpentInv ==
    /\ clean => spent \subseteq cs.prev /\ spent \subseteq cs.bound
    /\ ~cs.skip => cs.bound \cap last.down \subseteq cs.prev

SpentAct == ran' \cap last.down = {} /\ (clean => ran' \cap spent = {})

LEMMA SpentStep ==
    ASSUME TypeOK, SpentInv, [Next]_vars
    PROVE  SpentInv' /\ [SpentAct]_vars
<1>1. ASSUME NEW r \in Reports, Recognize(r)
      PROVE  SpentInv' /\ SpentAct
  <2>1. /\ cs \in Chord /\ long \in BOOLEAN /\ r \in Report /\ spent \subseteq Bound
        /\ cs' = Fed(cs, r, long) /\ ran' = Runs(cs, r, long)
        /\ spent' = (spent \cup Fired(cs, r)) \cap Latched(r)
        /\ last' = r /\ last \in Report
    BY <1>1 DEF Recognize, Watch, TypeOK
  <2>2. clean' => clean \/ r = Rest
    BY <1>1 DEF Recognize, Watch
  <2>3. cs'.prev = Active(cs, r) /\ cs'.bound = cs.bound
    BY <2>1, FedType
  <2>4. /\ Fired(cs, r) \subseteq Active(cs, r) /\ Active(cs, r) \subseteq cs.bound
        /\ Fired(cs, r) \cap cs.prev = {}
    BY <2>1, FiredActive
  <2>5. ASSUME clean PROVE spent \cap Latched(r) \subseteq Active(cs, r)
    <3>1. SUFFICES ASSUME NEW i \in spent, i \in Latched(r) PROVE i \in Active(cs, r)
      OBVIOUS
    <3>2. i \in cs.prev /\ i \in cs.bound
      BY <2>5 DEF SpentInv
    <3>3. CASE i = "l2"
      <4>1. Latch(cs) = 1
        BY <3>2, <3>3 DEF Latch
      <4>2. r.l2 >= 2
        BY <2>1, <3>1, <3>3, ReportType DEF Latched, Digital
      <4> QED BY <2>1, <3>2, <3>3, <4>1, <4>2, ReportType DEF Active, Levels
    <3>4. CASE i # "l2"
      BY <3>1, <3>2, <3>4 DEF Latched, Active
    <3> QED BY <3>3, <3>4
  \* What a report starts was not down in the one before.
  <2>6. Fired(cs, r) \cap last.down = {}
    BY <2>4 DEF SpentInv, Fired
  <2>7. ran' \cap last.down = {}
    <3>1. last.down \subseteq Digital
      BY <2>1 DEF Report
    <3>2. "tap" \notin Digital /\ "hold" \notin Digital
      BY ChordAssumption DEF Digital
    <3> QED BY <2>1, <2>6, <3>1, <3>2 DEF Runs
  <2>8. cs'.bound \cap last'.down \subseteq cs'.prev
    <3>1. "l2" \notin r.down
      BY <2>1, ChordAssumption DEF Report, Digital
    <3>2. cs.bound \cap r.down \subseteq Active(cs, r)
      BY <3>1 DEF Active
    <3> QED BY <2>1, <2>3, <3>2
  <2>9. CASE r = Rest
    <3>1. Latched(r) = {}
      BY <2>9 DEF Latched, Rest
    <3> QED BY <2>1, <2>3, <2>4, <2>5, <2>7, <2>8, <3>1, ChordFree DEF SpentInv, SpentAct, Runs
  <2> QED BY <2>1, <2>2, <2>3, <2>4, <2>5, <2>7, <2>8, <2>9, ChordFree DEF SpentInv, SpentAct, Runs
<1>2. CASE \E r \in Reports : Frame(r)
  BY <1>1, <1>2 DEF Frame, Suppress, HoldBack, SkipReport, Forward, Passes
<1>3. CASE ThreeSeconds \/ PaceOver \/ PauseFlips \/ GateFlips \/ XiLost
  BY <1>3 DEF ThreeSeconds, PaceOver, PauseFlips, GateFlips, XiLost, SpentInv, SpentAct, chordVars, ghostVars
<1>4. CASE SessionEnd
  BY <1>4 DEF SessionEnd, SpentInv, SpentAct, chordVars
<1>5. ASSUME NEW want \in BOOLEAN, SessionStart(want)
      PROVE  SpentInv' /\ SpentAct
  BY <1>5 DEF SessionStart, SpentInv, SpentAct, chordVars, ghostVars
<1>6. ASSUME NEW want \in BOOLEAN, NEW parses \in BOOLEAN, Reload(parses, want)
      PROVE  SpentInv' /\ SpentAct
  BY <1>6 DEF Reload, NewChords, SpentInv, SpentAct
<1>7. CASE UNCHANGED vars
  BY <1>7 DEF vars, SpentInv, chordVars, ghostVars
<1> QED BY <1>2, <1>3, <1>4, <1>5, <1>6, <1>7 DEF Next

\* A chord runs once per press: what ran has to be let go before it runs again
\* (proxy.rs:232-234, 252), and a button that was down runs nothing, whatever
\* reloads and reconnects there were (171-172).
THEOREM OneRunPerPress == Spec => NoRefire
<1>1. Init => SpentInv
  BY DEF Init, SpentInv, NewChords
<1>2. TypeOK /\ SpentInv /\ [Next]_vars => [SpentAct]_vars
  BY SpentStep
<1>3. NoRefire <=> [][SpentAct]_vars
  BY DEF NoRefire, SpentAct
<1> QED BY <1>1, <1>2, <1>3, SpentStep, PathTypeCorrect, PTL DEF Spec

-----------------------------------------------------------------------------
(* The solo PS                                                             *)

\* What the recognizer remembers of PS says whether PS is alone; a recognizer that
\* has seen nothing remembers nothing, and takes a PS that is down for paired.
SoloInv ==
    /\ cs.skip => ~cs.held
    /\ ~cs.skip => (cs.held <=> PsDown(last))
    /\ cs.held /\ ~cs.paired /\ ~cs.holdFired => alone
    /\ clean => /\ ~cs.skip
                /\ cs.held => (alone <=> ~cs.paired /\ ~cs.holdFired)

SoloAct ==
    /\ "hold" \in ran' => alone
    /\ "tap" \in ran' => PsDown(last) /\ ~PsDown(last') /\ alone
    /\ clean /\ PsDown(last) /\ ~PsDown(last') /\ alone /\ cs.tap => "tap" \in ran'

\* What a chord takes is a pairing, unless it was down before.
LEMMA FiredPairs ==
    ASSUME NEW c \in Chord, NEW r \in Report, Fired(c, r) # {}
    PROVE  PairedNow(r)
<1>1. PICK i \in Active(c, r) : i \notin c.prev
  BY FiredActive
<1>2. i \in Bound
  BY <1>1, FiredActive
<1>3. CASE i = "l2"
  <2>1. r.l2 > 2
    BY <1>1, <1>3 DEF Active, Latch
  <2> QED BY <2>1, ReportType DEF PairedNow, Levels
<1>4. CASE i # "l2"
  BY <1>1, <1>2, <1>4 DEF Active, PairedNow
<1> QED BY <1>3, <1>4

LEMMA SoloStep ==
    ASSUME TypeOK, SoloInv, [Next]_vars
    PROVE  SoloInv' /\ [SoloAct]_vars
<1>1. ASSUME NEW r \in Reports, Recognize(r)
      PROVE  SoloInv' /\ SoloAct
  <2>1. /\ cs \in Chord /\ long \in BOOLEAN /\ r \in Report
        /\ cs' = Fed(cs, r, long) /\ ran' = Runs(cs, r, long) /\ last' = r
    BY <1>1 DEF Recognize, TypeOK
  <2>2. clean' => clean \/ r = Rest
    BY <1>1 DEF Recognize, Watch
  <2>3. alone' <=> /\ r.down = {"ps"} /\ r.l2 # 3
                   /\ PsDown(last) => alone
                   /\ Runs(cs, r, long) = {}
    BY <1>1, Zenon DEF Recognize, Watch
  <2>4. ~cs'.skip
    BY <2>1, FedType
  <2>5. /\ cs'.held <=> PsDown(r)
        /\ cs'.paired <=> PsDown(r) /\ PairedBy(cs, r)
        /\ cs'.holdFired
             <=> PsDown(r) /\ cs.held /\ (cs.holdFired \/ HoldRuns(cs, r, long))
    BY <2>1, FedFlags
  <2>6. /\ "hold" \in ran' <=> HoldRuns(cs, r, long)
        /\ "tap" \in ran' <=> TapRuns(cs, r)
    <3>1. "tap" \notin Fired(cs, r) /\ "hold" \notin Fired(cs, r)
      BY <2>1, FiredActive, ChordFree
    <3> QED BY <2>1, <3>1 DEF Runs
  <2>7. PsDown(r) => (PairedNow(r) <=> ~(r.down = {"ps"} /\ r.l2 # 3))
    BY DEF PsDown, PairedNow
  <2>8. Runs(cs, r, long) = {}
          <=> Fired(cs, r) = {} /\ ~TapRuns(cs, r) /\ ~HoldRuns(cs, r, long)
    BY DEF Runs
  <2>9. Fired(cs, r) # {} => PairedNow(r)
    BY <2>1, FiredPairs
  <2>10. r.down = {"ps"} => PsDown(r)
    BY DEF PsDown
  <2>11. SoloAct
    <3>1. HoldRuns(cs, r, long) => cs.held /\ ~cs.paired /\ ~cs.holdFired
      BY DEF HoldRuns, PairedBy, PsStarts
    <3>2. TapRuns(cs, r) <=> ~PsDown(r) /\ cs.held /\ cs.tap /\ ~cs.paired /\ ~cs.holdFired
      BY DEF TapRuns
    <3> QED BY <2>1, <2>6, <3>1, <3>2 DEF SoloInv, SoloAct
  <2>12. CASE PsDown(r)
    <3>1. ~TapRuns(cs, r)
      BY <2>12 DEF TapRuns
    <3>2. PairedBy(cs, r) <=> \/ PairedNow(r)
                              \/ cs.held /\ cs.paired
                              \/ ~cs.held /\ cs.skip
      BY <2>12 DEF PairedBy, PsStarts
    <3>3. HoldRuns(cs, r, long) => cs.held /\ ~PairedBy(cs, r) /\ ~cs.holdFired
      BY DEF HoldRuns
    <3>4. alone' <=> /\ ~PairedNow(r) /\ (PsDown(last) => alone)
                     /\ ~HoldRuns(cs, r, long)
      BY <2>3, <2>7, <2>8, <2>9, <2>12, <3>1
    <3>5. ~cs'.paired /\ ~cs'.holdFired => alone'
      BY <2>5, <2>12, <3>2, <3>3, <3>4 DEF SoloInv
    <3>6. clean => (alone' <=> ~cs'.paired /\ ~cs'.holdFired)
      BY <2>5, <2>12, <3>2, <3>3, <3>4 DEF SoloInv
    <3>7. r # Rest
      BY <2>12 DEF PsDown, Rest
    <3> QED BY <2>1, <2>2, <2>4, <2>5, <2>11, <2>12, <3>5, <3>6, <3>7 DEF SoloInv
  <2>13. CASE ~PsDown(r)
    BY <2>1, <2>4, <2>5, <2>11, <2>13 DEF SoloInv
  <2> QED BY <2>12, <2>13
<1>2. CASE \E r \in Reports : Frame(r)
  BY <1>1, <1>2 DEF Frame, Suppress, HoldBack, SkipReport, Forward, Passes
<1>3. CASE ThreeSeconds \/ PaceOver \/ PauseFlips \/ GateFlips \/ XiLost
  BY <1>3 DEF ThreeSeconds, PaceOver, PauseFlips, GateFlips, XiLost, SoloInv, SoloAct, chordVars,
       ghostVars, PsDown
<1>4. CASE SessionEnd
  BY <1>4 DEF SessionEnd, SoloInv, SoloAct, chordVars, PsDown
<1>5. ASSUME NEW want \in BOOLEAN, SessionStart(want)
      PROVE  SoloInv' /\ SoloAct
  BY <1>5 DEF SessionStart, SoloInv, SoloAct, chordVars, ghostVars, PsDown
<1>6. ASSUME NEW want \in BOOLEAN, NEW parses \in BOOLEAN, Reload(parses, want)
      PROVE  SoloInv' /\ SoloAct
  BY <1>6 DEF Reload, NewChords, SoloInv, SoloAct, PsDown
<1>7. CASE UNCHANGED vars
  BY <1>7 DEF vars, SoloInv, chordVars, ghostVars, PsDown
<1> QED BY <1>2, <1>3, <1>4, <1>5, <1>6, <1>7 DEF Next

\* Tap and hold are for a PS that was pressed alone, and every PS pressed alone
\* gets its tap at its release or its hold before (proxy.rs:184-186, 278-324).
THEOREM SoloCorrect == Spec => SoloMeansSolo
<1>1. Init => SoloInv
  BY DEF Init, SoloInv, NewChords
<1>2. TypeOK /\ SoloInv /\ [Next]_vars => [SoloAct]_vars
  BY SoloStep
<1>3. SoloMeansSolo <=> [][SoloAct]_vars
  BY DEF SoloMeansSolo, SoloAct
<1> QED BY <1>1, <1>2, <1>3, SoloStep, PathTypeCorrect, PTL DEF Spec

-----------------------------------------------------------------------------
(* The press that closes an overlay                                        *)

\* What is down since an overlay was up is held back, or waits for the break.
UnderInv ==
    /\ clean => session
    /\ clean => \A i \in under \ (Hats \cup taken) :
                   pauseBreak \/ gateBreak \/ (i = "ps" /\ psSwallow)

UnderAct ==
    clean => \A i \in under' \ (Hats \cup taken') :
                i \in Held(game') \ Held(game) => i = "l2" /\ gateBreak'

LEMMA UnderFrame ==
    ASSUME TypeOK, UnderInv, NEW r \in Reports, Frame(r)
    PROVE  UnderInv' /\ UnderAct
<1>1. Recognize(r)
  BY DEF Frame, Suppress, HoldBack, SkipReport, Forward, Passes
<1>2. /\ cs \in Chord /\ long \in BOOLEAN /\ r \in Report
      /\ session' /\ psSwallow' = Mode(r)
      /\ under' = (IF paused THEN under \cup Held(r)
                   ELSE IF gate THEN under \cup r.down ELSE under) \cap Held(r)
      /\ taken' = (taken \cup Fed(cs, r, long).swallow) \cap Held(r)
  BY <1>1 DEF Recognize, Watch, TypeOK
<1>3. Fed(cs, r, long).swallow = Swallowed(cs, r)
  BY <1>2, FedType
<1>4. clean' => clean \/ r = Rest
  BY <1>1 DEF Recognize, Watch
<1>5. r = Rest => under' = {}
  BY <1>2 DEF Held, Rest
<1>6. CASE Suppress(r) \/ HoldBack(r)
  BY <1>2, <1>6 DEF Suppress, HoldBack, UnderInv, UnderAct, breakVars, outVars
<1>7. CASE Passes(r)
  <2>1. ~pauseBreak' /\ (gateBreak' <=> GatedNow(r)) /\ ~paused
    BY <1>7, Zenon DEF Passes
  <2>2. ASSUME clean, NEW i \in under', i \notin Hats, i \notin taken', ~GatedNow(r)
        PROVE  i \notin Held(Shown(r)) /\ (i = "ps" /\ psSwallow')
    <3>1. ~gate /\ (gateBreak => ~Live(Shown(r))) /\ (pauseBreak => ~Live(Shown(r)))
      BY <1>7, <2>2 DEF GatedNow, Passes
    <3>2. i \in Held(r) /\ i \in under /\ i \notin taken /\ i \notin Swallowed(cs, r)
      BY <1>2, <1>3, <2>1, <2>2, <3>1
    <3>3. CASE ~Live(Shown(r))
      <4>1. i \notin Held(Shown(r))
        BY <2>2, <3>3, LiveShown
      <4> QED BY <1>2, <3>2, <4>1, ShownType
    <3>4. CASE i = "ps" /\ psSwallow
      <4>1. PsDown(r)
        BY <1>2, <3>2, <3>4 DEF Held, PsDown
      <4>2. Fired(cs, r) = {}
        BY <3>2, <3>4, <4>1 DEF Swallowed
      <4>3. Mode(r) = psSwallow
        BY <4>2 DEF Mode
      <4> QED BY <1>2, <3>4, <4>3, ShownType
    <3> QED BY <2>2, <3>1, <3>2, <3>3, <3>4 DEF UnderInv
  <2>3. UnderInv'
    BY <1>2, <1>4, <1>5, <2>1, <2>2 DEF UnderInv
  <2>4. game' = game \/ game' = Out(r)
    BY <1>7 DEF Frame, Suppress, HoldBack, SkipReport, Forward, outVars
  <2>5. CASE GatedNow(r)
    <3>1. Held(Out(r)) = {"l2"}
      BY <2>5 DEF Out, Gated, Held
    <3> QED BY <2>1, <2>3, <2>4, <2>5, <3>1 DEF UnderAct
  <2>6. CASE ~GatedNow(r)
    BY <2>2, <2>3, <2>4, <2>6 DEF UnderAct, Out
  <2> QED BY <2>5, <2>6
<1> QED BY <1>6, <1>7 DEF Frame, SkipReport, Forward

LEMMA UnderStep ==
    ASSUME TypeOK, UnderInv, [Next]_vars
    PROVE  UnderInv' /\ [UnderAct]_vars
<1>1. CASE \E r \in Reports : Frame(r)
  BY <1>1, UnderFrame
<1>2. CASE ThreeSeconds \/ PaceOver \/ PauseFlips \/ GateFlips \/ XiLost
  BY <1>2 DEF ThreeSeconds, PaceOver, PauseFlips, GateFlips, XiLost, UnderInv, UnderAct, chordVars,
       breakVars, outVars, ghostVars
<1>3. CASE SessionEnd
  <2>1. Held(Rest) = {}
    BY DEF Held, Rest
  <2>2. game' = Rest \/ game' = game
    BY <1>3 DEF SessionEnd
  <2> QED BY <1>3, <2>1, <2>2 DEF SessionEnd, UnderInv, UnderAct
<1>4. ASSUME NEW want \in BOOLEAN, SessionStart(want)
      PROVE  UnderInv' /\ UnderAct
  BY <1>4 DEF SessionStart, UnderInv, UnderAct, chordVars, ghostVars
<1>5. ASSUME NEW want \in BOOLEAN, NEW parses \in BOOLEAN, Reload(parses, want)
      PROVE  UnderInv' /\ UnderAct
  BY <1>5 DEF Reload, UnderInv, UnderAct
<1>6. CASE UNCHANGED vars
  BY <1>6 DEF vars, UnderInv, chordVars, breakVars, outVars, ghostVars
<1> QED BY <1>1, <1>2, <1>3, <1>4, <1>5, <1>6 DEF Next

\* No press made behind an overlay or the gate becomes a press of the game's
\* before it is let go (proxy.rs:1295-1297, 1580-1612).
THEOREM ClosingPressCorrect == Spec => ClosingPressHidden
<1>1. Init => UnderInv
  BY DEF Init, UnderInv
<1>2. TypeOK /\ UnderInv /\ [Next]_vars => [UnderAct]_vars
  BY UnderStep
<1>3. ClosingPressHidden <=> [][UnderAct]_vars
  BY DEF ClosingPressHidden, UnderAct
<1> QED BY <1>1, <1>2, <1>3, UnderStep, PathTypeCorrect, PTL DEF Spec
=============================================================================
