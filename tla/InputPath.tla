------------------------------ MODULE InputPath ------------------------------
(***************************************************************************)
(* The way of an input report through relay_loop (proxy.rs:1404-1645), from*)
(* the real pad to the DualSense pad of the game and to the XInput pad:    *)
(* chords, the PS filter, the pause of the overlays with its hold-break,   *)
(* the focus gate with its own, pacing, and the XInput tap; with reloads   *)
(* of the configuration (1357-1391) and sessions that end and begin.       *)
(*                                                                         *)
(* The whole handler of a report is one action; the flags it reads are     *)
(* set by the bridge's threads and by the gate's thread in between.        *)
(***************************************************************************)
EXTENDS Chords

CONSTANTS
    Reports,     \* reports the user makes
    SwallowMode, \* [ps] mode = "swallow"
    Options      \* what proxies are started with: a gate file, a transport
                 \* with paced reports, a pad with a neutral report, XInput

ASSUME PathAssumption ==
    /\ Rest \in Reports /\ Reports \subseteq Report
    /\ SwallowMode \in BOOLEAN
    /\ Options \subseteq
         [gate : BOOLEAN, paced : BOOLEAN, neutral : BOOLEAN, xinput : BOOLEAN]

VARIABLES
    opts,       \* how this proxy was started
    session,    \* is relay_loop running?
    cs, long,   \* the recognizer, and whether PS has been down for 3 s
    psSwallow,  \* PS is filtered out of every report
    paused,     \* audiobridge::paused()
    gate,       \* the gate thread's flag
    pauseBreak, gateBreak,
    pace,       \* the pace window of the last forwarded report is not over
    game,       \* what the game's DualSense pad shows
    xiUp, xiPad,\* the XInput relay's link, and what its pad shows
    last,       \* the last report of the pad
    ran,        \* commands the last step started
    taken,      \* ghost: inputs a chord kept from the game, not let go since
    spent,      \* ghost: inputs whose chord ran, not released since
    under,      \* ghost: inputs pressed behind the pause or the gate, still pressed
    alone,      \* ghost: PS is down, with nothing else and no command so far
    clean       \* ghost: the pad was at rest since the last reload or reconnect

flagVars  == <<paused, gate>>
breakVars == <<pauseBreak, gateBreak, pace>>
outVars   == <<game, xiUp, xiPad>>
ghostVars == <<taken, spent, under, alone, clean>>
chordVars == <<cs, long, psSwallow, last>>
vars == <<opts, session, chordVars, flagVars, breakVars, outVars, ran, ghostVars>>

TypeOK ==
    /\ opts \in Options /\ session \in BOOLEAN
    /\ cs \in Chord /\ long \in BOOLEAN /\ psSwallow \in BOOLEAN /\ last \in Report
    /\ paused \in BOOLEAN /\ gate \in BOOLEAN
    /\ pauseBreak \in BOOLEAN /\ gateBreak \in BOOLEAN /\ pace \in BOOLEAN
    /\ game \in Report /\ xiUp \in BOOLEAN /\ xiPad \in Report
    /\ ran \subseteq Bound \cup {"tap", "hold"}
    /\ taken \subseteq Inputs /\ spent \subseteq Bound /\ under \subseteq Inputs
    /\ alone \in BOOLEAN /\ clean \in BOOLEAN

Init ==
    /\ opts \in Options /\ session = FALSE
    /\ cs = NewChords(TRUE) /\ long = FALSE /\ psSwallow = SwallowMode /\ last = Rest
    /\ paused = FALSE /\ gate = FALSE
    /\ pauseBreak = FALSE /\ gateBreak = FALSE /\ pace = FALSE
    /\ game = Rest /\ xiUp = FALSE /\ xiPad = Rest
    /\ ran = {} /\ taken = {} /\ spent = {} /\ under = {} /\ alone = FALSE /\ clean = FALSE

-----------------------------------------------------------------------------
(* What an input report shows                                              *)

Held(r) == r.down \cup (IF r.l2 > 0 THEN {"l2"} ELSE {})

\* buttons_live: any button or a trigger off its rest; the d-pad does not
\* count.  (Mutant: nor do the triggers.)
MutantLive(r) == r.down \ Hats # {}
Live(r) == Held(r) \ Hats # {}

\* gate_input: buttons and d-pad released, and 0x80 in all six analog bytes,
\* which is the centre of a stick and half a pull of a trigger.
Gated == [down |-> {}, l2 |-> 3]

\* The report after the recognizer and the PS filter.
Mode(r) == IF Fired(cs, r) \cap Toggle # {} THEN ~psSwallow ELSE psSwallow
Shown(r) ==
    LET s == Strip(Fed(cs, r, long), r) IN
    IF Mode(r) THEN [s EXCEPT !.down = @ \ {"ps"}] ELSE s

\* The gate, or the break that follows it, until nothing is live.  (Mutant: for
\* ever.)
MutantGatedNow(r) == gate \/ gateBreak
GatedNow(r) == gate \/ (gateBreak /\ Live(Shown(r)))
Out(r) == IF GatedNow(r) THEN Gated ELSE Shown(r)

-----------------------------------------------------------------------------
(* One report                                                              *)

\* A trigger releases its chord at 0x30, long before it is let go.
Latched(r) == r.down \cup (IF r.l2 >= 2 THEN {"l2"} ELSE {})

Watch(r) ==
    /\ taken' = (taken \cup Fed(cs, r, long).swallow) \cap Held(r)
    /\ spent' = (spent \cup Fired(cs, r)) \cap Latched(r)
    /\ under' = (IF paused THEN under \cup Held(r)
                 ELSE IF gate THEN under \cup r.down ELSE under) \cap Held(r)
    /\ alone' = (/\ r.down = {"ps"} /\ r.l2 # 3
                 /\ PsDown(last) => alone
                 /\ Runs(cs, r, long) = {})
    /\ clean' = (clean \/ r = Rest)

\* The recognizer sees every report, whatever becomes of it.
Recognize(r) ==
    /\ session
    /\ cs' = Fed(cs, r, long)
    /\ long' = (long /\ cs.held /\ PsDown(r))
    /\ psSwallow' = Mode(r)
    /\ last' = r
    /\ ran' = Runs(cs, r, long)
    /\ Watch(r)
    /\ UNCHANGED <<opts, session, flagVars>>

\* While an overlay holds the input nothing is forwarded; the XInput pad is
\* parked once.  (Mutant: it is not.)
MutantParked == xiPad
Parked == IF xiUp /\ ~pauseBreak THEN Rest ELSE xiPad

Suppress(r) ==
    /\ paused
    /\ Recognize(r)
    /\ pauseBreak' = TRUE
    /\ xiPad' = Parked
    /\ UNCHANGED <<gateBreak, pace, game, xiUp>>

\* The overlay is gone, but something is still down.
HoldBack(r) ==
    /\ ~paused /\ pauseBreak /\ Live(Shown(r))
    /\ Recognize(r)
    /\ UNCHANGED <<breakVars, outVars>>

Passes(r) ==
    /\ ~paused /\ (pauseBreak => ~Live(Shown(r)))
    /\ Recognize(r)
    /\ pauseBreak' = FALSE
    /\ gateBreak' = GatedNow(r)

\* Too early after the report before it.
SkipReport(r) ==
    /\ Passes(r) /\ pace
    /\ UNCHANGED <<pace, outVars>>

\* The XInput tap first; a tap whose link is lost goes dark, and its holder
\* parks the pad.  (Mutant: it is given the report as it was before the gate.)
MutantTapped(r) == Shown(r)
Tapped(r) == Out(r)

Forward(r) ==
    /\ Passes(r) /\ ~pace
    /\ pace' = opts.paced
    /\ game' = Out(r)
    /\ \/ xiUp /\ xiPad' = Tapped(r) /\ UNCHANGED xiUp
       \/ xiUp /\ xiUp' = FALSE /\ xiPad' = Rest
       \/ ~xiUp /\ UNCHANGED <<xiUp, xiPad>>

Frame(r) == Suppress(r) \/ HoldBack(r) \/ SkipReport(r) \/ Forward(r)

-----------------------------------------------------------------------------
(* The clock, the flags, reload and reconnect                              *)

ThreeSeconds ==
    /\ cs.held /\ ~long
    /\ long' = TRUE /\ ran' = {}
    /\ UNCHANGED <<opts, session, cs, psSwallow, last, flagVars, breakVars, outVars, ghostVars>>

PaceOver ==
    /\ pace
    /\ pace' = FALSE /\ ran' = {}
    /\ UNCHANGED <<opts, session, chordVars, flagVars, pauseBreak, gateBreak, outVars, ghostVars>>

\* The last hold overlay comes or goes.
PauseFlips ==
    /\ paused' = ~paused /\ ran' = {}
    /\ UNCHANGED <<opts, session, chordVars, gate, breakVars, outVars, ghostVars>>

GateFlips ==
    /\ session /\ opts.gate
    /\ gate' = ~gate /\ ran' = {}
    /\ UNCHANGED <<opts, session, chordVars, paused, breakVars, outVars, ghostVars>>

\* The holder of the XInput pad went away; the tap is off until a reload.
XiLost ==
    /\ xiUp
    /\ xiUp' = FALSE /\ xiPad' = Rest /\ ran' = {}
    /\ UNCHANGED <<opts, session, chordVars, flagVars, breakVars, game, ghostVars>>

\* XiRelay::raise and lower: a pad that is raised is at rest, for its holder
\* parked it when the last session left it.
Raised(want) ==
    /\ want => opts.xinput
    /\ xiUp' = want /\ xiPad' = IF want /\ xiUp THEN xiPad ELSE Rest

\* SIGHUP: a new recognizer, from config.toml or, when that does not parse,
\* from the defaults; and the XInput pad as the override file wants it.
Reload(parses, want) ==
    /\ session
    /\ cs' = NewChords(parses) /\ long' = FALSE
    /\ psSwallow' = (parses /\ SwallowMode)
    /\ Raised(want)
    /\ clean' = FALSE /\ ran' = {}
    /\ UNCHANGED <<opts, session, last, flagVars, breakVars, game, taken, spent, under, alone>>

\* The recognizer outlives the session; breaks, gate and pace do not.
SessionStart(want) ==
    /\ ~session /\ session' = TRUE
    /\ gate' = FALSE
    /\ pauseBreak' = FALSE /\ gateBreak' = FALSE /\ pace' = FALSE
    /\ Raised(want)
    /\ ran' = {}
    /\ UNCHANGED <<opts, chordVars, paused, game, ghostVars>>

\* Both holders park their pads, if they can.
SessionEnd ==
    /\ session /\ session' = FALSE
    /\ game' = IF opts.neutral THEN Rest ELSE game
    /\ xiUp' = FALSE /\ xiPad' = Rest
    /\ clean' = FALSE /\ ran' = {}
    /\ UNCHANGED <<opts, chordVars, flagVars, breakVars, taken, spent, under, alone>>

Next ==
    \/ \E r \in Reports : Frame(r)
    \/ ThreeSeconds \/ PaceOver \/ PauseFlips \/ GateFlips \/ XiLost \/ SessionEnd
    \/ \E want \in BOOLEAN :
          SessionStart(want) \/ (\E parses \in BOOLEAN : Reload(parses, want))

Spec == Init /\ [][Next]_vars

\* A pad that is there goes on reporting its state, and time passes.
FairSpec == Spec /\ WF_vars(Frame(last)) /\ WF_vars(PaceOver)

-----------------------------------------------------------------------------
(* Properties                                                              *)

\* A chord runs once per press (proxy.rs:232-234, 252): an input has to be let
\* go, a trigger below its lower threshold, before it runs again.  A button that
\* was down in the report before never runs anything, also when that report was
\* seen by the recognizer before a reload, or in the session before ("on reload,
\* treat first report as 'everything already pressed' (no refire)", 171-172); a
\* trigger, which may rest between its thresholds at a reload, from the next time
\* everything is let go.
NoRefire == [][ran' \cap last.down = {} /\ (clean => ran' \cap spent = {})]_vars

\* Hold is for a PS that was pressed alone, and so is tap, at its release
\* (184-186, 278-281): with no other input since it went down and no other
\* command, although the recognizer may have been replaced since.  And a PS that
\* was pressed alone gets its tap or its hold, unless a reload or a reconnect
\* came in between.
SoloMeansSolo ==
    [][/\ "hold" \in ran' => alone
       /\ "tap" \in ran' => PsDown(last) /\ ~PsDown(last') /\ alone
       /\ clean /\ PsDown(last) /\ ~PsDown(last') /\ alone /\ cs.tap => "tap" \in ran']_vars

\* "keep swallowing frames until every button is up, so the closing press
\* never reaches the game" (1295-1297): what was pressed behind an overlay or
\* the gate does not show as a press of the game's until it was let go.  (The
\* d-pad is not waited for, 2140; what a chord swallowed and what the gate does
\* to the triggers are matters of their own.)
ClosingPressHidden ==
    [][clean => \A i \in under' \ (Hats \cup taken') :
                  i \in Held(game') \ Held(game) => i = "l2" /\ gateBreak']_vars

\* Behind an overlay the XInput pad is at rest (1570-1573), also when it is
\* raised or its link is lost meanwhile.
XiParked == pauseBreak /\ xiUp => xiPad = Rest

\* The XInput pad shows what the DualSense pad shows, or nothing.
XiFollows == xiPad \in {game, Rest}

\* Both, whatever overlays, gate, reloads and lost links do to the tap.
XiFaithful == XiParked /\ XiFollows

\* Once the user let go of everything, the overlays are gone and the gate is
\* open, the game's pad is at rest, whatever was dropped before.
LetsGo ==
    <>[](session /\ last = Rest /\ ~paused /\ ~gate) => <>[](game = Rest)

(* What the comments say and the code does not do (violation runs)         *)

\* "Neutralize gameplay fields (sticks, triggers, buttons) while gate is
\* active" (2138): no input shows on the game's pad that the user did not make.
GateNeutral == [][\A r \in Reports : Forward(r) => Held(game') \subseteq Held(r)]_vars

\* A chord's button and PS are swallowed "until PS is released - so neither the
\* game nor mdrv-gm's PS-tap sees the chord at all" (159-162).
ChordInvisible ==
    [][clean /\ ~gateBreak' => \A i \in taken' : i \in Held(game') => i \in Held(game)]_vars
=============================================================================
