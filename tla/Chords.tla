------------------------------- MODULE Chords -------------------------------
(***************************************************************************)
(* The chord recognizer of the proxy (ChordState, proxy.rs:159-352) as     *)
(* operators on its state: what a report makes it run, what it remembers,  *)
(* and what it strips from the report.                                     *)
(*                                                                         *)
(* A report is the set of digital inputs that are down and the level of    *)
(* the analog trigger L2: 0 at rest (raw 0x00-0x10), 1 (0x11-0x30),        *)
(* 2 (0x31-0x40), 3 (above): the thresholds the code tells apart.          *)
(***************************************************************************)
EXTENDS Naturals, FiniteSets

CONSTANTS
    Buttons,   \* digital inputs other than PS and the d-pad
    Hats,      \* d-pad directions
    Bound,     \* inputs config.toml binds to a command
    Toggle,    \* those of them bound to ps:toggle
    HasTap, HasHold  \* are [ps] tap and hold configured?

ASSUME ChordAssumption ==
    /\ {"ps", "l2", "tap", "hold"} \cap (Buttons \cup Hats) = {}
    /\ Buttons \cap Hats = {}
    /\ Bound \subseteq Buttons \cup Hats \cup {"l2"} /\ Toggle \subseteq Bound
    /\ HasTap \in BOOLEAN /\ HasHold \in BOOLEAN

Digital == Buttons \cup Hats \cup {"ps"}
Inputs  == Digital \cup {"l2"}
Levels  == 0..3
Report  == [down : SUBSET Digital, l2 : Levels]
Rest    == [down |-> {}, l2 |-> 0]

Chord == [bound : SUBSET Bound, tap : BOOLEAN, hold : BOOLEAN,
          prev : SUBSET Bound, swallow : SUBSET Inputs, skip : BOOLEAN,
          held : BOOLEAN, paired : BOOLEAN, holdFired : BOOLEAN]

\* ChordState::new, for the user's configuration or for the default one, which
\* binds nothing.  (Mutant: the first report is one like any other.)
MutantNewChords(user) ==
    [bound |-> IF user THEN Bound ELSE {}, tap |-> user /\ HasTap, hold |-> user /\ HasHold,
     prev |-> {}, swallow |-> {}, skip |-> FALSE,
     held |-> FALSE, paired |-> FALSE, holdFired |-> FALSE]
NewChords(user) ==
    [bound |-> IF user THEN Bound ELSE {}, tap |-> user /\ HasTap, hold |-> user /\ HasHold,
     prev |-> {}, swallow |-> {}, skip |-> TRUE,
     held |-> FALSE, paired |-> FALSE, holdFired |-> FALSE]

PsDown(r) == "ps" \in r.down

\* A trigger is latched above 0x40 and released at 0x30.  (Mutant: no
\* hysteresis.)
MutantLatch(cs) == 2
Latch(cs) == IF "l2" \in cs.prev THEN 1 ELSE 2

\* What is pressed of what is bound.  (Mutant: bound or not.)
MutantActive(cs, r) == {b \in Inputs : IF b = "l2" THEN r.l2 > Latch(cs) ELSE b \in r.down}
Active(cs, r) ==
    {b \in cs.bound : IF b = "l2" THEN r.l2 > Latch(cs) ELSE b \in r.down}

\* The chords a report fires: bound inputs that went down while PS is.
Fired(cs, r) ==
    IF PsDown(r) /\ ~cs.skip THEN Active(cs, r) \ cs.prev ELSE {}

\* Anything but PS cancels tap and hold for this press of PS.
PairedNow(r) == r.down \ {"ps"} # {} \/ r.l2 = 3

PsStarts(cs, r) == PsDown(r) /\ ~cs.held

PairedBy(cs, r) == PairedNow(r) \/ (IF PsStarts(cs, r) THEN cs.skip ELSE cs.paired)

\* `long': three seconds have passed since PS went down.
HoldRuns(cs, r, long) ==
    /\ PsDown(r) /\ cs.held /\ long /\ cs.hold
    /\ ~PairedBy(cs, r) /\ ~cs.holdFired

\* (Mutant: the release after a hold is a tap, too.)
MutantTapRuns(cs, r) == ~PsDown(r) /\ cs.held /\ cs.tap /\ ~cs.paired
TapRuns(cs, r) == ~PsDown(r) /\ cs.held /\ cs.tap /\ ~cs.paired /\ ~cs.holdFired

\* The commands a report starts.
Runs(cs, r, long) ==
    Fired(cs, r) \cup {c \in {"tap", "hold"} :
        IF c = "tap" THEN TapRuns(cs, r) ELSE HoldRuns(cs, r, long)}

\* A fired input is swallowed together with PS until PS is released; one
\* direction of the d-pad takes the others with it.
Swallowed(cs, r) ==
    LET f == Fired(cs, r) IN
    IF ~PsDown(r) THEN {}
    ELSE cs.swallow \cup f
         \cup (IF f # {} THEN {"ps"} ELSE {})
         \cup (IF f \cap Hats # {} THEN Hats ELSE {})

\* ChordState::feed.
Fed(cs, r, long) ==
    [cs EXCEPT
        !.prev = Active(cs, r),
        !.swallow = Swallowed(cs, r),
        !.skip = FALSE,
        !.held = PsDown(r),
        !.paired = PsDown(r) /\ PairedBy(cs, r),
        !.holdFired = PsDown(r) /\ cs.held /\ (cs.holdFired \/ HoldRuns(cs, r, long))]

\* ChordState::strip.
Strip(cs, r) ==
    [down |-> r.down \ cs.swallow, l2 |-> IF "l2" \in cs.swallow THEN 0 ELSE r.l2]
=============================================================================
