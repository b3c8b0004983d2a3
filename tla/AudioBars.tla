------------------------------ MODULE AudioBars ------------------------------
(****************************************************************************)
(* A bar of the histogram, as DPAudioService keeps it: raised by the tap's  *)
(* thread in setSampleData:length:, lowered by the display link in          *)
(* updateHeights, and drawn by the main thread.  The arrays hold one element*)
(* for each bar and every loop and vDSP call goes through them element by   *)
(* element, so that one bar is enough; the threads share it without a lock. *)
(*                                                                          *)
(* Where the code has floats the model has integers, and the unit of time   *)
(* is the delay between two firings of the display link.  The transform and *)
(* the average of its values are external: any column comes, one below      *)
(* nothing too, for values that were not converted to dB are averaged as    *)
(* they are.  The thread that makes the service decides whose run loop its  *)
(* display link is on: the main thread's, or that of the tap, which need    *)
(* never run it.                                                            *)
(****************************************************************************)
EXTENDS Integers

CONSTANTS
    Loudness,          \* the averages times the gain that come
    Limits,            \* the heights of the view: at first, and after a rotation
    HalfG,             \* half of g: gravity times the delay
    TimeMin, TimeMax,  \* the bounds of vDSP_vclip
    MaxSpeed,          \* bound: a greater speed is taken for this one
    Depth              \* bound: how far below nothing a bar is followed

ASSUME LoudnessAssumption == Loudness \subseteq Int /\ Limits \subseteq Nat
ASSUME BoundAssumption == Depth \in Nat /\ MaxSpeed \in Nat
ASSUME TimeAssumption == TimeMin \in Nat \ {0} /\ TimeMax \in Nat /\ TimeMin <= TimeMax
ASSUME GravityAssumption == HalfG \in Nat \ {0}

VARIABLES
    height, speed, time,   \* _heightsByFrequency, _speeds, _times
    link,        \* the display link's thread: its next step
    delta,       \* _deltaHeights, and the terms it is made of
    old,         \* what a vDSP call has read and not yet written back
    tap,         \* the tap's thread: its next step
    column,      \* its columnHeight
    refreshes,   \* blocks for the main thread: a refresh is asked for
    dirty,       \* the view needs display
    drawn,       \* the height last drawn
    limit,       \* settings.maxBinHeight
    onMain,      \* the display link is on the main run loop
    screen       \* external: what is shown, if the program is

barVars == <<height, speed, time>>
linkVars == <<link, delta, old>>
tapVars == <<tap, column>>
viewVars == <<refreshes, dirty, drawn>>
appVars == <<limit, onMain, screen>>
vars == <<barVars, linkVars, tapVars, viewVars, appVars>>

Max1(n) == IF n > 1 THEN n ELSE 1

\* calloc
Init ==
    /\ height = 0 /\ speed = 0 /\ time = 0
    /\ link = "idle" /\ delta = 0 /\ old = 0
    /\ tap = "idle" /\ column = 0
    /\ refreshes = FALSE /\ dirty = FALSE /\ drawn = 1
    /\ limit \in Limits /\ onMain \in BOOLEAN /\ screen = "bars"

----------------------------------------------------------------------------
(* updateHeights on the display link's thread.  A vDSP call that writes an  *)
(* array it reads is two actions, for what the tap's thread writes in       *)
(* between is lost.                                                         *)

Load(value, next) == old' = value /\ link' = next
Store(next) == old' = 0 /\ link' = next

Clip(t) == IF t < TimeMin THEN TimeMin ELSE IF t > TimeMax THEN TimeMax ELSE t

\* The display link fires, unless the program is in the background.  A bar is no longer
\* followed when it is Depth below nothing.
ReadTime ==
    /\ link = "idle" /\ height > 0 - Depth /\ screen # "background"
    /\ Load(time, "delay")
    /\ UNCHANGED <<barVars, delta, tapVars, viewVars, appVars>>

AddDelay ==
    /\ link = "delay"
    /\ time' = old + 1 /\ Store("reread")
    /\ UNCHANGED <<height, speed, delta, tapVars, viewVars, appVars>>

RereadTime ==
    /\ link = "reread"
    /\ Load(time, "clip")
    /\ UNCHANGED <<barVars, delta, tapVars, viewVars, appVars>>

ClipTime ==
    /\ link = "clip"
    /\ time' = Clip(old) /\ Store("multiply")
    /\ UNCHANGED <<height, speed, delta, tapVars, viewVars, appVars>>

\* The time times g
Gain ==
    /\ link = "multiply"
    /\ Load(time * 2 * HalfG, "sum")
    /\ UNCHANGED <<barVars, delta, tapVars, viewVars, appVars>>

ReadSpeed ==
    /\ link = "sum"
    /\ Load(speed + old, "speed")
    /\ UNCHANGED <<barVars, delta, tapVars, viewVars, appVars>>

AddSpeed ==
    /\ link = "speed"
    /\ speed' = (IF old < MaxSpeed THEN old ELSE MaxSpeed) /\ Store("square")
    /\ UNCHANGED <<height, time, delta, tapVars, viewVars, appVars>>

\* _tSqrts, times half of g
Square ==
    /\ link = "square"
    /\ delta' = time * time * HalfG
    /\ link' = "fallen"
    /\ UNCHANGED <<barVars, old, tapVars, viewVars, appVars>>

\* _vts: the speed, and the time it is multiplied by; the sum is negated
ReadFall ==
    /\ link = "fallen"
    /\ Load(speed, "add")
    /\ UNCHANGED <<barVars, delta, tapVars, viewVars, appVars>>

Fall_Up(d) == d                                              \* mutant: not negated
Fall(d) == 0 - d

AddFall ==
    /\ link = "add"
    /\ delta' = Fall(delta + old * time) /\ Store("read")
    /\ UNCHANGED <<barVars, tapVars, viewVars, appVars>>

\* vDSP_vadd reads the height, and writes the sum
ReadHeight ==
    /\ link = "read"
    /\ Load(height, "write")
    /\ UNCHANGED <<barVars, delta, tapVars, viewVars, appVars>>

\* p_refreshEqualizerDisplay: a block for the main thread each time
Refreshes_Left(h) == h > 1               \* mutant: only while something is left of the bar
Refreshes(h) == TRUE
Lower ==
    /\ link = "write"
    /\ height' = old + delta
    /\ refreshes' = (refreshes \/ Refreshes(old + delta)) /\ Store("idle") /\ delta' = 0
    /\ UNCHANGED <<speed, time, tapVars, dirty, drawn, appVars>>

----------------------------------------------------------------------------
(* setSampleData:length: on the tap's thread, for this bar                  *)

Limited(loudness) == IF loudness < limit THEN loudness ELSE limit

ComputeColumn ==
    /\ tap = "idle"
    /\ \E loudness \in Loudness : column' = Limited(loudness)
    /\ tap' = "test"
    /\ UNCHANGED <<barVars, linkVars, viewVars, appVars>>

TestHeight ==
    /\ tap = "test"
    /\ tap' = IF column > height THEN "raise" ELSE "idle"
    /\ UNCHANGED <<barVars, linkVars, column, viewVars, appVars>>

Raise ==
    /\ tap = "raise"
    /\ height' = column
    /\ tap' = "stop"
    /\ UNCHANGED <<speed, time, linkVars, column, viewVars, appVars>>

StopFalling ==
    /\ tap = "stop"
    /\ speed' = 0
    /\ tap' = "restart"
    /\ UNCHANGED <<height, time, linkVars, column, viewVars, appVars>>

RestartTime ==
    /\ tap = "restart"
    /\ time' = 0
    /\ tap' = "idle"
    /\ UNCHANGED <<height, speed, linkVars, column, viewVars, appVars>>

----------------------------------------------------------------------------
(* The main thread, which may be between two steps of the display link only *)
(* if that is on another.                                                   *)

MainIsFree == onMain => link = "idle"

\* _refreshDisplay and drawRect:
Refresh ==
    /\ MainIsFree /\ refreshes
    /\ refreshes' = FALSE /\ dirty' = TRUE
    /\ UNCHANGED <<barVars, linkVars, tapVars, drawn, appVars>>

Draw ==
    /\ MainIsFree /\ dirty /\ screen = "bars"
    /\ dirty' = FALSE /\ drawn' = Max1(height)
    /\ UNCHANGED <<barVars, linkVars, tapVars, refreshes, appVars>>

\* A rotation of the device is over.  The bars stay as they are.
Rotate ==
    /\ MainIsFree
    /\ \E newLimit \in Limits \ {limit} : limit' = newLimit
    /\ UNCHANGED <<barVars, linkVars, tapVars, viewVars, onMain, screen>>

\* The user chooses another visualizer, leaves or comes back.
Look ==
    /\ MainIsFree
    /\ \E other \in {"bars", "another", "background"} \ {screen} : screen' = other
    /\ UNCHANGED <<barVars, linkVars, tapVars, viewVars, limit, onMain>>

Link == \/ ReadTime \/ AddDelay \/ RereadTime \/ ClipTime \/ Gain \/ ReadSpeed
        \/ AddSpeed \/ Square \/ ReadFall \/ AddFall \/ ReadHeight \/ Lower
Tap == TestHeight \/ Raise \/ StopFalling \/ RestartTime
View == Refresh \/ Draw

Next == Link \/ ComputeColumn \/ Tap \/ View \/ Rotate \/ Look

Spec == Init /\ [][Next]_vars

\* The tap's thread and the main queue run, and a display link that is on the main run
\* loop.  Nothing is assumed of the music, of a display link that is on another, and of
\* the user.
FairSpec ==
    Spec /\ WF_vars(onMain /\ Link) /\ WF_vars(Tap) /\ WF_vars(Refresh) /\ WF_vars(Draw)

----------------------------------------------------------------------------
(* Properties.                                                              *)

\* The elements have their types, the time within its bounds but for one delay.
TypeOK ==
    /\ height \in Int
    /\ speed \in 0 .. MaxSpeed /\ time \in 0 .. TimeMax + 1
    /\ link \in {"idle", "delay", "reread", "clip", "multiply", "sum", "speed", "square",
                 "fallen", "add", "read", "write"}
    /\ delta \in Int /\ old \in Int
    /\ tap \in {"idle", "test", "raise", "stop", "restart"}
    /\ column \in Int
    /\ refreshes \in BOOLEAN /\ dirty \in BOOLEAN
    /\ drawn \in Nat \ {0}
    /\ limit \in Limits /\ onMain \in BOOLEAN
    /\ screen \in {"bars", "another", "background"}

\* What the steps leave each other: the time may be past its bound only until it is
\* clipped; a fall is not below nothing when summed and not above when negated; a height
\* about to be written over is not lower than the one read, and a column about to be set
\* is still higher than the bar, for between test and set the bar only goes down
\* (DPAudioService.m 119-143 against 190-194).
BarInv ==
    /\ TypeOK
    /\ link \notin {"reread", "clip"} => time <= TimeMax
    /\ link = "delay" => old \in 0 .. TimeMax
    /\ link = "clip" => old \in 0 .. TimeMax + 1
    /\ link \in {"sum", "speed", "add"} => old \in Nat
    /\ link \in {"fallen", "add"} => delta \in Nat
    /\ link \in {"read", "write"} => delta <= 0
    /\ link = "write" => old <= height
    /\ tap = "raise" => column > height

\* Only sound raises a bar: the display link never does, not even when it writes over a
\* height that the tap's thread has set in between (DPAudioService.m 139-140).
OnlySoundRaises == [][height' > height => tap = "raise"]_vars

\* A display link on the main run loop fires while the program is in the foreground.
LinkFires == onMain /\ <>[](screen # "background")

\* A bar that no new column raises goes down until nothing of it is drawn, whatever
\* races left in its speed and time (DPAudioService.m 119-143 with 128 keeping the time
\* above zero), while the bars are shown and if their display link fires.
BarsGoDown ==
    (LinkFires /\ <>[](screen = "bars")) => []<>(drawn = 1 \/ tap = "raise")

=============================================================================
