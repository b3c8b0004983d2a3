--------------------------- MODULE PlayerTransport ---------------------------
(***************************************************************************)
(* The player side of LMCurrentPlayerManager: the rate of the AVPlayer and *)
(* the one kept for resuming, the item it plays in the form the visualizer *)
(* wants, what the lock screen is told, and how the end of a track reaches *)
(* next.                                                                   *)
(*                                                                         *)
(* Operations, observers and dispatched blocks run on the main thread, each*)
(* to its end.  The delegate queue of NSURLSession runs the handler of a   *)
(* thumbnail, which updates the lock screen from there.  AVPlayer itself is*)
(* external: it can stop on its own, and at the end of a track it posts a  *)
(* notification for the item, in some forms only (the code's second source *)
(* of that notification is there because of it).                           *)
(***************************************************************************)
EXTENDS Naturals, FiniteSets

CONSTANTS
    Modules,      \* the LMVideoItemModules that get installed
    NoModule,     \* nil
    NativeEnds,   \* the forms of an item whose end AVPlayer itself reports
    MaxEnds       \* bound: tracks that play to their end

ASSUME ModuleAssumption == NoModule \notin Modules
ASSUME FormAssumption == NativeEnds \subseteq {"hls", "dsh"}
ASSUME BoundAssumption == MaxEnds \in Nat

VARIABLES
    rate,        \* player.rate: 0 or 1
    saved,       \* _playbackRate
    module,      \* _currentModule
    item,        \* player.currentItem: a module's item in one of its forms
    visual,      \* visualType
    info,        \* nowPlayingInfo: {} or the module and the rate told
    endObserver, \* the module the end observer was made for
    seeks,       \* seeks under way, up to 1
    notes,       \* DidPlayToEnd notifications not yet handled
    drawing,     \* delegate queue: where the artwork's update is, and what it read
    ends,        \* how many tracks ended
    advances,    \* history: how often the end of a track called next
    crossed,     \* history: track or visualizer changed while notes were pending
    silent,      \* history: the system changed the rate and nobody told the lock screen
    overlapped   \* history: what it was told last was told during a drawing

vars == <<rate, saved, module, item, visual, info, endObserver, seeks, notes,
          drawing, ends, advances, crossed, silent, overlapped>>

\* The visualizers a swipe can reach, in order; None is only a boundary.
Visuals == << "video", "histogram", "metal" >>
Wrap(n) == IF n < 1 THEN 3 ELSE IF n > 3 THEN 1 ELSE n

Form(v) == IF Visuals[v] # "video" THEN "dsh" ELSE "hls"

\* playerItem of m; nil for nil
PlayerItem(m, v) == IF m = NoModule THEN {} ELSE {[module |-> m, form |-> Form(v)]}

Idle == [at |-> "idle", module |-> NoModule, rate |-> 0]

Init ==
    /\ rate = 0 /\ saved = 1
    /\ module = NoModule /\ item = {} /\ endObserver = NoModule
    /\ visual \in 1 .. 3
    /\ info = {}
    /\ seeks = 0 /\ notes = {}
    /\ drawing = Idle
    /\ ends = 0 /\ advances = 0
    /\ crossed = FALSE /\ silent = FALSE /\ overlapped = FALSE

----------------------------------------------------------------------------
\* updateSystemCurrentPlayingInfo, to its end, with the values it finds.  Without a
\* module there is nothing to tell.
Told(m, r) == IF m = NoModule THEN {} ELSE {[module |-> m, rate |-> r]}

UpdateInfo(m, r) ==
    /\ info' = Told(m, r)
    /\ silent' = FALSE
    /\ overlapped' = (drawing.at # "idle")

Play ==
    /\ rate' = saved
    /\ UpdateInfo(module, saved)
    /\ UNCHANGED <<saved, module, item, visual, endObserver, seeks, notes, drawing,
                   ends, advances, crossed>>

Pause_Untold ==                  \* mutant: the lock screen is not told
    /\ saved' = rate
    /\ rate' = 0
    /\ UNCHANGED <<info, silent, overlapped>>
    /\ UNCHANGED <<module, item, visual, endObserver, seeks, notes, drawing, ends,
                   advances, crossed>>

Pause ==
    /\ saved' = rate
    /\ rate' = 0
    /\ UpdateInfo(module, 0)
    /\ UNCHANGED <<module, item, visual, endObserver, seeks, notes, drawing, ends,
                   advances, crossed>>

\* play and pause come from the lock screen, togglePlayPause from there and from a tap.
TogglePlayPause == IF rate = 0 THEN Play ELSE Pause

Scrub ==
    /\ seeks' = 1
    /\ UNCHANGED <<rate, saved, module, item, visual, info, endObserver, notes,
                   drawing, ends, advances, crossed, silent, overlapped>>

\* A seek ends and its handler runs: only a finished one tells the lock screen.
SeekDone ==
    /\ seeks = 1
    /\ seeks' = 0
    /\ \/ UpdateInfo(module, rate)
       \/ UNCHANGED <<info, silent, overlapped>>
    /\ UNCHANGED <<rate, saved, module, item, visual, endObserver, notes, drawing,
                   ends, advances, crossed>>

\* The start observer of the player.
StartReached ==
    /\ rate = 1 /\ item # {}
    /\ UpdateInfo(module, rate)
    /\ UNCHANGED <<rate, saved, module, item, visual, endObserver, seeks, notes,
                   drawing, ends, advances, crossed>>

\* A swipe sets the preference and, before it is stored, its observers run:
\* updateForPreferenceChange puts the other form of the module in the player and
\* seeks to where the old one was.
SwitchedItem_Before(n) == PlayerItem(module, visual)   \* mutant: told before it is set
SwitchedItem(n) == PlayerItem(module, n)

SwitchVisual ==
    /\ \E n \in {Wrap(visual + 1), Wrap(visual - 1)} :
           /\ visual' = n
           /\ item' = SwitchedItem(n)
    /\ seeks' = 1
    /\ crossed' = (crossed \/ notes # {})
    /\ UNCHANGED <<rate, saved, module, info, endObserver, notes, drawing, ends,
                   advances, silent, overlapped>>

\* A dispatched block: setCurrentModule: installs m, plays, and moves the end observer.
ResumeRate == saved

SetCurrentModule(m) ==
    /\ module' = m
    /\ item' = PlayerItem(m, visual)
    /\ rate' = ResumeRate
    /\ UpdateInfo(m, rate')
    /\ endObserver' = m
    /\ crossed' = (crossed \/ notes # {})
    /\ UNCHANGED <<saved, visual, seeks, notes, drawing, ends, advances>>

----------------------------------------------------------------------------
(* AVPlayer, external.                                                     *)

\* An interruption or a lost output route pauses the player.
SystemPause ==
    /\ rate # 0
    /\ rate' = 0
    /\ silent' = TRUE
    /\ UNCHANGED <<saved, module, item, visual, info, endObserver, seeks, notes,
                   drawing, ends, advances, crossed, overlapped>>

\* The track plays to its end and the player stops.  The end observer posts the
\* notification for the dsh item of the module it was made for, AVPlayer may post one
\* for the item itself.
TrackEnds ==
    /\ rate # 0 /\ item # {} /\ notes = {}
    /\ ends < MaxEnds
    /\ ends' = ends + 1
    /\ rate' = 0
    /\ silent' = TRUE
    /\ notes' = {[by |-> "observer", object |-> [module |-> endObserver, form |-> "dsh"]]}
                \cup {[by |-> "player", object |-> i] : i \in {j \in item : j.form \in NativeEnds}}
    /\ UNCHANGED <<saved, module, item, visual, info, endObserver, seeks, drawing,
                   advances, crossed, overlapped>>

\* The observer of that notification in init: it is ours only if its object is the
\* item of the current module in the current form.
IsOurs_Any(object) == TRUE       \* mutant: the object is not compared
IsOurs(object) == object \in PlayerItem(module, visual)

EndNoted(n) ==
    /\ notes' = notes \ {n}
    /\ advances' = IF IsOurs(n.object) THEN advances + 1 ELSE advances
    /\ UNCHANGED <<rate, saved, module, item, visual, info, endObserver, seeks,
                   drawing, ends, crossed, silent, overlapped>>

----------------------------------------------------------------------------
(* The delegate queue: a thumbnail arrives for a module of the target's    *)
(* index, and updates the lock screen in the middle of anything.           *)

DrawArtwork ==
    /\ drawing.at = "idle"
    /\ drawing' = [Idle EXCEPT !.at = "module", !.module = module]
    /\ UNCHANGED <<rate, saved, module, item, visual, info, endObserver, seeks,
                   notes, ends, advances, crossed, silent, overlapped>>

DrawRate ==
    /\ drawing.at = "module"
    /\ drawing' = [drawing EXCEPT !.at = "rate", !.rate = rate]
    /\ UNCHANGED <<rate, saved, module, item, visual, info, endObserver, seeks,
                   notes, ends, advances, crossed, silent, overlapped>>

DrawInfo ==
    /\ drawing.at = "rate"
    /\ info' = Told(drawing.module, drawing.rate)
    /\ drawing' = Idle
    /\ UNCHANGED <<rate, saved, module, item, visual, endObserver, seeks, notes,
                   ends, advances, crossed, silent, overlapped>>

----------------------------------------------------------------------------
Next ==
    \/ Play \/ Pause \/ TogglePlayPause \/ Scrub \/ SwitchVisual
    \/ \E m \in Modules : SetCurrentModule(m)
    \/ SeekDone \/ StartReached \/ SystemPause \/ TrackEnds
    \/ \E n \in notes : EndNoted(n)
    \/ DrawArtwork \/ DrawRate \/ DrawInfo

Spec == Init /\ [][Next]_vars

----------------------------------------------------------------------------
Items == [module : Modules, form : {"hls", "dsh"}]

TypeOK ==
    /\ rate \in {0, 1} /\ saved \in {0, 1}
    /\ module \in Modules \cup {NoModule}
    /\ item \subseteq Items
    /\ visual \in 1 .. 3
    /\ info \subseteq [module : Modules, rate : {0, 1}]
    /\ endObserver \in Modules \cup {NoModule}
    /\ seeks \in {0, 1}
    /\ notes \subseteq [by : {"observer", "player"}, object : Items]
    /\ drawing \in [at : {"idle", "module", "rate"}, module : Modules \cup {NoModule},
                    rate : {0, 1}]
    /\ ends \in Nat /\ advances \in Nat
    /\ crossed \in BOOLEAN /\ silent \in BOOLEAN /\ overlapped \in BOOLEAN

\* The player's item is the current module's in the form of the current visualizer,
\* and the end observer is that module's, through installs and swipes in any order.
ItemFollows == item = PlayerItem(module, visual) /\ endObserver = module

\* The lock screen shows the module and the rate there are, unless the system changed
\* the rate itself or an artwork's update crossed one of the main thread's.
InfoFollows ==
    (drawing.at = "idle" /\ ~silent /\ ~overlapped) => info = Told(module, rate)

\* Each end of a track calls next once: of its two notifications, exactly one is the
\* current item's in either form, unless track or form changed between the two.
EndAdvancesOnce == (notes = {} /\ ~crossed) => advances = ends

(* Why InfoFollows and EndAdvancesOnce hold.                               *)

\* What a drawing has read is still so, unless it was crossed.
InfoInv ==
    (~silent /\ ~overlapped) =>
        /\ info = Told(module, rate)
        /\ drawing.at # "idle" => drawing.module = module
        /\ drawing.at = "rate" => drawing.rate = rate

\* At most one pending notification is ours, and it accounts for the last end.
EndInv ==
    ~crossed =>
        /\ \A a, b \in notes : IsOurs(a.object) /\ IsOurs(b.object) => a = b
        /\ ends = IF \E n \in notes : IsOurs(n.object) THEN advances + 1 ELSE advances

\* Inductive: it implies ItemFollows, InfoFollows and EndAdvancesOnce.
TransportInv == TypeOK /\ ItemFollows /\ InfoInv /\ EndInv
=============================================================================
