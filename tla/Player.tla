------------------------------- MODULE Player -------------------------------
(***************************************************************************)
(* LMCurrentPlayerManager as a whole: PlayerQueue, which decides what      *)
(* should play, and PlayerTransport, which plays it.  They meet twice.  A  *)
(* block dispatched by the queue sets currentModule, and that installs the *)
(* module in the player; and the end of a track calls next, like a user.   *)
(* Everything of both happens on the main thread but what the queue does   *)
(* on the delegate queue.                                                  *)
(*                                                                         *)
(* What only concerns the lock screen (scrubbing, the start observer and   *)
(* artwork) is left to PlayerTransport: it changes neither module nor rate.*)
(***************************************************************************)
EXTENDS PlayerQueue

CONSTANTS
    NoModule,     \* nil
    NativeEnds,   \* the forms of an item whose end AVPlayer itself reports
    MaxEnds,      \* bound: tracks that play to their end
    MaxTouches    \* bound: plays, pauses, interruptions and swipes

VARIABLES
    copy,         \* which object the current module is, of those for one endpoint
    rate, saved, item, visual, info, endObserver, seeks, notes, drawing, ends,
    advances, crossed, silent, overlapped,   \* as in PlayerTransport
    touches,      \* how many there were
    ended,        \* history: the index of the track whose end stopped the music
    alone         \* history: it played on since without the user, each end the target's

transport == <<copy, rate, saved, item, visual, info, endObserver, seeks, notes,
               drawing, ends, advances, crossed, silent, overlapped>>
playerVars == <<vars, transport, touches, ended, alone>>

\* _currentModule of the queue, as the object that the transport compares.
Module == IF current = {} THEN NoModule
          ELSE [of |-> CHOOSE m \in current : TRUE, copy |-> copy]
Modules == [of : Items, copy : {0, 1}]

ASSUME NoModuleAssumption == NoModule \notin Modules
ASSUME EndAssumption == NativeEnds \subseteq {"hls", "dsh"} /\ MaxEnds \in Nat

Transport == INSTANCE PlayerTransport WITH module <- Module

PlayerInit ==
    /\ Init /\ Transport!Init
    /\ copy = 0 /\ touches = 0 /\ ended = {} /\ alone = FALSE

----------------------------------------------------------------------------
\* The user opens a playlist, once, and leaves the rest to the player.  Another playlist
\* and the user's own next and previous are left to PlayerQueue.
Open ==
    /\ playlist = NoList
    /\ \E p \in Playlists : SetPlaylist(p)
    /\ UNCHANGED <<transport, touches, ended, alone>>

OnMain == At("main", "idle") /\ UNCHANGED <<vars, copy>>

Touch == OnMain /\ touches < MaxTouches /\ touches' = touches + 1

PlayOrPause ==
    /\ Touch
    /\ Transport!Play \/ Transport!Pause \/ Transport!TogglePlayPause
    /\ ended' = {} /\ alone' = FALSE

\* A swipe between an end and its notifications is left to PlayerTransport: it makes
\* both of them ours, or neither.
SwitchVisual ==
    Touch /\ notes = {} /\ Transport!SwitchVisual /\ UNCHANGED <<ended, alone>>

SystemPause == Touch /\ Transport!SystemPause /\ UNCHANGED <<ended, alone>>

\* The queue's own steps: the rest of the setter, handlers and answers.
Beside(A) == A /\ UNCHANGED <<transport, touches, ended, alone>>
Decide == Beside(Setter) \/ Beside(Handler) \/ Beside(Answer)

\* A dispatched block sets currentModule: of the queue, and so of the player.  It may
\* be the object that plays already, fetched ahead once and chosen twice; which it is
\* matters only to a notification that waits.
Install ==
    /\ RunBlock
    /\ \E c \in IF notes = {} THEN {0} ELSE {0, 1} :
           /\ copy' = c
           /\ Transport!SetCurrentModule([of |-> Head(blocks), copy |-> c])
    /\ ended' = {}
    /\ UNCHANGED <<touches, alone>>

\* A track ends by itself.  The bound leaves its next an operation.
TrackEnds ==
    /\ OnMain /\ ops < MaxOps
    /\ Transport!TrackEnds
    /\ ended' = {m.index : m \in current}
    /\ alone' = (OnTarget /\ (alone \/ Quiet))
    /\ UNCHANGED touches

\* The end is noted: next, if it is the end of the current item.
Advance_Always(n) == NextTrack          \* mutant: whichever item ended
Advance_Own(n) ==                       \* mutant: without the end observer's own
    IF n.by = "player" /\ Transport!IsOurs(n.object) THEN NextTrack ELSE UNCHANGED vars
Advance(n) == IF Transport!IsOurs(n.object) THEN NextTrack ELSE UNCHANGED vars

EndNoted ==
    /\ At("main", "idle")
    /\ \E n \in notes : Advance(n) /\ UNCHANGED copy /\ Transport!EndNoted(n)
    /\ UNCHANGED <<touches, ended, alone>>

PlayerNext ==
    \/ Open \/ PlayOrPause \/ SwitchVisual
    \/ Decide \/ Install \/ EndNoted
    \/ SystemPause \/ TrackEnds

PlayerSpec == PlayerInit /\ [][PlayerNext]_playerVars

\* As in PlayerQueue, and a notification that was posted is handled.
FairPlayerSpec ==
    /\ PlayerSpec
    /\ WF_playerVars(Beside(Setter)) /\ WF_playerVars(Beside(Handler))
    /\ WF_playerVars(Beside(Answer))
    /\ WF_playerVars(Install) /\ WF_playerVars(EndNoted)

----------------------------------------------------------------------------
\* The queue inside the player behaves as PlayerQueue says, whatever ends or is paused,
\* so that what holds of PlayerQueue holds of the player.
KeepsQueue == Spec

\* The transport inside the player behaves as PlayerTransport says.
KeepsTransport == Transport!Spec

\* A track that ends is followed by another, if the list holds one that next accepts
\* under its own index: the music stops by itself only at the end of the list or of its
\* first batch, after a failed or overtaken answer, or when track or form changed
\* between the end and its notification.
MusicGoesOn ==
    (ended # {}) ~>
        \/ ended = {} \/ raised \/ crossed \/ ~TargetListed
        \/ seen \cap {"lost", "overtaken"} # {}
        \/ \A i \in ended : i + 2 >= Len(endpoints)

\* Left alone, the player goes through the list in order: it skips nothing and goes back
\* to nothing, though it may begin a track again when more rows came; unless an answer
\* failed, or was overtaken by the end of the very track it was for, or a track that had
\* begun again when the next was already awaited came to its end a second time.
HeardInOrder ==
    [][(alone /\ ~crossed /\ seen \cap {"lost", "overtaken"} = {}
           /\ current # {} /\ current' # current) =>
               \A m \in current, k \in current' : k.index = m.index + 1]_playerVars

(* Why HeardInOrder holds.                                                 *)

\* Before a playlist is opened nothing is under way; then the argument of the setter is
\* the first index, and later the one behind the target.
OpenInv ==
    /\ playlist = NoList =>
        /\ endpoints = << >> /\ blocks = << >> /\ preemptive = {} /\ current = {}
        /\ watchNet = EmptyBag /\ playerNet = EmptyBag
        /\ \A t \in Threads : pc[t] = "idle"
        /\ target = 0 /\ item = {} /\ notes = {} /\ ~alone
    /\ opening => target = 0
    /\ pc["main"] = "idle" \/ alone => ~opening
    /\ pc["main"] \in {"test", "assign"} => arg = IF opening THEN 0 ELSE target + 1

\* Every reply numbers its rows from 0, so at most one place in front of an index shows
\* it: its own, in the first reply, or the next, if that held one row.
Numbered(list) ==
    /\ \A n \in DOMAIN list : list[n].index < n
    /\ \A n \in DOMAIN list \ {1} :
           n + 1 \in DOMAIN list => list[n].index # n - 1 \/ list[n + 1].index # n - 1

\* Only the delegate queue extends the list, which keeps what it holds.
GrowInv ==
    /\ Numbered(endpoints)
    /\ \A t \in Threads : pc[t] \in {"item", "next", "ahead", "behind"} => endpoints # << >>
    /\ pc["queue"] \in {"offset", "merge"} => copied = endpoints
    /\ pc["queue"] = "merge" => offset = Len(endpoints)

\* What was fetched stands in the list, no further than the place behind the target.
FromList(m, last) == \E n \in DOMAIN endpoints : n <= last /\ m = endpoints[n]

Fetched == BagToSet(playerNet) \cup preemptive
               \cup (IF pc["queue"] \in {"choose", "dispatch", "keep", "ahead", "behind"}
                     THEN {answered} ELSE {})

FetchedInv == \A m \in Fetched : FromList(m, target + 2)

\* While nothing was overtaken, what was chosen was the target when it was chosen.
ChosenInv ==
    "overtaken" \notin seen =>
        \A m \in current \cup {blocks[n] : n \in DOMAIN blocks} : FromList(m, m.index + 2)

Solo == alone /\ ~crossed /\ seen \cap {"lost", "overtaken"} = {}

\* Modules of two indices, none of them 0, in order.
InOrder(modules, low, high) ==
    \A i \in DOMAIN modules :
        /\ modules[i].index \in {low, high} /\ modules[i].index # 0
        /\ \A j \in 1 .. i : modules[j].index <= modules[i].index

\* While m plays the target is its index or, once its end was noted, the next; what waits
\* to be installed lies between, in order.
Along(m) ==
    /\ target \in {m.index, m.index + 1}
    /\ (pc["main"] \in {"test", "assign"} \/ \E n \in notes : Transport!IsOurs(n.object))
           => target = m.index
    /\ pc["main"] \in {"test", "assign"} => \A n \in notes : ~Transport!IsOurs(n.object)
    /\ InOrder(blocks, m.index, target)

\* Left alone, the player is past the first answers and goes along the list.
OrderInv ==
    /\ \A m, k \in current : m = k
    /\ (alone /\ target = 0) =>
        /\ watchNet = EmptyBag /\ playerNet = EmptyBag /\ pc["queue"] = "idle"
        /\ pc["main"] \notin {"fetch", "item", "next", "extend"}
    /\ Solo => \E m \in current : Along(m)

\* What next, the answers and the blocks of a player left alone rely on: the list grows at
\* its end only, what was fetched stands in it near the target, and what waits to be
\* installed lies in order between what plays and the target.  Inductive, beside the
\* invariants of the two halves.
SoloInv == OpenInv /\ GrowInv /\ FetchedInv /\ ChosenInv /\ OrderInv
=============================================================================
