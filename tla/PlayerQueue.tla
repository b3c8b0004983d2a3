---------------------------- MODULE PlayerQueue ----------------------------
(***************************************************************************)
(* The playlist side of LMCurrentPlayerManager: the list of endpoints, the *)
(* index the user wants to hear, the item fetched ahead, and the "next"    *)
(* and "player" requests that fill them.                                   *)
(*                                                                         *)
(* Two threads share the manager's ivars without a lock.  The main thread  *)
(* runs the user's operations, to their end, and the blocks dispatched to  *)
(* the main queue, first in first out.  The delegate queue of the shared   *)
(* NSURLSession is serial and runs the completion handlers, one at a time, *)
(* in any order of the replies.  A step of either is one access, or one    *)
(* run of accesses, to the shared ivars.                                   *)
(*                                                                         *)
(* A nil _playlistEndpoints and an empty one are both << >>: they have the *)
(* same count, and only a nil one is ever subscripted while empty (a list  *)
(* whose count was tested before can become nil, never shorter), which     *)
(* yields nil and does not raise.                                          *)
(***************************************************************************)
EXTENDS Naturals, Sequences, FiniteSets, Bags

CONSTANTS
    Playlists,        \* the playlists the user can open
    NoList,           \* the nil playlist, and the list of the nil endpoint
    BatchSizes,       \* how many indexed rows a "next" reply may hold
    AbsoluteReplies,  \* TRUE: a reply may number its rows from the index asked for
    Threshold,        \* extend the list when fewer rows than this are left (5)
    Word,             \* the modulus of NSUInteger
    MaxOps            \* bound: operations the user performs

ASSUME ListAssumption == NoList \notin Playlists
ASSUME BatchAssumption == BatchSizes \subseteq Nat /\ AbsoluteReplies \in BOOLEAN
ASSUME BoundAssumption ==
    Threshold \in Nat \ {0} /\ Word \in Nat \ {0, 1} /\ MaxOps \in Nat

VARIABLES
    playlist,     \* _playlist
    endpoints,    \* _playlistEndpoints
    target,       \* _targetPlayingIndex
    preemptive,   \* _preemptiveFetch: {} for nil
    current,      \* _currentModule: {} for nil
    watchNet,     \* bag of "next" requests in flight
    playerNet,    \* bag of "player" requests in flight
    blocks,       \* blocks dispatched to the main queue: the modules they install
    pc,           \* where each thread is
    arg,          \* main: the argument of setTargetPlayingIndex:
    opening,      \* main: inside setPlaylist:
    batch,        \* queue: the "next" reply being merged
    copied,       \* queue: the mutable copy of the list
    offset,       \* queue: indexOffset
    answered,     \* queue: the module, or endpoint, being handled
    prevEnabled,  \* previousTrackCommand.enabled
    raised,       \* an NSRangeException ended the program
    ops,          \* operations performed so far
    asked,        \* history: a "next" request was sent for this playlist
    seen          \* history: which unusual things happened

shared  == <<playlist, endpoints, target, preemptive, current>>
locals  == <<batch, copied, offset, answered>>
history == <<asked, seen>>
vars == <<shared, watchNet, playerNet, blocks, pc, arg, opening, locals,
          prevEnabled, raised, ops, history>>

Threads == {"main", "queue"}

\* An endpoint: the playlist it came from, the index the server gave it, and
\* its place in that playlist.  A module is known by its endpoint.
Items == [list : Playlists \cup {NoList}, index : Nat, pos : Nat]

NilItem == [list |-> NoList, index |-> 0, pos |-> 0]   \* messages to nil answer 0

NoBatch == [list |-> NoList, from |-> 0, first |-> 0, size |-> 0]

WatchRequests == [list : Playlists \cup {NoList}, from : Nat]

\* "lost": a request failed.  "drifted": an index other than 0 was accepted
\* while the list was empty.  "gap": a reply left a hole after the list.
\* "overlap": a list was written while setPlaylist: was running.
\* "overtaken": the target moved between choosing a module and dispatching it.
\* "repeated": rows were asked for while others, or the same, were on their way.
Oddities == {"lost", "drifted", "gap", "overlap", "overtaken", "repeated"}

USub(a, b) == IF a >= b THEN a - b ELSE Word - (b - a)   \* NSUInteger a - b

Init ==
    /\ playlist = NoList
    /\ endpoints = << >>
    /\ target = 0
    /\ preemptive = {}
    /\ current = {}
    /\ watchNet = EmptyBag
    /\ playerNet = EmptyBag
    /\ blocks = << >>
    /\ pc = [t \in Threads |-> "idle"]
    /\ arg = 0
    /\ opening = FALSE
    /\ batch = NoBatch
    /\ copied = << >>
    /\ offset = 0
    /\ answered = NilItem
    /\ prevEnabled = TRUE
    /\ raised = FALSE
    /\ ops = 0
    /\ asked = FALSE
    /\ seen = {}

----------------------------------------------------------------------------
At(t, label) == ~raised /\ pc[t] = label
Goto(t, label) == pc' = [pc EXCEPT ![t] = label]

SendPlayer(item) == playerNet' = playerNet (+) SetToBag({item})

\* The uncaught exception ends the process: nothing moves any more.
Raise == raised' = TRUE /\ UNCHANGED <<pc, blocks, playerNet>>

----------------------------------------------------------------------------
(* startFetchForCurrentItem, on either thread.                             *)

\* Is m the module to play now?
IsTarget_Ahead(m) == TRUE       \* mutant: the index is not compared
IsTarget(m) == m.index = target

AfterFetch(t) == IF t = "main" THEN "extend" ELSE "idle"

\* mutant: the setter returns without fetching
FetchCount_Never(t) ==
    /\ At(t, "fetch")
    /\ Goto(t, IF t = "main" \/ Len(endpoints) = 0 THEN AfterFetch(t) ELSE "item")
    /\ UNCHANGED <<shared, watchNet, playerNet, blocks, arg, opening, locals,
                   prevEnabled, raised, ops, history>>

FetchCount(t) ==
    /\ At(t, "fetch")
    /\ Goto(t, IF Len(endpoints) = 0 THEN AfterFetch(t) ELSE "item")
    /\ UNCHANGED <<shared, watchNet, playerNet, blocks, arg, opening, locals,
                   prevEnabled, raised, ops, history>>

\* The module fetched ahead is used if it is the target's and has not expired;
\* expiry is a matter of time, so either branch may be taken for it.  Only the main
\* thread moves the target and sets the list to nil: it finds both as it left them, and
\* dispatches at once; on the delegate queue they may change first.
FetchAhead(t) ==
    /\ At(t, "item")
    /\ \E m \in preemptive :
          /\ IsTarget(m)
          /\ \/ t = "main" /\ blocks' = Append(blocks, m)
                /\ Goto(t, "next") /\ UNCHANGED answered
             \/ t = "queue" /\ answered' = m
                /\ Goto(t, "ahead") /\ UNCHANGED blocks
    /\ UNCHANGED <<shared, watchNet, playerNet, arg, opening, batch, copied, offset,
                   prevEnabled, raised, ops, history>>

DispatchAhead ==
    /\ At("queue", "ahead")
    /\ blocks' = Append(blocks, answered)
    /\ Goto("queue", "next")
    /\ answered' = NilItem
    /\ seen' = IF answered.index # target THEN seen \cup {"overtaken"} ELSE seen
    /\ UNCHANGED <<shared, watchNet, playerNet, arg, opening, batch, copied,
                   offset, prevEnabled, raised, ops, asked>>

FetchItem(t) ==
    /\ At(t, "item")
    /\ \/ /\ Len(endpoints) = 0                   \* set to nil since the test
          /\ SendPlayer(NilItem)
          /\ Goto(t, "next")
          /\ UNCHANGED <<blocks, raised>>
       \/ /\ target < Len(endpoints)
          /\ SendPlayer(endpoints[target + 1])
          /\ Goto(t, "next")
          /\ UNCHANGED <<blocks, raised>>
       \/ Len(endpoints) # 0 /\ target >= Len(endpoints) /\ Raise
    /\ UNCHANGED <<shared, watchNet, arg, opening, locals, prevEnabled, ops,
                   history>>

\* The endpoint behind the target is asked for ahead of time.  Between the test of the
\* count and the subscript on the delegate queue the list may be set to nil, not shortened.
FetchNext(t) ==
    /\ At(t, "next")
    /\ \/ /\ target + 1 >= Len(endpoints)
          /\ Goto(t, AfterFetch(t))
          /\ UNCHANGED <<playerNet, answered>>
       \/ /\ target + 1 < Len(endpoints) /\ t = "main"
          /\ SendPlayer(endpoints[target + 2])
          /\ Goto(t, AfterFetch(t))
          /\ UNCHANGED answered
       \/ /\ target + 1 < Len(endpoints) /\ t = "queue"
          /\ answered' = endpoints[target + 2]
          /\ Goto(t, "behind")
          /\ UNCHANGED playerNet
    /\ UNCHANGED <<shared, watchNet, blocks, arg, opening, batch, copied, offset,
                   prevEnabled, raised, ops, history>>

SendNext ==
    /\ At("queue", "behind")
    /\ SendPlayer(IF Len(endpoints) = 0 THEN NilItem ELSE answered)
    /\ answered' = NilItem
    /\ Goto("queue", "idle")
    /\ UNCHANGED <<shared, watchNet, blocks, arg, opening, batch, copied, offset,
                   prevEnabled, raised, ops, history>>

Fetch(t) == FetchCount(t) \/ FetchAhead(t) \/ FetchItem(t) \/ FetchNext(t)

----------------------------------------------------------------------------
(* The main thread: the user's operations.                                 *)

UserMay == At("main", "idle") /\ ops < MaxOps

ClearList_Kept == endpoints' = endpoints /\ preemptive' = {}  \* mutant: no reset
ClearList == endpoints' = << >> /\ preemptive' = {}

SetPlaylist(p) ==
    /\ UserMay
    /\ playlist' = p
    /\ ClearList
    /\ Goto("main", "test")
    /\ arg' = 0
    /\ opening' = TRUE
    /\ ops' = ops + 1
    /\ asked' = FALSE
    /\ UNCHANGED <<target, current, watchNet, playerNet, blocks, locals,
                   prevEnabled, raised, seen>>

\* next, from the lock screen, the application or the end of a track.
NextTrack ==
    /\ UserMay
    /\ Goto("main", "test")
    /\ arg' = target + 1
    /\ ops' = ops + 1
    /\ UNCHANGED <<shared, watchNet, playerNet, blocks, opening, locals,
                   prevEnabled, raised, history>>

CanGoBack_Always == TRUE        \* mutant: no test for the first track
CanGoBack == target # 0

Previous ==
    /\ UserMay
    /\ CanGoBack
    /\ Goto("main", "test")
    /\ arg' = target - 1
    /\ ops' = ops + 1
    /\ UNCHANGED <<shared, watchNet, playerNet, blocks, opening, locals,
                   prevEnabled, raised, history>>

(* setTargetPlayingIndex: *)

\* The last index is refused too: "minus one for pre-fetch".
Accepts_Last(t) == t <= Len(endpoints)     \* mutant: off by one, and no pre-fetch
Accepts(t) == t < USub(Len(endpoints), 1)

TestTarget ==
    /\ At("main", "test")
    /\ \/ /\ Accepts(arg)
          /\ Goto("main", "assign")
          /\ seen' = IF Len(endpoints) = 0 /\ arg # 0
                     THEN seen \cup {"drifted"} ELSE seen
       \/ /\ ~Accepts(arg)
          /\ Goto("main", "enable")
          /\ seen' = seen
    /\ UNCHANGED <<shared, watchNet, playerNet, blocks, arg, opening, locals,
                   prevEnabled, raised, ops, asked>>

AssignTarget ==
    /\ At("main", "assign")
    /\ target' = arg
    /\ Goto("main", "fetch")
    /\ UNCHANGED <<playlist, endpoints, preemptive, current, watchNet, playerNet,
                   blocks, arg, opening, locals, prevEnabled, raised, ops,
                   history>>

\* The rows of a "next" request are not in the list yet.
Extending == watchNet # EmptyBag \/ pc["queue"] \in {"copy", "offset", "merge"}

ExtendList ==
    /\ At("main", "extend")
    /\ IF USub(Len(endpoints), arg) < Threshold
       THEN /\ watchNet' = watchNet (+) SetToBag({[list |-> playlist,
                                                   from |-> Len(endpoints)]})
            /\ asked' = TRUE
            /\ seen' = IF Extending THEN seen \cup {"repeated"} ELSE seen
       ELSE UNCHANGED <<watchNet, asked, seen>>
    /\ Goto("main", "enable")
    /\ UNCHANGED <<shared, playerNet, blocks, arg, opening, locals, prevEnabled,
                   raised, ops>>

HasPrevious(t) == t # 0

EnablePrevious ==
    /\ At("main", "enable")
    /\ prevEnabled' = HasPrevious(arg)
    /\ arg' = 0
    /\ Goto("main", "idle")
    /\ opening' = FALSE
    /\ UNCHANGED <<shared, watchNet, playerNet, blocks, locals, raised, ops,
                   history>>

\* A block dispatched to the main queue: currentModule = module.
RunBlock ==
    /\ At("main", "idle")
    /\ blocks # << >>
    /\ current' = {Head(blocks)}
    /\ blocks' = Tail(blocks)
    /\ UNCHANGED <<playlist, endpoints, target, preemptive, watchNet, playerNet,
                   pc, arg, opening, locals, prevEnabled, raised, ops, history>>

----------------------------------------------------------------------------
(* The delegate queue: replies to "next" requests.                         *)

LoseWatch(r) ==
    /\ At("queue", "idle")
    /\ watchNet' = watchNet (-) SetToBag({r})
    /\ seen' = seen \cup {"lost"}
    /\ UNCHANGED <<shared, playerNet, blocks, pc, arg, opening, locals,
                   prevEnabled, raised, ops, asked>>

\* The server numbers the rows of a reply from 0, or from the index asked for.
\* It knows no rows of a nil playlist.
WatchReply(r) ==
    /\ At("queue", "idle")
    /\ watchNet' = watchNet (-) SetToBag({r})
    /\ \E size \in (IF r.list = NoList THEN {0} ELSE BatchSizes),
          first \in {0} \cup (IF AbsoluteReplies THEN {r.from} ELSE {}) :
          batch' = [list |-> r.list, from |-> r.from, first |-> first, size |-> size]
    /\ Goto("queue", "copy")
    /\ UNCHANGED <<shared, playerNet, blocks, arg, opening, copied, offset,
                   answered, prevEnabled, raised, ops, history>>

CopyList ==
    /\ At("queue", "copy")
    /\ copied' = endpoints
    /\ Goto("queue", "offset")
    /\ UNCHANGED <<shared, watchNet, playerNet, blocks, arg, opening, batch,
                   offset, answered, prevEnabled, raised, ops, history>>

IndexOffset_Zero == 0           \* mutant: rows keep the index of the reply
IndexOffset == Len(endpoints)

ReadOffset ==
    /\ At("queue", "offset")
    /\ offset' = IndexOffset
    /\ Goto("queue", "merge")
    /\ UNCHANGED <<shared, watchNet, playerNet, blocks, arg, opening, batch,
                   copied, answered, prevEnabled, raised, ops, history>>

\* The n-th row of a reply, and the list with the rows of b put in at place at.
Row(b, n) == [list |-> b.list, index |-> b.first + n, pos |-> b.from + n]

Overlay(list, b, at) ==
    LET len == IF at + b.size > Len(list) THEN at + b.size ELSE Len(list)
    IN  [n \in 1 .. len |-> IF n - 1 >= at /\ n - 1 < at + b.size
                            THEN Row(b, n - 1 - at) ELSE list[n]]

\* Subscripting past the end of a mutable array raises; at the end it appends.
WriteList ==
    /\ At("queue", "merge")
    /\ \/ /\ batch.size > 0 /\ batch.first + offset > Len(copied)
          /\ Raise
          /\ seen' = seen \cup {"gap"}
          /\ UNCHANGED <<endpoints, batch, copied, offset>>
       \/ /\ batch.size = 0 \/ batch.first + offset <= Len(copied)
          /\ endpoints' = IF batch.size = 0 THEN copied
                          ELSE Overlay(copied, batch, batch.first + offset)
          /\ batch' = NoBatch /\ copied' = << >> /\ offset' = 0   \* out of scope
          /\ Goto("queue", "fetch")
          /\ seen' = IF opening THEN seen \cup {"overlap"} ELSE seen
          /\ UNCHANGED <<blocks, playerNet, raised>>
    /\ UNCHANGED <<playlist, target, preemptive, current, watchNet, arg, opening,
                   answered, prevEnabled, ops, asked>>

----------------------------------------------------------------------------
(* The delegate queue: replies to "player" requests.                       *)

LosePlayer(m) ==
    /\ At("queue", "idle")
    /\ playerNet' = playerNet (-) SetToBag({m})
    /\ seen' = seen \cup {"lost"}
    /\ UNCHANGED <<shared, watchNet, blocks, pc, arg, opening, locals,
                   prevEnabled, raised, ops, asked>>

PlayerReply(m) ==
    /\ At("queue", "idle")
    /\ playerNet' = playerNet (-) SetToBag({m})
    /\ answered' = m
    /\ Goto("queue", "choose")
    /\ UNCHANGED <<shared, watchNet, blocks, arg, opening, batch, copied, offset,
                   prevEnabled, raised, ops, history>>

ChooseModule ==
    /\ At("queue", "choose")
    /\ Goto("queue", IF IsTarget(answered) THEN "dispatch" ELSE "keep")
    /\ UNCHANGED <<shared, watchNet, playerNet, blocks, arg, opening, locals,
                   prevEnabled, raised, ops, history>>

DispatchModule ==
    /\ At("queue", "dispatch")
    /\ blocks' = Append(blocks, answered)
    /\ Goto("queue", "idle")
    /\ answered' = NilItem
    /\ seen' = IF answered.index # target THEN seen \cup {"overtaken"} ELSE seen
    /\ UNCHANGED <<shared, watchNet, playerNet, arg, opening, batch, copied,
                   offset, prevEnabled, raised, ops, asked>>

KeepModule ==
    /\ At("queue", "keep")
    /\ preemptive' = IF answered.index = target + 1 THEN {answered} ELSE preemptive
    /\ answered' = NilItem
    /\ Goto("queue", "idle")
    /\ UNCHANGED <<playlist, endpoints, target, current, watchNet, playerNet,
                   blocks, arg, opening, batch, copied, offset, prevEnabled,
                   raised, ops, history>>

----------------------------------------------------------------------------
User == NextTrack \/ Previous \/ \E p \in Playlists : SetPlaylist(p)

Setter == TestTarget \/ AssignTarget \/ Fetch("main") \/ ExtendList \/ EnablePrevious

Handler == \/ CopyList \/ ReadOffset \/ WriteList
           \/ Fetch("queue") \/ DispatchAhead \/ SendNext
           \/ ChooseModule \/ DispatchModule \/ KeepModule

Answer == \/ \E r \in BagToSet(watchNet) : WatchReply(r) \/ LoseWatch(r)
          \/ \E m \in BagToSet(playerNet) : PlayerReply(m) \/ LosePlayer(m)

Next == User \/ Setter \/ RunBlock \/ Handler \/ Answer

Spec == Init /\ [][Next]_vars

\* Threads run, the main queue is drained, and NSURLSession ends every task, with
\* a reply or with an error.  Nothing is assumed of the user.
Fairness == WF_vars(Setter) /\ WF_vars(RunBlock) /\ WF_vars(Handler) /\ WF_vars(Answer)

FairSpec == Spec /\ Fairness

----------------------------------------------------------------------------
TypeOK ==
    /\ playlist \in Playlists \cup {NoList}
    /\ endpoints \in Seq(Items)
    /\ target \in Nat
    /\ preemptive \subseteq Items
    /\ current \subseteq Items
    /\ IsABag(watchNet) /\ BagToSet(watchNet) \subseteq WatchRequests
    /\ IsABag(playerNet) /\ BagToSet(playerNet) \subseteq Items
    /\ blocks \in Seq(Items)
    /\ pc \in [Threads -> {"idle", "fetch", "item", "next", "test", "assign",
                           "extend", "enable", "copy", "offset", "merge",
                           "choose", "dispatch", "keep", "ahead", "behind"}]
    /\ arg \in Nat
    /\ opening \in BOOLEAN
    /\ batch \in [list : Playlists \cup {NoList}, from : Nat, first : Nat, size : Nat]
    /\ copied \in Seq(Items)
    /\ offset \in Nat
    /\ answered \in Items
    /\ prevEnabled \in BOOLEAN
    /\ raised \in BOOLEAN
    /\ ops \in Nat
    /\ asked \in BOOLEAN
    /\ seen \subseteq Oddities

\* The program ends with an NSRangeException only after one of three things: an
\* index was accepted while the list was empty (count - 1 wraps), a reply numbered
\* its rows from the index asked for, or a reply was merged while setPlaylist:
\* was replacing the list.  No other interleaving subscripts past the end.
RangeSafe == raised => seen \cap {"drifted", "gap", "overlap"} # {}

\* Between operations the "previous" command is enabled whenever there is a track
\* to go back to, although it is set from the index asked for and not from the
\* index accepted.
PreviousEnabled ==
    (pc["main"] = "idle" /\ target # 0 /\ seen \cap {"drifted", "overlap"} = {})
        => prevEnabled

\* setPlaylist: has sent a request for the new playlist when it returns, unless a
\* reply for the old one wrote its list back meanwhile.
RequestsStarted ==
    (pc["main"] = "idle" /\ playlist # NoList /\ "overlap" \notin seen) => asked

Faithful(list) == \A n \in DOMAIN list : list[n].list = playlist /\ list[n].pos = n - 1

\* Each place of the list holds the row of that place of the playlist, none twice and
\* none of another list: unless rows were asked for again before they came, which every
\* target near the end and every new playlist may do, or setPlaylist: was overlapped.
ListFaithful == seen \cap {"repeated", "overlap"} = {} => Faithful(endpoints)

Quiet == /\ \A t \in Threads : pc[t] = "idle"
         /\ watchNet = EmptyBag /\ playerNet = EmptyBag /\ blocks = << >>

OnTarget == \E m \in current : m.index = target

TargetListed == target < Len(endpoints) /\ endpoints[target + 1].index = target

\* When all is quiet, what plays has the index the user last asked for, if the list
\* holds it under that index and no reply was lost or overtaken on its way.
SettledOnTarget ==
    (Quiet /\ TargetListed /\ seen \cap {"lost", "overtaken"} = {}) => OnTarget

\* The same as a promise: the player comes to rest on the target, and stays there.
EventuallyOnTarget ==
    <>[](raised \/ ~TargetListed \/ seen \cap {"lost", "overtaken"} # {} \/ OnTarget)

(* Why these invariants hold: what the threads know of the list between     *)
(* their steps, as long as nothing drifted and no write overlapped.         *)

Calm == seen \cap {"drifted", "overlap"} = {}

\* While setPlaylist: runs, and no write overlaps it, the list stays empty; so the
\* setter accepts 0 and asks for the playlist before it returns.
OpeningInv ==
    /\ pc["main"] = "idle" => ~opening
    /\ "overlap" \notin seen =>
        /\ opening => /\ endpoints = << >> /\ arg = 0
                      /\ pc["main"] \in {"test", "assign", "fetch", "extend", "enable"}
                      /\ pc["main"] = "enable" => asked
        /\ (playlist # NoList /\ ~opening) => asked

\* The target is an index of the list, 0 if there is none, and so is the argument the
\* setter has accepted; only a gap raises.
ListInv ==
    Calm => /\ endpoints # << >> => target < Len(endpoints)
            /\ (endpoints = << >> /\ ~(opening /\ pc["main"] \in {"test", "assign"}))
                   => target = 0
            /\ pc["main"] = "assign" => arg = 0 \/ arg < Len(endpoints)
            /\ raised => "gap" \in seen

\* The list cannot have grown since the delegate queue copied it.
CopyInv == pc["queue"] \in {"offset", "merge"}
               => endpoints = << >> \/ Len(copied) >= Len(endpoints)

\* The setter refuses index 0 only if the target is 0 already.
SetterInv ==
    Calm => /\ pc["main"] \in {"fetch", "item", "next", "extend"} => arg = target
            /\ (pc["main"] = "test" /\ arg = 0 /\ ~opening) => target = 1
            /\ pc["main"] = "enable" => arg # 0 \/ target = 0
            /\ (pc["main"] = "idle" /\ target # 0) => prevEnabled

\* Inductive: it implies RangeSafe, PreviousEnabled and RequestsStarted.
ThreadInv == TypeOK /\ OpeningInv /\ ListInv /\ CopyInv /\ SetterInv

\* While no rows are asked for twice and no write overlaps setPlaylist:, there is one
\* request for rows at most, in flight or being merged, and but for setPlaylist: itself
\* it asks for what follows the list, which nobody else changes.
Reset == opening /\ pc["main"] # "enable"

RowsInv ==
    seen \cap {"repeated", "overlap"} = {} =>
        /\ Faithful(endpoints)
        /\ watchNet # EmptyBag => \E r \in BagToSet(watchNet) : watchNet = SetToBag({r})
        /\ pc["queue"] \in {"copy", "offset", "merge"} => watchNet = EmptyBag
        /\ ~Reset =>
            /\ \A r \in BagToSet(watchNet) : r.list = playlist /\ r.from = Len(endpoints)
            /\ pc["queue"] \in {"copy", "offset", "merge"} =>
                   batch.list = playlist /\ batch.from = Len(endpoints)
            /\ pc["queue"] \in {"offset", "merge"} => copied = endpoints
            /\ pc["queue"] = "merge" => offset = Len(endpoints)

\* The target of the list is sought until it plays: somebody is about to fetch it, it is
\* asked for, its answer is being handled, or its module is installed last of all.
Sought ==
    \/ \E t \in Threads : pc[t] \in {"fetch", "item"}
    \/ \E m \in BagToSet(playerNet) : m.index = target
    \/ pc["queue"] \in {"choose", "dispatch", "ahead"} /\ answered.index = target
    \/ IF blocks = << >> THEN OnTarget ELSE blocks[Len(blocks)].index = target

PursuitInv == (TargetListed /\ seen \cap {"lost", "overtaken"} = {}) => Sought

\* What the two threads of the queue rely on between their steps: the list and the indices
\* into it, the rows on their way, and that a target that does not play yet is being
\* fetched, answered or installed.  Inductive, and it implies ListFaithful and SettledOnTarget.
QueueInv == ThreadInv /\ RowsInv /\ PursuitInv

\* What plays, seen from outside: PlayIntent with the modules that have been chosen
\* but not yet installed, those in dispatched blocks and the one about to be.
Chosen == {blocks[n] : n \in DOMAIN blocks}
              \cup (IF pc["queue"] \in {"dispatch", "ahead"} THEN {answered} ELSE {})

Intent == INSTANCE PlayIntent WITH approved <- Chosen

\* Nothing starts to play that was not the target's at the moment it was chosen.
PlaysOnlyIntended == Intent!Spec
=============================================================================
