----------------------- MODULE PlayerTransport_proofs -----------------------
(***************************************************************************)
(* Proofs about PlayerTransport, for any modules and bounds.               *)
(***************************************************************************)
EXTENDS PlayerTransport, TLAPS

\* playerItem answers one of its two forms.
LEMMA Forms == \A v : Form(v) \in {"hls", "dsh"}
BY DEF Form

\* What playerItem answers is an item of a module.
LEMMA ItemOf ==
    \A v : \A m \in Modules \cup {NoModule} : PlayerItem(m, v) \subseteq Items
BY Forms DEF PlayerItem, Items

\* What the lock screen is told is a module and a rate.
LEMMA ToldOf ==
    \A m \in Modules \cup {NoModule}, r \in {0, 1} :
        Told(m, r) \subseteq [module : Modules, rate : {0, 1}]
BY DEF Told

\* updateSystemCurrentPlayingInfo keeps the types of what it writes.
LEMMA Updated ==
    ASSUME NEW m \in Modules \cup {NoModule}, NEW r \in {0, 1}, UpdateInfo(m, r)
    PROVE  /\ info' \subseteq [module : Modules, rate : {0, 1}]
           /\ silent' \in BOOLEAN /\ overlapped' \in BOOLEAN
<1>1. info' = Told(m, r) /\ silent' = FALSE /\ overlapped' = (drawing.at # "idle")
  BY DEF UpdateInfo
<1>2. info' \subseteq [module : Modules, rate : {0, 1}]
  BY <1>1, ToldOf
<1>3. (drawing.at # "idle") \in BOOLEAN
  OBVIOUS
<1> QED
  BY <1>1, <1>2, <1>3, Zenon

\* A swipe past either end of the visualizers reaches one of them.
LEMMA Wrapped == \A n \in 0 .. 4 : Wrap(n) \in 1 .. 3
BY DEF Wrap

\* Every step keeps the types: one step of the proof per action.
LEMMA TypeStep == TypeOK /\ ItemFollows /\ [Next]_vars => TypeOK'
<1> SUFFICES ASSUME TypeOK /\ ItemFollows, [Next]_vars
             PROVE  TypeOK'
  OBVIOUS
<1> USE DEF TypeOK
<1>1. CASE Play
  <2>1. UpdateInfo(module, saved)
    BY <1>1 DEF Play
  <2>2. /\ info' \subseteq [module : Modules, rate : {0, 1}]
        /\ silent' \in BOOLEAN /\ overlapped' \in BOOLEAN
    BY <2>1, Updated
  <2> QED
    BY <1>1, <2>2 DEF Play
<1>2. CASE Pause
  <2>1. UpdateInfo(module, 0)
    BY <1>2 DEF Pause
  <2>2. /\ info' \subseteq [module : Modules, rate : {0, 1}]
        /\ silent' \in BOOLEAN /\ overlapped' \in BOOLEAN
    BY <2>1, Updated
  <2> QED
    BY <1>2, <2>2 DEF Pause
<1>3. CASE TogglePlayPause
  <2>1. CASE rate = 0
    BY <1>1, <1>3, <2>1 DEF TogglePlayPause
  <2>2. CASE rate # 0
    BY <1>2, <1>3, <2>2 DEF TogglePlayPause
  <2> QED
    BY <2>1, <2>2
<1>4. CASE Scrub
  BY <1>4, ItemOf, ToldOf, Wrapped, ModuleAssumption DEF Scrub
<1>5. CASE SwitchVisual
  BY <1>5, ItemOf, ToldOf, Wrapped, ModuleAssumption DEF SwitchVisual, SwitchedItem
<1>6. CASE SeekDone
  BY <1>6, ItemOf, ToldOf, Wrapped, ModuleAssumption DEF SeekDone, UpdateInfo
<1>7. CASE StartReached
  BY <1>7, ItemOf, ToldOf, Wrapped, ModuleAssumption DEF StartReached, UpdateInfo
<1>8. CASE SystemPause
  BY <1>8, ItemOf, ToldOf, Wrapped, ModuleAssumption DEF SystemPause
<1>9. CASE TrackEnds
  <2>1. endObserver \in Modules
    BY <1>9 DEF TrackEnds, ItemFollows, PlayerItem
  <2>2. [module |-> endObserver, form |-> "dsh"] \in Items
    BY <2>1 DEF Items
  <2>3. notes' \subseteq [by : {"observer", "player"}, object : Items]
    BY <1>9, <2>2 DEF TrackEnds
  <2> QED
    BY <1>9, <2>3 DEF TrackEnds
<1>10. CASE DrawArtwork
  BY <1>10, ItemOf, ToldOf, Wrapped, ModuleAssumption DEF DrawArtwork, Idle
<1>11. CASE DrawRate
  BY <1>11, ItemOf, ToldOf, Wrapped, ModuleAssumption DEF DrawRate
<1>12. CASE DrawInfo
  BY <1>12, ItemOf, ToldOf, Wrapped, ModuleAssumption DEF DrawInfo, Idle
<1>13. ASSUME NEW m \in Modules, SetCurrentModule(m)
     PROVE  TypeOK'
  <2>1. rate' = saved /\ UpdateInfo(m, saved)
    BY <1>13 DEF SetCurrentModule, ResumeRate
  <2>2. /\ info' \subseteq [module : Modules, rate : {0, 1}]
        /\ silent' \in BOOLEAN /\ overlapped' \in BOOLEAN
    BY <2>1, Updated
  <2>3. item' \subseteq Items
    BY <1>13, ItemOf DEF SetCurrentModule
  <2> QED
    BY <1>13, <2>1, <2>2, <2>3 DEF SetCurrentModule
<1>14. ASSUME NEW n \in notes, EndNoted(n)
     PROVE  TypeOK'
  BY <1>14, ItemOf, ToldOf, Wrapped, ModuleAssumption DEF EndNoted
<1>15. CASE UNCHANGED vars
  BY <1>15 DEF vars
<1> QED
  BY <1>1, <1>2, <1>3, <1>4, <1>5, <1>6, <1>7, <1>8,
     <1>9, <1>10, <1>11, <1>12, <1>13, <1>14, <1>15
  DEF Next

\* Every step keeps the player's item and the end observer those of the module.
LEMMA ItemStep == ItemFollows /\ [Next]_vars => ItemFollows'
<1> SUFFICES ASSUME ItemFollows, [Next]_vars
             PROVE  ItemFollows'
  OBVIOUS
<1>1. CASE Play
  BY <1>1 DEF Play, UpdateInfo, ItemFollows
<1>2. CASE Pause
  BY <1>2 DEF Pause, UpdateInfo, ItemFollows
<1>3. CASE TogglePlayPause
  BY <1>3 DEF TogglePlayPause, Play, Pause, UpdateInfo, ItemFollows
<1>4. CASE Scrub
  BY <1>4 DEF Scrub, ItemFollows
<1>5. CASE SwitchVisual
  BY <1>5 DEF SwitchVisual, SwitchedItem, ItemFollows
<1>6. CASE SeekDone
  BY <1>6 DEF SeekDone, UpdateInfo, ItemFollows
<1>7. CASE StartReached
  BY <1>7 DEF StartReached, UpdateInfo, ItemFollows
<1>8. CASE SystemPause
  BY <1>8 DEF SystemPause, ItemFollows
<1>9. CASE TrackEnds
  BY <1>9 DEF TrackEnds, ItemFollows
<1>10. CASE DrawArtwork
  BY <1>10 DEF DrawArtwork, Idle, ItemFollows
<1>11. CASE DrawRate
  BY <1>11 DEF DrawRate, ItemFollows
<1>12. CASE DrawInfo
  BY <1>12 DEF DrawInfo, Idle, ItemFollows
<1>13. ASSUME NEW m \in Modules, SetCurrentModule(m)
     PROVE  ItemFollows'
  BY <1>13 DEF SetCurrentModule, ResumeRate, UpdateInfo, ItemFollows
<1>14. ASSUME NEW n \in notes, EndNoted(n)
     PROVE  ItemFollows'
  BY <1>14 DEF EndNoted, ItemFollows
<1>15. CASE UNCHANGED vars
  BY <1>15 DEF vars, ItemFollows
<1> QED
  BY <1>1, <1>2, <1>3, <1>4, <1>5, <1>6, <1>7, <1>8,
     <1>9, <1>10, <1>11, <1>12, <1>13, <1>14, <1>15
  DEF Next

\* Every step keeps what a drawing has read true, unless it is crossed.
LEMMA InfoStep == TypeOK /\ InfoInv /\ [Next]_vars => InfoInv'
<1> SUFFICES ASSUME TypeOK /\ InfoInv, [Next]_vars
             PROVE  InfoInv'
  OBVIOUS
<1>1. CASE Play
  BY <1>1 DEF Play, UpdateInfo, InfoInv
<1>2. CASE Pause
  BY <1>2 DEF Pause, UpdateInfo, InfoInv
<1>3. CASE TogglePlayPause
  BY <1>3 DEF TogglePlayPause, Play, Pause, UpdateInfo, InfoInv
<1>4. CASE Scrub
  BY <1>4 DEF Scrub, InfoInv
<1>5. CASE SwitchVisual
  BY <1>5 DEF SwitchVisual, SwitchedItem, InfoInv
<1>6. CASE SeekDone
  BY <1>6 DEF SeekDone, UpdateInfo, InfoInv
<1>7. CASE StartReached
  BY <1>7 DEF StartReached, UpdateInfo, InfoInv
<1>8. CASE SystemPause
  BY <1>8 DEF SystemPause, InfoInv
<1>9. CASE TrackEnds
  BY <1>9 DEF TrackEnds, InfoInv
<1>10. CASE DrawArtwork
  BY <1>10 DEF DrawArtwork, Idle, InfoInv
<1>11. CASE DrawRate
  BY <1>11 DEF DrawRate, InfoInv
<1>12. CASE DrawInfo
  BY <1>12 DEF DrawInfo, Idle, InfoInv
<1>13. ASSUME NEW m \in Modules, SetCurrentModule(m)
     PROVE  InfoInv'
  BY <1>13 DEF SetCurrentModule, ResumeRate, UpdateInfo, InfoInv
<1>14. ASSUME NEW n \in notes, EndNoted(n)
     PROVE  InfoInv'
  BY <1>14 DEF EndNoted, InfoInv
<1>15. CASE UNCHANGED vars
  BY <1>15 DEF vars, InfoInv
<1> QED
  BY <1>1, <1>2, <1>3, <1>4, <1>5, <1>6, <1>7, <1>8,
     <1>9, <1>10, <1>11, <1>12, <1>13, <1>14, <1>15
  DEF Next

\* If only the hls form reports its own end, exactly one of the two notifications of an
\* end is ours.
LEMMA EndStep ==
    ASSUME NativeEnds = {"hls"}
    PROVE  ItemFollows /\ TypeOK /\ EndInv /\ [Next]_vars => EndInv'
<1> SUFFICES ASSUME ItemFollows, TypeOK, EndInv, [Next]_vars
             PROVE  EndInv'
  OBVIOUS
<1>t. ends \in Nat /\ advances \in Nat
  BY DEF TypeOK
<1>s. ASSUME UNCHANGED <<module, visual, notes, ends, advances, crossed>>
      PROVE  EndInv'
  BY <1>s DEF EndInv, IsOurs
<1>e. ASSUME notes = {}, UNCHANGED <<notes, ends, advances>>
      PROVE  ~crossed => EndInv'
  BY <1>e DEF EndInv
<1>1. CASE Play \/ Pause \/ TogglePlayPause
  BY <1>1, <1>s DEF Play, Pause, TogglePlayPause
<1>2. CASE Scrub \/ SeekDone \/ StartReached \/ SystemPause
  BY <1>2, <1>s DEF Scrub, SeekDone, StartReached, SystemPause
<1>3. CASE DrawArtwork \/ DrawRate \/ DrawInfo
  BY <1>3, <1>s DEF DrawArtwork, DrawRate, DrawInfo
<1>4. CASE SwitchVisual
  <2>1. UNCHANGED <<notes, ends, advances>> /\ crossed' = (crossed \/ notes # {})
    BY <1>4 DEF SwitchVisual
  <2>2. CASE crossed \/ notes # {}
    BY <2>1, <2>2 DEF EndInv
  <2>3. CASE ~crossed /\ notes = {}
    BY <1>e, <2>1, <2>3
  <2> QED
    BY <2>2, <2>3
<1>5. ASSUME NEW m \in Modules, SetCurrentModule(m)
      PROVE  EndInv'
  <2>1. UNCHANGED <<notes, ends, advances>> /\ crossed' = (crossed \/ notes # {})
    BY <1>5 DEF SetCurrentModule
  <2>2. CASE crossed \/ notes # {}
    BY <2>1, <2>2 DEF EndInv
  <2>3. CASE ~crossed /\ notes = {}
    BY <1>e, <2>1, <2>3
  <2> QED
    BY <2>2, <2>3
<1>6. CASE TrackEnds
  <2> PICK M : M = module
    OBVIOUS
  <2> DEFINE told == [by |-> "observer", object |-> [module |-> M, form |-> "dsh"]]
             own == [by |-> "player", object |-> [module |-> M, form |-> "hls"]]
  <2>1. /\ notes = {} /\ ends' = ends + 1
        /\ UNCHANGED <<module, visual, advances, crossed>>
        /\ module # NoModule /\ item = {[module |-> module, form |-> Form(visual)]}
        /\ endObserver = module
    BY <1>6 DEF TrackEnds, ItemFollows, PlayerItem
  <2>2. ~crossed => ends = advances
    BY <2>1 DEF EndInv
  <2>3. \A o : IsOurs(o)' <=> o = [module |-> M, form |-> Form(visual)]
    BY <2>1 DEF IsOurs, PlayerItem
  <2>4. CASE Form(visual) = "dsh"
    <3>1. notes' = {told}
      BY <1>6, <2>1, <2>4 DEF TrackEnds
    <3>2. IsOurs(told.object)'
      BY <2>3, <2>4
    <3>3. /\ \A a, b \in notes' : a = b
          /\ \E n \in notes' : IsOurs(n.object)'
      BY <3>1, <3>2
    <3> QED
      BY <1>t, <2>1, <2>2, <3>3 DEF EndInv
  <2>5. CASE Form(visual) = "hls"
    <3>1. notes' = {told, own}
      BY <1>6, <2>1, <2>5 DEF TrackEnds
    <3>2. IsOurs(own.object)' /\ ~IsOurs(told.object)'
      BY <2>3, <2>5
    <3>3. /\ \A a, b \in notes' : IsOurs(a.object)' /\ IsOurs(b.object)' => a = b
          /\ \E n \in notes' : IsOurs(n.object)'
      BY <3>1, <3>2
    <3> QED
      BY <1>t, <2>1, <2>2, <3>3 DEF EndInv
  <2> QED
    BY <2>4, <2>5, Forms
<1>7. ASSUME NEW n \in notes, EndNoted(n)
      PROVE  EndInv'
  <2>1. /\ notes' = notes \ {n}
        /\ UNCHANGED <<module, visual, ends, crossed>>
        /\ advances' = IF IsOurs(n.object) THEN advances + 1 ELSE advances
    BY <1>7 DEF EndNoted
  <2>2. \A o : IsOurs(o)' <=> IsOurs(o)
    BY <2>1 DEF IsOurs
  <2>3. CASE crossed
    BY <2>1, <2>3 DEF EndInv
  <2>4. CASE ~crossed /\ IsOurs(n.object)
    <3>1. ~ \E k \in notes' : IsOurs(k.object)'
      BY <2>1, <2>2, <2>4 DEF EndInv
    <3>2. ends = advances + 1
      BY <2>4 DEF EndInv
    <3> QED
      BY <2>1, <2>4, <3>1, <3>2 DEF EndInv
  <2>5. CASE ~crossed /\ ~IsOurs(n.object)
    <3>1. (\E k \in notes' : IsOurs(k.object)') <=> (\E k \in notes : IsOurs(k.object))
      BY <2>1, <2>2, <2>5
    <3> QED
      BY <2>1, <2>2, <2>5, <3>1 DEF EndInv
  <2> QED
    BY <2>3, <2>4, <2>5
<1>8. CASE UNCHANGED vars
  BY <1>8, <1>s DEF vars
<1> QED
  BY <1>1, <1>2, <1>3, <1>4, <1>5, <1>6, <1>7, <1>8 DEF Next

----------------------------------------------------------------------------
\* The parts of the invariant hold of the player that init makes.
LEMMA Start == Init => TypeOK /\ ItemFollows /\ InfoInv /\ EndInv
<1> SUFFICES ASSUME Init
             PROVE  TypeOK /\ ItemFollows /\ InfoInv /\ EndInv
  OBVIOUS
<1>1. TypeOK
  BY DEF Init, TypeOK, Idle
<1>2. ItemFollows
  BY DEF Init, ItemFollows, PlayerItem
<1>3. InfoInv
  BY DEF Init, InfoInv, Idle, Told
<1>4. EndInv
  BY DEF Init, EndInv
<1> QED
  BY <1>1, <1>2, <1>3, <1>4

\* The player's item and the end observer are always those of the current module.
THEOREM ItemAlwaysFollows == Spec => [](TypeOK /\ ItemFollows)
<1>1. TypeOK /\ ItemFollows /\ [Next]_vars => TypeOK' /\ ItemFollows'
  BY TypeStep, ItemStep
<1> QED
  BY <1>1, Start, PTL DEF Spec

\* The lock screen shows what plays, but for the system's own pauses and for artwork
\* that crossed an operation.
THEOREM InfoAlwaysFollows == Spec => []InfoFollows
<1>1. TypeOK /\ InfoInv /\ [Next]_vars => InfoInv'
  BY InfoStep
<1>2. InfoInv => InfoFollows
  BY DEF InfoInv, InfoFollows
<1> QED
  BY <1>1, <1>2, Start, ItemAlwaysFollows, PTL DEF Spec

\* Each end of a track advances exactly once, if only the hls form reports its own end.
THEOREM OneAdvancePerEnd ==
    ASSUME NativeEnds = {"hls"}
    PROVE  Spec => []EndAdvancesOnce
<1>1. ItemFollows /\ TypeOK /\ EndInv /\ [Next]_vars => EndInv'
  BY EndStep
<1>2. TypeOK /\ EndInv => EndAdvancesOnce
  BY DEF EndInv, EndAdvancesOnce
<1> QED
  BY <1>1, <1>2, Start, ItemAlwaysFollows, PTL DEF Spec

\* The whole invariant that the run checks, under the same assumption.
THEOREM TransportInvariant ==
    ASSUME NativeEnds = {"hls"}
    PROVE  Spec => []TransportInv
<1>1. TypeOK /\ ItemFollows /\ InfoInv /\ EndInv /\ [Next]_vars => InfoInv' /\ EndInv'
  BY InfoStep, EndStep
<1>2. TransportInv <=> TypeOK /\ ItemFollows /\ InfoInv /\ EndInv
  BY DEF TransportInv
<1> QED
  BY <1>1, <1>2, Start, ItemAlwaysFollows, PTL DEF Spec

\* Against LMCurrentPlayerManager.h 37, 41 and 43, which promise that play, togglePlayPause
\* and next begin to play: pausing what does not play saves the rate 0 (.m 205), and from
\* then on nothing in the program makes it play, not even a new track (.m 201).
StaysSilenced == [][rate = 0 /\ saved = 0 => rate' = 0 /\ saved' = 0]_vars

\* How far that goes: for every module and any order of operations.
THEOREM SilenceStays == Spec => StaysSilenced
<1>1. [Next]_vars => [rate = 0 /\ saved = 0 => rate' = 0 /\ saved' = 0]_vars
  <2> SUFFICES ASSUME [Next]_vars, rate = 0, saved = 0
               PROVE  rate' = 0 /\ saved' = 0
    OBVIOUS
  <2>1. CASE Play \/ Pause \/ TogglePlayPause \/ Scrub \/ SwitchVisual
    BY <2>1 DEF Play, Pause, TogglePlayPause, Scrub, SwitchVisual
  <2>2. CASE SeekDone \/ StartReached \/ SystemPause \/ TrackEnds
    BY <2>2 DEF SeekDone, StartReached, SystemPause, TrackEnds
  <2>3. CASE \E m \in Modules : SetCurrentModule(m)
    BY <2>3 DEF SetCurrentModule, ResumeRate
  <2>4. CASE \E n \in notes : EndNoted(n)
    BY <2>4 DEF EndNoted
  <2>5. CASE DrawArtwork \/ DrawRate \/ DrawInfo
    BY <2>5 DEF DrawArtwork, DrawRate, DrawInfo
  <2>6. CASE UNCHANGED vars
    BY <2>6 DEF vars
  <2> QED
    BY <2>1, <2>2, <2>3, <2>4, <2>5, <2>6 DEF Next
<1> QED
  BY <1>1, PTL DEF Spec, StaysSilenced
=============================================================================
