---------------------------- MODULE Player_proofs ----------------------------
(***************************************************************************)
(* Proofs about the player, for any playlists, replies and bounds: first   *)
(* about its queue, alone, then that both its halves behave in it as their *)
(* own modules say, so that what is proved of a half holds of the player.  *)
(***************************************************************************)
EXTENDS Player, SequenceTheorems, TLAPS

(* The queue.                                                              *)

\* Sending adds to a bag of requests what is sent, and nothing else.
LEMMA SentBag ==
    ASSUME NEW B, NEW x
    PROVE  /\ BagToSet(B (+) SetToBag({x})) = BagToSet(B) \cup {x}
           /\ IsABag(B) => IsABag(B (+) SetToBag({x}))
<1>1. BagToSet(B (+) SetToBag({x})) = BagToSet(B) \cup {x}
  BY DEF BagToSet, (+), SetToBag
<1>2. IsABag(B) => IsABag(B (+) SetToBag({x}))
  BY DEF IsABag, (+), SetToBag
<1> QED
  BY <1>1, <1>2

\* Answering a request adds nothing to its bag, and takes at most that one out of it.
LEMMA AnsweredBag ==
    ASSUME NEW B, NEW x
    PROVE  /\ BagToSet(B (-) SetToBag({x})) \subseteq BagToSet(B)
           /\ IsABag(B) => /\ IsABag(B (-) SetToBag({x}))
                           /\ BagToSet(B) \ {x} \subseteq BagToSet(B (-) SetToBag({x}))
<1>1. BagToSet(B (-) SetToBag({x})) \subseteq BagToSet(B)
  BY DEF BagToSet, (-), SetToBag
<1>2. ASSUME IsABag(B)
      PROVE  IsABag(B (-) SetToBag({x}))
  BY <1>2 DEF IsABag, (-), SetToBag
<1>3. ASSUME IsABag(B), NEW y \in BagToSet(B), y # x
      PROVE  y \in BagToSet(B (-) SetToBag({x}))
  <2>1. y \in DOMAIN B /\ B[y] \in Nat /\ B[y] > 0
    BY <1>3 DEF IsABag, BagToSet
  <2>2. y \notin DOMAIN SetToBag({x})
    BY <1>3 DEF SetToBag
  <2> QED
    BY <2>1, <2>2 DEF BagToSet, (-)
<1> QED
  BY <1>1, <1>2, <1>3

\* Putting the rows of a reply over a list, at or before its end, gives a list that
\* is not shorter and holds every row.
LEMMA OverlayList ==
    ASSUME NEW list \in Seq(Items), NEW at \in Nat,
           NEW b \in [list : Playlists \cup {NoList}, from : Nat, first : Nat, size : Nat],
           at <= Len(list)
    PROVE  /\ Overlay(list, b, at) \in Seq(Items)
           /\ Len(Overlay(list, b, at)) \in Nat
           /\ Len(Overlay(list, b, at)) >= Len(list)
           /\ Len(Overlay(list, b, at)) >= at + b.size
<1> DEFINE len == IF at + b.size > Len(list) THEN at + b.size ELSE Len(list)
           f == [n \in 1 .. len |-> IF n - 1 >= at /\ n - 1 < at + b.size
                                    THEN Row(b, n - 1 - at) ELSE list[n]]
<1>1. len \in Nat /\ len >= Len(list) /\ len >= at + b.size
  OBVIOUS
<1>2. ASSUME NEW n \in 1 .. len
      PROVE  f[n] \in Items
  <2>1. CASE n - 1 >= at /\ n - 1 < at + b.size
    <3>1. n - 1 - at \in Nat
      BY <1>1, <2>1
    <3>2. Row(b, n - 1 - at) \in Items
      BY <3>1 DEF Row, Items
    <3> QED
      BY <2>1, <3>2
  <2>2. CASE ~(n - 1 >= at /\ n - 1 < at + b.size)
    <3>1. n \in 1 .. Len(list)
      BY <1>1, <2>2
    <3>2. list[n] \in Items
      BY <3>1
    <3> QED
      BY <2>2, <3>2
  <2> QED
    BY <2>1, <2>2
<1>3. f \in [1 .. len -> Items]
  BY <1>2
<1> HIDE DEF len, f
<1>4. f \in Seq(Items) /\ Len(f) = len
  <2>1. f \in Seq(Items)
    BY <1>1, <1>3, SeqDef
  <2>2. DOMAIN f = 1 .. len
    BY <1>3
  <2>3. Len(f) = len
    BY <1>1, <2>1, <2>2
  <2> QED
    BY <2>1, <2>3
<1>5. Overlay(list, b, at) = f
  BY DEF Overlay, len, f
<1> QED
  BY <1>1, <1>4, <1>5

----------------------------------------------------------------------------
\* Every step keeps the types: one step of the proof per action.
LEMMA TypeStep == TypeOK /\ [Next]_vars => TypeOK'
<1> SUFFICES ASSUME TypeOK, [Next]_vars
             PROVE  TypeOK'
  OBVIOUS
<1> USE DEF TypeOK, shared, locals, history, At, Goto
<1>n. NilItem \in Items
  BY DEF NilItem, Items
<1>1. ASSUME NEW p \in Playlists, SetPlaylist(p)
      PROVE  TypeOK'
  <2>1. endpoints' \in Seq(Items)
    BY <1>1, EmptySeq DEF SetPlaylist, ClearList
  <2>2. pc' \in [Threads -> {"idle", "fetch", "item", "next", "test", "assign",
                             "extend", "enable", "copy", "offset", "merge",
                             "choose", "dispatch", "keep", "ahead", "behind"}]
    BY <1>1 DEF SetPlaylist, Threads
  <2>3. /\ playlist' \in Playlists
        /\ preemptive' = {}
        /\ arg' = 0 /\ ops' = ops + 1
        /\ opening' = TRUE /\ asked' = FALSE
    BY <1>1 DEF SetPlaylist, ClearList
  <2>4. UNCHANGED <<target, current, watchNet, playerNet, blocks, locals,
                    prevEnabled, raised, seen>>
    BY <1>1 DEF SetPlaylist
  <2>5. opening' \in BOOLEAN /\ asked' \in BOOLEAN
    BY <2>3
  <2> QED
    BY <2>1, <2>2, <2>3, <2>4, <2>5
<1>2. CASE NextTrack
  BY <1>2 DEF NextTrack, UserMay, Threads
<1>3. CASE Previous
  BY <1>3 DEF Previous, CanGoBack, UserMay, Threads
<1>4. CASE TestTarget
  BY <1>4 DEF TestTarget, Oddities, Threads
<1>5. CASE AssignTarget
  BY <1>5 DEF AssignTarget, Threads
<1>6. ASSUME NEW t \in Threads, Fetch(t)
      PROVE  TypeOK'
  <2>1. CASE FetchCount(t)
    BY <2>1 DEF FetchCount, AfterFetch, Threads
  <2>2. CASE FetchAhead(t)
    <3>1. PICK m \in preemptive :
              \/ blocks' = Append(blocks, m) /\ pc' = [pc EXCEPT ![t] = "next"]
                    /\ answered' = answered
              \/ answered' = m /\ pc' = [pc EXCEPT ![t] = "ahead"] /\ blocks' = blocks
      BY <2>2 DEF FetchAhead
    <3>2. blocks' \in Seq(Items) /\ answered' \in Items
      <4>1. m \in Items /\ blocks \in Seq(Items) /\ answered \in Items
        OBVIOUS
      <4>2. Append(blocks, m) \in Seq(Items)
        BY <4>1, AppendProperties
      <4>3. blocks' \in {blocks, Append(blocks, m)} /\ answered' \in {answered, m}
        BY <3>1
      <4> QED
        BY <4>1, <4>2, <4>3
    <3>3. pc' = [pc EXCEPT ![t] = "next"] \/ pc' = [pc EXCEPT ![t] = "ahead"]
      BY <3>1
    <3> QED
      BY <2>2, <3>2, <3>3 DEF FetchAhead, Threads
  <2>3. CASE FetchItem(t)
    <3>1. IsABag(playerNet') /\ BagToSet(playerNet') \subseteq Items
      <4>1. CASE playerNet' = playerNet
        BY <4>1
      <4>2. CASE Len(endpoints) = 0 /\ SendPlayer(NilItem)
        <5>1. /\ BagToSet(playerNet (+) SetToBag({NilItem})) = BagToSet(playerNet) \cup {NilItem}
              /\ IsABag(playerNet (+) SetToBag({NilItem}))
          BY SentBag
        <5> QED
          BY <4>2, <1>n, <5>1 DEF SendPlayer
      <4>3. CASE target < Len(endpoints) /\ SendPlayer(endpoints[target + 1])
        <5>1. endpoints[target + 1] \in Items
          BY <4>3
        <5>2. /\ BagToSet(playerNet (+) SetToBag({endpoints[target + 1]}))
                     = BagToSet(playerNet) \cup {endpoints[target + 1]}
              /\ IsABag(playerNet (+) SetToBag({endpoints[target + 1]}))
          BY SentBag
        <5> QED
          BY <4>3, <5>1, <5>2 DEF SendPlayer
      <4> QED
        BY <2>3, <4>1, <4>2, <4>3 DEF FetchItem, Raise
    <3>2. pc' \in [Threads -> {"idle", "fetch", "item", "next", "test", "assign",
                               "extend", "enable", "copy", "offset", "merge",
                               "choose", "dispatch", "keep", "ahead", "behind"}]
      BY <2>3 DEF FetchItem, Raise, Threads
    <3> QED
      BY <2>3, <3>1, <3>2 DEF FetchItem, Raise
  <2>4. CASE FetchNext(t)
    <3>1. IsABag(playerNet') /\ BagToSet(playerNet') \subseteq Items /\ answered' \in Items
      <4>1. CASE target + 1 < Len(endpoints)
        <5>1. endpoints[target + 2] \in Items
          BY <4>1
        <5>2. /\ BagToSet(playerNet (+) SetToBag({endpoints[target + 2]}))
                     = BagToSet(playerNet) \cup {endpoints[target + 2]}
              /\ IsABag(playerNet (+) SetToBag({endpoints[target + 2]}))
          BY SentBag
        <5>3. \/ playerNet' = playerNet (+) SetToBag({endpoints[target + 2]})
                 /\ answered' = answered
              \/ playerNet' = playerNet /\ answered' = endpoints[target + 2]
          BY <2>4, <4>1 DEF FetchNext, SendPlayer
        <5> QED
          BY <5>1, <5>2, <5>3
      <4>2. CASE ~(target + 1 < Len(endpoints))
        BY <2>4, <4>2 DEF FetchNext
      <4> QED
        BY <4>1, <4>2
    <3>2. \E label \in {"extend", "idle", "behind"} : pc' = [pc EXCEPT ![t] = label]
      BY <2>4 DEF FetchNext, AfterFetch
    <3> QED
      BY <2>4, <3>1, <3>2 DEF FetchNext, Threads
  <2> QED
    BY <1>6, <2>1, <2>2, <2>3, <2>4 DEF Fetch
<1>7. CASE ExtendList
  <2>1. IsABag(watchNet') /\ BagToSet(watchNet') \subseteq WatchRequests
    <3>1. [list |-> playlist, from |-> Len(endpoints)] \in WatchRequests
      BY DEF WatchRequests
    <3>2. /\ BagToSet(watchNet (+) SetToBag({[list |-> playlist, from |-> Len(endpoints)]}))
                 = BagToSet(watchNet) \cup {[list |-> playlist, from |-> Len(endpoints)]}
          /\ IsABag(watchNet (+) SetToBag({[list |-> playlist, from |-> Len(endpoints)]}))
      BY SentBag
    <3> QED
      BY <1>7, <3>1, <3>2 DEF ExtendList
  <2> QED
    BY <1>7, <2>1 DEF ExtendList, Oddities, Threads
<1>8. CASE EnablePrevious
  BY <1>8 DEF EnablePrevious, HasPrevious, Threads
<1>9. CASE RunBlock
  BY <1>9 DEF RunBlock
<1>10. ASSUME NEW r \in BagToSet(watchNet), LoseWatch(r)
       PROVE  TypeOK'
  BY <1>10, AnsweredBag DEF LoseWatch, Oddities
<1>11. ASSUME NEW r \in BagToSet(watchNet), WatchReply(r)
       PROVE  TypeOK'
  <2>1. r \in WatchRequests
    OBVIOUS
  <2>2. batch' \in [list : Playlists \cup {NoList}, from : Nat, first : Nat, size : Nat]
    BY <1>11, <2>1, BatchAssumption DEF WatchReply, WatchRequests
  <2>3. IsABag(watchNet') /\ BagToSet(watchNet') \subseteq WatchRequests
    BY <1>11, AnsweredBag DEF WatchReply
  <2> QED
    BY <1>11, <2>2, <2>3 DEF WatchReply, Threads
<1>12. CASE CopyList
  BY <1>12 DEF CopyList, Threads
<1>13. CASE ReadOffset
  BY <1>13 DEF ReadOffset, IndexOffset, Threads
<1>14. CASE WriteList
  <2>1. endpoints' \in Seq(Items)
    BY <1>14, OverlayList DEF WriteList
  <2>2. NoBatch \in [list : Playlists \cup {NoList}, from : Nat, first : Nat, size : Nat]
    BY DEF NoBatch
  <2>3. /\ batch' \in [list : Playlists \cup {NoList}, from : Nat, first : Nat, size : Nat]
        /\ copied' \in Seq(Items)
        /\ offset' \in Nat
    <3>1. CASE UNCHANGED <<batch, copied, offset>>
      BY <3>1
    <3>2. CASE batch' = NoBatch /\ copied' = << >> /\ offset' = 0
      BY <2>2, <3>2, EmptySeq
    <3> QED
      BY <1>14, <3>1, <3>2 DEF WriteList
  <2>4. /\ UNCHANGED <<playlist, target, preemptive, current, watchNet, playerNet, blocks,
                       arg, opening, answered, prevEnabled, ops, asked>>
        /\ raised' \in BOOLEAN
    BY <1>14 DEF WriteList, Raise
  <2>5. seen' \subseteq Oddities
    BY <1>14 DEF WriteList, Oddities
  <2>6. pc' = pc \/ pc' = [pc EXCEPT !["queue"] = "fetch"]
    BY <1>14 DEF WriteList, Raise
  <2> QED
    BY <2>1, <2>3, <2>4, <2>5, <2>6 DEF Threads
<1>15. ASSUME NEW m \in BagToSet(playerNet), LosePlayer(m)
       PROVE  TypeOK'
  BY <1>15, AnsweredBag DEF LosePlayer, Oddities
<1>16. ASSUME NEW m \in BagToSet(playerNet), PlayerReply(m)
       PROVE  TypeOK'
  BY <1>16, AnsweredBag DEF PlayerReply, Threads
<1>17. CASE ChooseModule
  BY <1>17 DEF ChooseModule, Threads
<1>18. CASE DispatchModule
  BY <1>18, <1>n DEF DispatchModule, Oddities, Threads
<1>19. CASE KeepModule
  BY <1>19, <1>n DEF KeepModule, Threads
<1>21. CASE DispatchAhead
  BY <1>21, <1>n DEF DispatchAhead, Oddities, Threads
<1>22. CASE SendNext
  <2>1. PICK m \in Items : playerNet' = playerNet (+) SetToBag({m})
    BY <1>22, <1>n DEF SendNext, SendPlayer
  <2>2. IsABag(playerNet') /\ BagToSet(playerNet') = BagToSet(playerNet) \cup {m}
    BY <2>1, SentBag
  <2> QED
    BY <1>22, <1>n, <2>2 DEF SendNext, Threads
<1>20. CASE UNCHANGED vars
  BY <1>20 DEF vars
<1> QED
  BY <1>1, <1>2, <1>3, <1>4, <1>5, <1>6, <1>7, <1>8, <1>9, <1>10, <1>11, <1>12,
     <1>13, <1>14, <1>15, <1>16, <1>17, <1>18, <1>19, <1>20, <1>21, <1>22
  DEF Next, User, Setter, Handler, Answer, Threads

\* The manager that init makes is well typed.
LEMMA TypeInit == Init => TypeOK
<1> SUFFICES ASSUME Init
             PROVE  TypeOK
  OBVIOUS
<1>1. IsABag(EmptyBag) /\ BagToSet(EmptyBag) = {}
  BY DEF IsABag, BagToSet, EmptyBag, SetToBag
<1>2. << >> \in Seq(Items)
  BY EmptySeq
<1>3. NilItem \in Items
  BY DEF NilItem, Items
<1>4. NoBatch \in [list : Playlists \cup {NoList}, from : Nat, first : Nat, size : Nat]
  BY DEF NoBatch
<1> QED
  BY <1>1, <1>2, <1>3, <1>4 DEF Init, TypeOK, Threads

\* The state is always well typed, whatever is set, asked for, answered or lost.
THEOREM TypeCorrect == Spec => []TypeOK
<1>1. TypeOK /\ [Next]_vars => TypeOK'
  BY TypeStep
<1> QED
  BY <1>1, TypeInit, PTL DEF Spec

----------------------------------------------------------------------------
\* Every step keeps what the threads know of the list between their steps.
LEMMA ThreadStep == ThreadInv /\ [Next]_vars => ThreadInv'
<1> SUFFICES ASSUME ThreadInv, [Next]_vars
             PROVE  OpeningInv' /\ ListInv' /\ CopyInv' /\ SetterInv'
  BY TypeStep DEF ThreadInv
<1>t. TypeOK /\ OpeningInv /\ ListInv /\ CopyInv /\ SetterInv
  BY DEF ThreadInv
<1>l. /\ Len(endpoints) \in Nat /\ Len(copied) \in Nat
      /\ endpoints = << >> <=> Len(endpoints) = 0
      /\ target \in Nat /\ arg \in Nat /\ offset \in Nat
      /\ DOMAIN pc = {"main", "queue"}
  BY <1>t DEF TypeOK, Threads
<1> USE DEF shared, locals, history, At, Goto, Threads
<1>u. ASSUME UNCHANGED <<playlist, endpoints, target, arg, opening, prevEnabled,
                         raised, copied, asked, seen, pc>>
      PROVE  OpeningInv' /\ ListInv' /\ CopyInv' /\ SetterInv'
  BY <1>t, <1>u DEF OpeningInv, ListInv, CopyInv, SetterInv, Calm
<1>1. ASSUME NEW p \in Playlists, SetPlaylist(p)
      PROVE  OpeningInv' /\ ListInv' /\ CopyInv' /\ SetterInv'
  BY <1>t, <1>l, <1>1 DEF SetPlaylist, ClearList, UserMay, OpeningInv, ListInv, CopyInv, SetterInv, Calm
<1>2. CASE NextTrack
  BY <1>t, <1>l, <1>2 DEF NextTrack, UserMay, OpeningInv, ListInv, CopyInv, SetterInv, Calm
<1>3. CASE Previous
  BY <1>t, <1>l, <1>3 DEF Previous, CanGoBack, UserMay, OpeningInv, ListInv, CopyInv, SetterInv, Calm
<1>4. CASE TestTarget
  BY <1>t, <1>l, <1>4, BoundAssumption
  DEF TestTarget, Accepts, USub, OpeningInv, ListInv, CopyInv, SetterInv, Calm
<1>5. CASE AssignTarget
  BY <1>t, <1>l, <1>5 DEF AssignTarget, OpeningInv, ListInv, CopyInv, SetterInv, Calm
<1>6. ASSUME NEW t \in Threads, Fetch(t)
      PROVE  OpeningInv' /\ ListInv' /\ CopyInv' /\ SetterInv'
  <2>1. CASE FetchCount(t)
    BY <1>t, <1>l, <2>1
    DEF FetchCount, AfterFetch, OpeningInv, ListInv, CopyInv, SetterInv, Calm
  <2>2. CASE FetchAhead(t)
    BY <1>t, <1>l, <2>2 DEF FetchAhead, OpeningInv, ListInv, CopyInv, SetterInv, Calm
  <2>3. CASE FetchItem(t)
    BY <1>t, <1>l, <2>3 DEF FetchItem, Raise, OpeningInv, ListInv, CopyInv, SetterInv, Calm
  <2>4. CASE FetchNext(t)
    BY <1>t, <1>l, <2>4
    DEF FetchNext, AfterFetch, OpeningInv, ListInv, CopyInv, SetterInv, Calm
  <2> QED
    BY <1>6, <2>1, <2>2, <2>3, <2>4 DEF Fetch
<1>7. CASE ExtendList
  BY <1>t, <1>l, <1>7, BoundAssumption
  DEF ExtendList, USub, OpeningInv, ListInv, CopyInv, SetterInv, Calm
<1>8. CASE EnablePrevious
  BY <1>t, <1>l, <1>8 DEF EnablePrevious, HasPrevious, OpeningInv, ListInv, CopyInv, SetterInv, Calm
<1>9. CASE RunBlock
  BY <1>9, <1>u DEF RunBlock
<1>10. ASSUME NEW r \in BagToSet(watchNet), LoseWatch(r)
       PROVE  OpeningInv' /\ ListInv' /\ CopyInv' /\ SetterInv'
  BY <1>t, <1>l, <1>10 DEF LoseWatch, OpeningInv, ListInv, CopyInv, SetterInv, Calm
<1>11. ASSUME NEW r \in BagToSet(watchNet), WatchReply(r)
       PROVE  OpeningInv' /\ ListInv' /\ CopyInv' /\ SetterInv'
  BY <1>t, <1>l, <1>11 DEF WatchReply, OpeningInv, ListInv, CopyInv, SetterInv, Calm
<1>12. CASE CopyList
  BY <1>t, <1>l, <1>12 DEF CopyList, OpeningInv, ListInv, CopyInv, SetterInv, Calm
<1>13. CASE ReadOffset
  BY <1>t, <1>l, <1>13 DEF ReadOffset, IndexOffset, OpeningInv, ListInv, CopyInv, SetterInv, Calm
<1>14. CASE WriteList
  <2>b. batch.size \in Nat /\ batch.first \in Nat /\ batch.first + offset \in Nat
    BY <1>t DEF TypeOK
  <2>1. CASE batch.size > 0 /\ batch.first + offset > Len(copied)
    BY <1>t, <1>l, <1>14, <2>1, <2>b
    DEF WriteList, Raise, OpeningInv, ListInv, CopyInv, SetterInv, Calm
  <2>2. CASE batch.size = 0 \/ batch.first + offset <= Len(copied)
    <3>1. endpoints' \in Seq(Items) /\ Len(endpoints') >= Len(copied)
      <4>1. copied \in Seq(Items)
        BY <1>t DEF TypeOK
      <4>2. CASE batch.size = 0
        BY <1>14, <1>l, <2>b, <4>1, <4>2 DEF WriteList
      <4>3. CASE batch.size # 0
        <5>1. batch.first + offset <= Len(copied)
          BY <2>2, <4>3
        <5>2. endpoints' = Overlay(copied, batch, batch.first + offset)
          BY <1>14, <1>l, <2>b, <4>3, <5>1 DEF WriteList
        <5> QED
          BY <1>t, <2>b, <4>1, <5>1, <5>2, OverlayList DEF TypeOK
      <4> QED
        BY <4>2, <4>3
    <3>2. Len(endpoints') \in Nat /\ (endpoints' = << >> <=> Len(endpoints') = 0)
      BY <3>1
    <3> QED
      BY <1>t, <1>l, <1>14, <2>2, <3>1, <3>2
      DEF WriteList, Raise, OpeningInv, ListInv, CopyInv, SetterInv, Calm
  <2> QED
    BY <1>14, <2>1, <2>2 DEF WriteList
<1>15. ASSUME NEW m \in BagToSet(playerNet), LosePlayer(m)
       PROVE  OpeningInv' /\ ListInv' /\ CopyInv' /\ SetterInv'
  BY <1>t, <1>l, <1>15 DEF LosePlayer, OpeningInv, ListInv, CopyInv, SetterInv, Calm
<1>16. ASSUME NEW m \in BagToSet(playerNet), PlayerReply(m)
       PROVE  OpeningInv' /\ ListInv' /\ CopyInv' /\ SetterInv'
  BY <1>t, <1>l, <1>16 DEF PlayerReply, OpeningInv, ListInv, CopyInv, SetterInv, Calm
<1>17. CASE ChooseModule
  BY <1>t, <1>l, <1>17 DEF ChooseModule, OpeningInv, ListInv, CopyInv, SetterInv, Calm
<1>18. CASE DispatchModule
  BY <1>t, <1>l, <1>18 DEF DispatchModule, OpeningInv, ListInv, CopyInv, SetterInv, Calm
<1>19. CASE KeepModule
  BY <1>t, <1>l, <1>19 DEF KeepModule, OpeningInv, ListInv, CopyInv, SetterInv, Calm
<1>21. CASE DispatchAhead
  BY <1>t, <1>l, <1>21 DEF DispatchAhead, OpeningInv, ListInv, CopyInv, SetterInv, Calm
<1>22. CASE SendNext
  BY <1>t, <1>l, <1>22 DEF SendNext, OpeningInv, ListInv, CopyInv, SetterInv, Calm
<1>20. CASE UNCHANGED vars
  BY <1>20, <1>u DEF vars
<1> QED
  BY <1>1, <1>2, <1>3, <1>4, <1>5, <1>6, <1>7, <1>8, <1>9, <1>10, <1>11, <1>12,
     <1>13, <1>14, <1>15, <1>16, <1>17, <1>18, <1>19, <1>20, <1>21, <1>22
  DEF Next, User, Setter, Handler, Answer

\* The inductive invariant holds throughout.
LEMMA ThreadInvariant == Spec => []ThreadInv
<1>1. Init => ThreadInv
  <2> SUFFICES ASSUME Init
               PROVE  OpeningInv /\ ListInv /\ CopyInv /\ SetterInv
    BY TypeInit DEF ThreadInv
  <2> QED
    BY DEF Init, Threads, OpeningInv, ListInv, CopyInv, SetterInv
<1>2. ThreadInv /\ [Next]_vars => ThreadInv'
  BY ThreadStep
<1> QED
  BY <1>1, <1>2, PTL DEF Spec

\* No interleaving subscripts past the end of the list, unless an index was accepted
\* while the list was empty, a reply left a gap, or a write overlapped setPlaylist:.
THEOREM RangeSafety == Spec => []RangeSafe
<1>1. ThreadInv => RangeSafe
  BY DEF ThreadInv, ListInv, RangeSafe, Calm
<1> QED
  BY <1>1, ThreadInvariant, PTL

\* The "previous" command is enabled whenever there is a track to go back to.
THEOREM PreviousAvailable == Spec => []PreviousEnabled
<1>1. ThreadInv => PreviousEnabled
  BY DEF ThreadInv, SetterInv, PreviousEnabled, Calm
<1> QED
  BY <1>1, ThreadInvariant, PTL

\* setPlaylist: returns with a request for the new playlist under way, unless a write
\* of the delegate queue overlapped it.
THEOREM OpeningRequests == Spec => []RequestsStarted
<1>1. ThreadInv => RequestsStarted
  BY DEF ThreadInv, OpeningInv, RequestsStarted
<1> QED
  BY <1>1, ThreadInvariant, PTL

----------------------------------------------------------------------------
\* A bag to which one request was added when it was empty holds that one, and is empty
\* when it is answered.
LEMMA OneInBag ==
    ASSUME NEW r
    PROVE  /\ EmptyBag (+) SetToBag({r}) = SetToBag({r})
           /\ SetToBag({r}) (-) SetToBag({r}) = EmptyBag
           /\ BagToSet(SetToBag({r})) = {r}
           /\ BagToSet(EmptyBag) = {}
BY DEF EmptyBag, SetToBag, (+), (-), BagToSet

\* Putting the rows that follow a faithful list at its end keeps it faithful.
LEMMA OverlayFaithful ==
    ASSUME NEW list \in Seq(Items),
           NEW b \in [list : Playlists \cup {NoList}, from : Nat, first : Nat, size : Nat],
           Faithful(list), b.list = playlist, b.from = Len(list)
    PROVE  Faithful(Overlay(list, b, Len(list)))
<1> DEFINE len == IF Len(list) + b.size > Len(list) THEN Len(list) + b.size ELSE Len(list)
           f == [n \in 1 .. len |-> IF n - 1 >= Len(list) /\ n - 1 < Len(list) + b.size
                                    THEN Row(b, n - 1 - Len(list)) ELSE list[n]]
<1>1. len \in Nat /\ len = Len(list) + b.size
  OBVIOUS
<1>2. ASSUME NEW n \in 1 .. len
      PROVE  f[n].list = playlist /\ f[n].pos = n - 1
  <2>1. CASE n - 1 >= Len(list)
    <3>1. f[n] = Row(b, n - 1 - Len(list))
      BY <1>1, <2>1
    <3>2. b.from + (n - 1 - Len(list)) = n - 1
      BY <1>1
    <3> QED
      BY <3>1, <3>2 DEF Row
  <2>2. CASE ~(n - 1 >= Len(list))
    <3>1. n \in DOMAIN list /\ f[n] = list[n]
      BY <1>1, <2>2
    <3> QED
      BY <3>1 DEF Faithful
  <2> QED
    BY <2>1, <2>2
<1>3. DOMAIN f = 1 .. len
  OBVIOUS
<1>4. Overlay(list, b, Len(list)) = f
  BY DEF Overlay
<1> HIDE DEF f, len
<1> QED
  BY <1>2, <1>3, <1>4 DEF Faithful

\* Every step keeps the one request for rows in step with the list.
LEMMA RowsStep == ThreadInv /\ RowsInv /\ [Next]_vars => RowsInv'
<1> SUFFICES ASSUME ThreadInv, RowsInv, [Next]_vars,
                    seen' \cap {"repeated", "overlap"} = {}
             PROVE  RowsInv'
  BY DEF RowsInv
<1>t. TypeOK /\ OpeningInv
  BY DEF ThreadInv
<1> USE DEF shared, locals, history, At, Goto, Threads
<1>p. DOMAIN pc = {"main", "queue"}
  BY <1>t DEF TypeOK
<1>l. /\ Len(endpoints) \in Nat /\ Len(copied) \in Nat
      /\ endpoints \in Seq(Items) /\ copied \in Seq(Items)
  BY <1>t DEF TypeOK
<1>s. seen \subseteq seen'
  BY DEF Next, User, NextTrack, Previous, SetPlaylist, Setter, TestTarget, AssignTarget,
         Fetch, FetchCount, FetchAhead, FetchItem, FetchNext, Raise, ExtendList,
         EnablePrevious, RunBlock, Handler, CopyList, ReadOffset, WriteList, ChooseModule,
         DispatchModule, KeepModule, DispatchAhead, SendNext, Answer, LoseWatch, WatchReply,
         LosePlayer, PlayerReply, vars
<1>i. /\ Faithful(endpoints)
      /\ watchNet # EmptyBag => \E r \in BagToSet(watchNet) : watchNet = SetToBag({r})
      /\ pc["queue"] \in {"copy", "offset", "merge"} => watchNet = EmptyBag
      /\ ~Reset =>
          /\ \A r \in BagToSet(watchNet) : r.list = playlist /\ r.from = Len(endpoints)
          /\ pc["queue"] \in {"copy", "offset", "merge"} =>
                 batch.list = playlist /\ batch.from = Len(endpoints)
          /\ pc["queue"] \in {"offset", "merge"} => copied = endpoints
          /\ pc["queue"] = "merge" => offset = Len(endpoints)
  BY <1>s DEF RowsInv
<1>o. "overlap" \notin seen /\ "overlap" \notin seen'
  BY <1>s
<1> DEFINE Merging == pc["queue"] \in {"copy", "offset", "merge"}
\* Steps that touch neither the list nor the request for rows.
<1>u. ASSUME UNCHANGED <<playlist, endpoints, watchNet, batch, copied, offset>>,
             Reset' = Reset,
             \/ pc'["queue"] = pc["queue"]
             \/ pc'["queue"] \notin {"copy", "offset", "merge"}
      PROVE  RowsInv'
  BY <1>i, <1>u DEF RowsInv, Faithful
<1>1. ASSUME NEW p \in Playlists, SetPlaylist(p)
      PROVE  RowsInv'
  <2>1. endpoints' = << >> /\ Reset'
    BY <1>1, <1>p DEF SetPlaylist, ClearList, Reset
  <2>2. watchNet' = watchNet /\ pc'["queue"] = pc["queue"]
    BY <1>1, <1>p DEF SetPlaylist
  <2>3. Faithful(endpoints)'
    BY <2>1 DEF Faithful
  <2> QED
    BY <1>i, <2>1, <2>2, <2>3 DEF RowsInv
<1>2. CASE NextTrack \/ Previous
  <2>1. ~opening /\ ~opening' /\ pc'["queue"] = pc["queue"]
    BY <1>2, <1>t, <1>p DEF NextTrack, Previous, UserMay, OpeningInv
  <2> QED
    BY <1>2, <1>u, <2>1 DEF NextTrack, Previous, Reset
<1>3. CASE TestTarget
  <2>1. opening => pc'["main"] = "assign"
    BY <1>3, <1>p, <1>t, <1>o, BoundAssumption DEF TestTarget, OpeningInv, Accepts, USub
  <2>2. Reset' = Reset /\ pc'["queue"] = pc["queue"]
    BY <1>3, <1>p, <2>1 DEF TestTarget, Reset
  <2> QED
    BY <1>3, <1>u, <2>2 DEF TestTarget
<1>4. CASE AssignTarget
  BY <1>4, <1>p, <1>u DEF AssignTarget, Reset
<1>5. ASSUME NEW t \in Threads, Fetch(t)
      PROVE  RowsInv'
  <2>1. /\ UNCHANGED <<playlist, endpoints, watchNet, batch, copied, offset, opening>>
        /\ \/ UNCHANGED pc
           \/ t = "main" /\ pc["main"] # "enable" /\ pc'["main"] # "enable"
                          /\ pc'["queue"] = pc["queue"]
           \/ t = "queue" /\ pc'["main"] = pc["main"]
                          /\ pc'["queue"] \in {"idle", "item", "next", "ahead", "behind"}
    BY <1>5, <1>p DEF Fetch, FetchCount, FetchAhead, FetchItem, FetchNext, Raise, AfterFetch
  <2> QED
    BY <1>u, <2>1 DEF Reset
<1>6. CASE ExtendList
  <2> DEFINE new == [list |-> playlist, from |-> Len(endpoints)]
  <2>1. UNCHANGED <<playlist, endpoints, batch, copied, offset, opening>>
        /\ pc["main"] = "extend" /\ pc'["main"] = "enable" /\ pc'["queue"] = pc["queue"]
    BY <1>6, <1>p DEF ExtendList
  <2>2. CASE USub(Len(endpoints), arg) < Threshold
    <3>1. watchNet = EmptyBag /\ ~Merging /\ watchNet' = SetToBag({new})
      BY <1>6, <2>2, OneInBag DEF ExtendList, Extending
    <3>2. BagToSet(watchNet') = {new}
      BY <3>1, OneInBag
    <3>3. Faithful(endpoints)'
      BY <1>i, <2>1 DEF Faithful
    <3>4. \E r \in BagToSet(watchNet') : watchNet' = SetToBag({r})
      BY <3>1, <3>2
    <3>5. pc'["queue"] \notin {"copy", "offset", "merge"}
      BY <2>1, <3>1
    <3>6. \A r \in BagToSet(watchNet') : r.list = playlist' /\ r.from = Len(endpoints')
      BY <2>1, <3>2
    <3> QED
      BY <3>3, <3>4, <3>5, <3>6 DEF RowsInv
  <2>3. CASE ~(USub(Len(endpoints), arg) < Threshold)
    <3>1. ~opening
      BY <1>l, <1>o, <1>t, <2>1, <2>3, BoundAssumption DEF OpeningInv, USub
    <3> QED
      BY <1>6, <1>u, <2>1, <2>3, <3>1 DEF ExtendList, Reset
  <2> QED
    BY <2>2, <2>3
<1>7. CASE EnablePrevious
  BY <1>7, <1>p, <1>u DEF EnablePrevious, Reset
<1>8. CASE RunBlock
  BY <1>8, <1>u DEF RunBlock, Reset
<1>9. ASSUME NEW r \in BagToSet(watchNet), LoseWatch(r) \/ WatchReply(r)
      PROVE  RowsInv'
  <2>1. watchNet = SetToBag({r})
    <3>1. watchNet # EmptyBag
      BY <1>9, OneInBag
    <3>2. PICK q \in BagToSet(watchNet) : watchNet = SetToBag({q})
      BY <1>i, <3>1
    <3>3. q = r
      BY <1>9, <3>2, OneInBag
    <3> QED
      BY <3>2, <3>3
  <2>2. watchNet' = EmptyBag /\ BagToSet(watchNet') = {}
    BY <1>9, <2>1, OneInBag DEF LoseWatch, WatchReply
  <2>3. /\ UNCHANGED <<playlist, endpoints, copied, offset, opening>>
        /\ pc'["main"] = pc["main"]
        /\ \/ pc'["queue"] = "idle"
           \/ pc'["queue"] = "copy" /\ batch'.list = r.list /\ batch'.from = r.from
    BY <1>9, <1>p DEF LoseWatch, WatchReply
  <2>4. Faithful(endpoints)'
    BY <1>i, <2>3 DEF Faithful
  <2>5. ~Reset' => r.list = playlist /\ r.from = Len(endpoints)
    BY <1>9, <1>i, <2>3 DEF Reset
  <2> QED
    BY <2>2, <2>3, <2>4, <2>5 DEF RowsInv
<1>10. CASE CopyList
  <2>1. /\ UNCHANGED <<playlist, endpoints, watchNet, batch, opening>>
        /\ copied' = endpoints /\ pc["queue"] = "copy" /\ pc'["queue"] = "offset"
        /\ pc'["main"] = pc["main"]
    BY <1>10, <1>p DEF CopyList
  <2>2. Faithful(endpoints)' /\ Reset' = Reset
    BY <1>i, <2>1 DEF Faithful, Reset
  <2> QED
    BY <1>i, <2>1, <2>2 DEF RowsInv
<1>11. CASE ReadOffset
  <2>1. /\ UNCHANGED <<playlist, endpoints, watchNet, batch, copied, opening>>
        /\ offset' = Len(endpoints) /\ pc["queue"] = "offset" /\ pc'["queue"] = "merge"
        /\ pc'["main"] = pc["main"]
    BY <1>11, <1>p DEF ReadOffset, IndexOffset
  <2>2. Faithful(endpoints)' /\ Reset' = Reset
    BY <1>i, <2>1 DEF Faithful, Reset
  <2> QED
    BY <1>i, <2>1, <2>2 DEF RowsInv
<1>12. CASE WriteList
  <2>1. CASE Raise /\ UNCHANGED <<endpoints, batch, copied, offset>>
    BY <1>12, <1>u, <2>1 DEF WriteList, Raise, Reset
  <2>2. CASE ~(Raise /\ UNCHANGED <<endpoints, batch, copied, offset>>)
    <3>1. /\ batch.size = 0 \/ batch.first + offset <= Len(copied)
          /\ endpoints' = IF batch.size = 0 THEN copied
                          ELSE Overlay(copied, batch, batch.first + offset)
          /\ pc["queue"] = "merge" /\ pc'["queue"] = "fetch"
          /\ ~opening /\ UNCHANGED <<playlist, watchNet, opening>>
      BY <1>12, <1>p, <1>o, <2>2 DEF WriteList
    <3>2. /\ watchNet = EmptyBag /\ batch.list = playlist
          /\ batch.from = Len(copied) /\ copied = endpoints /\ offset = Len(copied)
      BY <1>i, <3>1 DEF Reset
    <3>3. batch \in [list : Playlists \cup {NoList}, from : Nat, first : Nat, size : Nat]
      BY <1>t DEF TypeOK
    <3>4. batch.size # 0 => endpoints' = Overlay(copied, batch, Len(copied))
      <4>1. batch.first \in Nat /\ batch.size \in Nat
        BY <3>3
      <4>2. batch.size # 0 => batch.first + offset = Len(copied)
        BY <1>l, <3>1, <3>2, <4>1
      <4> QED
        BY <3>1, <4>2
    <3>5. Faithful(endpoints)'
      <4>1. CASE batch.size = 0
        BY <1>i, <3>1, <3>2, <4>1 DEF Faithful
      <4>2. CASE batch.size # 0
        <5>1. Faithful(Overlay(copied, batch, Len(copied)))
          BY <1>i, <1>l, <3>2, <3>3, OverlayFaithful
        <5> QED
          BY <3>1, <3>4, <4>2, <5>1 DEF Faithful
      <4> QED
        BY <4>1, <4>2
    <3>6. BagToSet(watchNet') = {}
      BY <3>1, <3>2, OneInBag
    <3> QED
      BY <3>1, <3>2, <3>5, <3>6 DEF RowsInv
  <2> QED
    BY <2>1, <2>2
<1>13. ASSUME NEW m, LosePlayer(m) \/ PlayerReply(m)
       PROVE  RowsInv'
  <2>1. /\ UNCHANGED <<playlist, endpoints, watchNet, batch, copied, offset, opening>>
        /\ pc'["main"] = pc["main"]
        /\ pc'["queue"] \in {"idle", "choose"}
    BY <1>13, <1>p DEF LosePlayer, PlayerReply
  <2> QED
    BY <1>u, <2>1 DEF Reset
<1>14. CASE ChooseModule \/ DispatchModule \/ KeepModule \/ DispatchAhead \/ SendNext
  <2>1. /\ UNCHANGED <<playlist, endpoints, watchNet, batch, copied, offset, opening>>
        /\ pc'["main"] = pc["main"]
        /\ pc'["queue"] \in {"idle", "dispatch", "keep", "next"}
    BY <1>14, <1>p DEF ChooseModule, DispatchModule, KeepModule, DispatchAhead, SendNext
  <2> QED
    BY <1>u, <2>1 DEF Reset
<1>15. CASE UNCHANGED vars
  BY <1>15, <1>u DEF vars, Reset
<1> QED
  BY <1>1, <1>2, <1>3, <1>4, <1>5, <1>6, <1>7, <1>8, <1>9, <1>10, <1>11, <1>12, <1>13,
     <1>14, <1>15
  DEF Next, User, Setter, Handler, Answer

\* Every step goes on seeking the target of the list, or ends with it being played.
LEMMA PursuitStep == TypeOK /\ PursuitInv /\ [Next]_vars => PursuitInv'
<1> SUFFICES ASSUME TypeOK, PursuitInv, [Next]_vars,
                    TargetListed', seen' \cap {"lost", "overtaken"} = {}
             PROVE  Sought'
  BY DEF PursuitInv
<1> USE DEF shared, locals, history, At, Goto
<1>t. /\ blocks \in Seq(Items) /\ preemptive \subseteq Items /\ answered \in Items
      /\ DOMAIN pc = Threads /\ endpoints \in Seq(Items) /\ target \in Nat /\ arg \in Nat
      /\ Len(endpoints) \in Nat
  BY DEF TypeOK
\* What a step that leaves target and list alone may still rely on.
<1>i. ASSUME UNCHANGED <<endpoints, target>>, seen \subseteq seen'
      PROVE  Sought
  BY <1>i DEF PursuitInv, TargetListed
\* Steps that are no part of the search.
<1>u. ASSUME UNCHANGED <<endpoints, target, current, playerNet, blocks, answered>>,
             seen \subseteq seen',
             \A t \in Threads :
                 \/ pc'[t] = pc[t]
                 \/ pc[t] \notin {"fetch", "item", "choose", "dispatch", "ahead"}
      PROVE  Sought'
  <2>1. Sought
    BY <1>i, <1>u
  <2> QED
    BY <1>u, <2>1 DEF Sought, OnTarget, Threads
\* A block that is dispatched for the target is the last.
<1>b. ASSUME NEW m \in Items, m.index = target', blocks' = Append(blocks, m)
      PROVE  Sought'
  <2>1. blocks' # << >> /\ blocks'[Len(blocks')] = m
    BY <1>b, <1>t, AppendProperties
  <2> QED
    BY <1>b, <2>1 DEF Sought
<1>1. ASSUME NEW p \in Playlists, SetPlaylist(p)
      PROVE  FALSE
  BY <1>1 DEF SetPlaylist, ClearList, TargetListed, TypeOK
<1>2. CASE NextTrack \/ Previous
  BY <1>2, <1>t, <1>u DEF NextTrack, Previous, UserMay, Threads
<1>3. CASE TestTarget
  BY <1>3, <1>t, <1>u DEF TestTarget, Threads
<1>4. CASE AssignTarget
  <2>1. pc'["main"] = "fetch"
    BY <1>4, <1>t DEF AssignTarget, Threads
  <2> QED
    BY <2>1 DEF Sought, Threads
<1>5. ASSUME NEW t \in Threads, Fetch(t)
      PROVE  Sought'
  <2>1. CASE FetchCount(t)
    <3>1. Len(endpoints) # 0
      BY <2>1, <1>t DEF FetchCount, TargetListed
    <3>2. pc'[t] = "item"
      BY <2>1, <3>1, <1>t DEF FetchCount
    <3> QED
      BY <3>2 DEF Sought
  <2>2. CASE FetchAhead(t)
    <3>1. CASE t = "main"
      <4>1. PICK m \in preemptive : m.index = target /\ blocks' = Append(blocks, m)
        BY <2>2, <3>1 DEF FetchAhead, IsTarget
      <4> QED
        BY <1>b, <1>t, <2>2, <4>1 DEF FetchAhead
    <3>2. CASE t = "queue"
      <4>1. answered'.index = target' /\ pc'["queue"] = "ahead"
        BY <1>t, <2>2, <3>2 DEF FetchAhead, IsTarget, Threads
      <4> QED
        BY <4>1 DEF Sought
    <3> QED
      BY <3>1, <3>2 DEF Threads
  <2>3. CASE FetchItem(t)
    <3>1. target < Len(endpoints) /\ endpoints[target + 1].index = target
      BY <2>3, <1>t DEF FetchItem, TargetListed
    <3>2. playerNet' = playerNet (+) SetToBag({endpoints[target + 1]})
      BY <2>3, <3>1, <1>t DEF FetchItem, SendPlayer
    <3>3. endpoints[target + 1] \in BagToSet(playerNet')
      BY <3>2, SentBag
    <3>4. target' = target
      BY <2>3 DEF FetchItem
    <3> QED
      BY <3>1, <3>3, <3>4 DEF Sought
  <2>4. CASE FetchNext(t)
    <3>1. BagToSet(playerNet) \subseteq BagToSet(playerNet')
      <4>1. playerNet' = playerNet \/ \E m : playerNet' = playerNet (+) SetToBag({m})
        BY <2>4 DEF FetchNext, SendPlayer
      <4> QED
        BY <4>1, SentBag
    <3>2. Sought
      BY <1>i, <2>4 DEF FetchNext
    <3>3. \A s \in Threads :
              pc[s] \in {"fetch", "item", "choose", "dispatch", "ahead"} => pc'[s] = pc[s]
      BY <2>4, <1>t DEF FetchNext
    <3>4. /\ UNCHANGED <<target, current, blocks>>
          /\ pc["queue"] \in {"choose", "dispatch", "ahead"} => answered' = answered
      BY <2>4, <1>t DEF FetchNext
    <3> QED
      BY <3>1, <3>2, <3>3, <3>4 DEF Sought, OnTarget, Threads
  <2> QED
    BY <1>5, <2>1, <2>2, <2>3, <2>4 DEF Fetch
<1>6. CASE ExtendList
  BY <1>6, <1>t, <1>u DEF ExtendList, Threads
<1>7. CASE EnablePrevious
  BY <1>7, <1>t, <1>u DEF EnablePrevious, Threads
<1>8. CASE RunBlock
  <2>1. Sought /\ UNCHANGED <<target, playerNet, pc, answered>>
    BY <1>8, <1>i DEF RunBlock
  <2>2. blocks[Len(blocks)].index = target =>
            IF blocks' = << >> THEN OnTarget' ELSE blocks'[Len(blocks')].index = target
    <3>1. /\ blocks # << >> /\ blocks' = Tail(blocks) /\ current' = {Head(blocks)}
      BY <1>8 DEF RunBlock
    <3>2. /\ Len(blocks) \in Nat \ {0} /\ Len(blocks') = Len(blocks) - 1
          /\ Head(blocks) = blocks[1] /\ blocks' \in Seq(Items)
          /\ \A n \in 1 .. Len(blocks') : blocks'[n] = blocks[n + 1]
      BY <1>t, <3>1, HeadTailProperties, LenProperties, EmptySeq
    <3>3. CASE Len(blocks) = 1
      BY <1>t, <2>1, <3>1, <3>2, <3>3, EmptySeq DEF OnTarget
    <3>4. CASE Len(blocks) # 1
      <4>1. blocks' # << >> /\ blocks'[Len(blocks')] = blocks[Len(blocks)]
        BY <3>2, <3>4
      <4> QED
        BY <4>1
    <3> QED
      BY <3>3, <3>4
  <2>3. blocks # << >>
    BY <1>8 DEF RunBlock
  <2> QED
    BY <2>1, <2>2, <2>3 DEF Sought
<1>9. ASSUME NEW r, LoseWatch(r) \/ WatchReply(r)
      PROVE  Sought'
  BY <1>9, <1>t, <1>u DEF LoseWatch, WatchReply, Threads
<1>10. CASE CopyList \/ ReadOffset
  BY <1>10, <1>t, <1>u DEF CopyList, ReadOffset, Threads
<1>11. CASE WriteList
  <2>1. CASE Raise /\ UNCHANGED endpoints
    <3>1. UNCHANGED <<target, current, playerNet, blocks, answered, pc>> /\ seen \subseteq seen'
      BY <1>11, <2>1 DEF WriteList, Raise
    <3> QED
      BY <1>u, <2>1, <3>1
  <2>2. CASE pc'["queue"] = "fetch"
    BY <2>2 DEF Sought, Threads
  <2> QED
    BY <1>11, <1>t, <2>1, <2>2 DEF WriteList, Threads
<1>12. ASSUME NEW m, LosePlayer(m)
       PROVE  FALSE
  BY <1>12 DEF LosePlayer
<1>13. ASSUME NEW m \in BagToSet(playerNet), PlayerReply(m)
       PROVE  Sought'
  <2>1. /\ Sought /\ UNCHANGED <<target, current, blocks>>
        /\ answered' = m /\ pc["queue"] = "idle" /\ pc'["queue"] = "choose"
        /\ pc'["main"] = pc["main"]
    BY <1>13, <1>i, <1>t DEF PlayerReply, Threads
  <2>2. BagToSet(playerNet) \ {m} \subseteq BagToSet(playerNet')
    BY <1>13, AnsweredBag DEF PlayerReply, TypeOK
  <2> QED
    BY <2>1, <2>2 DEF Sought, OnTarget, Threads
<1>14. CASE ChooseModule
  <2>1. /\ Sought /\ UNCHANGED <<target, current, blocks, playerNet, answered>>
        /\ pc["queue"] = "choose" /\ pc'["main"] = pc["main"]
        /\ answered.index = target => pc'["queue"] = "dispatch"
    BY <1>14, <1>i, <1>t DEF ChooseModule, IsTarget, Threads
  <2> QED
    BY <2>1 DEF Sought, OnTarget, Threads
<1>15. CASE DispatchModule
  <2>1. answered.index = target' /\ blocks' = Append(blocks, answered)
    BY <1>15 DEF DispatchModule
  <2> QED
    BY <1>b, <1>t, <2>1
<1>16. CASE KeepModule
  <2>1. /\ Sought /\ UNCHANGED <<target, current, blocks, playerNet>>
        /\ pc["queue"] = "keep" /\ pc'["main"] = pc["main"]
    BY <1>16, <1>i, <1>t DEF KeepModule, Threads
  <2> QED
    BY <2>1 DEF Sought, OnTarget, Threads
<1>17. CASE DispatchAhead
  <2>1. answered.index = target' /\ blocks' = Append(blocks, answered)
    BY <1>17 DEF DispatchAhead
  <2> QED
    BY <1>b, <1>t, <2>1
<1>18. CASE SendNext
  <2>1. /\ Sought /\ UNCHANGED <<target, current, blocks>>
        /\ pc["queue"] = "behind" /\ pc'["main"] = pc["main"]
    BY <1>18, <1>i, <1>t DEF SendNext, Threads
  <2>2. BagToSet(playerNet) \subseteq BagToSet(playerNet')
    BY <1>18, SentBag DEF SendNext, SendPlayer
  <2> QED
    BY <2>1, <2>2 DEF Sought, OnTarget, Threads
<1>19. CASE UNCHANGED vars
  BY <1>19, <1>u DEF vars
<1> QED
  BY <1>1, <1>2, <1>3, <1>4, <1>5, <1>6, <1>7, <1>8, <1>9, <1>10, <1>11, <1>12, <1>13,
     <1>14, <1>15, <1>16, <1>17, <1>18, <1>19
  DEF Next, User, Setter, Handler, Answer, Threads

\* The whole invariant holds throughout.
THEOREM QueueInvariant == Spec => []QueueInv
<1>1. Init => RowsInv
  <2> SUFFICES ASSUME Init PROVE RowsInv
    OBVIOUS
  <2>1. Faithful(endpoints)
    BY EmptySeq DEF Init, Faithful
  <2>2. watchNet = EmptyBag /\ BagToSet(watchNet) = {} /\ pc["queue"] = "idle"
    BY OneInBag DEF Init, Threads
  <2> QED
    BY <2>1, <2>2 DEF RowsInv
<1>2. Init => PursuitInv
  BY EmptySeq DEF Init, PursuitInv, TargetListed
<1>3. ThreadInv /\ RowsInv /\ [Next]_vars => RowsInv'
  BY RowsStep
<1>4. ThreadInv /\ PursuitInv /\ [Next]_vars => PursuitInv'
  BY PursuitStep DEF ThreadInv
<1>5. QueueInv <=> ThreadInv /\ RowsInv /\ PursuitInv
  BY DEF QueueInv
<1> QED
  BY <1>1, <1>2, <1>3, <1>4, <1>5, ThreadInvariant, PTL DEF Spec

\* When all is quiet the target of the list plays, unless an answer was lost or
\* overtaken: no interleaving of the two threads leaves it forgotten.
THEOREM TargetSettles == Spec => []SettledOnTarget
<1>1. QueueInv => SettledOnTarget
  <2> SUFFICES ASSUME QueueInv, Quiet, TargetListed, seen \cap {"lost", "overtaken"} = {}
               PROVE  OnTarget
    BY DEF SettledOnTarget
  <2>1. Sought
    BY DEF QueueInv, PursuitInv
  <2>2. BagToSet(playerNet) = {}
    BY OneInBag DEF Quiet
  <2> QED
    BY <2>1, <2>2 DEF Quiet, Sought, Threads
<1> QED
  BY <1>1, QueueInvariant, PTL

\* The list holds the rows of the playlist, each once and in order, unless rows were
\* asked for twice or a write overlapped setPlaylist:.
THEOREM ListStaysFaithful == Spec => []ListFaithful
<1>1. QueueInv => ListFaithful
  BY DEF QueueInv, RowsInv, ListFaithful
<1> QED
  BY <1>1, QueueInvariant, PTL

----------------------------------------------------------------------------
Elems(s) == {s[n] : n \in DOMAIN s}

\* Dispatching a block adds its module to those that are chosen.
LEMMA ElemsAppend ==
    ASSUME NEW s \in Seq(Items), NEW x \in Items
    PROVE  Elems(Append(s, x)) = Elems(s) \cup {x}
<1>1. /\ Len(s) \in Nat /\ DOMAIN s = 1 .. Len(s)
      /\ DOMAIN Append(s, x) = 1 .. Len(s) + 1
      /\ Append(s, x)[Len(s) + 1] = x
      /\ \A n \in 1 .. Len(s) : Append(s, x)[n] = s[n]
  BY AppendProperties, LenProperties
<1>2. 1 .. Len(s) + 1 = (1 .. Len(s)) \cup {Len(s) + 1}
  BY <1>1
<1> QED
  BY <1>1, <1>2 DEF Elems

\* Taking the head out of a sequence removes that element or, if there is another
\* like it, none.
LEMMA ElemsTail ==
    ASSUME NEW s \in Seq(Items), s # << >>
    PROVE  /\ Head(s) \in Elems(s)
           /\ Elems(Tail(s)) \in {Elems(s), Elems(s) \ {Head(s)}}
<1>1. /\ Len(s) \in Nat \ {0} /\ DOMAIN s = 1 .. Len(s) /\ Head(s) = s[1]
      /\ DOMAIN Tail(s) = 1 .. Len(s) - 1
      /\ \A n \in 1 .. Len(s) - 1 : Tail(s)[n] = s[n + 1]
  BY EmptySeq, LenProperties
<1>2. Elems(s) = Elems(Tail(s)) \cup {Head(s)}
  <2>1. ASSUME NEW n \in DOMAIN s
        PROVE  s[n] \in Elems(Tail(s)) \cup {Head(s)}
    <3>1. CASE n = 1
      BY <1>1, <3>1
    <3>2. CASE n # 1
      <4>1. n - 1 \in DOMAIN Tail(s) /\ s[n] = Tail(s)[n - 1]
        BY <1>1, <3>2
      <4> QED
        BY <4>1 DEF Elems
    <3> QED
      BY <3>1, <3>2
  <2>2. ASSUME NEW n \in DOMAIN Tail(s)
        PROVE  Tail(s)[n] \in Elems(s)
    <3>1. n + 1 \in DOMAIN s /\ Tail(s)[n] = s[n + 1]
      BY <1>1
    <3> QED
      BY <3>1 DEF Elems
  <2>3. Head(s) \in Elems(s)
    <3>1. 1 \in DOMAIN s
      BY <1>1
    <3> QED
      BY <1>1, <3>1 DEF Elems
  <2> QED
    BY <2>1, <2>2, <2>3 DEF Elems
<1> QED
  BY <1>2

\* Every step of the player approves a module for the target, installs an approved
\* one, moves the target, or changes nothing the abstract player has.
LEMMA IntentStep == TypeOK /\ [Next]_vars => [Intent!Next]_(Intent!vars)
<1> SUFFICES ASSUME TypeOK, [Next]_vars
             PROVE  Intent!Next \/ UNCHANGED <<target, current, Chosen>>
  BY DEF Intent!vars
<1> USE DEF shared, locals, history, At, Goto
<1> DEFINE Same == UNCHANGED <<target, current, Chosen>>
<1> DEFINE Picked == {"dispatch", "ahead"}
<1>c. Chosen = Elems(blocks) \cup (IF pc["queue"] \in Picked THEN {answered} ELSE {})
  BY DEF Chosen, Elems
<1>d. Chosen' = Elems(blocks') \cup (IF pc'["queue"] \in Picked THEN {answered'} ELSE {})
  BY DEF Chosen, Elems
<1>t. blocks \in Seq(Items) /\ answered \in Items /\ preemptive \subseteq Items
      /\ DOMAIN pc = {"main", "queue"} /\ target \in Nat /\ arg \in Nat
  BY DEF TypeOK, Threads
<1> HIDE DEF Chosen
<1>u. ASSUME UNCHANGED <<target, current, blocks, answered>>,
             pc'["queue"] = pc["queue"]
      PROVE  Same
  BY <1>c, <1>d, <1>u
<1>1. ASSUME NEW p \in Playlists, SetPlaylist(p)
      PROVE  Same
  BY <1>t, <1>1, <1>u DEF SetPlaylist
<1>2. ASSUME NextTrack \/ Previous
      PROVE  Same
  BY <1>t, <1>2, <1>u DEF NextTrack, Previous
<1>3. ASSUME TestTarget \/ ExtendList \/ EnablePrevious
      PROVE  Same
  BY <1>t, <1>3, <1>u DEF TestTarget, ExtendList, EnablePrevious
<1>4. CASE AssignTarget
  <2>1. Chosen' = Chosen
    BY <1>c, <1>d, <1>t, <1>4 DEF AssignTarget
  <2> QED
    BY <1>4, <1>t, <2>1 DEF AssignTarget, Intent!Next, Intent!Retarget
<1>5. ASSUME NEW t \in Threads, Fetch(t)
      PROVE  Intent!Next \/ Same
  <2> DEFINE Idly == \/ pc'["queue"] \notin Picked /\ pc["queue"] \notin Picked
                     \/ pc'["queue"] = pc["queue"] /\ answered' = answered
  <2>1. CASE FetchCount(t)
    <3>1. Idly
      BY <1>t, <2>1 DEF FetchCount, AfterFetch, Threads
    <3> QED
      BY <1>c, <1>d, <2>1, <3>1 DEF FetchCount
  <2>2. CASE FetchAhead(t)
    <3>1. PICK m \in preemptive :
              /\ m.index = target
              /\ \/ t = "main" /\ blocks' = Append(blocks, m)
                    /\ pc'["queue"] = pc["queue"] /\ answered' = answered
                 \/ t = "queue" /\ answered' = m /\ blocks' = blocks
                    /\ pc["queue"] = "item" /\ pc'["queue"] = "ahead"
      BY <1>t, <2>2 DEF FetchAhead, IsTarget, Threads
    <3>2. Chosen' = Chosen \cup {m} /\ m \in Chosen'
      <4>1. CASE t = "main"
        <5>1. Elems(blocks') = Elems(blocks) \cup {m}
          BY <1>t, <3>1, <4>1, ElemsAppend
        <5> QED
          BY <1>c, <1>d, <3>1, <4>1, <5>1
      <4>2. CASE t = "queue"
        BY <1>c, <1>d, <3>1, <4>2
      <4> QED
        BY <4>1, <4>2 DEF Threads
    <3> QED
      BY <2>2, <3>1, <3>2 DEF FetchAhead, Intent!Next, Intent!Approve
  <2>3. CASE FetchItem(t) \/ FetchNext(t)
    <3>1. Idly
      BY <1>t, <2>3 DEF FetchItem, FetchNext, Raise, AfterFetch, Threads
    <3> QED
      BY <1>c, <1>d, <2>3, <3>1 DEF FetchItem, FetchNext, Raise
  <2> QED
    BY <1>5, <2>1, <2>2, <2>3 DEF Fetch
<1>6. CASE RunBlock
  <2>1. /\ Head(blocks) \in Elems(blocks)
        /\ Elems(blocks') \in {Elems(blocks), Elems(blocks) \ {Head(blocks)}}
    BY <1>t, <1>6, ElemsTail DEF RunBlock
  <2>2. Chosen' \in {Chosen, Chosen \ {Head(blocks)}}
    BY <1>c, <1>d, <1>6, <2>1 DEF RunBlock
  <2>3. Head(blocks) \in Chosen
    BY <1>c, <2>1
  <2> QED
    BY <1>6, <2>2, <2>3 DEF RunBlock, Intent!Next, Intent!Install
<1>7. ASSUME NEW r, LoseWatch(r) \/ LosePlayer(r)
      PROVE  Same
  BY <1>7, <1>u DEF LoseWatch, LosePlayer
<1>8. ASSUME NEW r, WatchReply(r) \/ PlayerReply(r)
      PROVE  Same
  <2>1. pc["queue"] = "idle" /\ pc'["queue"] \in {"copy", "choose"}
    BY <1>t, <1>8 DEF WatchReply, PlayerReply
  <2> QED
    BY <1>8, <1>c, <1>d, <2>1 DEF WatchReply, PlayerReply
<1>9. ASSUME CopyList \/ ReadOffset \/ WriteList
      PROVE  Same
  <2>1. pc["queue"] \notin Picked /\ pc'["queue"] \notin Picked
    BY <1>t, <1>9 DEF CopyList, ReadOffset, WriteList, Raise
  <2> QED
    BY <1>9, <1>c, <1>d, <2>1 DEF CopyList, ReadOffset, WriteList, Raise
<1>10. CASE ChooseModule
  <2>1. CASE answered.index = target
    <3>1. pc["queue"] = "choose" /\ pc'["queue"] = "dispatch"
      BY <1>t, <1>10, <2>1 DEF ChooseModule, IsTarget
    <3>2. Chosen' = Chosen \cup {answered} /\ answered \in Chosen'
      BY <1>c, <1>d, <1>10, <3>1 DEF ChooseModule
    <3> QED
      BY <1>10, <2>1, <3>2 DEF ChooseModule, Intent!Next, Intent!Approve
  <2>2. CASE answered.index # target
    <3>1. pc["queue"] = "choose" /\ pc'["queue"] = "keep"
      BY <1>t, <1>10, <2>2 DEF ChooseModule, IsTarget
    <3> QED
      BY <1>10, <1>c, <1>d, <3>1 DEF ChooseModule
  <2> QED
    BY <2>1, <2>2
<1>11. CASE DispatchModule
  <2>1. pc["queue"] = "dispatch" /\ pc'["queue"] = "idle"
    BY <1>t, <1>11 DEF DispatchModule
  <2>2. Elems(blocks') = Elems(blocks) \cup {answered}
    BY <1>t, <1>11, ElemsAppend DEF DispatchModule
  <2> QED
    BY <1>11, <1>c, <1>d, <2>1, <2>2 DEF DispatchModule
<1>12. CASE KeepModule
  <2>1. pc["queue"] = "keep" /\ pc'["queue"] = "idle"
    BY <1>t, <1>12 DEF KeepModule
  <2> QED
    BY <1>12, <1>c, <1>d, <2>1 DEF KeepModule
<1>13. CASE DispatchAhead
  <2>1. pc["queue"] = "ahead" /\ pc'["queue"] = "next"
    BY <1>t, <1>13 DEF DispatchAhead
  <2>2. Elems(blocks') = Elems(blocks) \cup {answered}
    BY <1>t, <1>13, ElemsAppend DEF DispatchAhead
  <2> QED
    BY <1>13, <1>c, <1>d, <2>1, <2>2 DEF DispatchAhead
<1>14. CASE SendNext
  <2>1. pc["queue"] = "behind" /\ pc'["queue"] = "idle"
    BY <1>t, <1>14 DEF SendNext
  <2> QED
    BY <1>14, <1>c, <1>d, <2>1 DEF SendNext
<1>15. CASE UNCHANGED vars
  BY <1>15, <1>u DEF vars
<1> QED
  BY <1>1, <1>2, <1>3, <1>4, <1>5, <1>6, <1>7, <1>8, <1>9, <1>10, <1>11, <1>12, <1>13,
     <1>14, <1>15
  DEF Next, User, Setter, Handler, Answer, Threads

\* The player implements PlayIntent: nothing starts to play that was not the target's
\* at the moment it was chosen, whatever is lost, late or expired.
THEOREM Refinement == Spec => PlaysOnlyIntended
<1>1. Init => Intent!Init
  BY DEF Init, Intent!Init, Chosen, Threads
<1>2. TypeOK /\ [Next]_vars => [Intent!Next]_(Intent!vars)
  BY IntentStep
<1> QED
  BY <1>1, <1>2, TypeCorrect, PTL DEF Spec, PlaysOnlyIntended, Intent!Spec

----------------------------------------------------------------------------
(* The player as a whole.                                                  *)

\* Nothing but a dispatched block sets currentModule.
LEMMA OnlyBlocksInstall ==
    ASSUME Open \/ Setter \/ Handler \/ Answer \/ NextTrack
    PROVE  current' = current
<1>1. Open => current' = current
  BY DEF Open, SetPlaylist
<1>2. Setter => current' = current
  BY DEF Setter, TestTarget, AssignTarget, Fetch, FetchCount, FetchAhead, FetchItem,
         FetchNext, ExtendList, EnablePrevious, shared
<1>3. Handler => current' = current
  BY DEF Handler, CopyList, ReadOffset, WriteList, Fetch, FetchCount, FetchAhead,
         FetchItem, FetchNext, ChooseModule, DispatchModule, KeepModule, DispatchAhead,
         SendNext, shared
<1>4. Answer => current' = current
  BY DEF Answer, WatchReply, LoseWatch, PlayerReply, LosePlayer, shared
<1>5. NextTrack => current' = current
  BY DEF NextTrack, shared
<1> QED
  BY <1>1, <1>2, <1>3, <1>4, <1>5

\* The queue inside the player does what PlayerQueue allows, or nothing: the end of a
\* track is a next like any other, and play, pause and a swipe do not touch it.
THEOREM QueueInside == PlayerSpec => KeepsQueue
<1>1. PlayerInit => Init
  BY DEF PlayerInit
<1>2. ASSUME [PlayerNext]_playerVars
      PROVE  [Next]_vars
  <2>1. CASE Open
    BY <2>1 DEF Open, Next, User
  <2>2. CASE PlayOrPause \/ SwitchVisual \/ SystemPause \/ TrackEnds
    BY <2>2 DEF PlayOrPause, SwitchVisual, SystemPause, TrackEnds, Touch, OnMain
  <2>3. CASE Decide
    BY <2>3 DEF Decide, Beside, Next
  <2>4. CASE Install
    BY <2>4 DEF Install, Next
  <2>5. CASE EndNoted
    BY <2>5 DEF EndNoted, Advance, Next, User
  <2>6. CASE UNCHANGED playerVars
    BY <2>6 DEF playerVars
  <2> QED
    BY <1>2, <2>1, <2>2, <2>3, <2>4, <2>5, <2>6 DEF PlayerNext
<1> QED
  BY <1>1, <1>2, PTL DEF PlayerSpec, KeepsQueue, Spec

\* The module a block installs is one that the transport may be given.
LEMMA InstalledModule ==
    ASSUME TypeOK, RunBlock, NEW c \in {0, 1}, copy' = c
    PROVE  /\ [of |-> Head(blocks), copy |-> c] \in Modules
           /\ Module' = [of |-> Head(blocks), copy |-> c]
<1>1. Head(blocks) \in Items
  BY HeadTailProperties DEF TypeOK, RunBlock
<1>2. current' = {Head(blocks)}
  BY DEF RunBlock
<1> QED
  BY <1>1, <1>2 DEF Modules, Module

\* The transport inside the player does what PlayerTransport allows, or nothing: the
\* module it plays is the one the queue installed last, in the same step.
THEOREM TransportInside == PlayerSpec => KeepsTransport
<1>1. PlayerInit => Transport!Init
  BY DEF PlayerInit
<1>2. ASSUME TypeOK, [PlayerNext]_playerVars
      PROVE  [Transport!Next]_(Transport!vars)
  <2>1. ASSUME UNCHANGED <<current, transport>>
        PROVE  UNCHANGED Transport!vars
    BY <2>1 DEF Transport!vars, transport, Module
  <2>2. CASE Open \/ Decide
    BY <2>1, <2>2, OnlyBlocksInstall DEF Open, Decide, Beside
  <2>3. CASE PlayOrPause
    BY <2>3 DEF PlayOrPause, Transport!Next
  <2>4. CASE SwitchVisual
    BY <2>4 DEF SwitchVisual, Transport!Next
  <2>5. CASE SystemPause
    BY <2>5 DEF SystemPause, Transport!Next
  <2>6. CASE TrackEnds
    BY <2>6 DEF TrackEnds, Transport!Next
  <2>7. CASE Install
    <3>1. PICK c \in {0, 1} :
              copy' = c /\ Transport!SetCurrentModule([of |-> Head(blocks), copy |-> c])
      BY <2>7 DEF Install
    <3>2. [of |-> Head(blocks), copy |-> c] \in Modules
      BY <1>2, <2>7, <3>1, InstalledModule DEF Install
    <3> QED
      BY <3>1, <3>2 DEF Transport!Next
  <2>8. CASE EndNoted
    BY <2>8 DEF EndNoted, Transport!Next
  <2>9. CASE UNCHANGED playerVars
    BY <2>1, <2>9 DEF playerVars, vars, shared
  <2> QED
    BY <1>2, <2>2, <2>3, <2>4, <2>5, <2>6, <2>7, <2>8, <2>9 DEF PlayerNext
<1>3. PlayerSpec => []TypeOK
  BY QueueInside, TypeCorrect, PTL DEF KeepsQueue
<1> QED
  BY <1>1, <1>2, <1>3, PTL DEF PlayerSpec, KeepsTransport, Transport!Spec

\* Played through, the list stays that of the playlist and the program does not end
\* with a range exception, on the conditions of PlayerQueue.
THEOREM PlayedList == PlayerSpec => [](ListFaithful /\ RangeSafe)
BY QueueInside, ListStaysFaithful, RangeSafety, PTL DEF KeepsQueue

----------------------------------------------------------------------------
(* What is proved of the transport, of the transport inside the player.    *)

Proved == INSTANCE PlayerTransport_proofs WITH module <- Module

\* The player's transport is the one the proofs are about.
LEMMA SameTransport ==
    /\ Transport!Init <=> Proved!Init
    /\ [Transport!Next]_(Transport!vars) <=> [Proved!Next]_(Proved!vars)
    /\ Transport!TransportInv <=> Proved!TransportInv
<1>1. Transport!Init <=> Proved!Init
  BY Zenon DEF Transport!Init, Proved!Init, Transport!Idle, Proved!Idle
<1>2. Transport!Next <=> Proved!Next
  BY Zenon
  DEF Transport!Visuals, Transport!Wrap, Transport!Form, Transport!PlayerItem,
      Transport!Idle, Transport!Told, Transport!UpdateInfo, Transport!Play,
      Transport!Pause, Transport!TogglePlayPause, Transport!Scrub, Transport!SeekDone,
      Transport!StartReached, Transport!SwitchedItem, Transport!SwitchVisual,
      Transport!ResumeRate, Transport!SetCurrentModule, Transport!SystemPause,
      Transport!TrackEnds, Transport!IsOurs, Transport!EndNoted, Transport!DrawArtwork,
      Transport!DrawRate, Transport!DrawInfo, Transport!Next, Proved!Visuals,
      Proved!Wrap, Proved!Form, Proved!PlayerItem, Proved!Idle, Proved!Told,
      Proved!UpdateInfo, Proved!Play, Proved!Pause, Proved!TogglePlayPause,
      Proved!Scrub, Proved!SeekDone, Proved!StartReached, Proved!SwitchedItem,
      Proved!SwitchVisual, Proved!ResumeRate, Proved!SetCurrentModule,
      Proved!SystemPause, Proved!TrackEnds, Proved!IsOurs, Proved!EndNoted,
      Proved!DrawArtwork, Proved!DrawRate, Proved!DrawInfo, Proved!Next
<1>3. UNCHANGED Transport!vars <=> UNCHANGED Proved!vars
  BY Zenon DEF Transport!vars, Proved!vars
<1>4. Transport!TransportInv <=> Proved!TransportInv
  BY Zenon
  DEF Transport!TransportInv, Transport!TypeOK, Transport!ItemFollows,
      Transport!InfoInv, Transport!EndInv, Transport!Items, Transport!PlayerItem,
      Transport!IsOurs, Transport!Told, Transport!Visuals, Transport!Form,
      Proved!TransportInv, Proved!TypeOK, Proved!ItemFollows, Proved!InfoInv,
      Proved!EndInv, Proved!Items, Proved!PlayerItem, Proved!IsOurs, Proved!Told,
      Proved!Visuals, Proved!Form
<1> QED
  BY <1>1, <1>2, <1>3, <1>4

\* Whatever the queue installs, when the lock screen is told what, and how often the end
\* of a track calls next, is as in PlayerTransport.
THEOREM TransportInvariantInside ==
    ASSUME NativeEnds = {"hls"}
    PROVE  PlayerSpec => []Transport!TransportInv
<1>1. Proved!Spec => []Proved!TransportInv
  BY Proved!TransportInvariant, NoModuleAssumption, EndAssumption
<1>2. Transport!Init => Proved!Init
  BY SameTransport
<1>3. [Transport!Next]_(Transport!vars) => [Proved!Next]_(Proved!vars)
  BY SameTransport
<1>4. Proved!TransportInv => Transport!TransportInv
  BY SameTransport
<1> QED
  BY <1>1, <1>2, <1>3, <1>4, TransportInside, PTL DEF KeepsTransport, Transport!Spec, Proved!Spec

----------------------------------------------------------------------------
(* Left alone, the player plays the list in order.                         *)

\* Before a playlist is opened the queue has nothing to do, and no track ends.
LEMMA NothingBefore ==
    ASSUME TypeOK, OpenInv, PlayerNext, playlist = NoList
    PROVE  Open \/ (UNCHANGED <<vars, item, notes>> /\ ~alone')
<1>1. /\ endpoints = << >> /\ blocks = << >> /\ watchNet = EmptyBag /\ playerNet = EmptyBag
      /\ \A t \in Threads : pc[t] = "idle"
      /\ current = {} /\ item = {} /\ notes = {} /\ ~alone
  BY DEF OpenInv
<1>2. BagToSet(watchNet) = {} /\ BagToSet(playerNet) = {}
  BY <1>1, OneInBag
<1>3. ~Setter
  BY <1>1 DEF Setter, TestTarget, AssignTarget, Fetch, FetchCount, FetchAhead, FetchItem,
         FetchNext, ExtendList, EnablePrevious, At, Threads
<1>4. ~Handler
  BY <1>1 DEF Handler, CopyList, ReadOffset, WriteList, Fetch, FetchCount, FetchAhead,
         FetchItem, FetchNext, ChooseModule, DispatchModule, KeepModule, DispatchAhead,
         SendNext, At, Threads
<1>5. ~Answer
  BY <1>2 DEF Answer
<1>6. ~Install /\ ~EndNoted /\ ~TrackEnds
  BY <1>1 DEF Install, RunBlock, EndNoted, TrackEnds, Transport!TrackEnds
<1>7. CASE PlayOrPause
  <2>1. UNCHANGED <<notes, item>>
    BY <1>7 DEF PlayOrPause, Transport!Play, Transport!Pause, Transport!TogglePlayPause
  <2> QED
    BY <1>7, <2>1 DEF PlayOrPause, Touch, OnMain
<1>8. CASE SwitchVisual
  <2>1. Module = NoModule
    BY <1>1 DEF Module
  <2>2. item' = {} /\ UNCHANGED notes
    BY <1>8, <2>1 DEF SwitchVisual, Transport!SwitchVisual, Transport!SwitchedItem,
           Transport!PlayerItem
  <2> QED
    BY <1>1, <1>8, <2>2 DEF SwitchVisual, Touch, OnMain
<1>9. CASE SystemPause
  BY <1>1, <1>9 DEF SystemPause, Touch, OnMain, Transport!SystemPause
<1> QED
  BY <1>3, <1>4, <1>5, <1>6, <1>7, <1>8, <1>9 DEF PlayerNext, Decide, Beside

\* Opening a playlist touches nothing but the list and the setter.
LEMMA OpenStep ==
    ASSUME TypeOK, OpenInv, Open
    PROVE  /\ playlist' \in Playlists /\ playlist' # NoList
           /\ endpoints' = << >> /\ preemptive' = {}
           /\ pc' = [pc EXCEPT !["main"] = "test"] /\ pc["queue"] = "idle"
           /\ arg' = 0 /\ opening'
           /\ UNCHANGED <<target, current, watchNet, playerNet, blocks, seen, notes, item,
                          alone, crossed>>
           /\ target = 0 /\ ~alone /\ current = {} /\ blocks = << >>
           /\ BagToSet(watchNet) = {} /\ BagToSet(playerNet) = {}
<1>1. PICK p \in Playlists : playlist = NoList /\ SetPlaylist(p) /\ UNCHANGED <<transport, alone>>
  BY DEF Open
<1>2. BagToSet(watchNet) = {} /\ BagToSet(playerNet) = {}
  BY <1>1, OneInBag DEF OpenInv
<1> QED
  BY <1>1, <1>2, ListAssumption
  DEF SetPlaylist, ClearList, Goto, UserMay, At, transport, OpenInv, locals, Threads

\* Steps of the player that leave the queue alone.
LEMMA BesideQueue ==
    ASSUME PlayOrPause \/ SwitchVisual \/ SystemPause \/ TrackEnds
    PROVE  UNCHANGED vars /\ At("main", "idle")
BY DEF PlayOrPause, SwitchVisual, SystemPause, TrackEnds, Touch, OnMain

\* Steps of the queue, and how they move the main thread.
LEMMA SetterMoves ==
    ASSUME TypeOK, Setter
    PROVE  /\ UNCHANGED playlist /\ pc["main"] # "idle" /\ pc'["queue"] = pc["queue"]
           /\ \/ /\ pc["main"] = "test" /\ pc'["main"] \in {"assign", "enable"}
                 /\ UNCHANGED <<target, arg, opening>>
              \/ /\ pc["main"] = "assign" /\ pc'["main"] = "fetch"
                 /\ target' = arg /\ UNCHANGED <<arg, opening>>
              \/ /\ pc["main"] \in {"fetch", "item", "next", "extend"}
                 /\ pc'["main"] \in {"item", "next", "extend", "enable"}
                 /\ UNCHANGED <<target, arg, opening>>
              \/ /\ pc["main"] = "enable" /\ pc'["main"] = "idle"
                 /\ UNCHANGED target /\ arg' = 0 /\ ~opening'
<1> USE DEF At, Goto, shared
<1>p. DOMAIN pc = {"main", "queue"}
  BY DEF TypeOK, Threads
<1>1. CASE TestTarget
  BY <1>1, <1>p DEF TestTarget
<1>2. CASE AssignTarget
  BY <1>2, <1>p DEF AssignTarget
<1>3. CASE Fetch("main")
  BY <1>3, <1>p DEF Fetch, FetchCount, FetchAhead, FetchItem, FetchNext, Raise, AfterFetch
<1>4. CASE ExtendList
  BY <1>4, <1>p DEF ExtendList
<1>5. CASE EnablePrevious
  BY <1>5, <1>p DEF EnablePrevious
<1> QED
  BY <1>1, <1>2, <1>3, <1>4, <1>5 DEF Setter

\* Handlers and answers leave the main thread where it is.
LEMMA QueueMoves ==
    ASSUME TypeOK, Handler \/ Answer
    PROVE  UNCHANGED <<playlist, target, arg, opening>> /\ pc'["main"] = pc["main"]
<1> USE DEF At, Goto, shared
<1>p. DOMAIN pc = {"main", "queue"}
  BY DEF TypeOK, Threads
<1>1. CASE Handler
  <2>1. CASE Fetch("queue")
    BY <2>1, <1>p DEF Fetch, FetchCount, FetchAhead, FetchItem, FetchNext, Raise
  <2>2. CASE CopyList \/ ReadOffset \/ WriteList
    BY <2>2, <1>p DEF CopyList, ReadOffset, WriteList, Raise
  <2>3. CASE ChooseModule \/ DispatchModule \/ KeepModule \/ DispatchAhead \/ SendNext
    BY <2>3, <1>p DEF ChooseModule, DispatchModule, KeepModule, DispatchAhead, SendNext
  <2> QED
    BY <1>1, <2>1, <2>2, <2>3 DEF Handler
<1>2. CASE Answer
  BY <1>2, <1>p DEF Answer, WatchReply, LoseWatch, PlayerReply, LosePlayer
<1> QED
  BY <1>1, <1>2

\* An end that is noted is a next, or nothing to the queue.
LEMMA NotedMoves ==
    ASSUME TypeOK, EndNoted
    PROVE  /\ pc["main"] = "idle" /\ UNCHANGED <<alone, item, crossed>>
           /\ \E n \in notes :
                 /\ notes' = notes \ {n}
                 /\ \/ UNCHANGED vars
                    \/ /\ NextTrack /\ Transport!IsOurs(n.object)
                       /\ pc' = [pc EXCEPT !["main"] = "test"] /\ arg' = target + 1
                       /\ UNCHANGED <<shared, watchNet, playerNet, blocks, opening, locals, seen>>
BY DEF EndNoted, Advance, NextTrack, Transport!EndNoted, At, Goto, history, UserMay

\* Every step keeps what is known before the first request and while a list is opened.
LEMMA OpenInvStep == TypeOK /\ OpenInv /\ [PlayerNext]_playerVars => OpenInv'
<1> SUFFICES ASSUME TypeOK, OpenInv, [PlayerNext]_playerVars
             PROVE  OpenInv'
  OBVIOUS
<1>p. DOMAIN pc = {"main", "queue"} /\ opening \in BOOLEAN /\ target \in Nat
  BY DEF TypeOK, Threads
<1>1. CASE UNCHANGED playerVars
  BY <1>1 DEF OpenInv, playerVars, vars, transport, shared
<1>2. CASE Open
  <2>1. alone' = alone /\ pc'["main"] = "test" /\ playlist' # NoList /\ arg' = 0 /\ target' = 0
    BY <1>2, <1>p, OpenStep
  <2> QED
    BY <1>2, <2>1, OpenStep DEF OpenInv
<1>3. CASE playlist = NoList /\ UNCHANGED <<vars, item, notes>> /\ ~alone'
  BY <1>3 DEF OpenInv, vars, shared
<1>4. ASSUME playlist # NoList, UNCHANGED <<playlist, target, arg, opening>>,
             pc'["main"] = pc["main"], alone' => alone \/ pc["main"] = "idle"
      PROVE  OpenInv'
  BY <1>4 DEF OpenInv
<1>5. ASSUME playlist # NoList, PlayOrPause \/ SwitchVisual \/ SystemPause \/ TrackEnds
      PROVE  OpenInv'
  BY <1>4, <1>5, BesideQueue DEF vars, shared, At
<1>6. ASSUME playlist # NoList, Beside(Setter)
      PROVE  OpenInv'
  BY <1>6, <1>p, SetterMoves DEF OpenInv, Beside
<1>7. ASSUME playlist # NoList, Beside(Handler) \/ Beside(Answer)
      PROVE  OpenInv'
  BY <1>4, <1>7, QueueMoves DEF Beside
<1>8. ASSUME playlist # NoList, Install
      PROVE  OpenInv'
  BY <1>4, <1>8 DEF Install, RunBlock
<1>9. ASSUME playlist # NoList, EndNoted
      PROVE  OpenInv'
  <2>1. UNCHANGED <<playlist, target, opening, alone>> /\ pc["main"] = "idle"
    BY <1>9, NotedMoves DEF vars, shared
  <2>2. ~opening
    BY <2>1, <1>p DEF OpenInv
  <2>3. UNCHANGED vars \/ (pc'["main"] = "test" /\ arg' = target + 1)
    BY <1>9, <1>p, NotedMoves
  <2> QED
    BY <1>9, <2>1, <2>2, <2>3 DEF OpenInv, vars
<1> QED
  BY <1>1, <1>2, <1>3, <1>5, <1>6, <1>7, <1>8, <1>9, NothingBefore DEF PlayerNext, Decide

\* The places of a batch of rows behind k others that show an index as its own place or
\* as the one before.
LEMMA OneRow ==
    ASSUME NEW k \in Nat, NEW n \in Nat, n >= 2
    PROVE  n - k = n - 1 => n > k /\ n - 1 - k # n - 1
OBVIOUS

\* Putting rows numbered from 0 behind a list keeps the list, and keeps it numbered.
LEMMA OverlayNumbered ==
    ASSUME NEW list \in Seq(Items),
           NEW b \in [list : Playlists \cup {NoList}, from : Nat, first : Nat, size : Nat],
           b.first = 0
    PROVE  /\ \A n \in DOMAIN list : /\ n \in DOMAIN Overlay(list, b, Len(list))
                                     /\ Overlay(list, b, Len(list))[n] = list[n]
           /\ Numbered(list) => Numbered(Overlay(list, b, Len(list)))
<1> DEFINE len == IF Len(list) + b.size > Len(list) THEN Len(list) + b.size ELSE Len(list)
           f == [n \in 1 .. len |-> IF n - 1 >= Len(list) /\ n - 1 < Len(list) + b.size
                                    THEN Row(b, n - 1 - Len(list)) ELSE list[n]]
<1>1. len \in Nat /\ Len(list) \in Nat /\ len = Len(list) + b.size /\ DOMAIN list = 1 .. Len(list)
  OBVIOUS
<1>2. ASSUME NEW n \in 1 .. len, n > Len(list)
      PROVE  f[n].index = n - 1 - Len(list)
  <2>1. f[n] = Row(b, n - 1 - Len(list))
    BY <1>1, <1>2
  <2>2. n - 1 - Len(list) \in Nat
    BY <1>1, <1>2
  <2> QED
    BY <2>1, <2>2 DEF Row
<1>3. ASSUME NEW n \in 1 .. Len(list)
      PROVE  n \in 1 .. len /\ f[n] = list[n]
  BY <1>1
<1>4. DOMAIN f = 1 .. len
  OBVIOUS
<1>5. Overlay(list, b, Len(list)) = f
  BY DEF Overlay
<1> HIDE DEF f, len
<1>6. ASSUME Numbered(list)
      PROVE  Numbered(f)
  <2>1. ASSUME NEW n \in 1 .. len
        PROVE  f[n].index < n
    <3>1. CASE n > Len(list)
      BY <1>1, <1>2, <3>1
    <3>2. CASE n <= Len(list)
      BY <1>1, <1>3, <1>6, <3>2 DEF Numbered
    <3> QED
      BY <1>1, <3>1, <3>2
  <2>2. ASSUME NEW n \in 1 .. len, n # 1, n + 1 \in 1 .. len
        PROVE  f[n].index # n - 1 \/ f[n + 1].index # n - 1
    <3>1. CASE n >= Len(list)
      <4>1. n \in Nat /\ n >= 2 /\ f[n + 1].index = n - Len(list)
        <5>1. n + 1 \in 1 .. len /\ n + 1 > Len(list)
          BY <1>1, <2>2, <3>1
        <5>2. f[n + 1].index = n + 1 - 1 - Len(list)
          BY <1>2, <5>1
        <5> QED
          BY <1>1, <2>2, <5>2
      <4>2. n - Len(list) = n - 1 => n > Len(list) /\ n - 1 - Len(list) # n - 1
        BY Zenon, <1>1, <4>1, OneRow
      <4>3. n > Len(list) => f[n].index = n - 1 - Len(list)
        BY <1>2
      <4> QED
        BY Zenon, <4>1, <4>2, <4>3
    <3>2. CASE n < Len(list)
      <4>1. n \in 1 .. Len(list) /\ n + 1 \in 1 .. Len(list)
        BY <1>1, <3>2
      <4> QED
        BY <1>1, <1>3, <1>6, <2>2, <4>1 DEF Numbered
    <3> QED
      BY <1>1, <3>1, <3>2
  <2> QED
    BY <1>4, <2>1, <2>2 DEF Numbered
<1> QED
  BY <1>1, <1>3, <1>4, <1>5, <1>6

\* A merge puts its rows behind the list as it stands.
LEMMA MergeStep ==
    ASSUME TypeOK, GrowInv, WriteList
    PROVE  /\ pc["queue"] = "merge" /\ UNCHANGED <<playlist, target, answered, playerNet, blocks>>
           /\ \A n \in DOMAIN endpoints : n \in DOMAIN endpoints' /\ endpoints'[n] = endpoints[n]
           /\ Numbered(endpoints')
           /\ \/ pc'["queue"] = "fetch"
              \/ pc' = pc /\ UNCHANGED <<endpoints, copied, offset>>
<1>1. /\ pc["queue"] = "merge" /\ UNCHANGED <<playlist, target, answered, playerNet, blocks>>
      /\ \/ pc'["queue"] = "fetch"
         \/ pc' = pc /\ UNCHANGED <<endpoints, copied, offset>>
  BY DEF WriteList, At, Goto, Raise, TypeOK, Threads
<1>2. copied = endpoints /\ offset = Len(endpoints) /\ Numbered(endpoints)
  BY <1>1 DEF GrowInv
<1>3. CASE endpoints' = endpoints
  BY <1>1, <1>2, <1>3
<1>4. CASE endpoints' # endpoints
  <2>1. /\ batch.size # 0 /\ batch.first + offset <= Len(copied)
        /\ endpoints' = Overlay(copied, batch, batch.first + offset)
    BY <1>2, <1>4 DEF WriteList
  <2>2. batch.first = 0 /\ batch.first + offset = Len(endpoints)
    BY <1>2, <2>1 DEF TypeOK
  <2>3. endpoints' = Overlay(endpoints, batch, Len(endpoints))
    BY <1>2, <2>1, <2>2
  <2> QED
    BY <1>1, <1>2, <2>2, <2>3, OverlayNumbered DEF TypeOK
<1> QED
  BY <1>3, <1>4

\* Opening a playlist and merging a reply are all that is done to the list; opening finds
\* it empty.
LEMMA ListKept ==
    ASSUME TypeOK, OpenInv, GrowInv, [PlayerNext]_playerVars
    PROVE  /\ Open \/ WriteList \/ UNCHANGED endpoints
           /\ \A n \in DOMAIN endpoints : n \in DOMAIN endpoints' /\ endpoints'[n] = endpoints[n]
<1>1. Setter \/ CopyList \/ ReadOffset \/ Fetch("queue") \/ ChooseModule \/ DispatchModule
          \/ KeepModule \/ DispatchAhead \/ SendNext \/ Answer => UNCHANGED endpoints
  BY DEF Setter, TestTarget, AssignTarget, Fetch, FetchCount, FetchAhead, FetchItem,
         FetchNext, ExtendList, EnablePrevious, CopyList, ReadOffset, ChooseModule,
         DispatchModule, KeepModule, DispatchAhead, SendNext, Answer, WatchReply, LoseWatch,
         PlayerReply, LosePlayer, shared
<1>2. Open \/ WriteList \/ UNCHANGED endpoints
  <2>1. PlayOrPause \/ SwitchVisual \/ SystemPause \/ TrackEnds => UNCHANGED endpoints
    BY BesideQueue DEF vars, shared
  <2>2. Install => UNCHANGED endpoints
    BY DEF Install, RunBlock
  <2>3. EndNoted => UNCHANGED endpoints
    BY NotedMoves DEF vars, shared
  <2>4. UNCHANGED playerVars => UNCHANGED endpoints
    BY DEF playerVars, vars, shared
  <2> QED
    BY <1>1, <2>1, <2>2, <2>3, <2>4 DEF PlayerNext, Decide, Beside, Handler
<1>3. Open => endpoints = << >>
  BY DEF Open, OpenInv
<1> QED
  BY <1>2, <1>3, MergeStep

\* Every step keeps the list one that only grows at its end, and numbered.
LEMMA GrowInvStep == TypeOK /\ OpenInv /\ GrowInv /\ [PlayerNext]_playerVars => GrowInv'
<1> SUFFICES ASSUME TypeOK, OpenInv, GrowInv, [PlayerNext]_playerVars
             PROVE  GrowInv'
  OBVIOUS
<1>p. DOMAIN pc = {"main", "queue"} /\ endpoints \in Seq(Items)
  BY DEF TypeOK, Threads
<1> USE DEF Threads
<1> DEFINE Past == {"item", "next", "ahead", "behind"}   \* past the test of the count
\* Steps that leave list, copy and offset alone.
<1>u. ASSUME UNCHANGED <<endpoints, copied, offset>>,
             \A t \in Threads : pc'[t] \in Past => pc[t] \in Past \/ endpoints # << >>,
             pc'["queue"] = pc["queue"] \/ pc'["queue"] \notin {"offset", "merge"}
      PROVE  GrowInv'
  BY <1>u DEF GrowInv
<1>1. CASE Open
  <2>1. \A t \in Threads : pc'[t] \in {"test", "idle"}
    BY <1>1, <1>p, OpenStep
  <2>2. Numbered(endpoints')
    BY <1>1, OpenStep DEF Numbered
  <2> QED
    BY <2>1, <2>2 DEF GrowInv
<1>2. CASE PlayOrPause \/ SwitchVisual \/ SystemPause \/ TrackEnds
  BY <1>2, <1>u, BesideQueue DEF vars, shared, locals
<1>3. CASE Install
  BY <1>3, <1>u DEF Install, RunBlock, locals
<1>4. CASE EndNoted
  BY <1>4, <1>u, <1>p, NotedMoves DEF vars, shared, locals
<1>5. CASE Setter
  <2>1. UNCHANGED <<endpoints, copied, offset>>
    BY <1>5 DEF Setter, TestTarget, AssignTarget, Fetch, FetchCount, FetchAhead, FetchItem,
         FetchNext, ExtendList, EnablePrevious, shared, locals
  <2>2. pc'["main"] \in Past => pc["main"] \in Past \/ endpoints # << >>
    <3>1. CASE FetchCount("main")
      BY <1>p, <3>1 DEF FetchCount, At, Goto, AfterFetch
    <3>2. CASE Fetch("main") /\ ~FetchCount("main")
      BY <3>2 DEF Fetch, FetchAhead, FetchItem, FetchNext, At
    <3>3. CASE TestTarget \/ AssignTarget \/ ExtendList \/ EnablePrevious
      BY <1>p, <3>3 DEF TestTarget, AssignTarget, ExtendList, EnablePrevious, At, Goto
    <3> QED
      BY <1>5, <3>1, <3>2, <3>3 DEF Setter
  <2>3. pc'["queue"] = pc["queue"]
    BY <1>5, SetterMoves
  <2> QED
    BY <1>u, <2>1, <2>2, <2>3
<1>6. CASE Fetch("queue")
  <2>1. pc'["main"] = pc["main"]
    BY <1>6, QueueMoves DEF Handler
  <2>2. UNCHANGED <<endpoints, copied, offset>>
    BY <1>6 DEF Fetch, FetchCount, FetchAhead, FetchItem, FetchNext, shared, locals
  <2>3. pc'["queue"] \in Past => pc["queue"] \in Past \/ endpoints # << >>
    <3>1. CASE FetchCount("queue")
      BY <1>p, <3>1 DEF FetchCount, At, Goto, AfterFetch
    <3>2. CASE Fetch("queue") /\ ~FetchCount("queue")
      BY <3>2 DEF Fetch, FetchAhead, FetchItem, FetchNext, At
    <3> QED
      BY <1>6, <3>1, <3>2
  <2>4. pc'["queue"] = pc["queue"] \/ pc'["queue"] \notin {"offset", "merge"}
    BY <1>6, <1>p DEF Fetch, FetchCount, FetchAhead, FetchItem, FetchNext, At, Goto,
         AfterFetch, Raise
  <2> QED
    BY <1>u, <2>1, <2>2, <2>3, <2>4
<1>7. CASE WriteList
  <2>1. pc'["main"] = pc["main"]
    BY <1>7, QueueMoves DEF Handler
  <2>2. \A n \in DOMAIN endpoints : n \in DOMAIN endpoints' /\ endpoints'[n] = endpoints[n]
    BY <1>7, MergeStep
  <2>3. endpoints # << >> => 1 \in DOMAIN endpoints /\ endpoints' # << >>
    <3>1. endpoints # << >> => Len(endpoints) \in Nat \ {0} /\ DOMAIN endpoints = 1 .. Len(endpoints)
      BY <1>p, EmptySeq
    <3>2. endpoints' = << >> => DOMAIN endpoints' = {}
      OBVIOUS
    <3> QED
      BY <2>2, <3>1, <3>2
  <2>4. Numbered(endpoints') /\ pc["queue"] = "merge"
    BY <1>7, MergeStep
  <2>5. CASE pc'["queue"] = "fetch"
    BY <2>1, <2>3, <2>4, <2>5 DEF GrowInv
  <2>6. CASE pc' = pc /\ UNCHANGED <<endpoints, copied, offset>>
    BY <2>6, <1>u
  <2> QED
    BY <1>7, <2>5, <2>6, MergeStep
<1>8. CASE CopyList \/ ReadOffset
  <2>1. pc'["main"] = pc["main"]
    BY <1>8, QueueMoves DEF Handler
  <2>2. CASE CopyList
    BY <1>p, <2>1, <2>2 DEF CopyList, GrowInv, shared, At, Goto
  <2>3. CASE ReadOffset
    BY <1>p, <2>1, <2>3 DEF ReadOffset, IndexOffset, GrowInv, shared, At, Goto
  <2> QED
    BY <1>8, <2>2, <2>3
<1>9. CASE ChooseModule \/ DispatchModule \/ KeepModule \/ DispatchAhead \/ SendNext \/ Answer
  <2>1. pc'["main"] = pc["main"]
    BY <1>9, QueueMoves DEF Handler
  <2>2. UNCHANGED <<endpoints, copied, offset>>
        /\ \/ pc'["queue"] = pc["queue"]
           \/ pc'["queue"] \in {"copy", "choose", "dispatch", "keep", "idle"}
           \/ pc["queue"] = "ahead" /\ pc'["queue"] = "next"
    BY <1>9, <1>p DEF ChooseModule, DispatchModule, KeepModule, DispatchAhead, SendNext,
         Answer, WatchReply, LoseWatch, PlayerReply, LosePlayer, shared, locals, At, Goto
  <2> QED
    BY <1>u, <2>1, <2>2
<1>10. CASE UNCHANGED playerVars
  BY <1>10, <1>u DEF playerVars, vars, shared, locals
<1> QED
  BY <1>1, <1>2, <1>3, <1>4, <1>5, <1>6, <1>7, <1>8, <1>9, <1>10
  DEF PlayerNext, Decide, Beside, Handler

\* The setter moves the target on, or leaves it at 0 while a playlist is being opened.
LEMMA TargetGrows ==
    ASSUME TypeOK, OpenInv, [PlayerNext]_playerVars
    PROVE  /\ target' \in Nat /\ target <= target'
           /\ target' = target \/ (AssignTarget /\ target' = target + 1)
<1>t. target \in Nat
  BY DEF TypeOK
<1>1. CASE target' = target
  BY <1>t, <1>1
<1>2. CASE AssignTarget
  <2>1. target' = arg /\ pc["main"] = "assign"
    BY <1>2 DEF AssignTarget, At
  <2>2. target' = (IF opening THEN 0 ELSE target + 1) /\ (opening => target = 0)
    BY <2>1 DEF OpenInv
  <2> QED
    BY <1>t, <1>2, <2>2
<1>3. target' = target \/ AssignTarget
  <2>1. Setter => AssignTarget \/ target' = target
    BY DEF Setter, TestTarget, Fetch, FetchCount, FetchAhead, FetchItem, FetchNext,
         ExtendList, EnablePrevious, shared
  <2>2. Handler \/ Answer => target' = target
    BY QueueMoves
  <2>3. PlayOrPause \/ SwitchVisual \/ SystemPause \/ TrackEnds => target' = target
    BY BesideQueue DEF vars, shared
  <2>4. Open \/ Install => target' = target
    BY DEF Open, SetPlaylist, Install, RunBlock
  <2>5. EndNoted => target' = target
    BY NotedMoves DEF vars, shared
  <2>6. UNCHANGED playerVars => target' = target
    BY DEF playerVars, vars, shared
  <2> QED
    BY <2>1, <2>2, <2>3, <2>4, <2>5, <2>6 DEF PlayerNext, Decide, Beside
<1> QED
  BY <1>1, <1>2, <1>3

\* What stands in the list stays there.
LEMMA FromKept ==
    ASSUME TypeOK, OpenInv, GrowInv, [PlayerNext]_playerVars,
           NEW m, NEW i \in Nat, NEW j \in Nat, i <= j, FromList(m, i)
    PROVE  \E n \in DOMAIN endpoints' : n <= j /\ m = endpoints'[n]
<1>1. PICK n \in DOMAIN endpoints : n <= i /\ m = endpoints[n]
  BY DEF FromList
<1>2. n \in DOMAIN endpoints' /\ m = endpoints'[n]
  BY <1>1, ListKept
<1>3. n \in Nat
  BY DEF TypeOK
<1> QED
  BY <1>1, <1>2, <1>3

\* What a thread asks for is in the list, no further than the place behind the target.
LEMMA SentFromList ==
    ASSUME TypeOK, GrowInv, NEW t \in Threads, Fetch(t), NEW m \in BagToSet(playerNet')
    PROVE  m \in BagToSet(playerNet) \/ FromList(m, target + 2)
<1>t. endpoints \in Seq(Items) /\ target \in Nat /\ Len(endpoints) \in Nat
      /\ DOMAIN endpoints = 1 .. Len(endpoints)
  BY DEF TypeOK
<1>1. CASE UNCHANGED playerNet
  BY <1>1
<1>2. CASE FetchItem(t) /\ ~UNCHANGED playerNet
  <2>1. Len(endpoints) # 0
    <3>1. endpoints # << >>
      BY <1>2 DEF FetchItem, At, GrowInv
    <3> QED
      BY <1>t, <3>1, EmptySeq
  <2>2. target < Len(endpoints) /\ playerNet' = playerNet (+) SetToBag({endpoints[target + 1]})
    BY <1>2, <2>1 DEF FetchItem, SendPlayer, Raise
  <2>3. m \in BagToSet(playerNet) \/ m = endpoints[target + 1]
    <3>1. BagToSet(playerNet (+) SetToBag({endpoints[target + 1]}))
              = BagToSet(playerNet) \cup {endpoints[target + 1]}
      BY SentBag
    <3> QED
      BY <2>2, <3>1
  <2>4. target + 1 \in DOMAIN endpoints /\ target + 1 <= target + 2
    BY <1>t, <2>2
  <2> QED
    BY <2>3, <2>4 DEF FromList
<1>3. CASE FetchNext(t) /\ ~UNCHANGED playerNet
  <2>1. /\ target + 1 < Len(endpoints)
        /\ playerNet' = playerNet (+) SetToBag({endpoints[target + 2]})
    BY <1>3 DEF FetchNext, SendPlayer
  <2>2. m \in BagToSet(playerNet) \/ m = endpoints[target + 2]
    <3>1. BagToSet(playerNet (+) SetToBag({endpoints[target + 2]}))
              = BagToSet(playerNet) \cup {endpoints[target + 2]}
      BY SentBag
    <3> QED
      BY <2>1, <3>1
  <2>3. target + 2 \in DOMAIN endpoints /\ target + 2 <= target + 2
    BY <1>t, <2>1
  <2> QED
    BY <2>2, <2>3 DEF FromList
<1> QED
  BY <1>1, <1>2, <1>3 DEF Fetch, FetchCount, FetchAhead

\* What is fetched is only passed on, but for what a thread asks for.
LEMMA FetchedMoves ==
    ASSUME TypeOK, OpenInv, GrowInv, [PlayerNext]_playerVars, NEW m \in Fetched'
    PROVE  m \in Fetched \/ FromList(m, target + 2)
<1>p. DOMAIN pc = {"main", "queue"} /\ target \in Nat
  BY DEF TypeOK, Threads
<1> DEFINE Holds == {"choose", "dispatch", "keep", "ahead", "behind"}
<1>u. ASSUME UNCHANGED <<playerNet, preemptive, answered>>,
             pc'["queue"] \in Holds => pc["queue"] \in Holds
      PROVE  m \in Fetched
  BY <1>u DEF Fetched
<1>1. CASE Open
  <2>1. preemptive' = {} /\ pc'["queue"] \notin Holds /\ UNCHANGED playerNet
    BY <1>1, <1>p, OpenStep
  <2> QED
    BY <2>1 DEF Fetched
<1>2. CASE PlayOrPause \/ SwitchVisual \/ SystemPause \/ TrackEnds
  BY <1>2, <1>u, BesideQueue DEF vars, shared, locals
<1>3. CASE Install
  BY <1>3, <1>u DEF Install, RunBlock, locals
<1>4. CASE EndNoted
  <2>1. UNCHANGED <<playerNet, preemptive, answered>> /\ pc'["queue"] = pc["queue"]
    BY <1>4, <1>p, NotedMoves DEF vars, shared, locals
  <2> QED
    BY <1>u, <2>1
<1>5. CASE TestTarget \/ AssignTarget \/ ExtendList \/ EnablePrevious
  <2>1. UNCHANGED <<playerNet, preemptive, answered>>
    BY <1>5 DEF TestTarget, AssignTarget, ExtendList, EnablePrevious, shared, locals
  <2>2. pc'["queue"] = pc["queue"]
    BY <1>5, SetterMoves DEF Setter
  <2> QED
    BY <1>u, <2>1, <2>2
<1>6. ASSUME NEW t \in Threads, Fetch(t)
      PROVE  m \in Fetched \/ FromList(m, target + 2)
  <2>1. preemptive' = preemptive
    BY <1>6 DEF Fetch, FetchCount, FetchAhead, FetchItem, FetchNext, shared
  <2>2. pc'["queue"] \in Holds => \/ pc["queue"] \in Holds /\ answered' = answered
                                 \/ answered' \in preemptive \/ FromList(answered', target + 2)
    <3>1. CASE FetchNext(t) /\ t = "queue" /\ target + 1 < Len(endpoints)
      <4>1. target + 1 < Len(endpoints) /\ answered' = endpoints[target + 2]
        BY <1>p, <3>1 DEF FetchNext, TypeOK
      <4>2. target + 2 \in DOMAIN endpoints /\ target + 2 <= target + 2
        BY <1>p, <4>1 DEF TypeOK
      <4> QED
        BY <4>1, <4>2 DEF FromList
    <3>2. CASE FetchNext(t) /\ ~(t = "queue" /\ target + 1 < Len(endpoints))
      <4>1. answered' = answered
        BY <3>2 DEF FetchNext
      <4>2. t = "queue" => pc'["queue"] = "idle"
        BY <1>p, <3>2 DEF FetchNext, Goto, AfterFetch
      <4>3. t = "main" => pc'["queue"] = pc["queue"]
        BY <1>p, <3>2 DEF FetchNext, Goto
      <4> QED
        BY <4>1, <4>2, <4>3 DEF Threads
    <3>3. CASE FetchCount(t) \/ FetchItem(t)
      BY <1>p, <3>3 DEF FetchCount, FetchItem, At, Goto, AfterFetch, Raise, Threads, locals
    <3>4. CASE FetchAhead(t)
      BY <1>p, <3>4 DEF FetchAhead, At, Goto, Threads
    <3> QED
      BY <1>6, <3>1, <3>2, <3>3, <3>4 DEF Fetch
  <2> QED
    BY <1>6, <2>1, <2>2, SentFromList DEF Fetched
<1>7. CASE CopyList \/ ReadOffset \/ WriteList
  <2>1. UNCHANGED <<playerNet, preemptive, answered>>
    BY <1>7 DEF CopyList, ReadOffset, WriteList, Raise, shared
  <2>2. pc'["queue"] \in {"offset", "merge", "fetch"}
    BY <1>7, <1>p DEF CopyList, ReadOffset, WriteList, Raise, At, Goto
  <2> QED
    BY <1>u, <2>1, <2>2
<1>8. CASE ChooseModule \/ DispatchModule \/ KeepModule \/ DispatchAhead
  <2>1. pc["queue"] \in Holds /\ UNCHANGED playerNet
    BY <1>8 DEF ChooseModule, DispatchModule, KeepModule, DispatchAhead, At
  <2>2. CASE ChooseModule
    BY <1>u, <2>1, <2>2 DEF ChooseModule, shared, locals
  <2>3. CASE DispatchModule \/ KeepModule \/ DispatchAhead
    <3>1. pc'["queue"] \in {"idle", "next"}
      BY <1>p, <2>3 DEF DispatchModule, KeepModule, DispatchAhead, At, Goto
    <3>2. preemptive' \subseteq preemptive \cup {answered}
      BY <2>3 DEF DispatchModule, KeepModule, DispatchAhead, shared
    <3> QED
      BY <2>1, <3>1, <3>2 DEF Fetched
  <2> QED
    BY <1>8, <2>2, <2>3
<1>12. CASE SendNext
  <2>1. pc["queue"] = "behind" /\ pc'["queue"] = "idle" /\ preemptive' = preemptive
    BY <1>p, <1>12 DEF SendNext, At, Goto, shared
  <2>2. endpoints # << >> /\ Len(endpoints) # 0
    <3>1. endpoints # << >>
      BY <2>1 DEF GrowInv, Threads
    <3> QED
      BY <3>1, EmptySeq DEF TypeOK
  <2>3. playerNet' = playerNet (+) SetToBag({answered})
    BY <1>12, <2>2 DEF SendNext, SendPlayer
  <2>4. BagToSet(playerNet (+) SetToBag({answered})) = BagToSet(playerNet) \cup {answered}
    BY SentBag
  <2> QED
    BY <2>1, <2>3, <2>4 DEF Fetched
<1>9. ASSUME NEW r, WatchReply(r) \/ LoseWatch(r)
      PROVE  m \in Fetched
  <2>1. UNCHANGED <<playerNet, preemptive, answered>>
    BY <1>9 DEF WatchReply, LoseWatch, shared, locals
  <2>2. pc'["queue"] \in {"idle", "copy"}
    BY <1>9, <1>p DEF WatchReply, LoseWatch, At, Goto
  <2> QED
    BY <1>u, <2>1, <2>2
<1>10. ASSUME NEW k \in BagToSet(playerNet), PlayerReply(k) \/ LosePlayer(k)
       PROVE  m \in Fetched
  <2>1. BagToSet(playerNet') \subseteq BagToSet(playerNet)
    BY <1>10, AnsweredBag DEF PlayerReply, LosePlayer
  <2>2. preemptive' = preemptive /\ (answered' = k \/ pc'["queue"] = "idle")
    BY <1>10 DEF PlayerReply, LosePlayer, shared, At
  <2> QED
    BY <2>1, <2>2 DEF Fetched
<1>11. CASE UNCHANGED playerVars
  BY <1>11, <1>u DEF playerVars, vars, shared, locals
<1> QED
  BY <1>1, <1>2, <1>3, <1>4, <1>5, <1>6, <1>7, <1>8, <1>9, <1>10, <1>11, <1>12
  DEF PlayerNext, Decide, Beside, Setter, Handler, Answer, Threads

\* Every step keeps what was fetched in the list, near the target.
LEMMA FetchedInvStep ==
    TypeOK /\ OpenInv /\ GrowInv /\ FetchedInv /\ [PlayerNext]_playerVars => FetchedInv'
<1> SUFFICES ASSUME TypeOK, OpenInv, GrowInv, FetchedInv, [PlayerNext]_playerVars,
                    NEW m \in Fetched'
             PROVE  FromList(m, target + 2)'
  BY DEF FetchedInv
<1>1. FromList(m, target + 2)
  BY FetchedMoves DEF FetchedInv
<1>2. target + 2 \in Nat /\ target' + 2 \in Nat /\ target + 2 <= target' + 2
  BY TargetGrows DEF TypeOK
<1> QED
  BY <1>1, <1>2, FromKept DEF FromList

\* A module waits to be installed because it was fetched for the target, by a thread that
\* is about to fetch or an answer being handled; and the first in line is installed.
LEMMA BlocksMove ==
    ASSUME TypeOK, [PlayerNext]_playerVars
    PROVE  \/ UNCHANGED <<blocks, current>>
           \/ Install /\ blocks # << >> /\ current' = {Head(blocks)} /\ blocks' = Tail(blocks)
           \/ /\ UNCHANGED <<current, target, notes, copy, visual>>
              /\ pc["main"] = "item" \/ pc["queue"] # "idle"
              /\ pc'["main"] \in {"test", "assign"} => pc["main"] \in {"test", "assign"}
              /\ \E m \in Fetched \cap Items : /\ blocks' = Append(blocks, m)
                                               /\ m.index = target \/ "overtaken" \in seen'
<1>p. DOMAIN pc = {"main", "queue"} /\ preemptive \subseteq Items /\ answered \in Items
  BY DEF TypeOK, Threads
<1> DEFINE Dispatched ==
        /\ UNCHANGED <<current, target, notes, copy, visual>>
        /\ pc["main"] = "item" \/ pc["queue"] # "idle"
        /\ pc'["main"] \in {"test", "assign"} => pc["main"] \in {"test", "assign"}
        /\ \E m \in Fetched \cap Items : /\ blocks' = Append(blocks, m)
                                         /\ m.index = target \/ "overtaken" \in seen'
<1>1. ASSUME FetchAhead("main"), UNCHANGED transport
      PROVE  Dispatched
  BY <1>1, <1>p DEF FetchAhead, IsTarget, shared, transport, Fetched, At, Goto
<1>2. ASSUME DispatchModule \/ DispatchAhead, UNCHANGED transport
      PROVE  Dispatched
  BY <1>2, <1>p DEF DispatchModule, DispatchAhead, shared, transport, Fetched, At, Goto
<1>3. ASSUME NEW t \in Threads, Fetch(t), ~(t = "main" /\ FetchAhead(t))
      PROVE  UNCHANGED <<blocks, current>>
  BY <1>3 DEF Fetch, FetchCount, FetchAhead, FetchItem, FetchNext, Raise, shared
<1>4. TestTarget \/ AssignTarget \/ ExtendList \/ EnablePrevious => UNCHANGED <<blocks, current>>
  BY DEF TestTarget, AssignTarget, ExtendList, EnablePrevious, shared
<1>5. CopyList \/ ReadOffset \/ WriteList \/ ChooseModule \/ KeepModule \/ SendNext \/ Answer
          => UNCHANGED <<blocks, current>>
  BY DEF CopyList, ReadOffset, WriteList, Raise, ChooseModule, KeepModule, SendNext, Answer,
         WatchReply, LoseWatch, PlayerReply, LosePlayer, shared
<1>6. Open => UNCHANGED <<blocks, current>>
  BY DEF Open, SetPlaylist
<1>7. PlayOrPause \/ SwitchVisual \/ SystemPause \/ TrackEnds => UNCHANGED <<blocks, current>>
  BY BesideQueue DEF vars, shared
<1>8. EndNoted => UNCHANGED <<blocks, current>>
  BY NotedMoves DEF vars, shared
<1>9. Install => blocks # << >> /\ current' = {Head(blocks)} /\ blocks' = Tail(blocks)
  BY DEF Install, RunBlock
<1>10. UNCHANGED playerVars => UNCHANGED <<blocks, current>>
  BY DEF playerVars, vars, shared
<1> QED
  BY <1>1, <1>2, <1>3, <1>4, <1>5, <1>6, <1>7, <1>8, <1>9, <1>10
  DEF PlayerNext, Decide, Beside, Setter, Handler, Threads

\* History is kept.
LEMMA SeenGrows ==
    ASSUME TypeOK, [PlayerNext]_playerVars
    PROVE  seen \subseteq seen'
<1>1. Setter => seen \subseteq seen'
  BY DEF Setter, TestTarget, AssignTarget, Fetch, FetchCount, FetchAhead, FetchItem, FetchNext,
         ExtendList, EnablePrevious, history
<1>2. Handler => seen \subseteq seen'
  BY DEF Handler, CopyList, ReadOffset, WriteList, Fetch, FetchCount, FetchAhead, FetchItem,
         FetchNext, ChooseModule, DispatchModule, KeepModule, DispatchAhead, SendNext, history
<1>3. Answer => seen \subseteq seen'
  BY DEF Answer, WatchReply, LoseWatch, PlayerReply, LosePlayer, history
<1>4. PlayOrPause \/ SwitchVisual \/ SystemPause \/ TrackEnds => UNCHANGED seen
  BY BesideQueue DEF vars, history
<1>5. Open \/ Install => UNCHANGED seen
  BY DEF Open, SetPlaylist, Install, RunBlock, history
<1>6. EndNoted => UNCHANGED seen
  BY NotedMoves DEF vars, history
<1>7. UNCHANGED playerVars => UNCHANGED seen
  BY DEF playerVars, vars, history
<1> QED
  BY <1>1, <1>2, <1>3, <1>4, <1>5, <1>6, <1>7 DEF PlayerNext, Decide, Beside

\* Every step keeps what was chosen no further on than it was when it was chosen.
LEMMA ChosenInvStep ==
    TypeOK /\ OpenInv /\ GrowInv /\ FetchedInv /\ ChosenInv /\ [PlayerNext]_playerVars
        => ChosenInv'
<1> SUFFICES ASSUME TypeOK, OpenInv, GrowInv, FetchedInv, ChosenInv, [PlayerNext]_playerVars,
                    "overtaken" \notin seen', NEW m \in current' \cup Elems(blocks')
             PROVE  FromList(m, m.index + 2)'
  BY DEF ChosenInv, Elems
<1>t. blocks \in Seq(Items) /\ current \subseteq Items /\ target \in Nat
  BY DEF TypeOK
<1>1. \A k \in current \cup Elems(blocks) : k \in Items /\ FromList(k, k.index + 2)
  <2>1. "overtaken" \notin seen
    BY SeenGrows
  <2> QED
    BY <1>t, <2>1 DEF ChosenInv, Elems
<1>2. m \in Items /\ FromList(m, m.index + 2)
  <2>1. CASE UNCHANGED <<blocks, current>>
    BY <1>1, <2>1
  <2>2. CASE blocks # << >> /\ current' = {Head(blocks)} /\ blocks' = Tail(blocks)
    BY <1>1, <1>t, <2>2, ElemsTail
  <2>3. ASSUME UNCHANGED current, NEW k \in Fetched \cap Items,
               blocks' = Append(blocks, k), k.index = target
        PROVE  m \in Items /\ FromList(m, m.index + 2)
    <3>1. m = k \/ m \in current \cup Elems(blocks)
      BY <1>t, <2>3, ElemsAppend
    <3>2. FromList(k, k.index + 2)
      BY <2>3 DEF FetchedInv
    <3> QED
      BY <1>1, <2>3, <3>1, <3>2
  <2> QED
    BY <2>1, <2>2, <2>3, BlocksMove
<1>3. m.index + 2 \in Nat /\ m.index + 2 <= m.index + 2
  BY <1>2 DEF Items
<1> QED
  BY <1>2, <1>3, FromKept DEF FromList

\* What is dispatched for the higher index goes behind the others in order.
LEMMA OrderAppend ==
    ASSUME NEW s \in Seq(Items), NEW x \in Items, NEW low \in Nat, NEW high \in Nat,
           low <= high, x.index = high, high # 0, InOrder(s, low, high)
    PROVE  InOrder(Append(s, x), low, high)
<1>1. /\ Len(s) \in Nat /\ DOMAIN s = 1 .. Len(s)
      /\ DOMAIN Append(s, x) = 1 .. Len(s) + 1
      /\ Append(s, x)[Len(s) + 1] = x
      /\ \A n \in 1 .. Len(s) : Append(s, x)[n] = s[n]
  BY AppendProperties, LenProperties
<1>2. \A n \in 1 .. Len(s) : s[n].index \in {low, high} /\ s[n].index <= high
  BY <1>1 DEF InOrder
<1>3. ASSUME NEW i \in 1 .. Len(s) + 1
      PROVE  /\ Append(s, x)[i].index \in {low, high} /\ Append(s, x)[i].index # 0
             /\ \A j \in 1 .. i : Append(s, x)[j].index <= Append(s, x)[i].index
  <2>1. CASE i \in 1 .. Len(s)
    <3>1. \A j \in 1 .. i : j \in 1 .. Len(s)
      BY <1>1, <2>1
    <3> QED
      BY <1>1, <2>1, <3>1 DEF InOrder
  <2>2. CASE i = Len(s) + 1
    <3>1. \A j \in 1 .. i : j \in 1 .. Len(s) \/ j = Len(s) + 1
      BY <1>1, <2>2
    <3> QED
      BY <1>1, <1>2, <2>2, <3>1
  <2> QED
    BY <1>1, <2>1, <2>2
<1> QED
  BY <1>1, <1>3 DEF InOrder

\* Once the head plays, nothing that waits is behind it.
LEMMA OrderTail ==
    ASSUME NEW s \in Seq(Items), s # << >>, NEW low \in Nat, NEW high \in {low, low + 1},
           InOrder(s, low, high)
    PROVE  /\ Head(s) \in Items /\ Head(s).index \in {low, high} /\ Head(s).index # 0
           /\ InOrder(Tail(s), Head(s).index, high)
<1>1. /\ Len(s) \in Nat \ {0} /\ DOMAIN s = 1 .. Len(s) /\ Head(s) = s[1]
      /\ DOMAIN Tail(s) = 1 .. Len(s) - 1
      /\ \A n \in 1 .. Len(s) - 1 : Tail(s)[n] = s[n + 1]
  BY EmptySeq, LenProperties
<1>2. 1 \in DOMAIN s
  BY <1>1
<1>3. s[1] \in Items /\ s[1].index \in {low, high} /\ s[1].index # 0
  BY <1>2 DEF InOrder
<1>4. ASSUME NEW i \in 1 .. Len(s) - 1
      PROVE  /\ s[i + 1].index \in {s[1].index, high} /\ s[i + 1].index # 0
             /\ \A j \in 1 .. i : s[j + 1].index <= s[i + 1].index
  <2>1. i + 1 \in DOMAIN s /\ 1 \in 1 .. i + 1 /\ \A j \in 1 .. i : j + 1 \in 1 .. i + 1
    BY <1>1
  <2>2. /\ s[i + 1].index \in {low, high} /\ s[i + 1].index # 0
        /\ \A j \in 1 .. i : s[j + 1].index <= s[i + 1].index
        /\ s[1].index <= s[i + 1].index
    BY <2>1 DEF InOrder
  <2> QED
    BY <1>3, <2>2
<1>5. \A i \in 1 .. Len(s) - 1 : \A j \in 1 .. i : j \in 1 .. Len(s) - 1
  BY <1>1
<1> QED
  BY <1>1, <1>3, <1>4, <1>5 DEF InOrder

\* The steps after which the player is still left alone.
LEMMA SoloKept ==
    ASSUME TypeOK, OpenInv, [PlayerNext]_playerVars, Solo'
    PROVE  Solo \/ (TrackEnds /\ Quiet /\ OnTarget)
<1>1. seen' \cap {"lost", "overtaken"} = {} => seen \cap {"lost", "overtaken"} = {}
  BY SeenGrows
<1>2. alone' => alone \/ (TrackEnds /\ Quiet /\ OnTarget)
  BY NotedMoves DEF PlayerNext, Open, PlayOrPause, SwitchVisual, Decide, Beside, Install,
     SystemPause, TrackEnds, playerVars
<1>3. crossed => crossed'
  <2>1. Open \/ Decide \/ UNCHANGED playerVars => (crossed => crossed')
    BY DEF Open, Decide, Beside, transport, playerVars
  <2>2. PlayOrPause \/ SystemPause \/ TrackEnds => (crossed => crossed')
    BY DEF PlayOrPause, Transport!Play, Transport!Pause, Transport!TogglePlayPause,
       SystemPause, Transport!SystemPause, TrackEnds, Transport!TrackEnds
  <2>3. SwitchVisual \/ Install => (crossed => crossed')
    BY DEF SwitchVisual, Transport!SwitchVisual, Install, Transport!SetCurrentModule
  <2>4. EndNoted => (crossed => crossed')
    BY NotedMoves
  <2> QED
    BY <2>1, <2>2, <2>3, <2>4 DEF PlayerNext
<1> QED
  BY <1>1, <1>2, <1>3 DEF Solo

\* Left alone before the target is 0 no more, the player does nothing but try next.
LEMMA BeforeStep ==
    ASSUME TypeOK, OpenInv, OrderInv, [PlayerNext]_playerVars, alone', target' = 0
    PROVE  /\ watchNet' = EmptyBag /\ playerNet' = EmptyBag /\ pc'["queue"] = "idle"
           /\ pc'["main"] \notin {"fetch", "item", "next", "extend"}
<1>p. DOMAIN pc = {"main", "queue"} /\ target \in Nat
  BY DEF TypeOK, Threads
<1> DEFINE Calmly == /\ watchNet = EmptyBag /\ playerNet = EmptyBag /\ pc["queue"] = "idle"
                     /\ pc["main"] \notin {"fetch", "item", "next", "extend"}
<1>1. target = 0
  BY <1>p, TargetGrows
<1>2. CASE TrackEnds
  <2>1. Calmly
    BY <1>1, <1>2 DEF TrackEnds, OnMain, At, OrderInv, Quiet, Threads
  <2>2. UNCHANGED vars
    BY <1>2, BesideQueue
  <2> QED
    BY <2>1, <2>2 DEF vars
<1>3. ASSUME alone
      PROVE  Calmly
  BY <1>1, <1>3 DEF OrderInv
<1>4. CASE PlayOrPause \/ Open
  BY <1>4, OpenStep DEF PlayOrPause
<1>5. CASE SwitchVisual \/ SystemPause \/ UNCHANGED playerVars
  <2>1. alone /\ UNCHANGED vars
    BY <1>5, BesideQueue DEF SwitchVisual, SystemPause, playerVars
  <2> QED
    BY <1>3, <2>1 DEF vars
<1>6. CASE Install
  BY <1>3, <1>6 DEF Install, RunBlock
<1>7. CASE EndNoted
  <2>1. alone
    BY <1>7, NotedMoves
  <2> QED
    BY <1>3, <1>7, <1>p, <2>1, NotedMoves DEF vars
<1>8. CASE Decide
  <2>1. alone /\ Calmly
    BY <1>3, <1>8 DEF Decide, Beside
  <2>2. ~Answer
    BY <2>1, OneInBag DEF Answer
  <2>3. ~Handler
    BY <2>1 DEF Handler, CopyList, ReadOffset, WriteList, Fetch, FetchCount, FetchAhead,
       FetchItem, FetchNext, ChooseModule, DispatchModule, KeepModule, DispatchAhead,
         SendNext, At
  <2>4. TestTarget \/ AssignTarget \/ EnablePrevious
    BY <1>8, <2>1, <2>2, <2>3 DEF Decide, Beside, Setter, ExtendList, Fetch, FetchCount,
       FetchAhead, FetchItem, FetchNext, At
  <2>5. ~AssignTarget
    <3>1. CASE AssignTarget
      <4>1. target' = arg /\ arg = target + 1
        BY <2>1, <3>1 DEF AssignTarget, At, OpenInv
      <4> QED
        BY <1>p, <4>1
    <3> QED
      BY <3>1
  <2> QED
    BY <1>p, <2>1, <2>4, <2>5 DEF TestTarget, EnablePrevious, At, Goto
<1> QED
  BY <1>2, <1>4, <1>5, <1>6, <1>7, <1>8 DEF PlayerNext

\* What is ours depends on the module that plays and the form it plays in.
LEMMA SameIsOurs ==
    ASSUME UNCHANGED <<current, copy, visual>>, NEW o
    PROVE  Transport!IsOurs(o)' <=> Transport!IsOurs(o)
BY DEF Transport!IsOurs, Transport!PlayerItem, Transport!Form, Transport!Visuals, Module

\* Steps that leave alone what plays, what waits and the target.
LEMMA AlongKept ==
    ASSUME UNCHANGED <<current, target, blocks>>, NEW m, Along(m),
           UNCHANGED <<copy, visual>> \/ notes = {}, notes' \subseteq notes,
           pc'["main"] \in {"test", "assign"} => pc["main"] \in {"test", "assign"}
    PROVE  Along(m)'
<1>1. \A n \in notes' : n \in notes /\ (Transport!IsOurs(n.object)' => Transport!IsOurs(n.object))
  BY SameIsOurs
<1>2. InOrder(blocks, m.index, target)'
  BY DEF Along, InOrder
<1>3. \A n \in notes' : n \in notes
  OBVIOUS
<1> QED
  BY <1>1, <1>2 DEF Along

\* Left alone, each step keeps the player going along the list: a track that ends makes
\* the target's end pending, its notification makes the setter move the target by one, and
\* what is dispatched for the target is installed behind what waits.
LEMMA AlongStep ==
    ASSUME TypeOK, Transport!TransportInv, OpenInv, FetchedInv, OrderInv,
           [PlayerNext]_playerVars, Solo'
    PROVE  \E m \in current' : Along(m)'
<1>p. /\ DOMAIN pc = {"main", "queue"} /\ target \in Nat /\ current \subseteq Items
      /\ blocks \in Seq(Items)
  BY DEF TypeOK, Threads
<1>i. \A m \in current : m.index \in Nat
  BY <1>p DEF Items
<1>s. SUFFICES ASSUME ~Solo => TrackEnds /\ Quiet /\ OnTarget
               PROVE  \E m \in current' : Along(m)'
  BY SoloKept
<1>1. CASE TrackEnds
  <2>1. /\ UNCHANGED <<vars, copy, visual>> /\ OnTarget
        /\ pc["main"] = "idle"
    BY <1>1, BesideQueue DEF TrackEnds, Transport!TrackEnds, OnMain, Solo, At
  <2>2. PICK m \in current : m.index = target
    BY <2>1 DEF OnTarget
  <2>3. InOrder(blocks, m.index, target)
    <3>1. CASE Solo
      BY <2>2, <3>1 DEF OrderInv, Along
    <3>2. CASE Quiet
      BY <3>2 DEF Quiet, InOrder
    <3> QED
      BY <1>s, <3>1, <3>2
  <2>4. InOrder(blocks, m.index, target)'
    BY <2>1, <2>3 DEF InOrder, vars, shared
  <2>5. UNCHANGED <<current, target, pc>>
    BY <2>1 DEF vars, shared
  <2> QED
    BY <1>i, <2>1, <2>2, <2>4, <2>5 DEF Along
<1>2. ASSUME Solo
      PROVE  \E m \in current : Along(m)
  BY <1>2 DEF OrderInv
<1>3. CASE Install
  <2>1. PICK m \in current : Along(m)
    BY <1>s, <1>2, <1>3 DEF Install, RunBlock, TrackEnds, OnMain, vars, shared, At
  <2> DEFINE k == Head(blocks)
  <2>2. /\ blocks # << >> /\ current' = {k} /\ blocks' = Tail(blocks) /\ target' = target
        /\ pc["main"] = "idle" /\ pc' = pc
    BY <1>3 DEF Install, RunBlock, At
  <2>3. notes' = {}
    BY <1>3 DEF Install, Transport!SetCurrentModule, Solo
  <2>4. m.index \in Nat /\ target \in {m.index, m.index + 1} /\ InOrder(blocks, m.index, target)
    BY <1>i, <2>1 DEF Along
  <2>5. k \in Items /\ k.index \in {m.index, target} /\ InOrder(Tail(blocks), k.index, target)
    BY <1>p, <2>2, <2>4, OrderTail
  <2>6. target \in {k.index, k.index + 1}
    BY <2>4, <2>5
  <2> HIDE DEF k
  <2>7. ASSUME NEW j, j = k
        PROVE  Along(j)'
    BY <2>2, <2>3, <2>5, <2>6, <2>7 DEF Along, InOrder
  <2> QED
    BY <2>2, <2>7
<1>4. CASE EndNoted
  <2>1. pc["main"] = "idle" /\ UNCHANGED <<alone, copy, visual, crossed>>
    BY <1>4, NotedMoves DEF EndNoted, Transport!EndNoted
  <2>2. PICK n \in notes :
            /\ notes' = notes \ {n}
            /\ \/ UNCHANGED vars
               \/ /\ Transport!IsOurs(n.object) /\ pc' = [pc EXCEPT !["main"] = "test"]
                  /\ UNCHANGED <<shared, blocks, seen>>
    BY <1>4, NotedMoves
  <2>3. PICK m \in current : Along(m)
    <3>1. UNCHANGED seen
      BY <2>2 DEF vars, history
    <3>2. Solo
      BY <2>1, <3>1 DEF Solo
    <3> QED
      BY <1>2, <3>2
  <2>4. CASE UNCHANGED vars
    <3>1. Along(m)'
      BY <2>1, <2>2, <2>3, <2>4, AlongKept DEF vars, shared
    <3> QED
      BY <2>4, <3>1 DEF vars, shared
  <2>5. CASE /\ Transport!IsOurs(n.object) /\ pc' = [pc EXCEPT !["main"] = "test"]
             /\ UNCHANGED <<shared, blocks, seen>>
    <3>1. ~crossed
      BY <2>1 DEF Solo
    <3>2. \A b \in notes' : ~Transport!IsOurs(b.object)
      BY <2>2, <2>5, <3>1 DEF Transport!TransportInv, Transport!EndInv
    <3>3. \A b \in notes' : ~Transport!IsOurs(b.object)'
      BY <2>1, <2>5, <3>2, SameIsOurs DEF shared
    <3>4. target = m.index /\ InOrder(blocks, m.index, target)
      BY <2>3, <2>5 DEF Along
    <3>5. Along(m)'
      BY <1>i, <2>5, <3>3, <3>4 DEF Along, InOrder, shared
    <3> QED
      BY <2>5, <3>5 DEF shared
  <2> QED
    BY <2>2, <2>4, <2>5
<1>5. ASSUME AssignTarget, UNCHANGED transport
      PROVE  \E m \in current' : Along(m)'
  <2>1. /\ pc["main"] = "assign" /\ pc'["main"] = "fetch" /\ target' = arg
        /\ UNCHANGED <<current, blocks, seen>>
    BY <1>5, <1>p DEF AssignTarget, At, Goto, history
  <2>2. PICK m \in current : Along(m)
    BY <1>s, <1>2, <2>1 DEF TrackEnds, OnMain, At
  <2>3. target = m.index /\ InOrder(blocks, m.index, target)
        /\ \A n \in notes : ~Transport!IsOurs(n.object)
    BY <2>1, <2>2 DEF Along
  <2>4. target' = m.index + 1
    <3>1. Solo
      BY <1>s, <2>1 DEF TrackEnds, OnMain, At
    <3> QED
      BY <2>1, <2>3, <3>1 DEF OpenInv, Solo
  <2>5. UNCHANGED <<notes, copy, visual>>
    BY <1>5 DEF transport
  <2>6. \A n \in notes' : ~Transport!IsOurs(n.object)'
    BY <2>1, <2>3, <2>5, SameIsOurs
  <2>7. Along(m)'
    BY <2>1, <2>3, <2>4, <2>6 DEF Along, InOrder
  <2> QED
    BY <2>1, <2>2, <2>7
<1>6. ASSUME UNCHANGED <<current, target, notes, copy, visual>>,
             pc["main"] = "item" \/ pc["queue"] # "idle",
             pc'["main"] \in {"test", "assign"} => pc["main"] \in {"test", "assign"},
             NEW x \in Items, blocks' = Append(blocks, x),
             x.index = target \/ "overtaken" \in seen'
      PROVE  \E m \in current' : Along(m)'
  <2>1. Solo /\ x.index = target
    <3>1. ~(TrackEnds /\ Quiet)
      BY <1>6 DEF TrackEnds, OnMain, At, Quiet, Threads
    <3> QED
      BY <1>s, <1>6, <3>1 DEF Solo
  <2>2. target # 0
    BY <1>6, <2>1 DEF OrderInv, Solo
  <2>3. PICK m \in current : Along(m)
    BY <1>2, <2>1
  <2>4. m.index \in Nat /\ target \in {m.index, m.index + 1} /\ InOrder(blocks, m.index, target)
    BY <1>i, <2>3 DEF Along
  <2>5. InOrder(Append(blocks, x), m.index, target)
    BY <1>p, <1>6, <2>1, <2>2, <2>4, OrderAppend
  <2>6. InOrder(blocks, m.index, target)'
    BY <1>6, <2>5 DEF InOrder
  <2>7. \A n \in notes' : Transport!IsOurs(n.object)' <=> Transport!IsOurs(n.object)
    BY <1>6, SameIsOurs
  <2>8. Along(m)'
    BY <1>6, <2>3, <2>6, <2>7 DEF Along
  <2> QED
    BY <1>6, <2>3, <2>8
<1>7. ASSUME Solo, UNCHANGED <<current, target, blocks>>,
             UNCHANGED <<copy, visual>> \/ notes = {}, notes' \subseteq notes,
             pc'["main"] \in {"test", "assign"} => pc["main"] \in {"test", "assign"}
      PROVE  \E m \in current' : Along(m)'
  <2>1. PICK m \in current : Along(m)
    BY <1>2, <1>7
  <2>2. Along(m)'
    BY <1>7, <2>1, AlongKept
  <2> QED
    BY <1>7, <2>1, <2>2
<1>8. CASE ~TrackEnds /\ UNCHANGED <<blocks, current>> /\ ~Install /\ ~EndNoted
              /\ ~(AssignTarget /\ UNCHANGED transport)
  <2>1. Solo
    BY <1>s, <1>8
  <2>2. ~PlayOrPause /\ ~Open
    BY OpenStep DEF PlayOrPause, Solo
  <2>3. CASE Decide
    <3>1. UNCHANGED target /\ UNCHANGED transport
      BY <1>8, <2>3, TargetGrows DEF Decide, Beside
    <3>2. pc'["main"] \in {"test", "assign"} => pc["main"] \in {"test", "assign"}
      BY <2>3, SetterMoves, QueueMoves DEF Decide, Beside
    <3> QED
      BY <1>7, <1>8, <2>1, <3>1, <3>2 DEF transport
  <2>4. CASE SwitchVisual
    BY <1>7, <2>1, <2>4, BesideQueue DEF SwitchVisual, Transport!SwitchVisual, vars, shared
  <2>5. CASE SystemPause
    BY <1>7, <2>1, <2>5, BesideQueue DEF SystemPause, Transport!SystemPause, vars, shared, OnMain,
       Touch
  <2>6. CASE UNCHANGED playerVars
    BY <1>7, <2>1, <2>6 DEF playerVars, vars, shared, transport
  <2> QED
    BY <1>8, <2>2, <2>3, <2>4, <2>5, <2>6 DEF PlayerNext
<1> QED
  BY <1>1, <1>3, <1>4, <1>5, <1>6, <1>8, BlocksMove

\* Every step keeps what plays, what waits and the target in order.
LEMMA OrderInvStep ==
    TypeOK /\ Transport!TransportInv /\ OpenInv /\ FetchedInv /\ OrderInv
        /\ [PlayerNext]_playerVars => OrderInv'
<1> SUFFICES ASSUME TypeOK, Transport!TransportInv, OpenInv, FetchedInv, OrderInv,
                    [PlayerNext]_playerVars
             PROVE  OrderInv'
  OBVIOUS
<1>1. \A m, k \in current' : m = k
  BY BlocksMove DEF OrderInv
<1> QED
  BY <1>1, BeforeStep, AlongStep DEF OrderInv

\* No two modules of the list have the same index, but for 0, as long as each stands at
\* one of the two places where it can be fetched.
LEMMA OneOfIndex ==
    ASSUME TypeOK, Numbered(endpoints), NEW m, NEW k, m.index = k.index,
           m.index # 0, m.index \in Nat, FromList(m, m.index + 2), FromList(k, k.index + 2)
    PROVE  m = k
<1>1. PICK a \in DOMAIN endpoints : a <= m.index + 2 /\ m = endpoints[a]
  BY DEF FromList
<1>2. PICK b \in DOMAIN endpoints : b <= m.index + 2 /\ k = endpoints[b]
  BY DEF FromList
<1> DEFINE i == m.index
<1>3. a \in Nat /\ b \in Nat /\ i \in Nat \ {0} /\ a > i /\ b > i
  BY <1>1, <1>2 DEF Numbered, TypeOK
<1>4. a \in {i + 1, i + 2} /\ b \in {i + 1, i + 2}
  BY <1>1, <1>2, <1>3
<1>5. ASSUME i + 1 \in DOMAIN endpoints, i + 2 \in DOMAIN endpoints
      PROVE  endpoints[i + 1].index # i \/ endpoints[i + 2].index # i
  <2>1. /\ i + 1 \in DOMAIN endpoints \ {1} /\ (i + 1) + 1 = i + 2 /\ (i + 1) - 1 = i
    BY <1>3, <1>5
  <2> QED
    BY <1>5, <2>1 DEF Numbered
<1> QED
  BY <1>1, <1>2, <1>4, <1>5

\* The invariants behind HeardInOrder hold, whatever the replies and their order.
THEOREM SoloInvariant ==
    ASSUME NativeEnds = {"hls"}
    PROVE  PlayerSpec => []SoloInv
<1>1. PlayerInit => SoloInv
  <2> SUFFICES ASSUME PlayerInit
               PROVE  SoloInv
    OBVIOUS
  <2>1. BagToSet(playerNet) = {}
    BY OneInBag DEF PlayerInit, Init
  <2>2. OpenInv
    BY DEF PlayerInit, Init, Transport!Init, OpenInv, Threads
  <2>3. GrowInv
    BY DEF PlayerInit, Init, GrowInv, Numbered, Threads
  <2>4. FetchedInv /\ ChosenInv /\ OrderInv
    BY <2>1 DEF PlayerInit, Init, FetchedInv, Fetched, ChosenInv, OrderInv, Solo, Threads
  <2> QED
    BY <2>2, <2>3, <2>4 DEF SoloInv
<1>2. TypeOK /\ Transport!TransportInv /\ SoloInv /\ [PlayerNext]_playerVars => SoloInv'
  BY OpenInvStep, GrowInvStep, FetchedInvStep, ChosenInvStep, OrderInvStep DEF SoloInv
<1>3. PlayerSpec => []TypeOK
  BY QueueInside, TypeCorrect, PTL DEF KeepsQueue
<1> QED
  BY <1>1, <1>2, <1>3, TransportInvariantInside, PTL DEF PlayerSpec

\* Left alone, the player goes through the list in order: it skips nothing and goes back
\* to nothing, on the conditions the property names, for lists of any length.
THEOREM PlaysInOrder ==
    ASSUME NativeEnds = {"hls"}
    PROVE  PlayerSpec => HeardInOrder
<1> DEFINE InTurn == Solo /\ current # {} /\ current' # current =>
                         \A m \in current, k \in current' : k.index = m.index + 1
<1>1. ASSUME TypeOK, SoloInv, [PlayerNext]_playerVars, Solo, current' # current,
             NEW m \in current, NEW k \in current'
      PROVE  k.index = m.index + 1
  <2>t. blocks \in Seq(Items) /\ m \in Items /\ m.index \in Nat
    BY <1>1 DEF TypeOK, Items
  <2>1. blocks # << >> /\ current' = {Head(blocks)}
    BY <1>1, BlocksMove
  <2>2. current = {m} /\ Along(m)
    BY <1>1 DEF SoloInv, OrderInv
  <2>3. target \in {m.index, m.index + 1} /\ InOrder(blocks, m.index, target)
    BY <2>2 DEF Along
  <2>4. k.index \in {m.index, target} /\ k.index # 0
    <3>1. Head(blocks).index \in {m.index, target} /\ Head(blocks).index # 0
      BY <2>t, <2>1, <2>3, OrderTail
    <3>2. k = Head(blocks)
      BY <1>1, <2>1
    <3> QED
      BY <3>1, <3>2
  <2>5. k # m
    BY <1>1, <2>1, <2>2
  <2>6. FromList(m, m.index + 2) /\ FromList(k, k.index + 2) /\ Numbered(endpoints)
    <3>1. k = blocks[1] /\ 1 \in DOMAIN blocks
      BY <1>1, <2>t, <2>1, EmptySeq
    <3> QED
      BY <1>1, <3>1 DEF SoloInv, GrowInv, ChosenInv, Solo
  <2>7. k.index # m.index
    BY <1>1, <2>t, <2>4, <2>5, <2>6, OneOfIndex
  <2> QED
    BY <2>3, <2>4, <2>7
<1>2. TypeOK /\ SoloInv /\ [PlayerNext]_playerVars => InTurn
  BY <1>1
<1>3. PlayerSpec => []TypeOK
  BY QueueInside, TypeCorrect, PTL DEF KeepsQueue
<1>4. InTurn => [(alone /\ ~crossed /\ seen \cap {"lost", "overtaken"} = {}
                     /\ current # {} /\ current' # current) =>
                         \A m \in current, k \in current' : k.index = m.index + 1]_playerVars
  BY DEF Solo
<1> HIDE DEF InTurn
<1> QED
  BY <1>2, <1>3, <1>4, SoloInvariant, PTL DEF PlayerSpec, HeardInOrder
=============================================================================
