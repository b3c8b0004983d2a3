-------------------------- MODULE ResultsTable_proofs --------------------------
(***************************************************************************)
(* The table of LMViewController, for any queries, any sizes of answers    *)
(* and any number of operations.                                           *)
(***************************************************************************)
EXTENDS ResultsTable, SequenceTheorems, TLAPS

\* The blocks that wait, as one is dispatched or runs.
LEMMA BlocksLemma ==
    ASSUME NEW S \in SUBSET {"home", "search"}, NEW b \in Seq(S)
    PROVE  /\ \A x \in S : Append(b, x) \in Seq(S) /\ Range(Append(b, x)) = Range(b) \cup {x}
           /\ b # << >> => /\ Head(b) \in Range(b) /\ Tail(b) \in Seq(S)
                           /\ Range(Tail(b)) \subseteq Range(b)
           /\ Range(b) \subseteq S
<1>1. \A x \in S : Append(b, x) \in Seq(S) /\ Range(Append(b, x)) = Range(b) \cup {x}
  <2> SUFFICES ASSUME NEW x \in S
               PROVE  Append(b, x) \in Seq(S) /\ Range(Append(b, x)) = Range(b) \cup {x}
    OBVIOUS
  <2>1. /\ Append(b, x) \in Seq(S) /\ Len(Append(b, x)) = Len(b) + 1 /\ Len(b) \in Nat
        /\ \A i \in 1 .. Len(b) : Append(b, x)[i] = b[i]
        /\ Append(b, x)[Len(b) + 1] = x
    OBVIOUS
  <2>2. DOMAIN Append(b, x) = 1 .. Len(b) + 1 /\ DOMAIN b = 1 .. Len(b)
    BY <2>1
  <2> QED
    BY <2>1, <2>2 DEF Range
<1>2. ASSUME b # << >>
      PROVE  Head(b) \in Range(b) /\ Tail(b) \in Seq(S) /\ Range(Tail(b)) \subseteq Range(b)
  <2>1. /\ Head(b) = b[1] /\ Tail(b) \in Seq(S) /\ Len(Tail(b)) = Len(b) - 1
        /\ Len(b) \in Nat \ {0}
        /\ \A i \in 1 .. Len(b) - 1 : Tail(b)[i] = b[i + 1]
    BY <1>2
  <2>2. DOMAIN Tail(b) = 1 .. Len(b) - 1 /\ DOMAIN b = 1 .. Len(b)
    BY <2>1
  <2> QED
    BY <2>1, <2>2 DEF Range
<1>3. Range(b) \subseteq S
  <2>1. \A i \in DOMAIN b : b[i] \in S
    OBVIOUS
  <2> QED
    BY <2>1 DEF Range
<1> QED
  BY <1>1, <1>2, <1>3

\* The table begins empty.
LEMMA InitLemma == Init => TableInv
<1> SUFFICES ASSUME Init PROVE TableInv
  OBVIOUS
<1>1. Range(<< >>) = {}
  BY DEF Range
<1>2. BarRows = 0 /\ Nil \in Models /\ Home \in [for : {"home"} \cup Queries, n : Nat]
  BY DEF Init, BarRows, Nil, Models, Home
<1>3. table.bar = 0 /\ table.results = Nil /\ table.home = Nil
      /\ table \in [bar : {0, 1}, results : Models, home : Models]
  BY <1>2 DEF Init
<1>6. << >> \in Seq({"home", "search"})
  OBVIOUS
<1>9. /\ net \subseteq [for : {"home"} \cup Queries, n : Nat]
      /\ asked \in [for : {"nil"} \cup Queries, n : Nat]
  BY <1>2 DEF Init
<1>7. TypeOK
  <2>1. selected \subseteq [section : {"results", "home"}, row : Nat \ {0}]
        /\ played \subseteq [of : {"home"} \cup Queries, row : Nat \ {0}]
        /\ missed \subseteq [for : {"home"} \cup Queries, n : Nat]
    BY DEF Init
  <2> QED
    BY <1>2, <1>3, <1>6, <1>9, <2>1 DEF Init, TypeOK
<1>8. HomeInv
  <2>1. /\ net \subseteq {Home} /\ searchModels = Nil /\ playlistModels = Nil
        /\ ~show /\ ~button /\ main = "idle" /\ raised = "no" /\ queue = "idle" /\ blocks = << >>
    BY DEF Init
  <2>2. << >> \in Seq({"home"})
    OBVIOUS
  <2> QED
    BY <1>3, <2>1, <2>2 DEF HomeInv
<1>4. ~Arriving
  BY <1>1 DEF Init, Arriving
<1>5. ResultInv /\ WantedInv /\ TappedInv /\ MarkedIsPlaying /\ RowsThere /\ UpdatesValid
  BY <1>4 DEF Init, ResultInv, WantedInv, TappedInv, MarkedIsPlaying, Reloading, RowsThere, UpdatesValid,
     ResultRows, Nil
<1> QED
  BY <1>5, <1>7, <1>8 DEF TableInv

\* Before the home tab is shown nothing else is.
LEMMA HasBar ==
    ASSUME TypeOK, HomeInv,
           \/ show \/ button \/ main # "idle" \/ raised # "no" \/ Arriving
           \/ \E r \in net : r.for \in Queries
    PROVE  table.bar = 1
<1>1. table.bar \in {0, 1}
  BY DEF TypeOK
<1>2. ASSUME table.bar = 0 PROVE FALSE
  <2>1. Range(blocks) \subseteq {"home"}
    <3>1. blocks \in Seq({"home"})
      BY <1>2 DEF HomeInv
    <3> QED
      BY <3>1, BlocksLemma
  <2>2. ~Arriving
    BY <1>2, <2>1 DEF HomeInv, Arriving
  <2>3. \A r \in net : r.for \notin Queries
    BY <1>2, QueryAssumption DEF HomeInv, Home
  <2> QED
    BY <1>2, <2>2, <2>3 DEF HomeInv
<1> QED
  BY <1>1, <1>2

\* From then on counting the results never finds that another section has changed.
LEMMA CountLemma ==
    ASSUME TypeOK, HomeInv, table.bar = 1, NEW rows, NEW then, CountResults(rows, then)
    PROVE  counted' = rows /\ main' = then /\ UNCHANGED raised
<1>1. BarRows = 1
  BY DEF HomeInv, BarRows
<1>2. table.home.rows = playlistModels.rows
  BY DEF HomeInv
<1> QED
  BY <1>1, <1>2 DEF CountResults

\* The type invariant, by the operations of the user and the main thread.
LEMMA MainType ==
    ASSUME TypeOK, HomeInv,
           \/ Search \/ SearchNothing \/ ToggleResults \/ TapResult \/ TapPlaylist \/ Main
    PROVE  TypeOK'
<1>a. show \in BOOLEAN
  BY DEF TypeOK
<1>b. (~show) \in BOOLEAN
  BY <1>a
<1> USE DEF TypeOK, data, choice, past
<1>n. Nil \in Models /\ \A shown \in BOOLEAN : ResultRows(shown) \in Nat
  BY DEF Nil, Models, ResultRows
<1>1. CASE Search
  <2>1. PICK q \in Queries : /\ net' = net \cup {[for |-> q, n |-> ops + 1]}
                             /\ asked' = [for |-> q, n |-> ops + 1]
    BY <1>1 DEF Search
  <2>2. [for |-> q, n |-> ops + 1] \in [for : Queries, n : Nat]
    OBVIOUS
  <2>3. net' \subseteq [for : {"home"} \cup Queries, n : Nat]
    BY <2>1, <2>2
  <2>4. asked' \in [for : {"nil"} \cup Queries, n : Nat]
    BY <2>1, <2>2
  <2> QED
    BY <1>1, <2>3, <2>4 DEF Search, Operate
<1>2. CASE SearchNothing
  <2>1. counted' = 0 /\ main' = "last" /\ raised' = raised
    BY <1>2, CountLemma DEF SearchNothing
  <2>2. asked' \in [for : {"nil"} \cup Queries, n : Nat]
    BY <1>2 DEF SearchNothing
  <2>3. late' \in BOOLEAN
    BY <1>2 DEF SearchNothing, Arriving
  <2> QED
    BY <1>2, <1>n, <2>1, <2>2, <2>3 DEF SearchNothing, Operate, Cleared
<1>3. CASE ToggleResults
  <2>1. counted' = ResultRows(~show) /\ main' = "last" /\ raised' = raised
    BY <1>3, HasBar, CountLemma DEF ToggleResults
  <2>2. counted' \in Nat
    BY <1>n, <1>b, <2>1
  <2>3. show' \in BOOLEAN
    BY <1>3, <1>b DEF ToggleResults
  <2> QED
    BY <1>3, <2>1, <2>2, <2>3 DEF ToggleResults, Operate
<1>4. CASE TapResult
  <2>1. PICK row \in 1 .. table.results.rows :
           IF row <= ModelsOf("results").rows
           THEN Opens("results", row) /\ UNCHANGED raised
           ELSE raised' = "range" /\ UNCHANGED <<played, main, overtaken>>
    BY <1>4 DEF TapResult
  <2>2. row \in Nat \ {0} /\ searchModels.rows \in Nat
    <3>1. table.results.rows \in Nat /\ searchModels.rows \in Nat
      BY DEF Models, Nil
    <3> QED
      BY <3>1, <2>1
  <2>3. CASE row <= searchModels.rows
    <3>1. searchModels.of \in {"home"} \cup Queries
      BY <2>2, <2>3 DEF Models, Nil
    <3>2. played' \subseteq [of : {"home"} \cup Queries, row : Nat \ {0}]
      BY <2>1, <2>2, <2>3, <3>1 DEF ModelsOf, Opens
    <3>3. main' = "tapped" /\ overtaken' \in BOOLEAN /\ raised' = raised
      BY <2>1, <2>2, <2>3 DEF ModelsOf, Opens
    <3> QED
      BY <1>4, <3>2, <3>3 DEF TapResult, Operate
  <2>4. CASE ~(row <= searchModels.rows)
    BY <1>4, <2>1, <2>2, <2>4 DEF TapResult, Operate, ModelsOf
  <2> QED
    BY <2>3, <2>4
<1>5. CASE TapPlaylist
  <2>1. PICK row \in 1 .. table.home.rows : Opens("home", row)
    BY <1>5 DEF TapPlaylist
  <2>2. table.home.rows \in Nat
    BY DEF Models, Nil
  <2>3. row \in Nat \ {0}
    BY <2>1, <2>2
  <2>4. playlistModels.of = "home"
    <3>1. table.bar # 0
      BY <2>1, <2>2 DEF HomeInv, Nil
    <3> QED
      BY <3>1 DEF HomeInv
  <2>5. played' \subseteq [of : {"home"} \cup Queries, row : Nat \ {0}]
    BY <2>1, <2>3, <2>4 DEF ModelsOf, Opens
  <2>6. main' = "tapped" /\ overtaken' \in BOOLEAN
    BY <2>1 DEF Opens
  <2> QED
    BY <1>5, <2>5, <2>6 DEF TapPlaylist, Operate
<1>k. CASE KeepSelected
  <2>1. \A p \in played : SectionOf(p) \in {"results", "home"} /\ p.row \in Nat \ {0}
    BY DEF SectionOf
  <2>2. selected' \subseteq [section : {"results", "home"}, row : Nat \ {0}]
    BY <1>k, <2>1 DEF KeepSelected
  <2> QED
    BY <1>k, <2>2 DEF KeepSelected
<1>6. CASE CellsOfResults
  <2>1. CASE counted <= searchModels.rows
    <3> DEFINE shown == IF counted = 0 THEN Nil ELSE [of |-> searchModels.of, rows |-> counted]
    <3>1. shown \in Models
      <4>1. CASE counted = 0
        BY <1>n, <4>1
      <4>2. CASE counted # 0
        <5>1. searchModels.of \in {"home"} \cup Queries
          BY <2>1, <4>2 DEF Models, Nil
        <5> QED
          BY <4>2, <5>1 DEF Models
      <4> QED
        BY <4>1, <4>2
    <3>2. table' = [table EXCEPT !.results = shown]
      BY <1>6, <2>1 DEF CellsOfResults, ModelsOf
    <3>3. table' \in [bar : {0, 1}, results : Models, home : Models]
      BY <3>1, <3>2
    <3>4. main' \in {"idle", "again"} /\ raised' = raised
      BY <1>6, <2>1 DEF CellsOfResults, ModelsOf
    <3> QED
      BY <1>6, <3>3, <3>4 DEF CellsOfResults
  <2>2. CASE ~(counted <= searchModels.rows)
    BY <1>6, <2>2 DEF CellsOfResults, ModelsOf
  <2> QED
    BY <2>1, <2>2
<1>t. blocks # << >> => Tail(blocks) \in Seq({"home", "search"})
  BY BlocksLemma
<1>7. CASE ReloadHome
  <2>1. /\ BarRows \in {0, 1}
        /\ table' \in [bar : {0, 1}, results : Models, home : Models]
        /\ raised' \in {"no", "update", "range"}
    BY <1>7 DEF ReloadHome, BarRows
  <2> QED
    BY <1>7, <1>t, <2>1 DEF ReloadHome, Runs
<1>8. CASE ShowResults
  <2>1. Head(blocks) \in Range(blocks) /\ Head(blocks) = "search"
    BY <1>8, BlocksLemma DEF ShowResults, Runs
  <2>2. table.bar = 1
    BY <2>1, HasBar DEF Arriving
  <2>3. counted' = ResultRows(TRUE) /\ main' = "cells" /\ raised' = raised
    BY <1>8, <2>2, CountLemma DEF ShowResults
  <2> QED
    BY <1>8, <1>n, <1>t, <2>3 DEF ShowResults, Runs
<1>9. CASE ReloadAgain
  <2>1. counted' = ResultRows(show) /\ main' = "last" /\ raised' = raised
    BY <1>9, HasBar, CountLemma DEF ReloadAgain
  <2> QED
    BY <1>9, <1>n, <2>1 DEF ReloadAgain
<1> QED
  BY <1>1, <1>2, <1>3, <1>4, <1>5, <1>k, <1>6, <1>7, <1>8, <1>9 DEF Main

\* By the delegate queue.
LEMMA QueueType ==
    ASSUME TypeOK, Reply \/ Queue
    PROVE  TypeOK'
<1> USE DEF TypeOK, data, choice, past
<1>1. ASSUME NEW r \in net, Fails(r) PROVE TypeOK'
  BY <1>1 DEF Fails
<1>2. ASSUME NEW r \in net, HomeReply(r) PROVE TypeOK'
  <2>1. playlistModels' \in Models
    BY <1>2, BoundAssumption DEF HomeReply, Models
  <2> QED
    BY <1>2, <2>1 DEF HomeReply
<1>3. ASSUME NEW r \in net, SearchReply(r) PROVE TypeOK'
  <2>1. searchModels' \in Models
    BY <1>3, BoundAssumption DEF SearchReply, Models
  <2> QED
    BY <1>3, <2>1 DEF SearchReply
<1>4. CASE TestSelected
  BY <1>4 DEF TestSelected
<1>5. CASE ForgetSelected
  BY <1>5 DEF ForgetSelected
<1>6. CASE Dispatch
  <2>1. Append(blocks, queue) \in Seq({"home", "search"})
    BY <1>6, BlocksLemma DEF Dispatch
  <2> QED
    BY <1>6, <2>1 DEF Dispatch
<1> QED
  BY <1>1, <1>2, <1>3, <1>4, <1>5, <1>6 DEF Reply, Queue


\* The home tab is shown once and stays.
LEMMA HomeStep ==
    ASSUME TypeOK, HomeInv, Next
    PROVE  HomeInv'
<1> USE DEF data, choice, past
<1>t. TypeOK'
  BY MainType, QueueType DEF Next
<1>1. CASE table.bar = 0
  <2>1. /\ ~button /\ main = "idle" /\ ~Arriving
        /\ \A r \in net : r.for \notin Queries
    BY <1>1, HasBar
  <2>2. table.home.rows = 0 /\ table.results.rows = 0
    BY <1>1 DEF HomeInv, Nil
  <2>3. ~(Search \/ SearchNothing \/ ToggleResults \/ TapResult \/ TapPlaylist
              \/ KeepSelected \/ CellsOfResults \/ ReloadAgain \/ TestSelected \/ ForgetSelected)
    BY <1>1, <2>1, <2>2 DEF Search, SearchNothing, ToggleResults, TapResult, TapPlaylist,
       KeepSelected, CellsOfResults, ReloadAgain, TestSelected, ForgetSelected, Arriving
  <2>4. ~ShowResults
    <3> SUFFICES ASSUME ShowResults PROVE FALSE
      OBVIOUS
    <3>1. blocks \in Seq({"home"}) /\ blocks # << >> /\ Head(blocks) = "search"
      BY <1>1 DEF HomeInv, ShowResults, Runs
    <3> QED
      BY <3>1
  <2>5. ASSUME NEW r \in net, SearchReply(r) PROVE FALSE
    BY <2>1, <2>5 DEF SearchReply
  <2>6. ASSUME NEW r \in net, Fails(r) PROVE HomeInv'
    <3>1. r = Home /\ net' \subseteq {Home} /\ net # {}
      BY <1>1, <2>6 DEF HomeInv, Fails
    <3> QED
      BY <1>1, <2>6, <3>1 DEF HomeInv, Fails
  <2>7. ASSUME NEW r \in net, HomeReply(r) PROVE HomeInv'
    <3>1. net' = {} /\ net # {}
      BY <1>1, <2>7 DEF HomeInv, HomeReply
    <3>2. playlistModels'.of = "home" /\ queue' = "home"
      BY <2>7 DEF HomeReply
    <3>3. blocks = << >>
      BY <1>1, <3>1 DEF HomeInv
    <3> QED
      BY <1>1, <2>7, <3>1, <3>2, <3>3 DEF HomeInv, HomeReply
  <2>8. ASSUME Dispatch PROVE HomeInv'
    <3>1. queue = "home" /\ net = {} /\ playlistModels.of = "home" /\ blocks = << >>
      BY <1>1, <2>8 DEF HomeInv, Dispatch
    <3>2. blocks' \in Seq({"home"}) /\ Len(blocks') = 1
      BY <2>8, <3>1 DEF Dispatch
    <3> QED
      BY <1>1, <2>8, <3>1, <3>2 DEF HomeInv, Dispatch
  <2>9. ASSUME ReloadHome PROVE HomeInv'
    <3>1. blocks \in Seq({"home"}) /\ blocks # << >>
      BY <1>1, <2>9 DEF HomeInv, ReloadHome, Runs
    <3>2. playlistModels.of = "home" /\ net = {} /\ queue = "idle" /\ Len(blocks) = 1
      BY <1>1, <3>1 DEF HomeInv
    <3>3. blocks' \in Seq({"search"})
      <4>1. blocks' = Tail(blocks)
        BY <2>9 DEF ReloadHome
      <4>2. Tail(blocks) = << >>
        <5>1. Tail(blocks) \in Seq({"home"}) /\ Len(Tail(blocks)) = 0
          BY <3>1, <3>2, HeadTailProperties
        <5> QED
          BY <5>1, EmptySeq
      <4>3. << >> \in Seq({"search"})
        OBVIOUS
      <4> QED
        BY <4>1, <4>2, <4>3
    <3>4. table' = [table EXCEPT !.bar = BarRows, !.home = playlistModels]
      BY <1>1, <2>2, <2>9 DEF HomeInv, ReloadHome, ResultRows
    <3>5. table'.bar = 1 /\ table'.home = playlistModels
      BY <3>2, <3>4 DEF TypeOK, BarRows
    <3> QED
      BY <2>9, <3>2, <3>3, <3>5 DEF HomeInv, ReloadHome
  <2> QED
    BY <2>3, <2>4, <2>5, <2>6, <2>7, <2>8, <2>9 DEF Next, Main, Reply, Queue
<1>2. CASE table.bar = 1
  <2> DEFINE Shown == /\ playlistModels.of = "home" /\ table.bar = 1
                      /\ table.home = playlistModels
  <2>s. Shown /\ queue # "home" /\ blocks \in Seq({"search"}) /\ \A r \in net : r.for \in Queries
    BY <1>2 DEF HomeInv
  <2>b. blocks # << >> => Head(blocks) = "search" /\ Tail(blocks) \in Seq({"search"})
    BY <2>s
  <2>1. Shown'
    <3>1. ~\E r \in net : HomeReply(r)
      BY <2>s, QueryAssumption DEF HomeReply
    <3>2. ~ReloadHome
      BY <2>b DEF ReloadHome, Runs
    <3>3. UNCHANGED playlistModels
      BY <3>1, <3>2 DEF Next, Search, SearchNothing, ToggleResults, TapResult, TapPlaylist, Main,
         KeepSelected, CellsOfResults, ShowResults, ReloadAgain, Reply, Fails, SearchReply,
         Queue, TestSelected, ForgetSelected, Dispatch
    <3>4. UNCHANGED table \/ CellsOfResults
      BY <3>1, <3>2 DEF Next, Search, SearchNothing, ToggleResults, TapResult, TapPlaylist, Main,
         KeepSelected, ShowResults, ReloadAgain, Reply, Fails, SearchReply,
         Queue, TestSelected, ForgetSelected, Dispatch
    <3>5. ASSUME CellsOfResults PROVE table'.bar = table.bar /\ table'.home = table.home
      BY <3>5 DEF CellsOfResults, TypeOK
    <3> QED
      BY <2>s, <3>3, <3>4, <3>5
  <2>2. queue' # "home" /\ blocks' \in Seq({"search"})
    <3>1. ~\E r \in net : HomeReply(r)
      BY <2>s, QueryAssumption DEF HomeReply
    <3>2. CASE Dispatch
      BY <2>s, <3>2 DEF Dispatch
    <3>3. CASE ~Dispatch
      BY <2>s, <2>b, <3>1, <3>3 DEF Next, Search, SearchNothing, ToggleResults, TapResult, TapPlaylist,
         Main, KeepSelected, CellsOfResults, ReloadHome, ShowResults, ReloadAgain, Reply, Fails, SearchReply,
         Queue, TestSelected, ForgetSelected, Runs
    <3> QED
      BY <3>2, <3>3
  <2>3. \A r \in net' : r.for \in Queries
    <3>1. CASE Search
      BY <2>s, <3>1 DEF Search
    <3>2. CASE ~Search
      BY <2>s, <3>2 DEF Next, SearchNothing, ToggleResults, TapResult, TapPlaylist,
         Main, KeepSelected, CellsOfResults, ReloadHome, ShowResults, ReloadAgain, Reply, Fails, HomeReply,
         SearchReply, Queue, TestSelected, ForgetSelected, Dispatch
    <3> QED
      BY <3>1, <3>2
  <2> QED
    BY <2>1, <2>2, <2>3 DEF HomeInv
<1> QED
  BY <1>1, <1>2 DEF TypeOK

\* The home tab's reload is the one that shows the bar.
LEMMA HomeReloads ==
    ASSUME HomeInv, TypeOK, ReloadHome
    PROVE  table.bar = 0
<1>1. blocks # << >> /\ Head(blocks) = "home"
  BY DEF ReloadHome, Runs
<1>2. ASSUME table.bar = 1 PROVE FALSE
  <2>1. blocks \in Seq({"search"})
    BY <1>2 DEF HomeInv
  <2> QED
    BY <1>1, <2>1
<1> QED
  BY <1>2 DEF TypeOK

\* Only ShowResults takes results over, and only an answer to a search hands them over.
LEMMA ArrivingStep ==
    ASSUME TypeOK, HomeInv, Next
    PROVE  /\ Arriving => Arriving' \/ ShowResults
           /\ Arriving' => Arriving \/ \E r \in net : SearchReply(r)
<1> USE DEF Arriving
<1>1. CASE UNCHANGED <<queue, blocks>>
  BY <1>1
<1>2. ASSUME NEW r \in net, HomeReply(r) PROVE Arriving' = Arriving
  BY <1>2 DEF HomeReply
<1>3. ASSUME NEW r \in net, SearchReply(r) PROVE Arriving'
  BY <1>3 DEF SearchReply
<1>4. ASSUME TestSelected \/ ForgetSelected PROVE Arriving /\ Arriving'
  BY <1>4 DEF TestSelected, ForgetSelected
<1>5. ASSUME Dispatch PROVE Arriving' = Arriving
  <2>1. Range(blocks') = Range(blocks) \cup {queue} /\ queue' = "idle"
    BY <1>5, BlocksLemma DEF Dispatch, TypeOK
  <2> QED
    BY <1>5, <2>1 DEF Dispatch
<1>6. ASSUME ShowResults PROVE Arriving
  BY <1>6, BlocksLemma DEF ShowResults, Runs, TypeOK
<1>7. ASSUME ReloadHome PROVE Arriving' = Arriving
  <2>1. ~Arriving
    BY <1>7, HomeReloads, HasBar
  <2>2. Range(blocks') \subseteq Range(blocks) /\ queue' = queue
    BY <1>7, BlocksLemma DEF ReloadHome, Runs, TypeOK
  <2> QED
    BY <2>1, <2>2
<1>8. Search \/ SearchNothing \/ ToggleResults \/ TapResult \/ TapPlaylist \/ KeepSelected
         \/ CellsOfResults \/ ReloadAgain \/ (\E r \in net : Fails(r)) => UNCHANGED <<queue, blocks>>
  BY DEF Search, SearchNothing, ToggleResults, TapResult, TapPlaylist, KeepSelected,
     CellsOfResults, ReloadAgain, Fails
<1> QED
  BY <1>1, <1>2, <1>3, <1>4, <1>5, <1>6, <1>7, <1>8 DEF Next, Main, Reply, Queue

\* No reload finds that another section has changed.
LEMMA UpdatesStep ==
    ASSUME TypeOK, HomeInv, UpdatesValid, Next
    PROVE  UpdatesValid'
<1> USE DEF UpdatesValid
<1>1. CASE SearchNothing
  BY <1>1, CountLemma DEF SearchNothing
<1>2. CASE ToggleResults
  BY <1>2, HasBar, CountLemma DEF ToggleResults
<1>3. CASE ShowResults
  <2>1. Arriving
    BY <1>3, BlocksLemma DEF ShowResults, Runs, TypeOK, Arriving
  <2> QED
    BY <1>3, <2>1, HasBar, CountLemma DEF ShowResults
<1>4. CASE ReloadAgain
  BY <1>4, HasBar, CountLemma DEF ReloadAgain
<1>5. CASE ReloadHome
  <2>1. table.results.rows = ResultRows(show)
    BY <1>5, HomeReloads DEF HomeInv, ResultRows, Nil
  <2> QED
    BY <1>5, <2>1 DEF ReloadHome
<1>6. CASE TapResult \/ CellsOfResults
  BY <1>6 DEF TapResult, CellsOfResults
<1>7. CASE Search \/ TapPlaylist \/ KeepSelected \/ Reply \/ Queue
  BY <1>7 DEF Search, TapPlaylist, KeepSelected, Reply, Fails, HomeReply, SearchReply,
     Queue, TestSelected, ForgetSelected, Dispatch
<1> QED
  BY <1>1, <1>2, <1>3, <1>4, <1>5, <1>6, <1>7 DEF Next, Main

\* What is counted is what there is, and what is shown is what was counted.
LEMMA ResultStep ==
    ASSUME TypeOK, HomeInv, ResultInv, Next
    PROVE  ResultInv'
<1> USE DEF data, choice, past
<1> SUFFICES ASSUME ~Arriving', raised' = "no"
             PROVE  /\ main' = "cells" => show'
                    /\ main' \in {"cells", "last"} => counted' = ResultRows(show)'
                    /\ main' \notin {"cells", "again", "last"} =>
                        /\ table'.results.rows = ResultRows(show)'
                        /\ table'.results.rows > 0 => table'.results = searchModels'
  BY DEF ResultInv, Reloading
<1>1. ~Arriving \/ ShowResults
  BY ArrivingStep
<1>2. CASE ShowResults
  <2>1. Arriving
    BY <1>2, BlocksLemma DEF ShowResults, Runs, TypeOK, Arriving
  <2>2. counted' = ResultRows(TRUE) /\ main' = "cells"
    BY <1>2, <2>1, HasBar, CountLemma DEF ShowResults
  <2> QED
    BY <1>2, <2>2 DEF ShowResults, ResultRows
<1>3. CASE ~Arriving /\ SearchNothing
  <2>1. counted' = 0 /\ main' = "last"
    BY <1>3, CountLemma DEF SearchNothing
  <2> QED
    BY <1>3, <2>1 DEF SearchNothing, ResultRows
<1>4. CASE ~Arriving /\ ToggleResults
  <2>1. counted' = ResultRows(~show) /\ main' = "last"
    BY <1>4, HasBar, CountLemma DEF ToggleResults
  <2> QED
    BY <1>4, <2>1 DEF ToggleResults, ResultRows
<1>5. CASE ~Arriving /\ CellsOfResults
  <2>1. counted = ResultRows(show)
    BY <1>5 DEF CellsOfResults, ResultInv
  <2>2. counted <= searchModels.rows
    BY <1>5 DEF CellsOfResults, ModelsOf
  <2>3. /\ table' = [table EXCEPT !.results =
                          IF counted = 0 THEN Nil ELSE [of |-> searchModels.of, rows |-> counted]]
        /\ main' \in {"again", "idle"}
    BY <1>5, <2>2 DEF CellsOfResults, ModelsOf
  <2>4. table'.results = IF counted = 0 THEN Nil ELSE [of |-> searchModels.of, rows |-> counted]
    BY <2>3 DEF TypeOK
  <2>5. CASE counted = 0
    BY <1>5, <2>1, <2>3, <2>4, <2>5 DEF CellsOfResults, Nil, ResultRows
  <2>6. CASE counted # 0
    <3>1. counted = searchModels.rows
      BY <2>1, <2>6 DEF ResultRows
    <3>2. searchModels = [of |-> searchModels.of, rows |-> searchModels.rows]
      BY DEF TypeOK, Models, Nil
    <3> QED
      BY <1>5, <2>1, <2>3, <2>4, <2>6, <3>1, <3>2 DEF CellsOfResults, ResultRows
  <2> QED
    BY <2>5, <2>6
<1>6. CASE ~Arriving /\ ReloadAgain
  <2>1. counted' = ResultRows(show) /\ main' = "last"
    BY <1>6, HasBar, CountLemma DEF ReloadAgain
  <2> QED
    BY <1>6, <2>1 DEF ReloadAgain, ResultRows
<1>7. CASE ~Arriving /\ ReloadHome
  <2>1. table'.results = table.results /\ raised = "no"
    BY <1>7 DEF ReloadHome, Runs, TypeOK
  <2> QED
    BY <1>7, <2>1 DEF ReloadHome, ResultInv, ResultRows, Reloading
<1>8. CASE ~Arriving /\ (Search \/ TapResult \/ TapPlaylist \/ KeepSelected \/ Queue)
  <2>1. UNCHANGED <<searchModels, show, table, counted>> /\ raised = "no"
    BY <1>8 DEF Search, TapResult, TapPlaylist, KeepSelected, Operate, UserMay,
       Queue, TestSelected, ForgetSelected, Dispatch
  <2>2. UNCHANGED main \/ (main \in {"idle", "tapped"} /\ main' \in {"idle", "tapped"})
    BY <1>8 DEF Search, TapResult, TapPlaylist, Opens, KeepSelected, Operate, UserMay,
       Queue, TestSelected, ForgetSelected, Dispatch
  <2> QED
    BY <1>8, <2>1, <2>2 DEF ResultInv, ResultRows, Reloading
<1>9. CASE ~Arriving /\ Reply
  <2>1. ~\E r \in net : SearchReply(r)
    BY DEF SearchReply, Arriving
  <2>2. UNCHANGED <<searchModels, show, table, main, counted>> /\ raised = "no"
    BY <1>9, <2>1 DEF Reply, Fails, HomeReply
  <2> QED
    BY <1>9, <2>2 DEF ResultInv, ResultRows, Reloading
<1> QED
  BY <1>1, <1>2, <1>3, <1>4, <1>5, <1>6, <1>7, <1>8, <1>9 DEF Next, Main

\* Only a row that other results have taken away is missed.
LEMMA RowsStep ==
    ASSUME TypeOK, HomeInv, ResultInv, RowsThere, Next
    PROVE  RowsThere'
<1> SUFFICES ASSUME raised' = "range" PROVE Arriving'
  BY DEF RowsThere
<1>1. CASE CellsOfResults
  <2>1. main \in {"cells", "last"} /\ raised = "no" /\ ~(counted <= searchModels.rows)
    BY <1>1 DEF CellsOfResults, ModelsOf
  <2>2. searchModels.rows \in Nat
    BY DEF TypeOK, Models, Nil
  <2>3. Arriving
    BY <2>1, <2>2 DEF ResultInv, ResultRows
  <2> QED
    BY <1>1, <2>3 DEF CellsOfResults, Arriving
<1>2. CASE TapResult
  <2>1. PICK row \in 1 .. table.results.rows : ~(row <= searchModels.rows)
    BY <1>2 DEF TapResult, ModelsOf, Operate, UserMay
  <2>2. searchModels.rows \in Nat /\ table.results.rows \in Nat
    BY DEF TypeOK, Models, Nil
  <2>3. Arriving
    BY <1>2, <2>1, <2>2 DEF TapResult, Operate, UserMay, ResultInv, ResultRows, Reloading
  <2> QED
    BY <1>2, <2>3 DEF TapResult, Arriving
<1>3. CASE ~CellsOfResults /\ ~TapResult
  <2>1. raised # "range"
    BY <1>3 DEF Next, Main, Search, SearchNothing, ToggleResults, TapPlaylist, Operate, UserMay,
       KeepSelected, ReloadHome, ShowResults, ReloadAgain, Runs, Reply, Fails, HomeReply, SearchReply,
       Queue, TestSelected, ForgetSelected, Dispatch
  <2>2. UNCHANGED raised \/ raised' = "update"
    BY <1>3 DEF Next, Main, Search, SearchNothing, ToggleResults, TapPlaylist, CountResults,
       KeepSelected, ReloadHome, ShowResults, ReloadAgain, Reply, Fails, HomeReply, SearchReply,
       Queue, TestSelected, ForgetSelected, Dispatch
  <2> QED
    BY <2>1, <2>2
<1> QED
  BY <1>1, <1>2, <1>3

\* What is wanted is there, on its way, or failed.
LEMMA WantedStep ==
    ASSUME TypeOK, HomeInv, WantedInv, Next
    PROVE  WantedInv'
<1> USE DEF data, choice, past
<1> SUFFICES ASSUME ~late', raised' = "no"
             PROVE  IF asked'.for = "nil"
                    THEN searchModels' = Nil /\ ~show' /\ ~button' /\ ~Arriving'
                    ELSE \/ asked' \in net' \cup missed'
                         \/ searchModels'.of = asked'.for /\ (Arriving' \/ button')
  BY DEF WantedInv
<1>a. /\ Arriving => Arriving' \/ ShowResults
      /\ Arriving' => Arriving \/ \E r \in net : SearchReply(r)
  BY ArrivingStep
<1>n. "nil" \notin Queries /\ "home" \notin Queries /\ asked.for # "home"
  BY QueryAssumption DEF TypeOK
<1>1. CASE Search
  BY <1>1, <1>n DEF Search
<1>2. CASE SearchNothing
  <2>1. ~Arriving /\ asked'.for = "nil" /\ searchModels' = Nil /\ ~show' /\ ~button'
    BY <1>2 DEF SearchNothing, Cleared
  <2>2. ~Arriving'
    BY <1>2, <2>1 DEF SearchNothing, Arriving
  <2> QED
    BY <2>1, <2>2
<1>3. CASE ToggleResults
  <2>1. UNCHANGED <<searchModels, button, net, asked, missed>> /\ button
    BY <1>3 DEF ToggleResults
  <2>2. Arriving' = Arriving
    BY <1>3 DEF ToggleResults, Arriving
  <2> QED
    BY <1>3, <2>1, <2>2 DEF ToggleResults, Operate, UserMay, WantedInv
<1>4. CASE TapResult \/ TapPlaylist \/ KeepSelected \/ CellsOfResults \/ ReloadHome \/ ReloadAgain \/ Queue
  <2>1. UNCHANGED <<searchModels, show, button, net, asked, missed, late>> /\ raised = "no"
    BY <1>4 DEF TapResult, TapPlaylist, KeepSelected, Operate, UserMay, CellsOfResults, ReloadHome,
       ReloadAgain, Runs, Queue, TestSelected, ForgetSelected, Dispatch
  <2>2. ~ShowResults \/ UNCHANGED button
    BY <2>1
  <2>3. Arriving' = Arriving \/ ShowResults \/ \E r \in net : SearchReply(r)
    BY <1>a DEF Arriving
  <2>4. ~\E r \in net : SearchReply(r)
    BY <2>1 DEF SearchReply
  <2>5. ~ShowResults \/ button
    BY <2>1 DEF ShowResults
  <2>6. Arriving => asked.for # "nil"
    BY <2>1 DEF WantedInv
  <2> QED
    BY <1>a, <2>1, <2>4, <2>5, <2>6 DEF WantedInv
<1>5. CASE ShowResults
  <2>1. Arriving
    BY <1>5, BlocksLemma DEF ShowResults, Runs, TypeOK, Arriving
  <2>2. UNCHANGED <<searchModels, net, asked, missed, late>> /\ raised = "no" /\ button'
    BY <1>5 DEF ShowResults, Runs
  <2> QED
    BY <2>1, <2>2 DEF WantedInv
<1>6. ASSUME NEW r \in net, Fails(r) \/ HomeReply(r)
      PROVE  IF asked'.for = "nil"
             THEN searchModels' = Nil /\ ~show' /\ ~button' /\ ~Arriving'
             ELSE \/ asked' \in net' \cup missed'
                  \/ searchModels'.of = asked'.for /\ (Arriving' \/ button')
  <2>1. UNCHANGED <<searchModels, show, button, blocks, asked, late>> /\ raised = "no"
        /\ queue = "idle" /\ queue' \in {"idle", "home"}
    BY <1>6 DEF Fails, HomeReply
  <2>2. Arriving' = Arriving
    BY <2>1 DEF Arriving
  <2>3. asked \in net \cup missed => asked \in net' \cup missed'
    BY <1>6, <1>n DEF Fails, HomeReply
  <2> QED
    BY <2>1, <2>2, <2>3 DEF WantedInv
<1>7. ASSUME NEW r \in net, SearchReply(r)
      PROVE  asked'.for # "nil" /\ searchModels'.of = asked'.for /\ Arriving'
  <2>1. r = asked /\ r.for \in Queries /\ asked' = asked
    BY <1>7 DEF SearchReply
  <2>2. searchModels'.of = r.for /\ queue' = "swapped"
    BY <1>7 DEF SearchReply
  <2> QED
    BY <1>n, <2>1, <2>2 DEF Arriving
<1> QED
  BY <1>1, <1>2, <1>3, <1>4, <1>5, <1>6, <1>7 DEF Next, Main, Reply

\* The row being opened is one of the results until they are replaced.
LEMMA TappedStep ==
    ASSUME TypeOK, HomeInv, TappedInv, Next
    PROVE  TappedInv'
<1> USE DEF TappedInv, data, choice, past
<1>1. ASSUME TapResult, main' = "tapped" PROVE TappedInv'
  <2>1. PICK row \in 1 .. table.results.rows : Opens("results", row) /\ row <= searchModels.rows
    BY <1>1 DEF TapResult, Operate, UserMay, ModelsOf
  <2> QED
    BY <1>1, <2>1 DEF TapResult, Opens, ModelsOf
<1>2. ASSUME TapPlaylist PROVE TappedInv'
  <2>1. PICK row \in 1 .. table.home.rows : Opens("home", row)
    BY <1>2 DEF TapPlaylist
  <2>2. table.home.rows \in Nat
    BY DEF TypeOK, Models, Nil
  <2>3. playlistModels.of = "home"
    <3>1. table.bar # 0
      BY <2>1, <2>2 DEF HomeInv, Nil
    <3> QED
      BY <3>1 DEF HomeInv, TypeOK
  <2> DEFINE p == [of |-> "home", row |-> row]
  <2>4. played' = {p} /\ SectionOf(p) = "home"
    BY <2>1, <2>3 DEF Opens, ModelsOf, SectionOf
  <2>5. "home" # "results"
    OBVIOUS
  <2> HIDE DEF p
  <2> QED
    BY <2>4, <2>5
<1>3. ASSUME NEW r \in net, SearchReply(r) PROVE TappedInv'
  BY <1>3 DEF SearchReply
<1>4. ASSUME main' # "tapped" PROVE TappedInv'
  BY <1>4
<1>5. ASSUME UNCHANGED <<main, played, searchModels, overtaken>> PROVE TappedInv'
  BY <1>5 DEF SectionOf
<1>6. Search \/ Queue \/ (\E r \in net : Fails(r) \/ HomeReply(r))
        => UNCHANGED <<main, played, searchModels, overtaken>>
  BY DEF Search, Queue, TestSelected, ForgetSelected, Dispatch, Fails, HomeReply
<1>7. SearchNothing \/ ToggleResults \/ Main => main' # "tapped"
  <2>1. SearchNothing \/ ToggleResults \/ ShowResults \/ ReloadHome => main = "idle"
    BY DEF SearchNothing, ToggleResults, Operate, UserMay, ShowResults, ReloadHome, Runs
  <2> QED
    BY <2>1 DEF SearchNothing, ToggleResults, CountResults, Main, KeepSelected, CellsOfResults,
       ReloadHome, ShowResults, ReloadAgain
<1> QED
  BY <1>1, <1>2, <1>3, <1>4, <1>5, <1>6, <1>7 DEF Next, Reply

\* The selection in the results is the row that plays.
LEMMA MarkedStep ==
    ASSUME TypeOK, TappedInv, MarkedIsPlaying, Next
    PROVE  MarkedIsPlaying'
<1> USE DEF MarkedIsPlaying, data, choice, past
<1>1. CASE SearchNothing
  BY <1>1 DEF SearchNothing, Cleared
<1>2. CASE TapResult
  BY <1>2 DEF TapResult, Opens
<1>3. CASE TapPlaylist
  BY <1>3 DEF TapPlaylist, Opens
<1>k. CASE KeepSelected
  <2> SUFFICES ASSUME ~overtaken, NEW path \in selected', path.section = "results"
               PROVE  /\ played' = {[of |-> searchModels'.of, row |-> path.row]}
                      /\ path.row <= searchModels'.rows
    BY <1>k DEF KeepSelected
  <2>1. UNCHANGED <<played, searchModels>> /\ main = "tapped"
        /\ selected' = {[section |-> SectionOf(p), row |-> p.row] : p \in played}
    BY <1>k DEF KeepSelected
  <2>2. PICK p \in played : /\ played = {p}
                            /\ SectionOf(p) = "results" =>
                                 p.of = searchModels.of /\ p.row <= searchModels.rows
    BY <1>k, <2>1 DEF KeepSelected, TappedInv
  <2>3. path = [section |-> SectionOf(p), row |-> p.row]
    BY <2>1, <2>2
  <2>4. p = [of |-> p.of, row |-> p.row]
    BY DEF TypeOK
  <2> QED
    BY <2>1, <2>2, <2>3, <2>4
<1>4. ASSUME NEW r \in net, SearchReply(r) PROVE MarkedIsPlaying'
  BY <1>4 DEF SearchReply
<1>5. CASE TestSelected
  BY <1>5 DEF TestSelected, InResults
<1>6. CASE ForgetSelected
  BY <1>6 DEF ForgetSelected
<1>7. CASE Search \/ ToggleResults \/ CellsOfResults \/ ReloadHome \/ ShowResults \/ ReloadAgain
  BY <1>7 DEF Search, Operate, UserMay, ToggleResults, CountResults, Runs, CellsOfResults, ReloadHome, ShowResults, ReloadAgain
<1>8. CASE Dispatch
  BY <1>8 DEF Dispatch
<1>9. ASSUME NEW r \in net, Fails(r) \/ HomeReply(r) PROVE MarkedIsPlaying'
  BY <1>9 DEF Fails, HomeReply
<1> QED
  BY <1>1, <1>2, <1>3, <1>k, <1>4, <1>5, <1>6, <1>7, <1>8, <1>9
     DEF Next, Main, Reply, Queue

\* Every step keeps the invariant: each part from the ones before it.
LEMMA StepLemma == TableInv /\ [Next]_vars => TableInv'
<1> SUFFICES ASSUME TableInv, [Next]_vars PROVE TableInv'
  OBVIOUS
<1>1. CASE Next
  <2>1. TypeOK'
    BY <1>1, MainType, QueueType DEF TableInv, Next
  <2> QED
    BY <1>1, <2>1, HomeStep, ResultStep, WantedStep, TappedStep, MarkedStep, RowsStep, UpdatesStep
       DEF TableInv
<1>2. CASE UNCHANGED vars
  <2> USE <1>2 DEF vars, data, choice, past
  <2>1. TypeOK'
    BY DEF TableInv, TypeOK
  <2>2. HomeInv'
    BY DEF TableInv, HomeInv
  <2>3. ResultInv' /\ WantedInv'
    BY DEF TableInv, ResultInv, WantedInv, Arriving, ResultRows, Reloading
  <2>4. TappedInv' /\ MarkedIsPlaying' /\ RowsThere' /\ UpdatesValid'
    BY DEF TableInv, TappedInv, SectionOf, MarkedIsPlaying, RowsThere, UpdatesValid, Arriving
  <2> QED
    BY <2>1, <2>2, <2>3, <2>4 DEF TableInv
<1> QED
  BY <1>1, <1>2

\* The table's invariant: what the delegate queue has replaced and what the main thread
\* has counted and drawn fit together at every step of either.
THEOREM TableInvariant == Spec => []TableInv
BY InitLemma, StepLemma, PTL DEF Spec

\* Except while a reload is on its way the table shows what the arrays hold.
THEOREM TableShowsArrays == Spec => []TableAgrees
<1>1. TableInv => TableAgrees
  <2> SUFFICES ASSUME TableInv,
                      ~Swapped /\ raised = "no" /\ queue # "home" /\ "home" \notin Range(blocks)
               PROVE  /\ table.bar = BarRows /\ table.home = playlistModels
                      /\ table.results.rows = ResultRows(show)
                      /\ table.results.rows > 0 => table.results = searchModels
    BY DEF TableAgrees
  <2>1. /\ table.results.rows = ResultRows(show)
        /\ table.results.rows > 0 => table.results = searchModels
    BY DEF TableInv, ResultInv, Swapped, Reloading
  <2>2. CASE table.bar = 1
    BY <2>1, <2>2 DEF TableInv, HomeInv, BarRows
  <2>3. CASE table.bar = 0
    <3>1. ASSUME Len(blocks) = 1, blocks \in Seq({"home"}) PROVE FALSE
      <4>1. blocks # << >> /\ Head(blocks) = "home"
        BY <3>1
      <4> QED
        BY <3>1, <4>1, BlocksLemma
    <3>2. playlistModels = Nil
      BY <2>3, <3>1 DEF TableInv, HomeInv
    <3> QED
      BY <2>1, <2>3, <3>2 DEF TableInv, HomeInv, BarRows, Nil
  <2> QED
    BY <2>1, <2>2, <2>3 DEF TableInv, TypeOK
<1> QED
  BY <1>1, TableInvariant, PTL

\* No reload raises because another section has changed: the home tab is fetched once,
\* and nothing can be searched for before its reload.
THEOREM ReloadsAreValid == Spec => []UpdatesValid
<1>1. TableInv => UpdatesValid
  BY DEF TableInv
<1> QED
  BY <1>1, TableInvariant, PTL

\* A row that is shown is missed only between an answer and its reload.
THEOREM ShownRowsOpen == Spec => []RowsThere
<1>1. TableInv => RowsThere
  BY DEF TableInv
<1> QED
  BY <1>1, TableInvariant, PTL

\* The selection kept for the results is the row that plays.
THEOREM SelectionPlays == Spec => []MarkedIsPlaying
<1>1. TableInv => MarkedIsPlaying
  BY DEF TableInv
<1> QED
  BY <1>1, TableInvariant, PTL

\* The results are those last asked for, unless they failed or some came late.
THEOREM WantedIsShown == Spec => []ShowsWhatIsWanted
<1>1. TableInv => ShowsWhatIsWanted
  BY DEF TableInv, WantedInv, ShowsWhatIsWanted, Swapped, Nil, TypeOK
<1> QED
  BY <1>1, TableInvariant, PTL
================================================================================
