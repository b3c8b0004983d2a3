----------------------------- MODULE ResultsTable -----------------------------
(***************************************************************************)
(* The table of LMViewController: a search bar, the results of the last    *)
(* search and the playlists of the home tab, from which the user opens a   *)
(* playlist.                                                               *)
(*                                                                         *)
(* The handlers of the two requests run on the delegate queue of           *)
(* NSURLSession.  They replace the arrays behind the table at once and     *)
(* dispatch the reload to the main queue, so the table and its arrays      *)
(* disagree in between.  UITableView is external: it counts the rows of    *)
(* the sections it reloads, asks for their cells, and raises if the count  *)
(* of another section has changed since.                                   *)
(***************************************************************************)
EXTENDS Naturals, Sequences, FiniteSets, Functions

CONSTANTS
    Queries,    \* what the user may search for
    Sizes,      \* how many rows an answer may have
    MaxOps      \* bound: searches, clearings, toggles and taps

ASSUME QueryAssumption == {"nil", "home"} \cap Queries = {}
ASSUME BoundAssumption == Sizes \subseteq Nat /\ MaxOps \in Nat

VARIABLES
    playlistModels,   \* _playlistModels
    searchModels,     \* _searchModels
    show,             \* shouldShowSearchResults
    button,           \* showsSearchResultsButton
    selected,         \* _currentUserSelectedPath: {} for nil
    played,           \* the row opened last, and of which array: {} before the first
    table,            \* external: the rows UITableView shows of each section
    main,             \* where the main thread is
    counted,          \* the rows UITableView counted, whose cells it asks for next
    queue,            \* where the delegate queue is
    blocks,           \* dispatched to the main queue
    net,              \* requests in flight, each with its number
    ops,
    asked,            \* history: what the user last searched for, and when
    missed,           \* history: the requests that failed
    late,             \* history: results came that were no longer wanted
    overtaken,        \* history: results came while the row tapped last was being opened
    raised            \* "no": running; "update" or "range": the exception

data   == <<playlistModels, searchModels, show, button>>
choice == <<selected, played>>
past   == <<asked, missed, late, overtaken>>
vars == <<data, choice, table, main, counted, queue, blocks, net, ops, past, raised>>

\* An array by what it answers and its length.
Nil == [of |-> "nil", rows |-> 0]
Models == {Nil} \cup [of : {"home"} \cup Queries, rows : Nat]

\* numberOfRowsInSection: of the search bar and of the results
BarRows_Always == 1               \* mutant: the bar does not wait for the home tab
BarRows == IF playlistModels.of = "nil" THEN 0 ELSE 1
ResultRows(shown) == IF shown THEN searchModels.rows ELSE 0

\* viewDidLoad asks for the home tab, once.
Home == [for |-> "home", n |-> 0]

Init ==
    /\ playlistModels = Nil /\ searchModels = Nil
    /\ show = FALSE /\ button = FALSE
    /\ selected = {} /\ played = {}
    /\ table = [bar |-> BarRows, results |-> Nil, home |-> Nil]
    /\ main = "idle" /\ counted = 0 /\ queue = "idle" /\ blocks = << >>
    /\ net = {Home}
    /\ ops = 0 /\ raised = "no"
    /\ asked = [for |-> "nil", n |-> 0] /\ missed = {} /\ late = FALSE
    /\ overtaken = FALSE

----------------------------------------------------------------------------
(* The main thread.                                                        *)

UserMay == main = "idle" /\ raised = "no" /\ ops < MaxOps
Operate == UserMay /\ ops' = ops + 1

\* reloadSections: of the results begins: the rows are counted, and those of the other
\* sections compared with what they were.
CountResults_Some(rows, then) ==   \* mutant: no reload when there is nothing to show
    IF rows > 0
    THEN counted' = rows /\ main' = then /\ UNCHANGED raised
    ELSE UNCHANGED <<counted, main, raised>>

CountResults(rows, then) ==
    IF table.bar = BarRows /\ table.home.rows = playlistModels.rows
    THEN counted' = rows /\ main' = then /\ UNCHANGED raised
    ELSE raised' = "update" /\ UNCHANGED <<counted, main>>

\* Results were handed to the delegate queue and are not shown yet.
Arriving == queue \in {"swapped", "forget", "search"} \/ "search" \in Range(blocks)

\* The results after an empty search.
Cleared_Kept == searchModels      \* mutant: the results are hidden and kept
Cleared == Nil

\* The search bar's operations need its row.
Search ==
    /\ Operate
    /\ table.bar = 1
    /\ \E q \in Queries : /\ net' = net \cup {[for |-> q, n |-> ops + 1]}
                         /\ asked' = [for |-> q, n |-> ops + 1]
    /\ UNCHANGED <<data, choice, table, main, counted, queue, blocks, missed, late,
                   overtaken, raised>>

SearchNothing ==
    /\ Operate
    /\ table.bar = 1
    /\ searchModels' = Cleared
    /\ show' = FALSE
    /\ button' = FALSE
    /\ CountResults(0, "last")
    /\ asked' = [for |-> "nil", n |-> ops + 1]
    /\ late' = (late \/ Arriving)
    /\ UNCHANGED <<playlistModels, choice, table, queue, blocks, net, missed, overtaken>>

ToggleResults ==
    /\ Operate
    /\ button
    /\ show' = ~show
    /\ CountResults(ResultRows(~show), "last")
    /\ UNCHANGED <<playlistModels, searchModels, button, choice, table, queue, blocks,
                   net, past>>

\* The array behind a section.
ModelsOf_Search(section) == searchModels   \* mutant: one array for both
ModelsOf(section) == IF section = "results" THEN searchModels ELSE playlistModels

\* The cells of the rows counted are filled from the array as it is now.
CellsOfResults ==
    /\ main \in {"cells", "last"} /\ raised = "no"
    /\ IF counted <= ModelsOf("results").rows
       THEN /\ table' = [table EXCEPT !.results =
                            IF counted = 0 THEN Nil ELSE [of |-> ModelsOf("results").of, rows |-> counted]]
            /\ main' = IF main = "cells" THEN "again" ELSE "idle"
            /\ UNCHANGED raised
       ELSE raised' = "range" /\ UNCHANGED <<table, main>>
    /\ UNCHANGED <<data, choice, counted, queue, blocks, net, ops, past>>

\* didSelectRowAtIndexPath: looks the row up in the array, not in what is shown, and
\* opens its playlist; the delegate queue runs on until the selection is kept.
Opens(section, row) ==
    /\ played' = {[of |-> ModelsOf(section).of, row |-> row]}
    /\ main' = "tapped"
    /\ overtaken' = FALSE

TapResult ==
    /\ Operate
    /\ \E row \in 1 .. table.results.rows :
           IF row <= ModelsOf("results").rows
           THEN Opens("results", row) /\ UNCHANGED raised
           ELSE raised' = "range" /\ UNCHANGED <<played, main, overtaken>>
    /\ UNCHANGED <<data, selected, table, counted, queue, blocks, net, asked, missed, late>>

TapPlaylist ==
    /\ Operate
    /\ \E row \in 1 .. table.home.rows : Opens("home", row)
    /\ UNCHANGED <<data, selected, table, counted, queue, blocks, net, asked, missed, late,
                   raised>>

\* The section a row was tapped in.
SectionOf(p) == IF p.of = "home" THEN "home" ELSE "results"

KeepSelected ==
    /\ main = "tapped" /\ raised = "no"
    /\ selected' = {[section |-> SectionOf(p), row |-> p.row] : p \in played}
    /\ main' = "idle"
    /\ UNCHANGED <<data, played, table, counted, queue, blocks, net, ops, past, raised>>

\* The dispatched blocks.  The home tab's reloads the playlists and the search bar;
\* that of a search reloads the results twice, first by setting shouldShowSearchResults.
Runs(block) == main = "idle" /\ raised = "no" /\ blocks # << >> /\ Head(blocks) = block

ReloadHome ==
    /\ Runs("home")
    /\ blocks' = Tail(blocks)
    /\ IF table.results.rows = ResultRows(show)
       THEN /\ table' = [table EXCEPT !.bar = BarRows, !.home = playlistModels]
            /\ UNCHANGED raised
       ELSE raised' = "update" /\ UNCHANGED table
    /\ UNCHANGED <<data, choice, main, counted, queue, net, ops, past>>

ShowResults ==
    /\ Runs("search")
    /\ blocks' = Tail(blocks)
    /\ button' = TRUE
    /\ show' = TRUE
    /\ CountResults(ResultRows(TRUE), "cells")
    /\ UNCHANGED <<playlistModels, searchModels, choice, table, queue, net, ops, past>>

ReloadAgain ==
    /\ main = "again" /\ raised = "no"
    /\ CountResults(ResultRows(show), "last")
    /\ UNCHANGED <<data, choice, table, queue, blocks, net, ops, past>>

Main == KeepSelected \/ CellsOfResults \/ ReloadHome \/ ShowResults \/ ReloadAgain

----------------------------------------------------------------------------
(* The delegate queue.                                                     *)

Fails(r) ==
    /\ queue = "idle" /\ raised = "no"
    /\ net' = net \ {r}
    /\ missed' = missed \cup {r}
    /\ UNCHANGED <<data, choice, table, main, counted, queue, blocks, ops, asked, late,
                   overtaken, raised>>

HomeReply(r) ==
    /\ queue = "idle" /\ raised = "no" /\ r.for = "home"
    /\ net' = net \ {r}
    /\ \E rows \in Sizes : playlistModels' = [of |-> "home", rows |-> rows]
    /\ queue' = "home"
    /\ UNCHANGED <<searchModels, show, button, choice, table, main, counted, blocks,
                   ops, past, raised>>

SearchReply(r) ==
    /\ queue = "idle" /\ raised = "no" /\ r.for \in Queries
    /\ net' = net \ {r}
    /\ \E rows \in Sizes : searchModels' = [of |-> r.for, rows |-> rows]
    /\ queue' = "swapped"
    /\ late' = (late \/ r # asked)
    /\ overtaken' = (overtaken \/ main = "tapped")
    /\ UNCHANGED <<playlistModels, show, button, choice, table, main, counted, blocks,
                   ops, asked, missed, raised>>

Reply == \E r \in net : Fails(r) \/ HomeReply(r) \/ SearchReply(r)

\* A selection in the old results is forgotten, after a test.
InResults_Never == FALSE          \* mutant: the selection is kept
InResults == \E path \in selected : path.section = "results"

TestSelected ==
    /\ queue = "swapped" /\ raised = "no"
    /\ queue' = IF InResults THEN "forget" ELSE "search"
    /\ UNCHANGED <<data, choice, table, main, counted, blocks, net, ops, past, raised>>

ForgetSelected ==
    /\ queue = "forget" /\ raised = "no"
    /\ selected' = {}
    /\ queue' = "search"
    /\ UNCHANGED <<data, played, table, main, counted, blocks, net, ops, past, raised>>

Dispatch ==
    /\ queue \in {"home", "search"} /\ raised = "no"
    /\ blocks' = Append(blocks, queue)
    /\ queue' = "idle"
    /\ UNCHANGED <<data, choice, table, main, counted, net, ops, past, raised>>

Queue == TestSelected \/ ForgetSelected \/ Dispatch

----------------------------------------------------------------------------
Next == \/ Search \/ SearchNothing \/ ToggleResults \/ TapResult \/ TapPlaylist
        \/ Main \/ Reply \/ Queue

Spec == Init /\ [][Next]_vars

\* Both threads run and every request is answered, if only with an error.
FairSpec == Spec /\ WF_vars(Main) /\ WF_vars(Queue) /\ WF_vars(Reply)

----------------------------------------------------------------------------
TypeOK ==
    /\ playlistModels \in Models /\ searchModels \in Models
    /\ show \in BOOLEAN /\ button \in BOOLEAN /\ late \in BOOLEAN
    /\ overtaken \in BOOLEAN
    /\ asked \in [for : {"nil"} \cup Queries, n : Nat]
    /\ missed \subseteq [for : {"home"} \cup Queries, n : Nat]
    /\ selected \subseteq [section : {"results", "home"}, row : Nat \ {0}]
    /\ played \subseteq [of : {"home"} \cup Queries, row : Nat \ {0}]
    /\ table \in [bar : {0, 1}, results : Models, home : Models]
    /\ main \in {"idle", "tapped", "cells", "again", "last"}
    /\ queue \in {"idle", "home", "swapped", "forget", "search"}
    /\ blocks \in Seq({"home", "search"})
    /\ net \subseteq [for : {"home"} \cup Queries, n : Nat]
    /\ counted \in Nat /\ ops \in Nat
    /\ raised \in {"no", "update", "range"}

\* The results were replaced and their reload is not over.
Reloading == main \in {"cells", "again", "last"}
Swapped == Arriving \/ Reloading

\* What the user sees is what the arrays hold, except while a reload is on its way:
\* each replacement is followed by one, whatever the user does between the two.
TableAgrees ==
    (~Swapped /\ raised = "no" /\ queue # "home" /\ "home" \notin Range(blocks))
        => /\ table.bar = BarRows /\ table.home = playlistModels
           /\ table.results.rows = ResultRows(show)
           /\ table.results.rows > 0 => table.results = searchModels

\* The home tab and a search never reload sections the other has changed: there is no
\* bar to search with before the home tab is there, and it is fetched once.
UpdatesValid == raised # "update"

\* A row that is shown can be opened and drawn, unless other results were handed over
\* whose reload has not begun.
RowsThere == raised = "range" => Arriving

\* The selection that is marked again when the results are shown is the row that plays,
\* and a row of theirs: once the tap was handled and a new answer's handler has tested the
\* selection, while there are results, and unless they were replaced between the tap's
\* look into the array and its selection, which the handler's test may then miss.
MarkedIsPlaying ==
    (searchModels # Nil /\ queue \notin {"swapped", "forget"} /\ main # "tapped" /\ ~overtaken) =>
        \A path \in selected :
            path.section = "results" =>
                /\ played = {[of |-> searchModels.of, row |-> path.row]}
                /\ path.row <= searchModels.rows

\* The results are those of what was last searched for, and none when that was nothing,
\* once its answer was shown: unless that failed, or an answer came after a newer search
\* or after the field was cleared, which nothing tells from the one that is wanted.
ShowsWhatIsWanted ==
    (~Swapped /\ raised = "no" /\ ~late /\ asked \notin net \cup missed) =>
        /\ searchModels.of = asked.for
        /\ button = (asked.for # "nil")
        /\ asked.for = "nil" => ~show

----------------------------------------------------------------------------
(* The inductive invariant.                                                *)

\* Until the home tab is shown there is no bar, and nothing was searched; from then on
\* the home tab's section stays as it is.
HomeInv ==
    /\ table.bar = 0 =>
        /\ net \subseteq {Home} /\ searchModels = Nil /\ table.results = Nil
        /\ table.home = Nil /\ ~show /\ ~button /\ main = "idle" /\ raised = "no"
        /\ blocks \in Seq({"home"})
        /\ \/ playlistModels = Nil /\ queue = "idle" /\ blocks = << >>
           \/ playlistModels.of = "home" /\ net = {} /\ queue = "home" /\ blocks = << >>
           \/ playlistModels.of = "home" /\ net = {} /\ queue = "idle" /\ Len(blocks) = 1
    /\ table.bar = 1 =>
        /\ playlistModels.of = "home" /\ table.home = playlistModels
        /\ queue # "home" /\ blocks \in Seq({"search"})
        /\ \A r \in net : r.for \in Queries

\* While no other results were handed over, what is counted is what there is, and what
\* is shown is what was counted.
ResultInv ==
    (~Arriving /\ raised = "no") =>
        /\ main = "cells" => show
        /\ main \in {"cells", "last"} => counted = ResultRows(show)
        /\ ~Reloading =>
            /\ table.results.rows = ResultRows(show)
            /\ table.results.rows > 0 => table.results = searchModels

\* Unless results came late, nothing is there or on its way after an empty search, and
\* after another one its results are, if it did not fail.
WantedInv ==
    (~late /\ raised = "no") =>
        IF asked.for = "nil"
        THEN searchModels = Nil /\ ~show /\ ~button /\ ~Arriving
        ELSE asked \in net \cup missed \/ (searchModels.of = asked.for /\ (Arriving \/ button))

\* The row being opened is one of the results, unless they were replaced meanwhile.
TappedInv ==
    (main = "tapped" /\ ~overtaken) =>
        \E p \in played :
            /\ played = {p}
            /\ SectionOf(p) = "results" => p.of = searchModels.of /\ p.row <= searchModels.rows

TableInv == TypeOK /\ HomeInv /\ ResultInv /\ WantedInv /\ TappedInv
            /\ MarkedIsPlaying /\ RowsThere /\ UpdatesValid

\* In the end the user sees what the arrays hold, for good, and has a bar to search with:
\* unless the home tab, asked for once, could not be had.
EventuallyAgrees ==
    <>[](\/ raised # "no"
         \/ /\ table.results.rows = ResultRows(show) /\ table.home = playlistModels
            /\ table.bar = IF Home \in missed THEN 0 ELSE 1)
=============================================================================
