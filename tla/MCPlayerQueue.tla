--------------------------- MODULE MCPlayerQueue ---------------------------
(* PlayerQueue on small instances, and what the comments of                *)
(* LMCurrentPlayerManager.h say of it that its code does not do.           *)
EXTENDS PlayerQueue

\* A reply of one row makes count - 1 zero, one of three rows is extended at the next
\* step, one of four is not.
MCBatchSizes == {1, 3, 4}
MCLongBatch == {3}

\* The header says that setting a playlist "will subsequently start playing the new
\* content".  Modules and lists are matched by index only, so an answer for the old
\* playlist that arrives late is installed, and stays, although nothing failed.
NewContentPlays ==
    (Quiet /\ ~raised /\ "lost" \notin seen /\ endpoints # << >>)
        => \A m \in current : m.list = playlist
=============================================================================
