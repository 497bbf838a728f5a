------------------------------- MODULE Drawn -------------------------------
(***************************************************************************)
(* The board and the status view of the page, drawn of a repository's      *)
(* bolts, units and items as the records of Workspace have them.           *)
(***************************************************************************)
EXTENDS Workspace, Board

\* The bolts, units and items as the page reads them.
Unit(i) == <<"unit", i>>

\* An id names one object: a unit's is no bolt's, no item's and not the line's.
ASSUME IdsApart == \A i \in Items : Unit(i) \notin Bolts \cup Items \cup {Main}

OfStore ==
  [o \in Bolts \cup Items \cup {Unit(i) : i \in Items} |->
     CASE o \in Bolts ->
            [Thing("bolt", Main, store.bolt[o]) EXCEPT !.asks = store.bolt[o] = "open" /\ CloseOffered(o)]
       [] o \in Items ->
            [Thing("item", Unit(o), store.item[o]) EXCEPT !.held = store.item[o] = "in-type"]
       [] OTHER -> Thing("unit", LineOf[o[2]], store.unit[o[2]])]

\* Every object of the work is in one place: drawn once on the board, or gone
\* from it to the list of what finished or the tray of captures of several
\* signals, and once on the status page whatever its whole's group; and a
\* decision is marked once unless its object is drawn inside another's form
\* (page.rs lane, group_rows, nested_in_its_parent; status.rs render).  So of
\* what this store holds once a pass has pushed, which is when the page reads it,
\* and of every read beside it.
DrawnOnce == (Quiet => InOnePlace(OfStore)) /\ EveryReadDrawn
=============================================================================
