-------------------------------- MODULE Board --------------------------------
(***************************************************************************)
(* What the page draws of the work: the groups of the status view and its  *)
(* one page (flywheel-domain/src/status.rs), and the board's lanes, forms, *)
(* marks and the list of what finished (flywheel-surface/src/page.rs).     *)
(*                                                                         *)
(* A read is a function from ids to objects, and everything here is a      *)
(* function of one read.  A form is what it draws: the objects on it, with *)
(* the words and the layout left out.                                      *)
(***************************************************************************)
EXTENDS Naturals, FiniteSets

\* An object: its machine, the object it hangs off, the state of its life, and
\* whether a state nested in that one asks the operator something.  A capture's
\* life is its reading and a signal's its move.  chore: its type is the chore's.
NoParent == "none"
Thing(machine, parent, life) ==
  [machine |-> machine, parent |-> parent, life |-> life,
   asks |-> FALSE, chore |-> FALSE, held |-> FALSE]

\* What of S is reached from x along the arrows, x among it: what every part of
\* S holds that holds x and is left by no arrow.
Reached(S, arrows, x) ==
  {y \in S : \A T \in SUBSET S :
     x \in T /\ (\A a \in arrows : a[1] \in T => a[2] \in T) => y \in T}

------------------------------------------------------------------------------
(* The status view.                                                          *)

\* The machinery's own objects are no work of anybody's.
Machinery == {"rail", "sink", "host", "fact", "lease", "response"}
Rows(read) == {x \in DOMAIN read : read[x].machine \notin Machinery}

\* The lives that finish an object: with no region beside them and final, or
\* listed as done, merged, landed or dropped.  A closed intent is neither: its
\* line's region is never final, and its word is "closed".
Finished ==
  [bolt        |-> {"landed", "dropped"},
   unit        |-> {"merged", "landed", "superseded", "withdrawn", "retired", "dropped"},
   item        |-> {"merged", "dropped"},
   intent      |-> {"dropped"},
   elaboration |-> {"done", "dropped"},
   proposal    |-> {"approved", "withdrawn", "superseded"},
   capture     |-> {"read"}]

\* The lives that ask.
Asking ==
  [bolt        |-> {"land-failed"},
   unit        |-> {"proposed", "claim-moved"},
   item        |-> {"stopped"},
   intent      |-> {"proposed", "archive-failed"},
   elaboration |-> {"proposed"},
   proposal    |-> {"proposed"},
   capture     |-> {}]

In(table, o) == o.machine \in DOMAIN table /\ o.life \in table[o.machine]
Asks(o) == o.asks \/ In(Asking, o)

GroupOf(o) ==
  CASE In(Finished, o) -> "done"
    [] ~In(Finished, o) /\ Asks(o) -> "waiting"
    [] ~In(Finished, o) /\ ~Asks(o) /\ o.held -> "working"
    [] OTHER -> "queued"

Groups == {"done", "waiting", "working", "queued"}

\* A capture is queued while a signal of it is unmoved.
AwaitsAMove(read, x) ==
  \E s \in DOMAIN read :
    read[s].machine = "signal" /\ read[s].parent = x /\ read[s].life = "unmoved"

Group(read, x) ==
  IF read[x].machine = "capture" /\ AwaitsAMove(read, x) THEN "queued" ELSE GroupOf(read[x])

\* The page of the status view draws a row inside the one it is part of where
\* both are in one group, and on its own where they are not.
PartOfOneHere(read, x) ==
  /\ read[x].parent \in Rows(read)
  /\ Group(read, read[x].parent) = Group(read, x)

OnItsOwn(read, g) == {x \in Rows(read) : Group(read, x) = g /\ ~PartOfOneHere(read, x)}

\* The rows drawn inside another, each with the one it is drawn in.
Inside(read) == {<<x, read[x].parent>> : x \in {y \in Rows(read) : PartOfOneHere(read, y)}}

\* What x is drawn in, in what that is drawn in, and so on, with x itself.
Wholes(read, x) == Reached(Rows(read), Inside(read), x)

\* How often x is drawn: once each time one of these is, on its own in a group.
TimesOnStatus(read, x) ==
  Cardinality({at \in Wholes(read, x) \X Groups : at[1] \in OnItsOwn(read, at[2])})

------------------------------------------------------------------------------
(* The lanes of the board.                                                   *)

Lanes ==
  [inception    |-> {"capture", "signal", "intent", "elaboration"},
   plan         |-> {"proposal"},
   construction |-> {"bolt", "unit", "item", "session", "rail"},
   operation    |-> {"sink", "landed"}]

OffTheBoard == {"instance", "curation", "host", "rail", "signal"}

OffEveryBolt(read, x) ==
  read[x].parent \in DOMAIN read => read[read[x].parent].machine # "bolt"

\* A unit proposed off no bolt is a slip, which the plan holds.
SlipInThePlan(read, x) ==
  /\ read[x].machine = "unit" /\ OffEveryBolt(read, x)
  /\ read[x].life \in {"proposed", "in-proposal"}

\* A machine no lane names sits in construction.
InLane(machine, lane) ==
  \/ machine \in Lanes[lane]
  \/ lane = "construction" /\ \A l \in DOMAIN Lanes : machine \notin Lanes[l]

RowInLane(read, x, lane) ==
  IF SlipInThePlan(read, x) THEN lane = "plan" ELSE InLane(read[x].machine, lane)

SeveralSignals(read, x) ==
  Cardinality({s \in DOMAIN read : read[s].machine = "signal" /\ read[s].parent = x}) > 1

LaneRows(read, lane) ==
  {x \in Rows(read) :
     /\ read[x].machine \notin OffTheBoard
     /\ RowInLane(read, x, lane)
     /\ ~(read[x].machine = "capture" /\ SeveralSignals(read, x))}

\* Which kind draws which inside itself.
Nests == {<<"intent", "elaboration">>, <<"bolt", "unit">>, <<"unit", "item">>}

\* The rows of the lane drawn inside this one, and whether this one is.
ChildrenOf(read, x, mine) ==
  {y \in mine : read[y].parent = x /\ <<read[x].machine, read[y].machine>> \in Nests}

NestedInItsParent_Named(read, x, mine) == read[x].parent \in DOMAIN read

NestedInItsParent(read, x, mine) == \E p \in mine : x \in ChildrenOf(read, p, mine)

GroupRows(read, group, mine) ==
  {x \in mine :
     /\ Group(read, x) = group
     /\ ~NestedInItsParent(read, x, mine)
     /\ ~(group = "done" /\ read[x].machine = "capture")}

\* A chore of a shared line: proposed it is a slip, accepted an item under the
\* line's own head, and once merged it has left the lane.
IsSharedLineChore(read, x) ==
  read[x].machine = "unit" /\ read[x].chore /\ OffEveryBolt(read, x)

AcceptedSharedLineChore(read, x) ==
  /\ IsSharedLineChore(read, x)
  /\ read[x].life \notin {"in-proposal", "proposed", "deferred", "withdrawn",
                          "superseded", "dropped", "retired"}

LandedSharedLineChore(read, x) ==
  IsSharedLineChore(read, x) /\ read[x].life \in {"merged", "landed"}

------------------------------------------------------------------------------
(* The forms: the objects each draws, x's own first.  A form that holds no   *)
(* other is the object alone: a bead, a chore under its line's head, a       *)
(* proposal's sheet, a note's quote, and a row for every other kind.         *)

Bead(x) == {x}
ChoreItem(x) == {x}
Sheet(x) == {x}
Quote(x) == {x}
Sessrow(x) == {x}

\* An intent with its elaborations, a unit in its bolt's chain with its items,
\* an open bolt with its chain, one that is over with its units' names, and a
\* unit off every ledger with its items.
Thread(read, x, mine) == {x} \cup UNION {Bead(e) : e \in ChildrenOf(read, x, mine)}
LgUnit(read, u, mine) == {u} \cup ChildrenOf(read, u, mine)
Chain(read, units, mine) == UNION {LgUnit(read, u, mine) : u \in units}
Ledger(read, x, mine) == {x} \cup Chain(read, ChildrenOf(read, x, mine), mine)
Record(read, x, mine) == {x} \cup ChildrenOf(read, x, mine)
Slip(read, x, mine) == {x} \cup ChildrenOf(read, x, mine)

\* The form of an object that has a place of its own on the board.
Form(read, x, mine) ==
  LET m == read[x].machine
  IN CASE m = "bolt" /\ Group(read, x) = "done" -> Record(read, x, mine)
       [] m = "bolt" /\ Group(read, x) # "done" -> Ledger(read, x, mine)
       [] m = "unit" /\ AcceptedSharedLineChore(read, x) -> ChoreItem(x)
       [] m = "unit" /\ ~AcceptedSharedLineChore(read, x) -> Slip(read, x, mine)
       [] m = "intent" -> Thread(read, x, mine)
       [] m = "elaboration" -> Bead(x)
       [] m = "proposal" -> Sheet(x)
       [] m = "capture" -> Quote(x)
       [] OTHER -> Sessrow(x)

\* A lane draws, a group at a time, its accepted chores under their lines'
\* heads and a list of its other rows; one that has landed is not drawn.
Held(read, group, mine) == {x \in GroupRows(read, group, mine) : ~LandedSharedLineChore(read, x)}
ChoresHeads(read, group, mine) == {x \in Held(read, group, mine) : AcceptedSharedLineChore(read, x)}
Listed(read, group, mine) == Held(read, group, mine) \ ChoresHeads(read, group, mine)

\* The rows a list's `more` counts the next fifty of.
ListPart(read, group, mine) == GroupRows(read, group, mine)

LaneForms(read, lane) ==
  LET mine == LaneRows(read, lane)
      drawn(g) == ChoresHeads(read, g, mine) \cup Listed(read, g, mine)
  IN {[of |-> x, draws |-> Form(read, x, mine)] : x \in UNION {drawn(g) : g \in Groups}}

FormsOf(read) ==
  UNION {{[lane |-> l, of |-> f.of, draws |-> f.draws] : f \in LaneForms(read, l)} : l \in DOMAIN Lanes}

\* What finished lately, before it is cut to today's and the last twenty.
Since(read) ==
  {x \in DOMAIN read :
     LET o == read[x] IN
     \/ o.machine = "capture" /\ ~SeveralSignals(read, x)
     \/ o.machine = "signal" /\ o.life \in {"routed", "joined", "dropped"}
     \/ o.machine = "unit" /\ o.life \in {"merged", "dropped"}
     \/ o.life = "landed" /\ (o.machine = "bolt" \/ IsSharedLineChore(read, x))
     \/ o.machine = "intent" /\ o.life \in {"closed", "dropped"}}

------------------------------------------------------------------------------
(* The marks: every decision lights the object it stands on, or the nearest  *)
(* above it that the board may draw, on a form of that object's own.         *)

Ancestry(read) ==
  {<<x, read[x].parent>> : x \in {y \in DOMAIN read : read[y].parent \in DOMAIN read}}

\* x and what it hangs off, as far as the read goes.
Above(read, x) == Reached(DOMAIN read, Ancestry(read), x)

MayBeDrawn(read) == {x \in Rows(read) : read[x].machine \notin OffTheBoard}

\* The nearest the board may draw, and x itself where there is none.
BoardObject(read, x) ==
  LET drawn == Above(read, x) \cap MayBeDrawn(read)
  IN IF drawn = {} THEN x ELSE CHOOSE y \in drawn : drawn \subseteq Above(read, y)

MarksOf(read, x, forms) == {f \in forms : f.of = BoardObject(read, x)}

------------------------------------------------------------------------------
(* The reads: a bolt with a unit and its item, a unit off every bolt with    *)
(* its item, and a thread beside a proposal and a note, each object in any   *)
(* state of its life.  A unit has items once it was approved.                *)

UnitLives ==
  {"in-proposal", "proposed", "deferred", "superseded", "approved", "waiting", "claim-moved",
   "in-flight", "merged", "landed", "withdrawn", "retired", "dropped"}
Unapproved == {"in-proposal", "proposed", "deferred", "superseded", "withdrawn"}
ItemLives == {"waiting", "in-type", "stopped", "merged", "dropped"}

UnitWithItem(unit, item) ==
  [x \in (IF unit.life \in Unapproved THEN {"unit"} ELSE {"unit", "item"}) |->
     IF x = "unit" THEN unit ELSE item]

Beside(read, x, o) == [y \in DOMAIN read \cup {x} |-> IF y = x THEN o ELSE read[y]]

Building ==
  {Beside(UnitWithItem([Thing("unit", "bolt", u) EXCEPT !.chore = c],
                    [Thing("item", "unit", i) EXCEPT !.held = h]),
       "bolt", [Thing("bolt", NoParent, b) EXCEPT !.asks = (b = "open" /\ a)]) :
     b \in {"open", "landing", "land-failed", "landed", "dropped"}, a \in BOOLEAN,
     u \in UnitLives, c \in BOOLEAN, i \in ItemLives, h \in BOOLEAN}

OffBolts ==
  {Beside(UnitWithItem([Thing("unit", p, u) EXCEPT !.chore = c], Thing("item", "unit", i)),
       p, Thing(p, NoParent, IF p = "intent" THEN "open" ELSE "standing")) :
     p \in {"repository", "intent"}, u \in UnitLives, c \in BOOLEAN, i \in ItemLives}

Designing ==
  {Beside(Beside(Beside(Beside([x \in s |-> Thing("signal", "capture", m)],
       "capture", Thing("capture", NoParent, k)),
       "elaboration", Thing("elaboration", "intent", e)),
       "proposal", Thing("proposal", "planning", p)),
       "intent", [Thing("intent", NoParent, n) EXCEPT !.asks = (n = "open" /\ a)]) :
     s \in {{}, {"one"}, {"one", "two"}}, m \in {"unmoved", "joined", "attached"},
     k \in {"captured", "read"}, e \in {"proposed", "working", "done", "dropped"},
     p \in {"proposed", "deferred", "approved"}, a \in BOOLEAN,
     n \in {"proposed", "open", "archiving", "archive-failed", "closed", "dropped"}}

Reads == Building \cup OffBolts \cup Designing

\* Drawn nowhere: the items of a chore under its line's head, and those of a
\* bolt that is over, whose record names its units.
HiddenByItsWhole(read, x) ==
  /\ read[x].machine = "item"
  /\ LET u == read[x].parent IN
     \/ AcceptedSharedLineChore(read, u)
     \/ ~OffEveryBolt(read, u) /\ Group(read, read[u].parent) = "done"

\* Every object of a read is in one place.
InOnePlace(read) ==
  LET forms == FormsOf(read)
      on(x) == {f \in forms : x \in f.draws}
  IN \A x \in Rows(read) :
       /\ TimesOnStatus(read, x) = 1
       /\ Cardinality(on(x)) <= 1
       /\ (on(x) = {} /\ read[x].machine \notin OffTheBoard) =>
            \/ x \in Since(read)
            \/ read[x].machine = "capture" /\ SeveralSignals(read, x)
            \/ HiddenByItsWhole(read, x)
       /\ (Asks(read[x]) /\ MarksOf(read, x, forms) = {}) => \A f \in on(x) : f.of # x

\* A list goes on with the rows it began with, but where its group holds
\* chores that are accepted or landed, which only its beginning leaves out.
ListsGoOn(read) ==
  \A lane \in DOMAIN Lanes, g \in Groups :
    LET mine == LaneRows(read, lane)
    IN \/ ListPart(read, g, mine) = Listed(read, g, mine)
       \/ \E x \in mine : AcceptedSharedLineChore(read, x) \/ LandedSharedLineChore(read, x)

EveryReadDrawn == \A read \in Reads : InOnePlace(read) /\ ListsGoOn(read)
==============================================================================
