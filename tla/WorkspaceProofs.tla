---------------------------- MODULE WorkspaceProofs ----------------------------
(***************************************************************************)
(* What a repository's records say of its branches, proved of every number *)
(* of bolts, items and lost ticks; and that the board and the status page  *)
(* draw each object once, of whatever is read.                             *)
(*                                                                         *)
(* A tick decides everything on what is pushed and then does it, so what   *)
(* it is about to do is a function of `pushed'; ContainsInv says how far   *)
(* the tick has come with it: what is still due, what a move may have made *)
(* of each region, and what the acts done so far have left in the          *)
(* branches.  A lost tick leaves the branches changed and the records      *)
(* unchanged, so most of its parts are about work that is in a branch and  *)
(* not on record, and is done again in the same order by the next tick.    *)
(*                                                                         *)
(* An action is first shown to be one of a few kinds of step (StepIs), and *)
(* each part of the invariant is kept by the kinds.                        *)
(*                                                                         *)
(* Of the board: a read is a forest (Forest), so each row has one whole    *)
(* that is in nothing (Tops), and the lanes and what nests in what leave   *)
(* one form an object can be on.                                           *)
(***************************************************************************)
EXTENDS Drawn, FiniteSetTheorems, WellFoundedInduction, TLAPS

------------------------------------------------------------------------------
(* The invariant.                                                            *)

Store ==
  [bolt : [Bolts -> {"open", "landing", "landed", "dropped"}],
   line : [Bolts -> {"absent", "current", "landing", "landed", "removing", "removed"}],
   unit : [Items -> {"proposed", "in-flight", "merged", "dropped", "retired"}],
   item : [Items -> {"waiting", "placing", "in-type", "merging", "merged", "dropped"}],
   place : [Items -> {"none", "absent", "preparing", "ready", "behind", "conflict",
                      "merging", "merged", "removing", "removed"}],
   said : [Bolts \cup Items -> {"nothing", "yes", "drop"}],
   done : SUBSET Items, exists : SUBSET Items, contains : SUBSET Items,
   merged : SUBSET Items, conflicted : SUBSET Items,
   lines : SUBSET Bolts, landed : SUBSET Bolts, accepted : SUBSET Bolts]

\* Every worktree is on a branch.
Copies ==
  /\ Main \in DOMAIN bare /\ Main \in DOMAIN githost
  /\ DOMAIN bare \subseteq Branch
  /\ trees \subseteq DOMAIN bare /\ Main \notin trees

Typed == store \in Store /\ pushed \in Store /\ Copies

\* A tick is under way; and what of it is still to be done.
UnderWay == due # {} \/ store # pushed
Owes(region, act, o) == \E m \in due : m.region = region /\ m.act = act /\ m.of = o

\* What every tick plans for a place, as long as none is pushed.
PreparePlanned(i) ==
  \/ pushed.place[i] = "absent"
  \/ pushed.place[i] = "preparing" /\ i \notin pushed.exists
MergePlanned(i) ==
  pushed.place[i] = "merging" /\ i \notin pushed.merged /\ i \in pushed.contains

DuePlanned ==
  \A m \in due : \E busy \in SUBSET Items : m.of \in Bolts \cup Items /\ m \in Moves(m.of, busy)

\* Where a tick may have taken each region.
BoltDrift(s, b) ==
  /\ s.bolt[b] \in {pushed.bolt[b], BoltPlan(b)[1]}
  /\ \/ s.line[b] \in {pushed.line[b], LinePlan(b)[1]}
     \/ /\ s.bolt[b] = BoltPlan(b)[1] /\ BoltPlan(b)[2] # "nothing"
        /\ s.line[b] = BoltPlan(b)[2]
ItemDrift(s, i) ==
  /\ s.unit[i] \in {pushed.unit[i], UnitPlan(i)[1]}
  /\ s.item[i] \in {pushed.item[i], ItemPlan(i)[1]}
  /\ \/ s.place[i] = pushed.place[i]
     \/ \E busy \in SUBSET Items : s.place[i] = PlacePlan(i, busy)[1]
     \/ /\ s.item[i] = ItemPlan(i)[1] /\ ItemPlan(i)[2] # "nothing"
        /\ s.place[i] = ItemPlan(i)[2]
RegionDrift(s) == (\A b \in Bolts : BoltDrift(s, b)) /\ (\A i \in Items : ItemDrift(s, i))
FactDrift ==
  /\ store.said = pushed.said /\ store.done = pushed.done
  /\ pushed.merged \subseteq store.merged /\ pushed.landed \subseteq store.landed
  /\ \A i \in store.contains \ pushed.contains :
       PreparePlanned(i) \/ pushed.place[i] = "behind"
  /\ \A i \in pushed.exists \ store.exists : pushed.place[i] = "removing"
Drift == RegionDrift(store) /\ FactDrift

\* How far a line and a bolt, a place and an item, are along together.
Over(i) == pushed.item[i] \in {"merging", "merged", "dropped"}
LineFits(b) ==
  /\ pushed.line[b] \notin {"absent", "current"} => pushed.bolt[b] # "open"
  /\ pushed.line[b] \in {"landing", "landed"} => pushed.bolt[b] \in {"landing", "landed"}
  /\ pushed.line[b] \in {"landed", "removing", "removed"} =>
       b \in pushed.landed \/ pushed.said[b] = "drop"
PlaceFits(i) ==
  /\ pushed.place[i] \in {"merging", "merged", "removing", "removed"} => Over(i)
  /\ pushed.unit[i] = "proposed" => pushed.item[i] = "waiting" /\ pushed.place[i] = "none"
Fits == (\A b \in Bolts : LineFits(b)) /\ (\A i \in Items : PlaceFits(i))

\* A line has its worktree from the first tick that makes it to the one that
\* removes it, and nothing is off it before.
NoneOff(b) ==
  /\ b \notin DOMAIN bare
  /\ \A i \in ItemsOf(b) :
       /\ i \notin DOMAIN bare /\ i \notin store.merged
       /\ Work(i) \notin checkout /\ \A x \in DOMAIN bare : Work(i) \notin bare[x]
LineStands(b) ==
  b \notin trees =>
    /\ pushed.line[b] = "absent" => NoneOff(b) /\ (UnderWay => Owes("line", "create_line", b))
    /\ pushed.line[b] # "absent" => pushed.line[b] \in {"removing", "removed"}
LinesStand == \A b \in Bolts : LineStands(b)

\* A place holds its line's work and its own; one that is done holds it.
OffItsLine(i) ==
  (LineOf[i] \in trees /\ i \in DOMAIN bare) => bare[i] \subseteq bare[LineOf[i]] \cup {Work(i)}
HoldsItsWork(i) ==
  (pushed.place[i] = "merging" \/ (i \in pushed.done /\ ~Over(i))) =>
    i \in DOMAIN bare /\ Work(i) \in bare[i]
Unplaced(i) == pushed.place[i] = "none" => i \notin DOMAIN bare
PlacesHold == \A i \in Items : OffItsLine(i) /\ HoldsItsWork(i) /\ Unplaced(i)

\* Work that reached its line without the fact is merged again by every tick.
OwedMerge(i) ==
  (LineOf[i] \in trees /\ Work(i) \in bare[LineOf[i]] /\ i \notin pushed.merged) =>
    MergePlanned(i) /\ (UnderWay => Owes("place", "merge_place", i) \/ i \in store.merged)

\* A merge a tick has tried is in the line, or conflicts with it from then on.
TriedMerge(i) ==
  (LineOf[i] \in trees /\ MergePlanned(i) /\ UnderWay) =>
    \/ Owes("place", "merge_place", i)
    \/ Work(i) \in bare[LineOf[i]]
    \/ Conflicts(bare[i], bare[LineOf[i]])

\* A tick merges in order, and tells the places off the line.
ToldMerge(i) ==
  i \in store.merged \ pushed.merged =>
    /\ MergePlanned(i)
    /\ \A m \in due : Turn(m) > Turn(Move("place", i, <<"merging", "merge_place">>))
    /\ \A j \in Items \ {i} :
         LineOf[j] = LineOf[i] /\ pushed.place[j] = "merging" => j \notin store.contains

Merges == \A i \in Items : OwedMerge(i) /\ TriedMerge(i) /\ ToldMerge(i)

\* A place a lost tick made lacks of its line what is merged after it is made
\* again.
PreparedEarly(i) ==
  (PreparePlanned(i) /\ i \in DOMAIN bare /\ LineOf[i] \in trees) =>
    /\ \A c \in bare[LineOf[i]] \ bare[i] :
         \/ c = Acceptance(LineOf[i])
         \/ \E j \in ItemsOf(LineOf[i]) : c = Work(j) /\ MergePlanned(j) /\ Order[i] < Order[j]
    /\ \A j \in ItemsOf(LineOf[i]) :
         MergePlanned(j) /\ Order[j] < Order[i] =>
           Work(j) \in bare[i] \/ Conflicts(bare[j], bare[LineOf[i]])
PrepareOwed(i) ==
  (PreparePlanned(i) /\ UnderWay /\ LineOf[i] \in trees /\ i \in DOMAIN bare) =>
    \/ Owes("place", "prepare_place", i)
    \/ store.place[i] # "absent" /\ i \in store.exists
Prepares == \A i \in Items : PreparedEarly(i) /\ PrepareOwed(i)

\* What a place that is recorded as containing its line lacks of it.
KeptUp(s, i) ==
  (i \in s.contains \ s.merged /\ LineOf[i] \in trees /\ i \in DOMAIN bare) =>
    \A c \in bare[LineOf[i]] \ bare[i] :
      \/ c = Acceptance(LineOf[i])
      \/ \E j \in ItemsOf(LineOf[i]) \ s.merged : c = Work(j)
AllKeptUp == \A i \in Items : KeptUp(store, i) /\ KeptUp(pushed, i)

ContainsInv ==
  Typed /\ DuePlanned /\ Drift /\ Fits /\ LinesStand /\ PlacesHold /\ Merges /\ Prepares /\ AllKeptUp

\* Nothing merges into a line that lands.
Landing(b) == pushed.bolt[b] \in {"landing", "landed"}
NothingLate(b) ==
  /\ b \in store.landed => Landing(b)
  /\ Landing(b) => \A i \in ItemsOf(b) : pushed.unit[i] # "in-flight" /\ ~MergePlanned(i)
InItsLine(i) ==
  i \in store.merged /\ LineOf[i] \in trees => Work(i) \in bare[LineOf[i]]
Landed(i) ==
  i \in store.merged /\ LineOf[i] \in store.landed => Work(i) \in githost[Main]
MergedInv ==
  ContainsInv /\ MergedIsKept
    /\ (\A b \in Bolts : NothingLate(b)) /\ (\A i \in Items : InItsLine(i) /\ Landed(i))

------------------------------------------------------------------------------
(* What is planned.                                                          *)

LEMMA LinePlans ==
  ASSUME NEW b
  PROVE  /\ LinePlan(b)[2] = "create_line" => pushed.line[b] = "absent" /\ LinePlan(b)[1] = "current"
         /\ LinePlan(b)[2] \in {"write_acceptance", "land_line"} =>
              pushed.line[b] = "landing" /\ LinePlan(b)[1] = "landing"
         /\ LinePlan(b)[2] = "remove_line" =>
              pushed.line[b] = "removing" /\ LinePlan(b)[1] = "removing"
         /\ LinePlan(b)[2] \in {"nothing", "create_line", "write_acceptance", "land_line", "remove_line"}
         /\ \/ LinePlan(b)[1] = pushed.line[b]
            \/ pushed.line[b] = "absent" /\ LinePlan(b)[1] = "current"
            \/ pushed.line[b] = "landing" /\ LinePlan(b)[1] = "landed" /\ b \in pushed.landed
            \/ pushed.line[b] = "landed" /\ LinePlan(b)[1] = "removing"
            \/ pushed.line[b] = "removing" /\ LinePlan(b)[1] = "removed"
         /\ pushed.line[b] = "absent" => LinePlan(b) = <<"current", "create_line">>
  BY DEF LinePlan

LEMMA BoltPlans ==
  ASSUME NEW b
  PROVE  \/ BoltPlan(b) = <<pushed.bolt[b], "nothing">>
         \/ /\ BoltPlan(b) = <<"landing", "landing">> /\ pushed.bolt[b] = "open"
            /\ pushed.said[b] = "yes" /\ CloseOffered(b)
         \/ BoltPlan(b) = <<"dropped", "removing">> /\ pushed.bolt[b] = "open" /\ pushed.said[b] = "drop"
         \/ /\ BoltPlan(b) = <<"landed", "nothing">>
            /\ pushed.bolt[b] = "landing" /\ pushed.line[b] = "removed"
  BY DEF BoltPlan

LEMMA UnitPlans ==
  ASSUME NEW i
  PROVE  /\ UnitPlan(i)[2] = "nothing"
         /\ \/ UnitPlan(i)[1] = pushed.unit[i]
            \/ pushed.unit[i] = "in-flight" /\ UnitPlan(i)[1] \in {"dropped", "retired", "merged"}
  BY DEF UnitPlan

LEMMA ItemPlans ==
  ASSUME NEW i
  PROVE  \/ ItemPlan(i) = <<pushed.item[i], "nothing">>
         \/ ItemPlan(i) = <<"in-type", "nothing">> /\ pushed.item[i] = "placing" /\ pushed.place[i] = "ready"
         \/ ItemPlan(i) = <<"dropped", "removing">> /\ pushed.item[i] = "in-type"
         \/ /\ ItemPlan(i) = <<"merging", "merging">> /\ pushed.item[i] = "in-type"
            /\ pushed.unit[i] = "in-flight" /\ i \in pushed.done
         \/ ItemPlan(i) = <<"merged", "nothing">> /\ pushed.item[i] = "merging"
  BY DEF ItemPlan

LEMMA PlacePlans ==
  ASSUME NEW i, NEW busy
  PROVE  LET at == pushed.place[i]
             plan == PlacePlan(i, busy)
         IN /\ plan = <<plan[1], plan[2]>>
            /\ plan[2] \in {"nothing", "prepare_place", "rebase_place", "merge_place", "remove_place"}
            /\ plan[2] = "prepare_place" => PreparePlanned(i) /\ plan[1] = "preparing"
            /\ plan[2] = "rebase_place" => at = "behind" /\ plan[1] = "behind"
            /\ plan[2] = "merge_place" => MergePlanned(i) /\ plan[1] = "merging"
            /\ plan[2] = "remove_place" => at = "removing" /\ plan[1] = "removing"
            /\ PreparePlanned(i) => plan = <<"preparing", "prepare_place">>
            /\ MergePlanned(i) => plan = <<"merging", "merge_place">>
            /\ plan[1] = "absent" => at \in {"none", "absent"}
            /\ plan[1] = "none" => at = "none"
            /\ at = "none" => plan[1] = "none" \/ pushed.item[i] = "placing"
            /\ plan[1] = "preparing" => at \in {"absent", "preparing"}
            /\ plan[1] = "merging" => MergePlanned(i)
            /\ plan[1] \in {"merged", "removing", "removed"} =>
                 at \in {"merging", "merged", "removing", "removed"}
  BY DEF PlacePlan, PreparePlanned, MergePlanned, MergeSlot

------------------------------------------------------------------------------
(* The tick's moves, in their order.                                         *)

LEMMA MoveOf ==
  ASSUME DuePlanned, NEW m \in due
  PROVE  \/ m.of \in Bolts /\ m = Move("line", m.of, LinePlan(m.of))
         \/ m.of \in Bolts /\ m = Move("bolt", m.of, BoltPlan(m.of))
         \/ m.of \in Items /\ \E busy \in SUBSET Items : m = Move("place", m.of, PlacePlan(m.of, busy))
         \/ m.of \in Items /\ m = Move("unit", m.of, UnitPlan(m.of))
         \/ m.of \in Items /\ m = Move("item", m.of, ItemPlan(m.of))
  BY WorkspaceAssumption DEF DuePlanned, Moves, Regions

LEMMA TurnIsNat ==
  ASSUME DuePlanned, NEW m \in due
  PROVE  Turn(m) \in Nat /\ m.of \in Bolts \cup Items /\ Order[m.of] \in Nat
<1>1. m.of \in Bolts \cup Items
  BY DEF DuePlanned
<1>2. Order[m.of] \in Nat
  BY <1>1, WorkspaceAssumption DEF Injection, IsInjective
<1>3. Depth(m.region) \in Nat
  BY DEF Depth
<1> QED BY <1>1, <1>2, <1>3 DEF Turn

LEMMA NowIsFirst ==
  ASSUME DuePlanned, due # {}
  PROVE  Now \in due /\ \A n \in due : Turn(Now) <= Turn(n)
<1> DEFINE turns == {Turn(n) : n \in due}
<1>1. turns \subseteq Nat /\ turns # {}
  BY TurnIsNat
<1>2. \E t \in turns : \A u \in turns : t <= u
  <2> HIDE DEF turns
  <2>1. PICK t \in turns : \A u \in turns : ~ (<<u, t>> \in OpToRel(<, Nat))
    BY <1>1, NatLessThanWellFounded, WFMin
  <2>2. \A u \in turns : ~ (u < t)
    BY <1>1, <2>1 DEF OpToRel
  <2> QED BY <1>1, <2>2
<1>3. \E m \in due : \A n \in due : Turn(m) <= Turn(n)
  BY <1>2
<1> QED BY <1>3 DEF Now

\* What a move leaves alone.
SameFacts(s) ==
  /\ s.said = store.said /\ s.done = store.done
  /\ s.exists = store.exists /\ s.contains = store.contains /\ s.merged = store.merged
  /\ s.conflicted = store.conflicted /\ s.lines = store.lines
  /\ s.landed = store.landed /\ s.accepted = store.accepted

\* A place that has left `absent' does not come back to it.
PlaceGoesOn(s) ==
  \A i \in Items : s.place[i] = store.place[i] \/ s.place[i] # "absent" \/ pushed.place[i] = "none"

LEMMA PlansTyped ==
  ASSUME pushed \in Store
  PROVE  /\ \A b \in Bolts : LinePlan(b)[1] \in {"absent", "current", "landing", "landed", "removing", "removed"}
         /\ \A b \in Bolts : BoltPlan(b)[1] \in {"open", "landing", "landed", "dropped"}
         /\ \A i \in Items : UnitPlan(i)[1] \in {"proposed", "in-flight", "merged", "dropped", "retired"}
         /\ \A i \in Items :
              ItemPlan(i)[1] \in {"waiting", "placing", "in-type", "merging", "merged", "dropped"}
         /\ \A i \in Items, busy \in SUBSET Items :
              PlacePlan(i, busy)[1] \in {"none", "absent", "preparing", "ready", "behind", "conflict",
                                         "merging", "merged", "removing", "removed"}
<1>1. ASSUME NEW b \in Bolts
      PROVE  pushed.line[b] \in {"absent", "current", "landing", "landed", "removing", "removed"}
             /\ pushed.bolt[b] \in {"open", "landing", "landed", "dropped"}
  BY DEF Store
<1>2. ASSUME NEW i \in Items
      PROVE  /\ pushed.unit[i] \in {"proposed", "in-flight", "merged", "dropped", "retired"}
             /\ pushed.item[i] \in {"waiting", "placing", "in-type", "merging", "merged", "dropped"}
             /\ pushed.place[i] \in {"none", "absent", "preparing", "ready", "behind", "conflict",
                                     "merging", "merged", "removing", "removed"}
  BY DEF Store
<1>3. \A b \in Bolts : LinePlan(b)[1] \in {"absent", "current", "landing", "landed", "removing", "removed"}
  BY <1>1, LinePlans
<1>4. \A b \in Bolts : BoltPlan(b)[1] \in {"open", "landing", "landed", "dropped"}
  BY <1>1, BoltPlans
<1>5. \A i \in Items : UnitPlan(i)[1] \in {"proposed", "in-flight", "merged", "dropped", "retired"}
  BY <1>2, UnitPlans
<1>6. \A i \in Items :
        ItemPlan(i)[1] \in {"waiting", "placing", "in-type", "merging", "merged", "dropped"}
  BY <1>2, ItemPlans
<1>7. \A i \in Items, busy \in SUBSET Items :
        PlacePlan(i, busy)[1] \in {"none", "absent", "preparing", "ready", "behind", "conflict",
                                   "merging", "merged", "removing", "removed"}
  BY <1>2 DEF PlacePlan
<1> QED BY <1>3, <1>4, <1>5, <1>6, <1>7

LEMMA MovedLine ==
  ASSUME store \in Store, pushed \in Store, RegionDrift(store),
         NEW b \in Bolts, Now = Move("line", b, LinePlan(b))
  PROVE  Moved \in Store /\ RegionDrift(Moved) /\ SameFacts(Moved) /\ PlaceGoesOn(Moved)
<1>1. Moved = [store EXCEPT !.line = [store.line EXCEPT ![b] = LinePlan(b)[1]]]
  BY DEF Moved, Move, Store
<1>2. LinePlan(b)[1] \in {"absent", "current", "landing", "landed", "removing", "removed"}
  BY PlansTyped
<1> DEFINE to == LinePlan(b)[1]
           lines == [store.line EXCEPT ![b] = LinePlan(b)[1]]
<1>3. lines \in [Bolts -> {"absent", "current", "landing", "landed", "removing", "removed"}]
  BY <1>2 DEF Store
<1>4. \A a \in Bolts : lines[a] = store.line[a] \/ lines[a] = LinePlan(a)[1]
  BY DEF Store
<1> HIDE DEF lines
<1>5. Moved \in Store
  BY <1>1, <1>3 DEF Store, lines
<1>6. /\ Moved.line = lines /\ Moved.bolt = store.bolt /\ Moved.unit = store.unit
      /\ Moved.item = store.item /\ Moved.place = store.place /\ SameFacts(Moved)
  BY <1>1 DEF Store, SameFacts, lines
<1>7. RegionDrift(Moved)
  <2>1. ASSUME NEW a \in Bolts PROVE BoltDrift(Moved, a)
    <3>1. BoltDrift(store, a)
      BY DEF RegionDrift
    <3> QED BY <1>4, <1>6, <3>1 DEF BoltDrift
  <2>2. ASSUME NEW i \in Items PROVE ItemDrift(Moved, i)
    <3>1. ItemDrift(store, i)
      BY DEF RegionDrift
    <3> QED BY <1>6, <3>1 DEF ItemDrift
  <2> QED BY <2>1, <2>2 DEF RegionDrift
<1> QED BY <1>5, <1>6, <1>7 DEF PlaceGoesOn

LEMMA MovedBolt ==
  ASSUME store \in Store, pushed \in Store, RegionDrift(store),
         NEW b \in Bolts, Now = Move("bolt", b, BoltPlan(b))
  PROVE  Moved \in Store /\ RegionDrift(Moved) /\ SameFacts(Moved) /\ PlaceGoesOn(Moved)
<1> DEFINE to == BoltPlan(b)[1]
           act == BoltPlan(b)[2]
           bolts == [store.bolt EXCEPT ![b] = BoltPlan(b)[1]]
           lines == IF BoltPlan(b)[2] = "nothing" THEN store.line
                    ELSE [store.line EXCEPT ![b] = BoltPlan(b)[2]]
<1>1. Moved = [store EXCEPT !.bolt = bolts, !.line = lines]
  <2>1. CASE act = "nothing"
    BY <2>1 DEF Moved, Move, Store
  <2>2. CASE act # "nothing"
    BY <2>2 DEF Moved, Move, Store
  <2> QED BY <2>1, <2>2
<1>2. to \in {"open", "landing", "landed", "dropped"} /\ act \in {"nothing", "landing", "removing"}
  BY PlansTyped, BoltPlans
<1>3. /\ bolts \in [Bolts -> {"open", "landing", "landed", "dropped"}]
      /\ lines \in [Bolts -> {"absent", "current", "landing", "landed", "removing", "removed"}]
  BY <1>2 DEF Store
<1>4. \A a \in Bolts : a # b => bolts[a] = store.bolt[a] /\ lines[a] = store.line[a]
  BY DEF Store
<1>5. bolts[b] = to /\ lines[b] = IF act = "nothing" THEN store.line[b] ELSE act
  BY DEF Store
<1> HIDE DEF lines, bolts
<1>6. Moved \in Store
  <2>1. [store EXCEPT !.bolt = bolts] \in Store
    BY <1>3 DEF Store
  <2>2. [[store EXCEPT !.bolt = bolts] EXCEPT !.line = lines] \in Store
    BY <1>3, <2>1 DEF Store
  <2>3. Moved = [[store EXCEPT !.bolt = bolts] EXCEPT !.line = lines]
    BY <1>1 DEF Store
  <2> QED BY <2>2, <2>3
<1>7. /\ Moved.line = lines /\ Moved.bolt = bolts /\ Moved.unit = store.unit
      /\ Moved.item = store.item /\ Moved.place = store.place /\ SameFacts(Moved)
  BY <1>1 DEF Store, SameFacts
<1>8. RegionDrift(Moved)
  <2>1. ASSUME NEW a \in Bolts PROVE BoltDrift(Moved, a)
    <3>1. BoltDrift(store, a)
      BY DEF RegionDrift
    <3>2. CASE a = b
      BY <1>5, <1>7, <3>1, <3>2 DEF BoltDrift
    <3>3. CASE a # b
      BY <1>4, <1>7, <3>1, <3>3 DEF BoltDrift
    <3> QED BY <3>2, <3>3
  <2>2. ASSUME NEW i \in Items PROVE ItemDrift(Moved, i)
    <3>1. ItemDrift(store, i)
      BY DEF RegionDrift
    <3> QED BY <1>7, <3>1 DEF ItemDrift
  <2> QED BY <2>1, <2>2 DEF RegionDrift
<1> QED BY <1>6, <1>7, <1>8 DEF PlaceGoesOn

LEMMA MovedPlace ==
  ASSUME store \in Store, pushed \in Store, RegionDrift(store),
         NEW i \in Items, NEW busy \in SUBSET Items, Now = Move("place", i, PlacePlan(i, busy))
  PROVE  /\ Moved \in Store /\ RegionDrift(Moved) /\ SameFacts(Moved) /\ PlaceGoesOn(Moved)
         /\ Moved.place[i] = PlacePlan(i, busy)[1]
<1> DEFINE to == PlacePlan(i, busy)[1]
           places == [store.place EXCEPT ![i] = PlacePlan(i, busy)[1]]
<1>1. Moved = [store EXCEPT !.place = places]
  BY DEF Moved, Move, Store
<1>2. to \in {"none", "absent", "preparing", "ready", "behind", "conflict",
              "merging", "merged", "removing", "removed"}
  BY PlansTyped
<1>3. places \in [Items -> {"none", "absent", "preparing", "ready", "behind", "conflict",
                            "merging", "merged", "removing", "removed"}]
  BY <1>2 DEF Store
<1>4. /\ \A j \in Items : j # i => places[j] = store.place[j]
      /\ places[i] = to
  BY DEF Store
<1>5. to = "absent" => pushed.place[i] \in {"none", "absent"}
  BY PlacePlans
<1>6. pushed.place[i] # "absent" \/ to # "absent"
  BY PlacePlans DEF PreparePlanned
<1> HIDE DEF places
<1>7. Moved \in Store
  BY <1>1, <1>3 DEF Store
<1>8. /\ Moved.line = store.line /\ Moved.bolt = store.bolt /\ Moved.unit = store.unit
      /\ Moved.item = store.item /\ Moved.place = places /\ SameFacts(Moved)
  BY <1>1 DEF Store, SameFacts
<1>9. RegionDrift(Moved)
  <2>1. ASSUME NEW a \in Bolts PROVE BoltDrift(Moved, a)
    <3>1. BoltDrift(store, a)
      BY DEF RegionDrift
    <3> QED BY <1>8, <3>1 DEF BoltDrift
  <2>2. ASSUME NEW j \in Items PROVE ItemDrift(Moved, j)
    <3>1. ItemDrift(store, j)
      BY DEF RegionDrift
    <3>2. CASE j = i
      BY <1>4, <1>8, <3>1, <3>2 DEF ItemDrift
    <3>3. CASE j # i
      BY <1>4, <1>8, <3>1, <3>3 DEF ItemDrift
    <3> QED BY <3>2, <3>3
  <2> QED BY <2>1, <2>2 DEF RegionDrift
<1>10. PlaceGoesOn(Moved)
  BY <1>4, <1>5, <1>6, <1>8 DEF PlaceGoesOn
<1> QED BY <1>4, <1>7, <1>8, <1>9, <1>10

LEMMA MovedUnit ==
  ASSUME store \in Store, pushed \in Store, RegionDrift(store),
         NEW i \in Items, Now = Move("unit", i, UnitPlan(i))
  PROVE  Moved \in Store /\ RegionDrift(Moved) /\ SameFacts(Moved) /\ PlaceGoesOn(Moved)
<1> DEFINE to == UnitPlan(i)[1]
           units == [store.unit EXCEPT ![i] = UnitPlan(i)[1]]
<1>1. Moved = [store EXCEPT !.unit = units]
  BY DEF Moved, Move, Store
<1>2. to \in {"proposed", "in-flight", "merged", "dropped", "retired"}
  BY PlansTyped
<1>3. units \in [Items -> {"proposed", "in-flight", "merged", "dropped", "retired"}]
  BY <1>2 DEF Store
<1>4. \A j \in Items : units[j] = store.unit[j] \/ units[j] = UnitPlan(j)[1]
  BY DEF Store
<1> HIDE DEF units
<1>5. Moved \in Store
  BY <1>1, <1>3 DEF Store
<1>6. /\ Moved.line = store.line /\ Moved.bolt = store.bolt /\ Moved.unit = units
      /\ Moved.item = store.item /\ Moved.place = store.place /\ SameFacts(Moved)
  BY <1>1 DEF Store, SameFacts
<1>7. RegionDrift(Moved)
  <2>1. ASSUME NEW a \in Bolts PROVE BoltDrift(Moved, a)
    <3>1. BoltDrift(store, a)
      BY DEF RegionDrift
    <3> QED BY <1>6, <3>1 DEF BoltDrift
  <2>2. ASSUME NEW j \in Items PROVE ItemDrift(Moved, j)
    <3>1. ItemDrift(store, j)
      BY DEF RegionDrift
    <3> QED BY <1>4, <1>6, <3>1 DEF ItemDrift
  <2> QED BY <2>1, <2>2 DEF RegionDrift
<1> QED BY <1>5, <1>6, <1>7 DEF PlaceGoesOn

LEMMA MovedItem ==
  ASSUME store \in Store, pushed \in Store, RegionDrift(store),
         NEW i \in Items, Now = Move("item", i, ItemPlan(i))
  PROVE  Moved \in Store /\ RegionDrift(Moved) /\ SameFacts(Moved) /\ PlaceGoesOn(Moved)
<1> DEFINE to == ItemPlan(i)[1]
           act == ItemPlan(i)[2]
           items == [store.item EXCEPT ![i] = ItemPlan(i)[1]]
           places == IF ItemPlan(i)[2] = "nothing" THEN store.place
                     ELSE [store.place EXCEPT ![i] = ItemPlan(i)[2]]
<1>1. Moved = [store EXCEPT !.item = items, !.place = places]
  <2>1. CASE act = "nothing"
    BY <2>1 DEF Moved, Move, Store
  <2>2. CASE act # "nothing"
    BY <2>2 DEF Moved, Move, Store
  <2> QED BY <2>1, <2>2
<1>2. /\ to \in {"waiting", "placing", "in-type", "merging", "merged", "dropped"}
      /\ act \in {"nothing", "merging", "removing"}
  BY PlansTyped, ItemPlans
<1>3. /\ items \in [Items -> {"waiting", "placing", "in-type", "merging", "merged", "dropped"}]
      /\ places \in [Items -> {"none", "absent", "preparing", "ready", "behind", "conflict",
                               "merging", "merged", "removing", "removed"}]
  BY <1>2 DEF Store
<1>4. \A j \in Items : j # i => items[j] = store.item[j] /\ places[j] = store.place[j]
  BY DEF Store
<1>5. items[i] = to /\ places[i] = IF act = "nothing" THEN store.place[i] ELSE act
  BY DEF Store
<1> HIDE DEF items, places
<1>6. Moved \in Store
  <2>1. [store EXCEPT !.item = items] \in Store
    BY <1>3 DEF Store
  <2>2. [[store EXCEPT !.item = items] EXCEPT !.place = places] \in Store
    BY <1>3, <2>1 DEF Store
  <2>3. Moved = [[store EXCEPT !.item = items] EXCEPT !.place = places]
    BY <1>1 DEF Store
  <2> QED BY <2>2, <2>3
<1>7. /\ Moved.line = store.line /\ Moved.bolt = store.bolt /\ Moved.unit = store.unit
      /\ Moved.item = items /\ Moved.place = places /\ SameFacts(Moved)
  BY <1>1 DEF Store, SameFacts
<1>8. RegionDrift(Moved)
  <2>1. ASSUME NEW a \in Bolts PROVE BoltDrift(Moved, a)
    <3>1. BoltDrift(store, a)
      BY DEF RegionDrift
    <3> QED BY <1>7, <3>1 DEF BoltDrift
  <2>2. ASSUME NEW j \in Items PROVE ItemDrift(Moved, j)
    <3>1. ItemDrift(store, j)
      BY DEF RegionDrift
    <3>2. CASE j = i
      BY <1>5, <1>7, <3>1, <3>2 DEF ItemDrift
    <3>3. CASE j # i
      BY <1>4, <1>7, <3>1, <3>3 DEF ItemDrift
    <3> QED BY <3>2, <3>3
  <2> QED BY <2>1, <2>2 DEF RegionDrift
<1>9. PlaceGoesOn(Moved)
  BY <1>2, <1>4, <1>5, <1>7 DEF PlaceGoesOn
<1> QED BY <1>6, <1>7, <1>8, <1>9

LEMMA MovedDrifts ==
  ASSUME store \in Store, pushed \in Store, RegionDrift(store), DuePlanned, Now \in due
  PROVE  Moved \in Store /\ RegionDrift(Moved) /\ SameFacts(Moved) /\ PlaceGoesOn(Moved)
  BY MoveOf, MovedLine, MovedBolt, MovedPlace, MovedUnit, MovedItem

------------------------------------------------------------------------------
(* What a step does to the branches, the records and the facts.              *)

IsNow(region, act, o) ==
  Now \in due /\ Now.region = region /\ Now.act = act /\ Now.of = o

\* A line gains its acceptance and what is merged into it.
LineGrows(b) ==
  /\ b \in trees' \ trees => pushed.line[b] = "absent"
  /\ b \in trees \ trees' => pushed.line[b] = "removing" /\ pushed' = pushed
  /\ b \in DOMAIN bare' \ DOMAIN bare => b \in trees' \/ \E i \in ItemsOf(b) : i \in trees
  /\ b \in DOMAIN bare \ DOMAIN bare' => pushed.line[b] = "removing" /\ pushed' = pushed
  /\ b \in DOMAIN bare \cap DOMAIN bare' => bare[b] \subseteq bare'[b]
  /\ b \in trees \cap trees' =>
       /\ bare[b] \subseteq bare'[b]
       /\ \A c \in bare'[b] \ bare[b] :
            \/ c = Acceptance(b)
            \/ \E j \in ItemsOf(b) :
                 /\ c = Work(j) /\ j \in store'.merged /\ IsNow("place", "merge_place", j)
                 /\ ~ Conflicts(bare[j], bare[b])

\* A place's branch starts at its line and gains what its session commits, or
\* its line.
PlaceGrows(i) ==
  /\ i \in DOMAIN bare' \ DOMAIN bare =>
       /\ IsNow("place", "prepare_place", i) /\ bare'[i] = bare[LineOf[i]]
       /\ LineOf[i] \in DOMAIN bare
  /\ i \in DOMAIN bare \ DOMAIN bare' => pushed.place[i] = "removing" /\ pushed' = pushed
  /\ i \in DOMAIN bare \cap DOMAIN bare' =>
       \/ bare'[i] = bare[i]
       \/ bare'[i] = bare[i] \cup bare[LineOf[i]] /\ pushed.place[i] = "behind"
       \/ bare'[i] = bare[i] \cup {Work(i)} /\ store.item[i] = "in-type"

\* Work that is nowhere stays so, as long as its place has no worktree.
Nowhere(i) == Work(i) \notin checkout /\ \A x \in DOMAIN bare : Work(i) \notin bare[x]
WorkStays(i) == Nowhere(i) /\ i \notin trees => Nowhere(i)'

BranchStep ==
  /\ Copies' /\ githost[Main] \subseteq githost'[Main]
  /\ \A b \in Bolts : LineGrows(b)
  /\ \A i \in Items : PlaceGrows(i) /\ WorkStays(i)

\* What an act writes of an item, and of a line.
ItemFacts(i) ==
  /\ i \in store'.merged \ store.merged =>
       /\ IsNow("place", "merge_place", i)
       /\ \A j \in Items \ {i} : LineOf[j] = LineOf[i] => j \notin store'.contains
       /\ LineOf[i] \in trees => Work(i) \in bare'[LineOf[i]]
       /\ IF LineOf[i] = Main THEN Work(i) \in githost'[Main] /\ bare[i] \subseteq githost'[Main]
          ELSE LineOf[i] \in DOMAIN bare' /\ Work(i) \in bare'[LineOf[i]]
  /\ i \in store'.contains \ store.contains =>
       \/ IsNow("place", "prepare_place", i)
       \/ /\ IsNow("place", "rebase_place", i)
          /\ LineOf[i] \in trees => bare'[LineOf[i]] \subseteq bare'[i]
  /\ i \in store.exists \ store'.exists => pushed.place[i] = "removing"
  /\ IsNow("place", "prepare_place", i) /\ LineOf[i] \in trees =>
       i \in store'.exists /\ store'.place[i] = "preparing"
  /\ IsNow("place", "merge_place", i) /\ LineOf[i] \in trees =>
       \/ Conflicts(bare[i], bare[LineOf[i]]) /\ bare' = bare
       \/ Work(i) \in bare'[LineOf[i]] /\ i \in store'.merged
LineFacts(b) ==
  /\ IsNow("line", "create_line", b) => b \in trees'
  /\ b \in store'.landed \ store.landed =>
       pushed.line[b] = "landing" /\ b \in trees /\ bare[b] \subseteq githost'[Main]

ActStep ==
  /\ Now \in due /\ due' = due \ {Now} /\ pushed' = pushed
  /\ store' \in Store /\ RegionDrift(store') /\ PlaceGoesOn(store')
  /\ store'.said = store.said /\ store'.done = store.done
  /\ store.merged \subseteq store'.merged /\ store.landed \subseteq store'.landed
  /\ \A i \in Items : ItemFacts(i)
  /\ \A b \in Bolts : LineFacts(b)
  /\ BranchStep

LEMMA CommitsDiffer ==
  /\ \A i, j : Work(i) = Work(j) => i = j
  /\ \A i, j : Work(i) # Acceptance(j) /\ Work(i) # Own(j) /\ Work(i) # Elsewhere(j)
  BY DEF Work, Acceptance, Own, Elsewhere

LEMMA NowOnLine ==
  ASSUME DuePlanned, NEW act, Takes("line", act)
  PROVE  /\ Now \in due /\ due' = due \ {Now} /\ pushed' = pushed
         /\ Now.region = "line" /\ Now.act = act /\ Now.of \in Bolts /\ LinePlan(Now.of)[2] = act
<1>1. /\ Now \in due /\ due' = due \ {Now} /\ pushed' = pushed
      /\ Now.region = "line" /\ Now.act = act
  BY DEF Takes, Taken
<1> QED BY <1>1, MoveOf DEF Move

LEMMA NowOnPlace ==
  ASSUME DuePlanned, NEW act, Takes("place", act)
  PROVE  /\ Now \in due /\ due' = due \ {Now} /\ pushed' = pushed
         /\ Now.region = "place" /\ Now.act = act /\ Now.of \in Items
         /\ \E busy \in SUBSET Items :
              /\ PlacePlan(Now.of, busy)[2] = act
              /\ Now = Move("place", Now.of, PlacePlan(Now.of, busy))
<1>1. /\ Now \in due /\ due' = due \ {Now} /\ pushed' = pushed
      /\ Now.region = "place" /\ Now.act = act
  BY DEF Takes, Taken
<1> QED BY <1>1, MoveOf DEF Move

LEMMA SameRegions ==
  ASSUME NEW s, NEW t, s.bolt = t.bolt, s.line = t.line, s.unit = t.unit, s.item = t.item,
         s.place = t.place, RegionDrift(t), PlaceGoesOn(t)
  PROVE  RegionDrift(s) /\ PlaceGoesOn(s)
<1>1. ASSUME NEW b \in Bolts PROVE BoltDrift(s, b)
  <2>1. BoltDrift(t, b)
    BY DEF RegionDrift
  <2> QED BY <2>1 DEF BoltDrift
<1>2. ASSUME NEW i \in Items PROVE ItemDrift(s, i)
  <2>1. ItemDrift(t, i)
    BY DEF RegionDrift
  <2> QED BY <2>1 DEF ItemDrift
<1> QED BY <1>1, <1>2 DEF RegionDrift, PlaceGoesOn

\* A step that leaves the branches as they are.
LEMMA NothingGrows ==
  ASSUME Copies, bare' = bare, trees' = trees, githost' = githost,
         checkout' = checkout
  PROVE  BranchStep
<1>1. Copies'
  BY DEF Copies
<1>2. \A b \in Bolts : LineGrows(b)
  BY DEF LineGrows
<1>3. \A i \in Items : PlaceGrows(i)
  BY DEF PlaceGrows
<1>4. \A i \in Items : WorkStays(i)
  BY DEF WorkStays, Nowhere
<1> QED BY <1>1, <1>2, <1>3, <1>4 DEF BranchStep

LEMMA OnlyTheSharedLine ==
  ASSUME Typed, DOMAIN bare' = DOMAIN bare, trees' = trees,
         \A x \in DOMAIN bare : x # Main => bare'[x] = bare[x],
         Main \in DOMAIN githost', githost[Main] \subseteq githost'[Main],
         \A i \in Items : WorkStays(i)
  PROVE  BranchStep
<1>1. Copies'
  BY DEF Typed, Copies
<1>2. \A b \in Bolts : LineGrows(b)
  BY WorkspaceAssumption DEF LineGrows, Typed, Copies
<1>3. \A i \in Items : PlaceGrows(i)
  BY WorkspaceAssumption DEF PlaceGrows
<1> QED BY <1>1, <1>2, <1>3 DEF BranchStep

\* Acts that write no fact.
LEMMA NoFactActs ==
  ASSUME ContainsInv, Now \in due, due' = due \ {Now}, pushed' = pushed, store' = Moved,
         BranchStep,
         ~ (Now.region = "place" /\ Now.act = "prepare_place" /\ LineOf[Now.of] \in trees),
         ~ (Now.region = "place" /\ Now.act = "merge_place" /\ LineOf[Now.of] \in trees),
         ~ (Now.region = "line" /\ Now.act = "create_line")
  PROVE  ActStep
<1>1. Moved \in Store /\ RegionDrift(Moved) /\ SameFacts(Moved) /\ PlaceGoesOn(Moved)
  BY MovedDrifts DEF ContainsInv, Typed, Drift
<1>2. \A i \in Items : ItemFacts(i)
  BY <1>1 DEF ItemFacts, SameFacts, IsNow
<1>3. \A b \in Bolts : LineFacts(b)
  BY <1>1 DEF LineFacts, SameFacts, IsNow
<1> QED BY <1>1, <1>2, <1>3 DEF ActStep, SameFacts

LEMMA MovingActs ==
  ASSUME ContainsInv, Moving
  PROVE  ActStep
<1>1. Now \in due /\ (Now.act = "nothing" \/ Now.region \in {"bolt", "item"})
  BY DEF Moving
<1>2. BranchStep
  BY NothingGrows DEF Moving, repos, ContainsInv, Typed
<1> QED BY <1>1, <1>2, NoFactActs DEF Moving, Taken

LEMMA MergePlaceRefusedActs ==
  ASSUME ContainsInv, MergePlaceRefused
  PROVE  ActStep
<1>1. Now \in due /\ due' = due \ {Now} /\ pushed' = pushed /\ Now.act = "merge_place"
  BY NowOnPlace DEF MergePlaceRefused, ContainsInv
<1>2. BranchStep
  BY NothingGrows DEF MergePlaceRefused, Failed, ContainsInv, Typed
<1> QED BY <1>1, <1>2, NoFactActs DEF MergePlaceRefused, Failed, Base

LEMMA LandLineFailsActs ==
  ASSUME ContainsInv, LandLineFails
  PROVE  ActStep
<1> DEFINE b == Now.of
<1>1. Now \in due /\ due' = due \ {Now} /\ pushed' = pushed /\ Now.act = "land_line" /\ b \in Bolts
  BY NowOnLine DEF LandLineFails, ContainsInv
<1>2. Typed /\ Main \in DOMAIN bare /\ trees \subseteq DOMAIN bare /\ Main # b
  BY <1>1, WorkspaceAssumption DEF ContainsInv, Typed, Copies
<1>3. /\ store' = Moved /\ checkout' = checkout /\ trees' = trees /\ githost' = githost
      /\ bare' = bare \/ (b \in trees /\ bare' = [bare EXCEPT ![Main] = bare[b]])
  BY DEF LandLineFails, Failed
<1>4. /\ DOMAIN bare' = DOMAIN bare
      /\ \A x \in DOMAIN bare : x # Main => bare'[x] = bare[x]
  BY <1>3
<1>5. \A i \in Items : WorkStays(i)
  BY <1>2, <1>3 DEF WorkStays, Nowhere
<1>6. BranchStep
  BY <1>2, <1>3, <1>4, <1>5, OnlyTheSharedLine DEF Typed, Copies
<1> QED BY <1>1, <1>3, <1>6, NoFactActs

LEMMA LandLineActs ==
  ASSUME ContainsInv, LandLine
  PROVE  ActStep
<1> DEFINE b == Now.of
<1>1. /\ Now \in due /\ due' = due \ {Now} /\ pushed' = pushed
      /\ Now.act = "land_line" /\ Now.region = "line" /\ b \in Bolts /\ pushed.line[b] = "landing"
  BY NowOnLine, LinePlans DEF LandLine, ContainsInv
<1>2. Typed /\ Main \in DOMAIN bare /\ Main \in DOMAIN githost /\ trees \subseteq DOMAIN bare /\ Main # b
  BY <1>1, WorkspaceAssumption DEF ContainsInv, Typed, Copies
<1>3. /\ trees' = trees /\ b \in trees
      /\ bare' = [bare EXCEPT ![Main] = bare[b]] /\ githost' = [githost EXCEPT ![Main] = bare[b]]
      /\ checkout' \in {checkout, bare[b]} /\ githost[Main] \subseteq bare[b]
  BY <1>2 DEF LandLine, Forward
<1>4. /\ DOMAIN bare' = DOMAIN bare
      /\ \A x \in DOMAIN bare : x # Main => bare'[x] = bare[x]
      /\ Main \in DOMAIN githost' /\ githost'[Main] = bare[b]
  BY <1>2, <1>3
<1>5. \A i \in Items : WorkStays(i)
  BY <1>2, <1>3 DEF WorkStays, Nowhere
<1>6. BranchStep
  BY <1>2, <1>3, <1>4, <1>5, OnlyTheSharedLine
<1>7. Moved \in Store /\ RegionDrift(Moved) /\ SameFacts(Moved) /\ PlaceGoesOn(Moved)
  BY <1>1, MovedDrifts DEF ContainsInv, Typed, Drift
<1> DEFINE landed == Moved.landed \cup {b}
<1>8. store' = [Moved EXCEPT !.landed = landed] /\ landed \in SUBSET Bolts
  BY <1>1, <1>7 DEF LandLine, Store
<1> HIDE DEF landed
<1>9. /\ store' \in Store /\ SameFacts([store' EXCEPT !.landed = store.landed])
      /\ store'.bolt = Moved.bolt /\ store'.line = Moved.line /\ store'.unit = Moved.unit
      /\ store'.item = Moved.item /\ store'.place = Moved.place /\ store'.landed = landed
  BY <1>7, <1>8 DEF Store, SameFacts
<1>10. /\ store'.said = store.said /\ store'.done = store.done /\ store'.merged = store.merged
       /\ store'.contains = store.contains /\ store'.exists = store.exists
       /\ store'.landed = store.landed \cup {b}
  BY <1>7, <1>8 DEF Store, SameFacts, landed
<1>11. RegionDrift(store') /\ PlaceGoesOn(store')
  BY <1>7, <1>9, SameRegions
<1>12. \A i \in Items : ItemFacts(i)
  BY <1>1, <1>10 DEF ItemFacts, IsNow
<1>13. \A a \in Bolts : LineFacts(a)
  BY <1>1, <1>3, <1>4, <1>10 DEF LineFacts, IsNow
<1> QED BY <1>1, <1>6, <1>9, <1>10, <1>11, <1>12, <1>13 DEF ActStep

LEMMA WithIs ==
  ASSUME NEW f, NEW x, NEW v
  PROVE  /\ DOMAIN With(f, x, v) = DOMAIN f \cup {x} /\ With(f, x, v)[x] = v
         /\ \A y \in DOMAIN f : y # x => With(f, x, v)[y] = f[y]
  BY DEF With

LEMMA WithoutIs ==
  ASSUME NEW f, NEW x
  PROVE  /\ DOMAIN Without(f, x) = DOMAIN f \ {x}
         /\ \A y \in DOMAIN f : y # x => Without(f, x)[y] = f[y]
  BY DEF Without

\* What an act that writes facts leaves of the rest.
LEMMA ActOf ==
  ASSUME ContainsInv, Now \in due, due' = due \ {Now}, pushed' = pushed,
         store' \in Store,
         store'.bolt = Moved.bolt, store'.line = Moved.line, store'.unit = Moved.unit,
         store'.item = Moved.item, store'.place = Moved.place,
         store'.said = Moved.said, store'.done = Moved.done,
         Moved.merged \subseteq store'.merged, Moved.landed \subseteq store'.landed,
         \A i \in Items : ItemFacts(i), \A b \in Bolts : LineFacts(b),
         BranchStep
  PROVE  ActStep
<1>1. Moved \in Store /\ RegionDrift(Moved) /\ SameFacts(Moved) /\ PlaceGoesOn(Moved)
  BY MovedDrifts DEF ContainsInv, Typed, Drift
<1>2. RegionDrift(store') /\ PlaceGoesOn(store')
  BY <1>1, SameRegions
<1> QED BY <1>1, <1>2 DEF ActStep, SameFacts

LEMMA CreateLineActs ==
  ASSUME ContainsInv, CreateLine
  PROVE  ActStep
<1> DEFINE b == Now.of
<1>1. /\ Now \in due /\ due' = due \ {Now} /\ pushed' = pushed
      /\ Now.act = "create_line" /\ Now.region = "line" /\ b \in Bolts /\ pushed.line[b] = "absent"
  BY NowOnLine, LinePlans DEF CreateLine, ContainsInv
<1>2. /\ Typed /\ Main \in DOMAIN bare /\ Main \in DOMAIN githost /\ trees \subseteq DOMAIN bare
      /\ Main \notin trees /\ DOMAIN bare \subseteq Branch
      /\ Main # b /\ b \notin Items
  BY <1>1, WorkspaceAssumption DEF ContainsInv, Typed, Copies
<1>3. /\ trees' = trees \cup {b} /\ checkout' = checkout /\ githost' = githost
      /\ b \in DOMAIN bare => bare' = bare
      /\ b \notin DOMAIN bare => bare' = With(bare, b, bare[Main])
  BY <1>2 DEF CreateLine, Worktree
<1>4. /\ DOMAIN bare' = DOMAIN bare \cup {b}
      /\ \A x \in DOMAIN bare : bare'[x] = bare[x]
      /\ bare'[b] = bare[b] \/ bare'[b] = bare[Main]
  <2>1. CASE b \in DOMAIN bare
    BY <1>3, <2>1
  <2>2. CASE b \notin DOMAIN bare
    <3>1. bare' = With(bare, b, bare[Main])
      BY <1>3, <2>2
    <3>2. /\ DOMAIN bare' = DOMAIN bare \cup {b} /\ bare'[b] = bare[Main]
          /\ \A y \in DOMAIN bare : y # b => bare'[y] = bare[y]
      BY <3>1 DEF With
    <3> QED BY <2>2, <3>2
  <2> QED BY <2>1, <2>2
<1>5. Copies'
  BY <1>1, <1>2, <1>3, <1>4 DEF Copies, Branch
<1>6. \A a \in Bolts : LineGrows(a)
  BY <1>1, <1>2, <1>3, <1>4 DEF LineGrows
<1>7. \A i \in Items : PlaceGrows(i)
  BY <1>2, <1>4 DEF PlaceGrows
<1>8. \A i \in Items : WorkStays(i)
  <2>1. \A x \in DOMAIN bare' : \E y \in DOMAIN bare : bare'[x] = bare[y]
    <3> TAKE x \in DOMAIN bare'
    <3>1. CASE x \in DOMAIN bare
      BY <1>4, <3>1
    <3>2. CASE x = b /\ b \notin DOMAIN bare
      <4>1. bare'[b] = bare[Main]
        BY <1>3, <3>2 DEF With
      <4> QED BY <1>2, <3>2, <4>1
    <3> QED BY <1>4, <3>1, <3>2
  <2> QED BY <1>3, <2>1 DEF WorkStays, Nowhere
<1>9. BranchStep
  BY <1>3, <1>5, <1>6, <1>7, <1>8 DEF BranchStep
<1>10. Moved \in Store /\ SameFacts(Moved)
  BY <1>1, MovedDrifts DEF ContainsInv, Typed, Drift
<1> DEFINE lines == Moved.lines \cup {b}
<1>11. store' = [Moved EXCEPT !.lines = lines] /\ lines \in SUBSET Bolts
  BY <1>1, <1>10 DEF CreateLine, Store
<1> HIDE DEF lines
<1>12. store' \in Store
  BY <1>10, <1>11 DEF Store
<1>13. /\ store'.bolt = Moved.bolt /\ store'.line = Moved.line /\ store'.unit = Moved.unit
       /\ store'.item = Moved.item /\ store'.place = Moved.place
       /\ store'.said = Moved.said /\ store'.done = Moved.done
       /\ store'.merged = store.merged /\ store'.landed = store.landed
       /\ store'.contains = store.contains /\ store'.exists = store.exists
  BY <1>10, <1>11 DEF Store, SameFacts
<1>14. \A i \in Items : ItemFacts(i)
  BY <1>1, <1>13 DEF ItemFacts, IsNow
<1>15. \A a \in Bolts : LineFacts(a)
  BY <1>3, <1>13 DEF LineFacts, IsNow
<1> QED BY <1>1, <1>9, <1>10, <1>12, <1>13, <1>14, <1>15, ActOf DEF SameFacts

LEMMA WriteAcceptanceActs ==
  ASSUME ContainsInv, WriteAcceptance
  PROVE  ActStep
<1> DEFINE b == Now.of
<1>1. /\ Now \in due /\ due' = due \ {Now} /\ pushed' = pushed
      /\ Now.act = "write_acceptance" /\ Now.region = "line" /\ b \in Bolts
  BY NowOnLine DEF WriteAcceptance, ContainsInv
<1>2. /\ Typed /\ Main \in DOMAIN bare /\ Main \in DOMAIN githost /\ trees \subseteq DOMAIN bare
      /\ Main # b /\ b \notin Items
  BY <1>1, WorkspaceAssumption DEF ContainsInv, Typed, Copies
<1>3. trees' = trees /\ checkout' = checkout /\ githost' = githost
  BY DEF WriteAcceptance
<1>4. /\ DOMAIN bare' = DOMAIN bare
      /\ \A x \in DOMAIN bare : x # b => bare'[x] = bare[x]
      /\ b \in trees => bare'[b] = bare[b] \cup {Acceptance(b)}
      /\ b \notin trees => bare' = bare
  BY <1>2 DEF WriteAcceptance
<1>5. Copies'
  BY <1>2, <1>3, <1>4 DEF Typed, Copies
<1>6. \A a \in Bolts : LineGrows(a)
  BY <1>2, <1>3, <1>4 DEF LineGrows
<1>7. \A i \in Items : PlaceGrows(i)
  BY <1>2, <1>4 DEF PlaceGrows
<1>8. \A i \in Items : WorkStays(i)
  BY <1>2, <1>3, <1>4, CommitsDiffer DEF WorkStays, Nowhere
<1>9. BranchStep
  BY <1>3, <1>5, <1>6, <1>7, <1>8 DEF BranchStep
<1>10. Moved \in Store /\ SameFacts(Moved)
  BY <1>1, MovedDrifts DEF ContainsInv, Typed, Drift
<1> DEFINE accepted == IF b \in trees THEN Moved.accepted \cup {b} ELSE Moved.accepted
<1>11. store' = [Moved EXCEPT !.accepted = accepted] /\ accepted \in SUBSET Bolts
  BY <1>1, <1>10 DEF WriteAcceptance, Store
<1> HIDE DEF accepted
<1>12. store' \in Store
  BY <1>10, <1>11 DEF Store
<1>13. /\ store'.bolt = Moved.bolt /\ store'.line = Moved.line /\ store'.unit = Moved.unit
       /\ store'.item = Moved.item /\ store'.place = Moved.place
       /\ store'.said = Moved.said /\ store'.done = Moved.done
       /\ store'.merged = store.merged /\ store'.landed = store.landed
       /\ store'.contains = store.contains /\ store'.exists = store.exists
  BY <1>10, <1>11 DEF Store, SameFacts
<1>14. \A i \in Items : ItemFacts(i)
  BY <1>1, <1>13 DEF ItemFacts, IsNow
<1>15. \A a \in Bolts : LineFacts(a)
  BY <1>1, <1>3, <1>13 DEF LineFacts, IsNow
<1> QED BY <1>1, <1>9, <1>10, <1>12, <1>13, <1>14, <1>15, ActOf DEF SameFacts

LEMMA RemoveLineActs ==
  ASSUME ContainsInv, RemoveLine
  PROVE  ActStep
<1> DEFINE b == Now.of
<1>1. /\ Now \in due /\ due' = due \ {Now} /\ pushed' = pushed
      /\ Now.act = "remove_line" /\ Now.region = "line" /\ b \in Bolts /\ pushed.line[b] = "removing"
  BY NowOnLine, LinePlans DEF RemoveLine, ContainsInv
<1>2. /\ Typed /\ Main \in DOMAIN bare /\ Main \in DOMAIN githost /\ trees \subseteq DOMAIN bare
      /\ Main # b /\ b \notin Items
  BY <1>1, WorkspaceAssumption DEF ContainsInv, Typed, Copies
<1>3. trees' = trees \ {b} /\ checkout' = checkout /\ githost' = githost
  BY DEF RemoveLine
<1>4. /\ DOMAIN bare' = DOMAIN bare \ {b}
      /\ \A x \in DOMAIN bare : x # b => bare'[x] = bare[x]
  BY WithoutIs DEF RemoveLine
<1>5. Copies'
  BY <1>2, <1>3, <1>4 DEF Typed, Copies
<1>6. \A a \in Bolts : LineGrows(a)
  BY <1>1, <1>2, <1>3, <1>4 DEF LineGrows
<1>7. \A i \in Items : PlaceGrows(i)
  BY <1>2, <1>4 DEF PlaceGrows
<1>8. \A i \in Items : WorkStays(i)
  BY <1>2, <1>3, <1>4 DEF WorkStays, Nowhere
<1>9. BranchStep
  BY <1>3, <1>5, <1>6, <1>7, <1>8 DEF BranchStep
<1>10. Moved \in Store /\ SameFacts(Moved)
  BY <1>1, MovedDrifts DEF ContainsInv, Typed, Drift
<1> DEFINE lines == Moved.lines \ {b}
<1>11. store' = [Moved EXCEPT !.lines = lines] /\ lines \in SUBSET Bolts
  BY <1>1, <1>10 DEF RemoveLine, Store
<1> HIDE DEF lines
<1>12. store' \in Store
  BY <1>10, <1>11 DEF Store
<1>13. /\ store'.bolt = Moved.bolt /\ store'.line = Moved.line /\ store'.unit = Moved.unit
       /\ store'.item = Moved.item /\ store'.place = Moved.place
       /\ store'.said = Moved.said /\ store'.done = Moved.done
       /\ store'.merged = store.merged /\ store'.landed = store.landed
       /\ store'.contains = store.contains /\ store'.exists = store.exists
  BY <1>10, <1>11 DEF Store, SameFacts
<1>14. \A i \in Items : ItemFacts(i)
  BY <1>1, <1>13 DEF ItemFacts, IsNow
<1>15. \A a \in Bolts : LineFacts(a)
  BY <1>1, <1>3, <1>13 DEF LineFacts, IsNow
<1> QED BY <1>1, <1>9, <1>10, <1>12, <1>13, <1>14, <1>15, ActOf DEF SameFacts

\* Facts of places, written over the move.
WithPlaces(m, e, c) == [m EXCEPT !.exists = e, !.contains = c]
WithMerged(m, g, c) == [m EXCEPT !.merged = g, !.contains = c]

LEMMA WithPlacesIs ==
  ASSUME NEW m \in Store, NEW e \in SUBSET Items, NEW c \in SUBSET Items
  PROVE  LET s == WithPlaces(m, e, c) IN
         /\ s \in Store /\ s.exists = e /\ s.contains = c /\ s.merged = m.merged
         /\ s.bolt = m.bolt /\ s.line = m.line /\ s.unit = m.unit
         /\ s.item = m.item /\ s.place = m.place
         /\ s.said = m.said /\ s.done = m.done /\ s.landed = m.landed
<1>1. [m EXCEPT !.exists = e] \in Store
  BY DEF Store
<1>2. [[m EXCEPT !.exists = e] EXCEPT !.contains = c] \in Store
  BY <1>1 DEF Store
<1>3. WithPlaces(m, e, c) = [[m EXCEPT !.exists = e] EXCEPT !.contains = c]
  BY DEF Store, WithPlaces
<1> QED BY <1>2, <1>3 DEF Store

LEMMA WithMergedIs ==
  ASSUME NEW m \in Store, NEW g \in SUBSET Items, NEW c \in SUBSET Items
  PROVE  LET s == WithMerged(m, g, c) IN
         /\ s \in Store /\ s.exists = m.exists /\ s.contains = c /\ s.merged = g
         /\ s.bolt = m.bolt /\ s.line = m.line /\ s.unit = m.unit
         /\ s.item = m.item /\ s.place = m.place
         /\ s.said = m.said /\ s.done = m.done /\ s.landed = m.landed
<1>1. [m EXCEPT !.merged = g] \in Store
  BY DEF Store
<1>2. [[m EXCEPT !.merged = g] EXCEPT !.contains = c] \in Store
  BY <1>1 DEF Store
<1>3. WithMerged(m, g, c) = [[m EXCEPT !.merged = g] EXCEPT !.contains = c]
  BY DEF Store, WithMerged
<1> QED BY <1>2, <1>3 DEF Store

LEMMA PreparePlaceActs ==
  ASSUME ContainsInv, PreparePlace
  PROVE  ActStep
<1> DEFINE i == Now.of
           made == i \in trees \cup DOMAIN bare \/ Base \in DOMAIN bare
<1>1. /\ Now \in due /\ due' = due \ {Now} /\ pushed' = pushed
      /\ Now.act = "prepare_place" /\ Now.region = "place" /\ i \in Items
  BY NowOnPlace DEF PreparePlace, ContainsInv
<1>2. /\ Typed /\ Main \in DOMAIN bare /\ Main \in DOMAIN githost /\ trees \subseteq DOMAIN bare
      /\ Main \notin trees /\ DOMAIN bare \subseteq Branch
      /\ Main # i /\ i \notin Bolts /\ LineOf[i] = Base /\ LineOf[i] # i
  BY <1>1, WorkspaceAssumption DEF ContainsInv, Typed, Copies, Base
<1>3. checkout' = checkout /\ githost' = githost
  BY DEF PreparePlace
<1>4. /\ Moved \in Store /\ SameFacts(Moved) /\ Moved.place[i] = "preparing"
  <2>1. PICK busy \in SUBSET Items :
          PlacePlan(i, busy)[2] = "prepare_place" /\ Now = Move("place", i, PlacePlan(i, busy))
    BY NowOnPlace DEF PreparePlace, ContainsInv
  <2>2. PlacePlan(i, busy)[1] = "preparing"
    BY <2>1, PlacePlans
  <2> QED BY <1>1, <1>2, <2>1, <2>2, MovedPlace DEF ContainsInv, Typed, Drift
<1>5. ASSUME i \in DOMAIN bare \/ ~ made PROVE BranchStep
  <2>1. bare' = bare /\ trees' \in {trees, trees \cup {i}} /\ (trees' = trees \/ i \in DOMAIN bare)
    BY <1>2, <1>5 DEF PreparePlace, Worktree
  <2>2. Copies'
    BY <1>2, <1>3, <2>1 DEF Copies
  <2>3. \A b \in Bolts : LineGrows(b)
    BY <1>2, <2>1 DEF LineGrows
  <2>4. \A j \in Items : PlaceGrows(j) /\ WorkStays(j)
    BY <1>3, <2>1 DEF PlaceGrows, WorkStays, Nowhere
  <2> QED BY <1>3, <2>2, <2>3, <2>4 DEF BranchStep
<1>6. ASSUME i \notin DOMAIN bare, made PROVE BranchStep
  <2>1. bare' = With(bare, i, bare[LineOf[i]]) /\ trees' = trees \cup {i} /\ LineOf[i] \in DOMAIN bare
    BY <1>2, <1>6 DEF PreparePlace, Worktree
  <2>2. /\ DOMAIN bare' = DOMAIN bare \cup {i} /\ bare'[i] = bare[LineOf[i]]
        /\ \A y \in DOMAIN bare : bare'[y] = bare[y]
    BY <1>6, <2>1 DEF With
  <2>3. Copies'
    BY <1>1, <1>2, <1>3, <2>1, <2>2 DEF Copies, Branch
  <2>4. \A b \in Bolts : LineGrows(b)
    BY <1>2, <2>1, <2>2 DEF LineGrows
  <2>5. \A j \in Items : PlaceGrows(j)
    BY <1>1, <2>1, <2>2 DEF PlaceGrows, IsNow
  <2>6. \A j \in Items : WorkStays(j)
    BY <1>3, <2>1, <2>2 DEF WorkStays, Nowhere
  <2> QED BY <1>3, <2>3, <2>4, <2>5, <2>6 DEF BranchStep
<1>7. /\ made => store' = WithPlaces(Moved, Moved.exists \cup {i}, Moved.contains \cup {i})
      /\ ~ made => store' = Moved
  BY DEF PreparePlace, WithPlaces
<1>8. /\ store' \in Store
      /\ store'.bolt = Moved.bolt /\ store'.line = Moved.line /\ store'.unit = Moved.unit
      /\ store'.item = Moved.item /\ store'.place = Moved.place
      /\ store'.said = Moved.said /\ store'.done = Moved.done
      /\ store'.merged = Moved.merged /\ store'.landed = Moved.landed
      /\ Moved.exists \subseteq store'.exists /\ (made => i \in store'.exists)
      /\ store'.contains \subseteq Moved.contains \cup {i}
  <2>1. CASE made
    <3>1. /\ Moved.exists \cup {i} \in SUBSET Items /\ Moved.contains \cup {i} \in SUBSET Items
      BY <1>1, <1>4 DEF Store
    <3> QED BY <1>4, <1>7, <2>1, <3>1, WithPlacesIs
  <2>2. CASE ~ made
    BY <1>4, <1>7, <2>2
  <2> QED BY <2>1, <2>2
<1>9. LineOf[i] \in trees => made
  BY <1>2
<1>10. \A j \in Items : ItemFacts(j)
  BY <1>1, <1>4, <1>8, <1>9 DEF ItemFacts, IsNow, SameFacts
<1>11. \A b \in Bolts : LineFacts(b)
  BY <1>1, <1>4, <1>8 DEF LineFacts, IsNow, SameFacts
<1> HIDE DEF made
<1> QED BY <1>1, <1>5, <1>6, <1>8, <1>10, <1>11, ActOf

LEMMA RebasePlaceActs ==
  ASSUME ContainsInv, RebasePlace
  PROVE  ActStep
<1> DEFINE i == Now.of
           done == i \in trees /\ Base \in DOMAIN bare /\ ~ Conflicts(bare[Base], bare[i])
<1>1. /\ Now \in due /\ due' = due \ {Now} /\ pushed' = pushed
      /\ Now.act = "rebase_place" /\ Now.region = "place" /\ i \in Items
      /\ pushed.place[i] = "behind"
  BY NowOnPlace, PlacePlans DEF RebasePlace, ContainsInv
<1>2. /\ Typed /\ Main \in DOMAIN bare /\ Main \in DOMAIN githost /\ trees \subseteq DOMAIN bare
      /\ Main # i /\ i \notin Bolts /\ LineOf[i] = Base /\ LineOf[i] # i
  BY <1>1, WorkspaceAssumption DEF ContainsInv, Typed, Copies, Base
<1>3. checkout' = checkout /\ githost' = githost /\ trees' = trees
  BY DEF RebasePlace
<1>4. Moved \in Store /\ SameFacts(Moved)
  BY <1>1, MovedDrifts DEF ContainsInv, Typed, Drift
<1>5. /\ DOMAIN bare' = DOMAIN bare
      /\ \A x \in DOMAIN bare : x # i => bare'[x] = bare[x]
      /\ done => bare'[i] = bare[i] \cup bare[LineOf[i]]
      /\ ~ done => bare' = bare
  BY <1>2 DEF RebasePlace
<1>6. BranchStep
  <2>1. Copies'
    BY <1>2, <1>3, <1>5 DEF Typed, Copies
  <2>2. \A b \in Bolts : LineGrows(b)
    BY <1>2, <1>3, <1>5 DEF LineGrows
  <2>3. \A j \in Items : PlaceGrows(j)
    BY <1>1, <1>5 DEF PlaceGrows
  <2>4. \A j \in Items : WorkStays(j)
    <3>1. done => LineOf[i] \in DOMAIN bare /\ i \in DOMAIN bare
      BY <1>2
    <3> QED BY <1>3, <1>5, <3>1 DEF WorkStays, Nowhere
  <2> QED BY <1>3, <2>1, <2>2, <2>3, <2>4 DEF BranchStep
<1> DEFINE contains == Moved.contains \cup {i}
           conflicted == Moved.conflicted \cup {i}
<1>7. \/ store' = Moved
      \/ store' = [Moved EXCEPT !.conflicted = conflicted]
      \/ done /\ store' = [Moved EXCEPT !.contains = contains]
  BY DEF RebasePlace
<1>8. contains \in SUBSET Items /\ conflicted \in SUBSET Items
  BY <1>1, <1>4 DEF Store
<1> HIDE DEF contains, conflicted
<1>9. /\ store' \in Store
      /\ store'.bolt = Moved.bolt /\ store'.line = Moved.line /\ store'.unit = Moved.unit
      /\ store'.item = Moved.item /\ store'.place = Moved.place
      /\ store'.said = Moved.said /\ store'.done = Moved.done
      /\ store'.merged = Moved.merged /\ store'.landed = Moved.landed
      /\ store'.exists = Moved.exists
      /\ store'.contains = Moved.contains \/ (done /\ store'.contains = contains)
  BY <1>4, <1>7, <1>8 DEF Store
<1>10. \A j \in Items : ItemFacts(j)
  <2>1. done => bare'[LineOf[i]] \subseteq bare'[i]
    BY <1>2, <1>5
  <2>2. \A j \in store'.contains \ store.contains : j = i /\ done
    BY <1>4, <1>9 DEF SameFacts, contains
  <2>3. IsNow("place", "rebase_place", i)
    BY <1>1 DEF IsNow
  <2>4. /\ store'.merged = store.merged /\ store'.exists = store.exists
        /\ Now.act # "prepare_place" /\ Now.act # "merge_place"
    BY <1>1, <1>4, <1>9 DEF SameFacts
  <2> QED BY <2>1, <2>2, <2>3, <2>4 DEF ItemFacts, IsNow
<1>11. \A b \in Bolts : LineFacts(b)
  BY <1>1, <1>4, <1>9 DEF LineFacts, IsNow, SameFacts
<1> QED BY <1>1, <1>6, <1>9, <1>10, <1>11, ActOf

LEMMA RemovePlaceActs ==
  ASSUME ContainsInv, RemovePlace
  PROVE  ActStep
<1> DEFINE i == Now.of
<1>1. /\ Now \in due /\ due' = due \ {Now} /\ pushed' = pushed
      /\ Now.act = "remove_place" /\ Now.region = "place" /\ i \in Items
      /\ pushed.place[i] = "removing"
  BY NowOnPlace, PlacePlans DEF RemovePlace, ContainsInv
<1>2. /\ Typed /\ Main \in DOMAIN bare /\ Main \in DOMAIN githost /\ trees \subseteq DOMAIN bare
      /\ Main # i /\ i \notin Bolts
  BY <1>1, WorkspaceAssumption DEF ContainsInv, Typed, Copies
<1>3. checkout' = checkout /\ githost' = githost /\ trees' = trees \ {i}
  BY DEF RemovePlace
<1>4. Moved \in Store /\ SameFacts(Moved)
  BY <1>1, MovedDrifts DEF ContainsInv, Typed, Drift
<1>5. /\ DOMAIN bare' = DOMAIN bare \ {i}
      /\ \A x \in DOMAIN bare : x # i => bare'[x] = bare[x]
  BY WithoutIs DEF RemovePlace
<1>6. BranchStep
  <2>1. Copies'
    BY <1>2, <1>3, <1>5 DEF Typed, Copies
  <2>2. \A b \in Bolts : LineGrows(b)
    BY <1>2, <1>3, <1>5 DEF LineGrows
  <2>3. \A j \in Items : PlaceGrows(j)
    BY <1>1, <1>5 DEF PlaceGrows
  <2>4. \A j \in Items : WorkStays(j)
    BY <1>3, <1>5 DEF WorkStays, Nowhere
  <2> QED BY <1>3, <2>1, <2>2, <2>3, <2>4 DEF BranchStep
<1> DEFINE exists == Moved.exists \ {i}
<1>7. store' = [Moved EXCEPT !.exists = exists]
  BY DEF RemovePlace
<1>8. exists \in SUBSET Items
  BY <1>1, <1>4 DEF Store
<1> HIDE DEF exists
<1>9. /\ store' \in Store
      /\ store'.bolt = Moved.bolt /\ store'.line = Moved.line /\ store'.unit = Moved.unit
      /\ store'.item = Moved.item /\ store'.place = Moved.place
      /\ store'.said = Moved.said /\ store'.done = Moved.done
      /\ store'.merged = Moved.merged /\ store'.landed = Moved.landed
      /\ store'.exists = exists /\ store'.contains = Moved.contains
  BY <1>4, <1>7, <1>8 DEF Store
<1>10. \A j \in Items : ItemFacts(j)
  BY <1>1, <1>4, <1>9 DEF ItemFacts, IsNow, SameFacts, exists
<1>11. \A b \in Bolts : LineFacts(b)
  BY <1>1, <1>4, <1>9 DEF LineFacts, IsNow, SameFacts
<1> QED BY <1>1, <1>6, <1>9, <1>10, <1>11, ActOf

LEMMA MergedFactIs ==
  ASSUME NEW i \in Items, Moved \in Store, store' = MergedFact(i)
  PROVE  /\ store' \in Store
         /\ store'.bolt = Moved.bolt /\ store'.line = Moved.line /\ store'.unit = Moved.unit
         /\ store'.item = Moved.item /\ store'.place = Moved.place
         /\ store'.said = Moved.said /\ store'.done = Moved.done
         /\ store'.merged = Moved.merged \cup {i} /\ store'.landed = Moved.landed
         /\ store'.exists = Moved.exists /\ store'.contains \subseteq Moved.contains
         /\ \A j \in Items \ {i} : LineOf[j] = LineOf[i] => j \notin store'.contains
<1>1. store' = WithMerged(Moved, Moved.merged \cup {i},
                          Moved.contains \ {j \in Items \ {i} : LineOf[j] = LineOf[i]})
  BY DEF MergedFact, WithMerged
<1>2. /\ Moved.merged \cup {i} \in SUBSET Items
      /\ Moved.contains \ {j \in Items \ {i} : LineOf[j] = LineOf[i]} \in SUBSET Items
  BY DEF Store
<1> QED BY <1>1, <1>2, WithMergedIs

LEMMA MergePlaceActs ==
  ASSUME ContainsInv, MergePlace
  PROVE  ActStep
<1> DEFINE i == Now.of
           b == LineOf[Now.of]
           conflicted == Moved.conflicted \cup {i}
<1>1. /\ Now \in due /\ due' = due \ {Now} /\ pushed' = pushed
      /\ Now.act = "merge_place" /\ Now.region = "place" /\ i \in Items
      /\ MergePlanned(i) /\ b \in trees /\ Base = b
  BY NowOnPlace, PlacePlans DEF MergePlace, ContainsInv, Base
<1>2. /\ Typed /\ Main \in DOMAIN bare /\ Main \in DOMAIN githost /\ trees \subseteq DOMAIN bare
      /\ Main # i /\ i \notin Bolts /\ b \in Bolts /\ b # i /\ Main # b /\ b \notin Items
  BY <1>1, WorkspaceAssumption DEF ContainsInv, Typed, Copies
<1>3. i \in DOMAIN bare /\ Work(i) \in bare[i] /\ bare[i] \subseteq bare[b] \cup {Work(i)}
  BY <1>1 DEF ContainsInv, PlacesHold, HoldsItsWork, OffItsLine, MergePlanned
<1>4. checkout' = checkout /\ githost' = githost /\ trees' = trees
  BY DEF MergePlace
<1>5. Moved \in Store /\ SameFacts(Moved)
  BY <1>1, MovedDrifts DEF ContainsInv, Typed, Drift
<1>6. IsNow("place", "merge_place", i) /\ \A j : IsNow("place", "merge_place", j) => j = i
  BY <1>1 DEF IsNow
<1>7. CASE Conflicts(bare[i], bare[b])
  <2>1. store' = [Moved EXCEPT !.conflicted = conflicted] /\ bare' = bare
    BY <1>1, <1>7 DEF MergePlace
  <2>2. BranchStep
    BY <1>2, <1>4, <2>1, NothingGrows DEF Typed
  <2>3. conflicted \in SUBSET Items
    BY <1>1, <1>5 DEF Store
  <2> HIDE DEF conflicted
  <2>4. /\ store' \in Store
        /\ store'.bolt = Moved.bolt /\ store'.line = Moved.line /\ store'.unit = Moved.unit
        /\ store'.item = Moved.item /\ store'.place = Moved.place
        /\ store'.said = Moved.said /\ store'.done = Moved.done
        /\ store'.merged = Moved.merged /\ store'.landed = Moved.landed
        /\ store'.exists = Moved.exists /\ store'.contains = Moved.contains
    BY <1>5, <2>1, <2>3 DEF Store
  <2>5. \A j \in Items : ItemFacts(j)
    BY <1>1, <1>5, <1>7, <2>1, <2>4 DEF ItemFacts, IsNow, SameFacts
  <2>6. \A a \in Bolts : LineFacts(a)
    BY <1>1, <1>5, <2>4 DEF LineFacts, IsNow, SameFacts
  <2> QED BY <1>1, <2>2, <2>4, <2>5, <2>6, ActOf
<1>8. CASE ~ Conflicts(bare[i], bare[b])
  <2>1. store' = MergedFact(i) /\ bare' = [bare EXCEPT ![b] = bare[b] \cup bare[i]]
    BY <1>1, <1>3, <1>8 DEF MergePlace
  <2>2. /\ DOMAIN bare' = DOMAIN bare /\ bare'[b] = bare[b] \cup bare[i]
        /\ \A x \in DOMAIN bare : x # b => bare'[x] = bare[x]
    BY <1>1, <1>2, <2>1
  <2>3. /\ store' \in Store
        /\ store'.bolt = Moved.bolt /\ store'.line = Moved.line /\ store'.unit = Moved.unit
        /\ store'.item = Moved.item /\ store'.place = Moved.place
        /\ store'.said = Moved.said /\ store'.done = Moved.done
        /\ store'.merged = Moved.merged \cup {i} /\ store'.landed = Moved.landed
        /\ store'.exists = Moved.exists /\ store'.contains \subseteq Moved.contains
        /\ \A j \in Items \ {i} : LineOf[j] = LineOf[i] => j \notin store'.contains
    BY <1>1, <1>5, <2>1, MergedFactIs
  <2>4. Copies'
    BY <1>2, <1>4, <2>2 DEF Typed, Copies
  <2>5. \A a \in Bolts : LineGrows(a)
    <3>1. ASSUME NEW c \in bare'[b] \ bare[b]
          PROVE  c = Work(i) /\ i \in ItemsOf(b) /\ i \in store'.merged
      BY <1>1, <1>3, <2>2, <2>3 DEF ItemsOf
    <3>2. LineGrows(b)
      BY <1>1, <1>2, <1>4, <1>6, <1>8, <2>2, <3>1 DEF LineGrows
    <3>3. \A a \in Bolts : a # b => LineGrows(a)
      BY <1>2, <1>4, <2>2 DEF LineGrows
    <3> QED BY <3>2, <3>3
  <2>6. \A j \in Items : PlaceGrows(j)
    BY <1>2, <2>2 DEF PlaceGrows
  <2>7. \A j \in Items : WorkStays(j)
    BY <1>1, <1>2, <1>3, <1>4, <2>2 DEF WorkStays, Nowhere
  <2>8. BranchStep
    BY <1>4, <2>4, <2>5, <2>6, <2>7 DEF BranchStep
  <2>9. \A j \in Items : ItemFacts(j)
    <3>1. Work(i) \in bare'[b] /\ i \in store'.merged
      BY <1>3, <2>2, <2>3
    <3>2. ItemFacts(i)
      BY <1>1, <1>2, <1>5, <1>6, <2>2, <2>3, <3>1 DEF ItemFacts, IsNow, SameFacts
    <3>3. \A j \in Items : j # i => ItemFacts(j)
      BY <1>1, <1>5, <1>6, <2>3 DEF ItemFacts, IsNow, SameFacts
    <3> QED BY <3>2, <3>3
  <2>10. \A a \in Bolts : LineFacts(a)
    BY <1>1, <1>5, <2>3 DEF LineFacts, IsNow, SameFacts
  <2> QED BY <1>1, <2>3, <2>8, <2>9, <2>10, ActOf
<1> QED BY <1>7, <1>8

LEMMA MergeOntoSharedLineActs ==
  ASSUME ContainsInv, MergeOntoSharedLine
  PROVE  ActStep
<1> DEFINE i == Now.of
           b == LineOf[Now.of]
<1>1. /\ Now \in due /\ due' = due \ {Now} /\ pushed' = pushed
      /\ Now.act = "merge_place" /\ Now.region = "place" /\ i \in Items
      /\ MergePlanned(i) /\ b \notin trees /\ Base = b /\ i \in trees
  BY NowOnPlace, PlacePlans DEF MergeOntoSharedLine, ContainsInv, Base
<1>2. /\ Typed /\ Main \in DOMAIN bare /\ Main \in DOMAIN githost /\ trees \subseteq DOMAIN bare
      /\ Main \notin trees /\ DOMAIN bare \subseteq Branch
      /\ Main # i /\ i \notin Bolts /\ b \in Bolts \cup {Main} /\ b # i /\ b \notin Items
  BY <1>1, WorkspaceAssumption DEF ContainsInv, Typed, Copies
<1>3. /\ checkout' = checkout /\ trees' = trees /\ bare' = With(bare, b, bare[i])
      /\ Forward(bare, b, bare[i])
      /\ \/ githost' = With(githost, b, bare[i]) /\ Forward(githost, b, bare[i]) /\ store' = MergedFact(i)
         \/ githost' = githost /\ store' = Moved
  BY <1>1 DEF MergeOntoSharedLine
<1>4. Moved \in Store /\ SameFacts(Moved)
  BY <1>1, MovedDrifts DEF ContainsInv, Typed, Drift
<1>5. IsNow("place", "merge_place", i) /\ \A j : IsNow("place", "merge_place", j) => j = i
  BY <1>1 DEF IsNow
<1>6. /\ DOMAIN bare' = DOMAIN bare \cup {b} /\ bare'[b] = bare[i]
      /\ \A x \in DOMAIN bare : x # b => bare'[x] = bare[x]
  BY <1>3 DEF With
<1>7. Main \in DOMAIN githost' /\ githost[Main] \subseteq githost'[Main]
  BY <1>2, <1>3 DEF With, Forward
<1>8. BranchStep
  <2>1. Copies'
    BY <1>2, <1>3, <1>6, <1>7 DEF Copies, Branch
  <2>2. \A a \in Bolts : LineGrows(a)
    <3>1. i \in ItemsOf(b)
      BY <1>1 DEF ItemsOf
    <3> QED BY <1>1, <1>2, <1>3, <1>6, <3>1 DEF LineGrows, Forward
  <2>3. \A j \in Items : PlaceGrows(j)
    BY <1>2, <1>6 DEF PlaceGrows
  <2>4. \A j \in Items : WorkStays(j)
    <3>1. i \in DOMAIN bare
      BY <1>1, <1>2
    <3> QED BY <1>3, <1>6, <3>1 DEF WorkStays, Nowhere
  <2> QED BY <1>7, <2>1, <2>2, <2>3, <2>4 DEF BranchStep
<1>9. /\ Work(i) \in bare[i]
      /\ githost' = With(githost, b, bare[i]) => githost'[b] = bare[i]
  BY <1>1 DEF ContainsInv, PlacesHold, HoldsItsWork, MergePlanned, With
<1>10. CASE store' = Moved
  BY <1>1, <1>8, <1>10, NoFactActs
<1>11. ASSUME store' = MergedFact(i), githost' = With(githost, b, bare[i]) PROVE ActStep
  <2>1. /\ store' \in Store
        /\ store'.bolt = Moved.bolt /\ store'.line = Moved.line /\ store'.unit = Moved.unit
        /\ store'.item = Moved.item /\ store'.place = Moved.place
        /\ store'.said = Moved.said /\ store'.done = Moved.done
        /\ store'.merged = Moved.merged \cup {i} /\ store'.landed = Moved.landed
        /\ store'.exists = Moved.exists /\ store'.contains \subseteq Moved.contains
        /\ \A j \in Items \ {i} : LineOf[j] = LineOf[i] => j \notin store'.contains
    BY <1>1, <1>4, <1>11, MergedFactIs
  <2>2. \A j \in Items : ItemFacts(j)
    <3>1. IF b = Main THEN Work(i) \in githost'[Main] /\ bare[i] \subseteq githost'[Main]
          ELSE b \in DOMAIN bare' /\ Work(i) \in bare'[b]
      <4>1. githost'[b] = bare[i]
        BY <1>9, <1>11
      <4>2. b \in DOMAIN bare' /\ Work(i) \in bare'[b]
        BY <1>6, <1>9
      <4> QED BY <1>9, <4>1, <4>2
    <3>2. ItemFacts(i)
      BY <1>1, <1>4, <1>5, <2>1, <3>1 DEF ItemFacts, IsNow, SameFacts
    <3>3. \A j \in Items : j # i => ItemFacts(j)
      BY <1>1, <1>4, <1>5, <2>1 DEF ItemFacts, IsNow, SameFacts
    <3> QED BY <3>2, <3>3
  <2>3. \A a \in Bolts : LineFacts(a)
    BY <1>1, <1>4, <2>1 DEF LineFacts, IsNow, SameFacts
  <2> QED BY <1>1, <1>8, <2>1, <2>2, <2>3, ActOf
<1> QED BY <1>3, <1>10, <1>11

LEMMA CommitsGrows ==
  ASSUME ContainsInv, NEW i \in Items, Commits(i)
  PROVE  BranchStep
<1>1. /\ Typed /\ Main \in DOMAIN bare /\ Main \in DOMAIN githost /\ trees \subseteq DOMAIN bare
      /\ Main # i /\ i \notin Bolts
  BY WorkspaceAssumption DEF ContainsInv, Typed, Copies
<1>2. /\ checkout' = checkout /\ githost' = githost /\ trees' = trees /\ i \in trees
      /\ store.item[i] = "in-type"
  BY DEF Commits
<1>3. /\ DOMAIN bare' = DOMAIN bare /\ bare'[i] = bare[i] \cup {Work(i)}
      /\ \A x \in DOMAIN bare : x # i => bare'[x] = bare[x]
  BY <1>1, <1>2 DEF Commits
<1>4. Copies'
  BY <1>1, <1>2, <1>3 DEF Typed, Copies
<1>5. \A b \in Bolts : LineGrows(b)
  BY <1>1, <1>2, <1>3 DEF LineGrows
<1>6. \A j \in Items : PlaceGrows(j)
  BY <1>2, <1>3 DEF PlaceGrows
<1>7. \A j \in Items : WorkStays(j)
  BY <1>2, <1>3, CommitsDiffer DEF WorkStays, Nowhere
<1> QED BY <1>2, <1>4, <1>5, <1>6, <1>7 DEF BranchStep

LEMMA WriteFileGrows ==
  ASSUME ContainsInv, NEW n, WriteFile(n)
  PROVE  BranchStep
<1>1. Typed /\ Main \in DOMAIN bare /\ Main \in DOMAIN githost
  BY DEF ContainsInv, Typed, Copies
<1>2. /\ checkout' = checkout \cup {Own(n)} /\ githost' = githost /\ trees' = trees
      /\ bare' = bare \/ bare' = [bare EXCEPT ![Main] = checkout']
  BY DEF WriteFile
<1>3. /\ DOMAIN bare' = DOMAIN bare
      /\ \A x \in DOMAIN bare : x # Main => bare'[x] = bare[x]
      /\ bare'[Main] = bare[Main] \/ bare'[Main] = checkout'
  BY <1>1, <1>2
<1>4. \A j \in Items : WorkStays(j)
  BY <1>1, <1>2, <1>3, CommitsDiffer DEF WorkStays, Nowhere
<1> QED BY <1>1, <1>2, <1>3, <1>4, OnlyTheSharedLine

LEMMA OthersPushGrows ==
  ASSUME ContainsInv, NEW n, OthersPush(n)
  PROVE  BranchStep
<1>1. Typed /\ Main \in DOMAIN bare /\ Main \in DOMAIN githost
  BY DEF ContainsInv, Typed, Copies
<1>2. /\ checkout' = checkout /\ bare' = bare /\ trees' = trees
      /\ githost' = [githost EXCEPT ![Main] = @ \cup {Elsewhere(n)}]
  BY DEF OthersPush
<1>3. Main \in DOMAIN githost' /\ githost[Main] \subseteq githost'[Main]
  BY <1>1, <1>2
<1>4. \A j \in Items : WorkStays(j)
  BY <1>2 DEF WorkStays, Nowhere
<1> QED BY <1>1, <1>2, <1>3, <1>4, OnlyTheSharedLine

\* What the operator and a session put on record between two ticks.
RecordStep ==
  /\ Quiet /\ due' = due /\ pushed' = store' /\ UNCHANGED repos
  /\ store' \in Store
  /\ store'.bolt = store.bolt /\ store'.line = store.line /\ store'.place = store.place
  /\ store'.exists = store.exists /\ store'.contains = store.contains
  /\ store'.merged = store.merged /\ store'.landed = store.landed
  /\ \A b \in Bolts : store.said[b] = "drop" => store'.said[b] = "drop"
  /\ \A i \in Items :
       /\ \/ store'.unit[i] = store.unit[i] /\ store'.item[i] = store.item[i]
          \/ /\ store.unit[i] = "proposed" /\ store'.unit[i] = "in-flight" /\ store'.item[i] = "placing"
             /\ LineOf[i] \in Bolts => store.bolt[LineOf[i]] = "open" \/ LateUnits
       /\ i \in store'.done \ store.done =>
            store.item[i] = "in-type" /\ i \in DOMAIN bare /\ Work(i) \in bare[i]

LEMMA ApprovesRecords ==
  ASSUME ContainsInv, NEW i \in Items, Approves(i)
  PROVE  RecordStep
<1>1. /\ Quiet /\ due' = due /\ pushed' = store' /\ UNCHANGED repos /\ store \in Store
      /\ store.unit[i] = "proposed"
      /\ LineOf[i] \in Bolts => store.bolt[LineOf[i]] = "open" \/ LateUnits
  BY WorkspaceAssumption DEF Approves, Records, ContainsInv, Typed
<1> DEFINE units == [store.unit EXCEPT ![i] = "in-flight"]
           items == [store.item EXCEPT ![i] = "placing"]
<1>2. /\ units \in [Items -> {"proposed", "in-flight", "merged", "dropped", "retired"}]
      /\ items \in [Items -> {"waiting", "placing", "in-type", "merging", "merged", "dropped"}]
      /\ units[i] = "in-flight" /\ items[i] = "placing"
      /\ \A j \in Items : j # i => units[j] = store.unit[j] /\ items[j] = store.item[j]
  BY <1>1 DEF Store
<1>3. store' = [[store EXCEPT !.unit = units] EXCEPT !.item = items]
  BY <1>1 DEF Approves, Records, Store
<1> HIDE DEF units, items
<1>4. [store EXCEPT !.unit = units] \in Store
  BY <1>1, <1>2 DEF Store
<1>5. store' \in Store
  BY <1>2, <1>3, <1>4 DEF Store
<1>6. /\ store'.bolt = store.bolt /\ store'.line = store.line /\ store'.place = store.place
      /\ store'.exists = store.exists /\ store'.contains = store.contains
      /\ store'.merged = store.merged /\ store'.landed = store.landed
      /\ store'.said = store.said /\ store'.done = store.done
      /\ store'.unit = units /\ store'.item = items
  BY <1>1, <1>3 DEF Store
<1> QED BY <1>1, <1>2, <1>5, <1>6 DEF RecordStep

LEMMA FinishesRecords ==
  ASSUME ContainsInv, NEW i \in Items, Finishes(i)
  PROVE  RecordStep
<1>1. /\ Quiet /\ due' = due /\ pushed' = store' /\ UNCHANGED repos /\ store \in Store
      /\ store.item[i] = "in-type" /\ i \in DOMAIN bare /\ Work(i) \in bare[i]
  BY DEF Finishes, Records, ContainsInv, Typed
<1> DEFINE done == store.done \cup {i}
<1>2. store' = [store EXCEPT !.done = done] /\ done \in SUBSET Items
  BY <1>1 DEF Finishes, Records, Store
<1> HIDE DEF done
<1>3. /\ store' \in Store
      /\ store'.bolt = store.bolt /\ store'.line = store.line /\ store'.place = store.place
      /\ store'.exists = store.exists /\ store'.contains = store.contains
      /\ store'.merged = store.merged /\ store'.landed = store.landed
      /\ store'.said = store.said /\ store'.done = done
      /\ store'.unit = store.unit /\ store'.item = store.item
  BY <1>1, <1>2 DEF Store
<1>4. \A j \in store'.done \ store.done : j = i
  BY <1>3 DEF done
<1> QED BY <1>1, <1>3, <1>4 DEF RecordStep

LEMMA AnswersRecords ==
  ASSUME ContainsInv, NEW o \in Bolts \cup Items, NEW what \in {"yes", "drop"}, Answers(o, what)
  PROVE  RecordStep
<1>1. /\ Quiet /\ due' = due /\ pushed' = store' /\ UNCHANGED repos /\ store \in Store
      /\ store.said[o] # "drop"
  BY DEF Answers, Records, ContainsInv, Typed
<1> DEFINE said == [store.said EXCEPT ![o] = what]
<1>2. /\ said \in [Bolts \cup Items -> {"nothing", "yes", "drop"}]
      /\ \A p \in Bolts \cup Items : p # o => said[p] = store.said[p]
  BY <1>1 DEF Store
<1>3. store' = [store EXCEPT !.said = said]
  BY <1>1 DEF Answers, Records, Store
<1> HIDE DEF said
<1>4. /\ store' \in Store
      /\ store'.bolt = store.bolt /\ store'.line = store.line /\ store'.place = store.place
      /\ store'.exists = store.exists /\ store'.contains = store.contains
      /\ store'.merged = store.merged /\ store'.landed = store.landed
      /\ store'.said = said /\ store'.done = store.done
      /\ store'.unit = store.unit /\ store'.item = store.item
  BY <1>1, <1>2, <1>3 DEF Store
<1> QED BY <1>1, <1>2, <1>4 DEF RecordStep

LEMMA StepIs ==
  ASSUME ContainsInv, [Next]_vars
  PROVE  \/ ActStep
         \/ Plans \/ TickEnds \/ TickLost
         \/ RecordStep
         \/ BranchStep /\ store' = store /\ pushed' = pushed /\ due' = due
<1>1. CASE UNCHANGED vars
  BY <1>1, NothingGrows DEF vars, ContainsInv, Typed
<1>2. CASE Pass
  BY <1>2, MovingActs, CreateLineActs, WriteAcceptanceActs, LandLineActs, LandLineFailsActs,
     RemoveLineActs, PreparePlaceActs, RebasePlaceActs, RemovePlaceActs, MergePlaceActs,
     MergeOntoSharedLineActs, MergePlaceRefusedActs DEF Pass
<1>3. CASE Around
  <2>1. \A i \in Items : Approves(i) => RecordStep
    BY ApprovesRecords
  <2>2. \A i \in Items : Finishes(i) => RecordStep
    BY FinishesRecords
  <2>3. \A o \in Bolts \cup Items, what \in {"yes", "drop"} : Answers(o, what) => RecordStep
    BY AnswersRecords
  <2>4. \A i \in Items : Commits(i) => BranchStep /\ store' = store /\ pushed' = pushed /\ due' = due
    BY CommitsGrows DEF Commits
  <2>5. \A n : WriteFile(n) => BranchStep /\ store' = store /\ pushed' = pushed /\ due' = due
    BY WriteFileGrows DEF WriteFile
  <2>6. \A n : OthersPush(n) => BranchStep /\ store' = store /\ pushed' = pushed /\ due' = due
    BY OthersPushGrows DEF OthersPush
  <2> QED BY <1>3, <2>1, <2>2, <2>3, <2>4, <2>5, <2>6 DEF Around
<1> QED BY <1>1, <1>2, <1>3 DEF Next

------------------------------------------------------------------------------
(* The invariant of ContainsIsTrue is kept, part by part.                    *)

LEMMA PlansStay ==
  ASSUME pushed' = pushed
  PROVE  /\ \A b : LinePlan(b)' = LinePlan(b) /\ BoltPlan(b)' = BoltPlan(b)
         /\ \A i : UnitPlan(i)' = UnitPlan(i) /\ ItemPlan(i)' = ItemPlan(i)
         /\ \A i, busy : PlacePlan(i, busy)' = PlacePlan(i, busy)
         /\ \A o, busy : Moves(o, busy)' = Moves(o, busy)
         /\ \A i : /\ MergePlanned(i)' = MergePlanned(i) /\ PreparePlanned(i)' = PreparePlanned(i)
                   /\ Over(i)' = Over(i)
<1>1. \A b : LinePlan(b)' = LinePlan(b)
  BY DEF LinePlan
<1>2. \A b : BoltPlan(b)' = BoltPlan(b)
  BY DEF BoltPlan, CloseOffered, ItemsOf
<1>3. \A i : UnitPlan(i)' = UnitPlan(i)
  BY DEF UnitPlan
<1>4. \A i : ItemPlan(i)' = ItemPlan(i)
  BY DEF ItemPlan
<1>5. \A i, busy : PlacePlan(i, busy)' = PlacePlan(i, busy)
  BY DEF PlacePlan, MergeSlot
<1>6. \A o, busy : Regions(o, busy)' = Regions(o, busy)
  BY <1>1, <1>2, <1>3, <1>4, <1>5 DEF Regions, Move
<1>7. \A o, busy : Moves(o, busy)' = Moves(o, busy)
  BY <1>6 DEF Moves
<1>8. \A i : /\ MergePlanned(i)' = MergePlanned(i) /\ PreparePlanned(i)' = PreparePlanned(i)
             /\ Over(i)' = Over(i)
  BY DEF MergePlanned, PreparePlanned, Over
<1> QED BY <1>1, <1>2, <1>3, <1>4, <1>5, <1>7, <1>8

LEMMA NowMeans ==
  ASSUME DuePlanned, NEW i \in Items
  PROVE  /\ IsNow("place", "prepare_place", i) => PreparePlanned(i)
         /\ IsNow("place", "merge_place", i) => MergePlanned(i)
         /\ IsNow("place", "rebase_place", i) => pushed.place[i] = "behind"
<1> SUFFICES ASSUME Now \in due, Now.region = "place", Now.of = i
             PROVE  /\ Now.act = "prepare_place" => PreparePlanned(i)
                    /\ Now.act = "merge_place" => MergePlanned(i)
                    /\ Now.act = "rebase_place" => pushed.place[i] = "behind"
  BY DEF IsNow
<1>1. PICK busy \in SUBSET Items : Now = Move("place", i, PlacePlan(i, busy))
  BY MoveOf DEF Move
<1>2. Now.act = PlacePlan(i, busy)[2]
  BY <1>1 DEF Move
<1> QED BY <1>2, PlacePlans

\* Between two ticks what the host holds is what it pushed.
LEMMA NoDriftAtRest ==
  ASSUME store' = pushed'
  PROVE  Drift'
<1>1. ASSUME NEW b \in Bolts PROVE BoltDrift(store, b)'
  BY DEF BoltDrift
<1>2. ASSUME NEW i \in Items PROVE ItemDrift(store, i)'
  BY DEF ItemDrift
<1>3. FactDrift'
  BY DEF FactDrift
<1> QED BY <1>1, <1>2, <1>3 DEF Drift, RegionDrift

LEMMA StepDrift ==
  ASSUME ContainsInv, [Next]_vars
  PROVE  Drift'
<1>1. Drift /\ DuePlanned
  BY DEF ContainsInv
<1>2. ASSUME ActStep PROVE Drift'
  <2>1. pushed' = pushed /\ RegionDrift(store')
    BY <1>2 DEF ActStep
  <2>2. ASSUME NEW b \in Bolts PROVE BoltDrift(store, b)'
    <3>1. BoltDrift(store', b)
      BY <2>1 DEF RegionDrift
    <3> QED BY <2>1, <3>1, PlansStay DEF BoltDrift
  <2>3. ASSUME NEW i \in Items PROVE ItemDrift(store, i)'
    <3>1. ItemDrift(store', i)
      BY <2>1 DEF RegionDrift
    <3> QED BY <2>1, <3>1, PlansStay DEF ItemDrift
  <2>4. \A i \in Items : ItemFacts(i) /\ (PreparePlanned(i)' <=> PreparePlanned(i))
    BY <1>2, <2>1, PlansStay DEF ActStep
  <2>5. FactDrift'
    <3>1. /\ store'.said = pushed'.said /\ store'.done = pushed'.done
          /\ pushed'.merged \subseteq store'.merged /\ pushed'.landed \subseteq store'.landed
      BY <1>1, <1>2 DEF ActStep, Drift, FactDrift
    <3>2. store' \in Store
      BY <1>2 DEF ActStep
    <3>3. ASSUME NEW i \in store'.contains \ pushed'.contains
          PROVE  PreparePlanned(i)' \/ pushed'.place[i] = "behind"
      <4>1. i \in Items
        BY <3>2, <3>3 DEF Store
      <4> QED BY <1>1, <2>1, <2>4, <3>3, <4>1, NowMeans DEF Drift, FactDrift, ItemFacts
    <3>4. ASSUME NEW i \in pushed'.exists \ store'.exists
          PROVE  pushed'.place[i] = "removing"
      <4>1. i \in Items
        BY <2>1, <3>4 DEF ContainsInv, Typed, Store
      <4> QED BY <1>1, <2>1, <2>4, <3>4, <4>1 DEF Drift, FactDrift, ItemFacts
    <3> QED BY <3>1, <3>3, <3>4 DEF FactDrift
  <2> QED BY <2>2, <2>3, <2>5 DEF Drift, RegionDrift
<1>3. ASSUME store' = store, pushed' = pushed PROVE Drift'
  <2>1. ASSUME NEW b \in Bolts PROVE BoltDrift(store, b)'
    <3>1. BoltDrift(store, b)
      BY <1>1 DEF Drift, RegionDrift
    <3> QED BY <1>3, <3>1, PlansStay DEF BoltDrift
  <2>2. ASSUME NEW i \in Items PROVE ItemDrift(store, i)'
    <3>1. ItemDrift(store, i)
      BY <1>1 DEF Drift, RegionDrift
    <3> QED BY <1>3, <3>1, PlansStay DEF ItemDrift
  <2>3. FactDrift'
    BY <1>1, <1>3, PlansStay DEF Drift, FactDrift
  <2> QED BY <2>1, <2>2, <2>3 DEF Drift, RegionDrift
<1>4. Plans => store' = store /\ pushed' = pushed
  BY DEF Plans
<1>5. TickEnds \/ TickLost \/ RecordStep => store' = pushed'
  BY DEF TickEnds, TickLost, RecordStep
<1> QED BY <1>2, <1>3, <1>4, <1>5, StepIs, NoDriftAtRest

LEMMA StepTyped ==
  ASSUME ContainsInv, [Next]_vars
  PROVE  Typed' /\ DuePlanned' /\ BranchStep
<1>1. Typed /\ DuePlanned
  BY DEF ContainsInv
<1>2. CASE ActStep
  <2>1. due' \subseteq due /\ pushed' = pushed /\ store' \in Store /\ BranchStep
    BY <1>2 DEF ActStep
  <2>2. DuePlanned'
    BY <1>1, <2>1, PlansStay DEF DuePlanned
  <2> QED BY <1>1, <2>1, <2>2 DEF Typed, BranchStep
<1>3. ASSUME UNCHANGED repos PROVE BranchStep /\ Copies'
  BY <1>1, <1>3, NothingGrows DEF repos, Typed, BranchStep
<1>4. CASE Plans
  <2>1. PICK busy \in SUBSET Items : due' = Planned(busy)
    BY <1>4 DEF Plans
  <2>2. store' = store /\ pushed' = pushed /\ UNCHANGED repos
    BY <1>4 DEF Plans
  <2>3. ASSUME NEW m \in due'
        PROVE  m.of \in Bolts \cup Items /\ m \in Moves(m.of, busy)
    <3>1. PICK o \in Bolts \cup Items : m \in Moves(o, busy)
      BY <2>1 DEF Planned
    <3>2. m.of = o
      BY <3>1 DEF Moves, Regions, Move
    <3> QED BY <3>1, <3>2
  <2>4. DuePlanned'
    BY <2>2, <2>3, PlansStay DEF DuePlanned
  <2> QED BY <1>1, <1>3, <2>2, <2>4 DEF Typed
<1>5. CASE TickEnds \/ TickLost \/ RecordStep
  <2>1. due' = {} /\ UNCHANGED repos /\ store' \in Store /\ pushed' \in Store
    BY <1>1, <1>5 DEF TickEnds, TickLost, RecordStep, Quiet, Typed
  <2> QED BY <1>3, <2>1 DEF Typed, DuePlanned
<1>6. CASE BranchStep /\ store' = store /\ pushed' = pushed /\ due' = due
  BY <1>1, <1>6, PlansStay DEF Typed, DuePlanned, BranchStep
<1> QED BY <1>2, <1>4, <1>5, <1>6, StepIs

\* What a tick's end puts on record of a bolt and of an item.
LEMMA StepFits ==
  ASSUME ContainsInv, [Next]_vars
  PROVE  Fits'
<1>1. Fits /\ Drift /\ Typed
  BY DEF ContainsInv
<1>2. CASE pushed' = pushed
  <2>1. \A b \in Bolts : LineFits(b)'
    BY <1>1, <1>2 DEF Fits, LineFits
  <2>2. \A i \in Items : PlaceFits(i)'
    BY <1>1, <1>2, PlansStay DEF Fits, PlaceFits
  <2> QED BY <2>1, <2>2 DEF Fits
<1>3. CASE TickEnds
  <2>1. pushed' = store
    BY <1>3 DEF TickEnds
  <2>2. ASSUME NEW b \in Bolts PROVE LineFits(b)'
    <3>1. BoltDrift(store, b) /\ LineFits(b) /\ store.said = pushed.said
          /\ pushed.landed \subseteq store.landed
      BY <1>1 DEF Fits, Drift, RegionDrift, FactDrift
    <3> QED BY <2>1, <3>1, LinePlans, BoltPlans DEF LineFits, BoltDrift
  <2>3. ASSUME NEW i \in Items PROVE PlaceFits(i)'
    <3>1. ItemDrift(store, i) /\ PlaceFits(i)
      BY <1>1 DEF Fits, Drift, RegionDrift
    <3>2. Over(i) => Over(i)'
      BY <2>1, <3>1, ItemPlans DEF ItemDrift, Over
    <3>3. ASSUME pushed'.place[i] \in {"merging", "merged", "removing", "removed"} PROVE Over(i)'
      <4>1. CASE store.place[i] = pushed.place[i]
        BY <2>1, <3>1, <3>2, <3>3, <4>1 DEF PlaceFits
      <4>2. CASE \E busy \in SUBSET Items : store.place[i] = PlacePlan(i, busy)[1]
        <5>1. pushed.place[i] \in {"merging", "merged", "removing", "removed"}
          BY <2>1, <3>3, <4>2, PlacePlans DEF MergePlanned
        <5> QED BY <3>1, <3>2, <5>1 DEF PlaceFits
      <4>3. CASE store.item[i] = ItemPlan(i)[1] /\ ItemPlan(i)[2] # "nothing"
        BY <2>1, <4>3, ItemPlans DEF Over
      <4> QED BY <3>1, <4>1, <4>2, <4>3 DEF ItemDrift
    <3>4. ASSUME pushed'.unit[i] = "proposed" PROVE pushed'.item[i] = "waiting" /\ pushed'.place[i] = "none"
      <4>1. pushed.unit[i] = "proposed"
        BY <2>1, <3>1, <3>4, UnitPlans DEF ItemDrift
      <4>2. pushed.item[i] = "waiting" /\ pushed.place[i] = "none"
        BY <3>1, <4>1 DEF PlaceFits
      <4>3. ItemPlan(i) = <<"waiting", "nothing">>
        BY <4>2, ItemPlans
      <4>4. \A busy : PlacePlan(i, busy)[1] = "none"
        BY <4>2, PlacePlans
      <4> QED BY <2>1, <3>1, <4>2, <4>3, <4>4 DEF ItemDrift
    <3> QED BY <3>3, <3>4 DEF PlaceFits
  <2> QED BY <2>2, <2>3 DEF Fits
<1>4. CASE RecordStep
  <2>1. /\ store = pushed /\ pushed' = store' /\ pushed'.line = pushed.line /\ pushed'.bolt = pushed.bolt
        /\ pushed'.landed = pushed.landed /\ pushed'.place = pushed.place
    BY <1>4 DEF RecordStep, Quiet
  <2>2. ASSUME NEW b \in Bolts PROVE LineFits(b)'
    BY <1>1, <1>4, <2>1 DEF RecordStep, Fits, LineFits
  <2>3. ASSUME NEW i \in Items PROVE PlaceFits(i)'
    BY <1>1, <1>4, <2>1 DEF RecordStep, Fits, PlaceFits, Over
  <2> QED BY <2>2, <2>3 DEF Fits
<1> QED BY <1>2, <1>3, <1>4, StepIs DEF ActStep, Plans, TickLost

\* A step but Plans goes on with the tick, or ends between two ticks.
SameTick ==
  /\ BranchStep /\ pushed' = pushed
  /\ \/ store' = store /\ due' = due
     \/ ActStep
AtRest ==
  /\ UNCHANGED repos /\ due' = {} /\ store' = pushed'
  /\ \/ TickEnds \/ TickLost \/ RecordStep

LEMMA StepKinds ==
  ASSUME ContainsInv, [Next]_vars
  PROVE  /\ SameTick \/ Plans \/ AtRest
         /\ AtRest => ~ UnderWay'
<1>1. ActStep => SameTick
  BY DEF ActStep, SameTick
<1>2. TickEnds \/ TickLost \/ RecordStep => AtRest
  BY DEF TickEnds, TickLost, RecordStep, AtRest, Quiet
<1>3. AtRest => ~ UnderWay'
  BY DEF AtRest, UnderWay
<1> QED BY <1>1, <1>2, <1>3, StepIs DEF SameTick

LEMMA PlanOf ==
  ASSUME Plans
  PROVE  /\ UNCHANGED repos /\ store' = store /\ pushed' = pushed /\ store = pushed /\ due = {}
         /\ \E busy \in SUBSET Items : due' = Planned(busy)
  BY DEF Plans, Quiet

LEMMA PlannedOwes ==
  ASSUME Plans
  PROVE  /\ \A b \in Bolts : pushed.line[b] = "absent" => Owes("line", "create_line", b)'
         /\ \A i \in Items : PreparePlanned(i) => Owes("place", "prepare_place", i)'
         /\ \A i \in Items : MergePlanned(i) => Owes("place", "merge_place", i)'
<1>1. PICK busy \in SUBSET Items : due' = Planned(busy)
  BY PlanOf
<1>2. ASSUME NEW b \in Bolts, pushed.line[b] = "absent" PROVE Owes("line", "create_line", b)'
  <2>1. LinePlan(b) = <<"current", "create_line">>
    BY <1>2, LinePlans
  <2>2. Move("line", b, LinePlan(b)) \in Moves(b, busy)
    BY <1>2, <2>1 DEF Moves, Regions, Move
  <2>3. Move("line", b, LinePlan(b)) \in due'
    BY <1>1, <1>2, <2>2 DEF Planned
  <2> QED BY <2>1, <2>3 DEF Owes, Move
<1>3. ASSUME NEW i \in Items, NEW at, NEW act \in {"prepare_place", "merge_place"},
             PlacePlan(i, busy) = <<at, act>>
      PROVE  Owes("place", act, i)'
  <2>1. Move("place", i, PlacePlan(i, busy)) \in Moves(i, busy)
    BY <1>3, WorkspaceAssumption DEF Moves, Regions, Move
  <2>2. Move("place", i, PlacePlan(i, busy)) \in due'
    BY <1>1, <1>3, <2>1 DEF Planned
  <2> QED BY <1>3, <2>2 DEF Owes, Move
<1> QED BY <1>2, <1>3, PlacePlans

\* What a tick that goes on still owes.
LEMMA StillOwes ==
  ASSUME SameTick, NEW region, NEW act, NEW o
  PROVE  /\ UnderWay' => UnderWay
         /\ Owes(region, act, o)' => Owes(region, act, o)
         /\ Owes(region, act, o) => Owes(region, act, o)' \/ (ActStep /\ IsNow(region, act, o))
<1>1. CASE store' = store /\ due' = due
  BY <1>1 DEF SameTick, UnderWay, Owes
<1>2. CASE ActStep
  BY <1>2 DEF ActStep, UnderWay, Owes, IsNow
<1> QED BY <1>1, <1>2 DEF SameTick

LEMMA StepLines ==
  ASSUME ContainsInv, [Next]_vars
  PROVE  LinesStand'
<1> SUFFICES ASSUME NEW b \in Bolts, b \notin trees'
             PROVE  /\ pushed'.line[b] = "absent" =>
                         NoneOff(b)' /\ (UnderWay' => Owes("line", "create_line", b)')
                    /\ pushed'.line[b] # "absent" => pushed'.line[b] \in {"removing", "removed"}
  BY DEF LinesStand, LineStands
<1>1. /\ Typed /\ DuePlanned /\ Drift /\ LineFits(b) /\ LineStands(b)
      /\ \A i \in Items : HoldsItsWork(i)
  BY DEF ContainsInv, Fits, LinesStand, PlacesHold
<1>2. CASE SameTick
  <2>1. LineGrows(b) /\ (\A i \in Items : PlaceGrows(i) /\ WorkStays(i)) /\ pushed' = pushed
    BY <1>2 DEF SameTick, BranchStep
  <2>2. CASE b \in trees
    BY <2>1, <2>2 DEF LineGrows
  <2>3. CASE b \notin trees /\ pushed.line[b] # "absent"
    BY <1>1, <2>1, <2>3 DEF LineStands
  <2>4. CASE b \notin trees /\ pushed.line[b] = "absent"
    <3>1. NoneOff(b) /\ (UnderWay => Owes("line", "create_line", b))
      BY <1>1, <2>4 DEF LineStands
    <3>2. \A i \in ItemsOf(b) : i \in Items /\ LineOf[i] = b /\ i \notin DOMAIN bare /\ i \notin trees
      BY <1>1, <3>1 DEF NoneOff, ItemsOf, Typed, Copies
    <3>3. b \notin DOMAIN bare'
      BY <2>1, <3>1, <3>2 DEF LineGrows, NoneOff
    <3>4. \A i \in ItemsOf(b) : i \notin DOMAIN bare'
      BY <2>1, <3>1, <3>2 DEF PlaceGrows, NoneOff
    <3>5. \A i \in ItemsOf(b) : Work(i) \notin checkout' /\ \A x \in DOMAIN bare' : Work(i) \notin bare'[x]
      BY <2>1, <3>1, <3>2 DEF WorkStays, Nowhere, NoneOff
    <3>6. ASSUME NEW i \in ItemsOf(b) PROVE i \notin store'.merged
      <4>1. i \notin store.merged
        BY <3>1 DEF NoneOff
      <4>2. CASE store' = store
        BY <4>1, <4>2
      <4>3. CASE ActStep
        <5>1. ItemFacts(i)
          BY <3>2, <4>3 DEF ActStep
        <5>2. ~ IsNow("place", "merge_place", i)
          BY <1>1, <3>2, NowMeans DEF HoldsItsWork, MergePlanned
        <5> QED BY <4>1, <5>1, <5>2 DEF ItemFacts
      <4> QED BY <1>2, <4>2, <4>3 DEF SameTick
    <3>7. NoneOff(b)'
      BY <3>3, <3>4, <3>5, <3>6 DEF NoneOff, ItemsOf
    <3>8. UnderWay' => Owes("line", "create_line", b)'
      BY <1>2, <3>1, StillOwes DEF ActStep, LineFacts
    <3> QED BY <2>1, <2>4, <3>7, <3>8
  <2> QED BY <2>2, <2>3, <2>4
<1>3. CASE Plans
  <2>1. UNCHANGED repos /\ store' = store /\ pushed' = pushed
    BY <1>3, PlanOf
  <2>2. NoneOff(b)' <=> NoneOff(b)
    BY <2>1 DEF NoneOff, repos, ItemsOf
  <2> QED BY <1>1, <1>3, <2>1, <2>2, PlannedOwes DEF LineStands, repos
<1>4. CASE AtRest
  <2>1. UNCHANGED repos /\ ~ UnderWay'
    BY <1>4, StepKinds DEF AtRest
  <2>2. store'.merged \subseteq store.merged
    BY <1>1, <1>4 DEF AtRest, TickEnds, TickLost, RecordStep, Drift, FactDrift, Quiet
  <2>3. NoneOff(b) => NoneOff(b)'
    BY <2>1, <2>2 DEF NoneOff, repos, ItemsOf
  <2>4. CASE pushed'.line[b] = pushed.line[b]
    BY <1>1, <2>1, <2>3, <2>4 DEF LineStands, repos
  <2>5. CASE TickEnds
    <3>1. UnderWay /\ due = {} /\ pushed' = store
      BY <2>5 DEF TickEnds, UnderWay
    <3>2. pushed.line[b] \in {"removing", "removed"}
      BY <1>1, <2>1, <3>1 DEF LineStands, Owes, repos
    <3>3. BoltDrift(store, b) /\ pushed.bolt[b] # "open"
      BY <1>1, <3>2 DEF Drift, RegionDrift, LineFits
    <3>4. pushed'.line[b] \in {"removing", "removed"}
      BY <3>1, <3>2, <3>3, LinePlans, BoltPlans DEF BoltDrift
    <3> QED BY <3>4
  <2>6. TickEnds \/ pushed'.line[b] = pushed.line[b]
    BY <1>4 DEF AtRest, TickLost, RecordStep, Quiet
  <2> QED BY <2>4, <2>5, <2>6
<1> QED BY <1>2, <1>3, <1>4, StepKinds

LEMMA LineIsABolt ==
  ASSUME Copies, NEW i \in Items, LineOf[i] \in trees
  PROVE  LineOf[i] \in Bolts /\ LineOf[i] \in DOMAIN bare /\ LineOf[i] # i
  BY WorkspaceAssumption DEF Copies

\* A line that gets its worktree has no place off it.
LEMMA NewLine ==
  ASSUME ContainsInv, SameTick, NEW i \in Items, LineOf[i] \in trees' \ trees
  PROVE  /\ pushed.line[LineOf[i]] = "absent" /\ NoneOff(LineOf[i]) /\ LineOf[i] \in Bolts
         /\ i \notin DOMAIN bare' /\ i \notin DOMAIN bare /\ i \notin store.merged /\ Nowhere(i)
<1> DEFINE b == LineOf[i]
<1>1. Main \notin trees'
  BY DEF SameTick, BranchStep, Copies
<1>2. b \in Bolts
  BY <1>1, WorkspaceAssumption
<1>3. LineGrows(b) /\ PlaceGrows(i)
  BY <1>2 DEF SameTick, BranchStep
<1>4. pushed.line[b] = "absent"
  BY <1>3 DEF LineGrows
<1>5. NoneOff(b)
  BY <1>2, <1>4 DEF ContainsInv, LinesStand, LineStands
<1>6. i \in ItemsOf(b)
  BY DEF ItemsOf
<1> QED BY <1>2, <1>3, <1>4, <1>5, <1>6 DEF NoneOff, PlaceGrows, Nowhere

LEMMA StepPlaces ==
  ASSUME ContainsInv, [Next]_vars
  PROVE  PlacesHold'
<1> SUFFICES ASSUME NEW i \in Items
             PROVE  OffItsLine(i)' /\ HoldsItsWork(i)' /\ Unplaced(i)'
  BY DEF PlacesHold
<1> DEFINE b == LineOf[i]
<1>1. /\ Typed /\ DuePlanned /\ Drift /\ PlaceFits(i) /\ ItemDrift(store, i)
      /\ OffItsLine(i) /\ HoldsItsWork(i) /\ Unplaced(i)
  BY DEF ContainsInv, Fits, PlacesHold, Drift, RegionDrift
<1>2. CASE SameTick
  <2>1. PlaceGrows(i) /\ pushed' = pushed
    BY <1>2 DEF SameTick, BranchStep
  <2>2. OffItsLine(i)'
    <3> SUFFICES ASSUME b \in trees', i \in DOMAIN bare'
                 PROVE  bare'[i] \subseteq bare'[b] \cup {Work(i)}
      BY DEF OffItsLine
    <3>1. b \in trees
      BY <1>2, NewLine
    <3>2. b \in Bolts
      BY <1>1, <3>1, LineIsABolt DEF Typed
    <3>3. bare[b] \subseteq bare'[b]
      BY <1>2, <3>1, <3>2 DEF SameTick, BranchStep, LineGrows
    <3> QED BY <1>1, <2>1, <3>1, <3>3 DEF PlaceGrows, OffItsLine
  <2>3. HoldsItsWork(i)'
    <3> SUFFICES ASSUME pushed.place[i] = "merging" \/ (i \in pushed.done /\ ~Over(i))
                 PROVE  i \in DOMAIN bare' /\ Work(i) \in bare'[i]
      BY <2>1, PlansStay DEF HoldsItsWork
    <3>1. i \in DOMAIN bare /\ Work(i) \in bare[i]
      BY <1>1 DEF HoldsItsWork
    <3>2. i \in DOMAIN bare'
      BY <1>1, <2>1, <3>1 DEF PlaceGrows, PlaceFits
    <3> QED BY <2>1, <3>1, <3>2 DEF PlaceGrows
  <2>4. Unplaced(i)'
    BY <1>1, <2>1, NowMeans DEF Unplaced, PlaceGrows, PreparePlanned
  <2> QED BY <2>2, <2>3, <2>4
<1>3. CASE Plans
  BY <1>1, <1>3, PlanOf, PlansStay DEF repos, OffItsLine, HoldsItsWork, Unplaced
<1>4. CASE AtRest
  <2>1. UNCHANGED repos
    BY <1>4 DEF AtRest
  <2>2. OffItsLine(i)'
    BY <1>1, <2>1 DEF OffItsLine, repos
  <2>3. CASE TickLost
    BY <1>1, <2>1, <2>2, <2>3, PlansStay DEF TickLost, repos, HoldsItsWork, Unplaced
  <2>4. CASE RecordStep
    <3>1. store = pushed /\ pushed' = store' /\ pushed'.place = pushed.place
      BY <2>4 DEF RecordStep, Quiet
    <3>2. Over(i) => Over(i)'
      BY <1>1, <2>4, <3>1 DEF Over, RecordStep, PlaceFits
    <3>3. i \in pushed'.done \ pushed.done => i \in DOMAIN bare /\ Work(i) \in bare[i]
      BY <2>4, <3>1 DEF RecordStep
    <3> QED BY <1>1, <2>1, <2>2, <3>1, <3>2, <3>3 DEF repos, HoldsItsWork, Unplaced
  <2>5. CASE TickEnds
    <3>1. pushed' = store /\ store.done = pushed.done
      BY <1>1, <2>5 DEF TickEnds, Drift, FactDrift
    <3>2. Over(i) => Over(i)'
      BY <1>1, <3>1, ItemPlans DEF Over, ItemDrift
    <3>3. store.place[i] = "merging" =>
            pushed.place[i] = "merging" \/ (i \in pushed.done /\ ~ Over(i))
      BY <1>1, ItemPlans, PlacePlans DEF Over, ItemDrift, MergePlanned
    <3>4. store.place[i] = "none" => pushed.place[i] = "none"
      BY <1>1, ItemPlans, PlacePlans DEF ItemDrift
    <3> QED BY <1>1, <2>1, <2>2, <3>1, <3>2, <3>3, <3>4 DEF repos, HoldsItsWork, Unplaced
  <2> QED BY <1>4, <2>3, <2>4, <2>5 DEF AtRest
<1> QED BY <1>2, <1>3, <1>4, StepKinds

LEMMA OrderIs ==
  /\ \A o \in Bolts \cup Items : Order[o] \in Nat
  /\ \A o, p \in Bolts \cup Items : Order[o] = Order[p] => o = p
  BY WorkspaceAssumption DEF Injection, IsInjective

LEMMA PlaceTurn ==
  ASSUME NEW i, NEW plan
  PROVE  Turn(Move("place", i, plan)) = 3 * Order[i] + 1
  BY DEF Turn, Move, Depth

\* After a place's merge come moves of later turns.
LEMMA AfterTheMerge ==
  ASSUME DuePlanned, NEW i \in Items, IsNow("place", "merge_place", i), NEW m \in due \ {Now}
  PROVE  Turn(m) > Turn(Move("place", i, <<"merging", "merge_place">>))
<1>1. MergePlanned(i)
  BY NowMeans
<1>2. Now = Move("place", i, <<"merging", "merge_place">>)
  <2>1. Now \in due /\ Now.region = "place" /\ Now.of = i
    BY DEF IsNow
  <2>2. PICK busy \in SUBSET Items : Now = Move("place", i, PlacePlan(i, busy))
    BY <2>1, MoveOf DEF Move
  <2> QED BY <1>1, <2>2, PlacePlans
<1>3. Turn(Now) <= Turn(m)
  BY NowIsFirst DEF IsNow
<1>4. Turn(m) \in Nat /\ m.of \in Bolts \cup Items /\ Order[m.of] \in Nat /\ Order[i] \in Nat
  BY TurnIsNat, OrderIs
<1>5. Turn(Now) = 3 * Order[i] + 1
  BY <1>2, PlaceTurn
<1>6. ASSUME Turn(m) = Turn(Now) PROVE FALSE
  <2>1. Turn(m) = 3 * Order[m.of] + Depth(m.region) /\ Depth(m.region) \in {1, 2, 3}
    BY DEF Turn, Depth
  <2>2. Order[m.of] = Order[i] /\ Depth(m.region) = 1
    BY <1>4, <1>5, <1>6, <2>1
  <2>3. m.of = i /\ i \notin Bolts
    BY <1>4, <2>2, OrderIs, WorkspaceAssumption
  <2>4. m.region \in {"line", "place"}
    BY <2>2 DEF Depth
  <2>5. PICK busy \in SUBSET Items : m = Move("place", i, PlacePlan(i, busy))
    BY <2>3, <2>4, MoveOf DEF Move
  <2>6. m = Now
    BY <1>1, <1>2, <2>5, PlacePlans
  <2> QED BY <2>6
<1> QED BY <1>2, <1>3, <1>4, <1>5, <1>6

\* A conflict of a place that holds its line but for its own work is its own.
LEMMA OwnConflict ==
  ASSUME NEW i \in Items, NEW x, NEW y, x \subseteq y \cup {Work(i)}, Conflicts(x, y)
  PROVE  Work(i) \notin y /\ \E q \in Items : {i, q} \in Clash /\ Work(q) \in y \ x
<1>1. PICK p, q \in Items : {p, q} \in Clash /\ Work(p) \in x \ y /\ Work(q) \in y \ x
  BY DEF Conflicts
<1>2. p = i
  BY <1>1, CommitsDiffer
<1> QED BY <1>1, <1>2

LEMMA StepMerges ==
  ASSUME ContainsInv, [Next]_vars
  PROVE  Merges'
<1> SUFFICES ASSUME NEW i \in Items
             PROVE  OwedMerge(i)' /\ TriedMerge(i)' /\ ToldMerge(i)'
  BY DEF Merges
<1> DEFINE b == LineOf[i]
<1>1. /\ Typed /\ DuePlanned /\ Drift /\ OffItsLine(i) /\ HoldsItsWork(i)
      /\ OwedMerge(i) /\ TriedMerge(i) /\ ToldMerge(i)
      /\ pushed.merged \subseteq store.merged
  BY DEF ContainsInv, PlacesHold, Merges, Drift, FactDrift
<1>2. CASE SameTick
  <2>1. PlaceGrows(i) /\ pushed' = pushed /\ WorkStays(i)
    BY <1>2 DEF SameTick, BranchStep
  <2>2. /\ store.merged \subseteq store'.merged
        /\ UnderWay' => UnderWay
        /\ \A j \in Items : ActStep => ItemFacts(j)
    BY <1>2, StillOwes DEF SameTick, ActStep
  <2>3. b \in trees =>
          /\ b \in Bolts /\ b \in DOMAIN bare /\ LineGrows(b)
          /\ b \in trees' => bare[b] \subseteq bare'[b]
    BY <1>1, <1>2, LineIsABolt DEF Typed, SameTick, BranchStep, LineGrows
  <2>4. MergePlanned(i) => i \in DOMAIN bare /\ Work(i) \in bare[i]
    BY <1>1 DEF HoldsItsWork, MergePlanned
  <2>5. OwedMerge(i)'
    <3> SUFFICES ASSUME b \in trees', Work(i) \in bare'[b], i \notin pushed.merged
                 PROVE  MergePlanned(i) /\ (UnderWay' => Owes("place", "merge_place", i)' \/ i \in store'.merged)
      BY <2>1, PlansStay DEF OwedMerge
    <3>1. b \in trees
      <4>1. ASSUME b \notin trees PROVE FALSE
        <5>1. i \notin DOMAIN bare /\ Nowhere(i)
          BY <1>2, <4>1, NewLine
        <5>2. Nowhere(i)'
          BY <1>1, <2>1, <5>1 DEF WorkStays, Typed, Copies
        <5>3. b \in DOMAIN bare'
          BY <1>2 DEF SameTick, BranchStep, Copies
        <5> QED BY <5>2, <5>3 DEF Nowhere
      <4> QED BY <4>1
    <3>2. CASE Work(i) \in bare[b]
      <4>1. MergePlanned(i) /\ (UnderWay => Owes("place", "merge_place", i) \/ i \in store.merged)
        BY <1>1, <3>1, <3>2 DEF OwedMerge
      <4>2. ASSUME ActStep, IsNow("place", "merge_place", i) PROVE i \in store'.merged
        <5>1. ~ Conflicts(bare[i], bare[b])
          BY <1>1, <2>4, <3>1, <3>2, <4>1, OwnConflict DEF OffItsLine
        <5> QED BY <2>2, <3>1, <4>2, <5>1 DEF ItemFacts
      <4> QED BY <1>2, <2>2, <4>1, <4>2, StillOwes
    <3>3. CASE Work(i) \notin bare[b]
      <4>1. i \in store'.merged /\ IsNow("place", "merge_place", i)
        <5>1. PICK j \in ItemsOf(b) : /\ Work(i) = Work(j) /\ j \in store'.merged
                                      /\ IsNow("place", "merge_place", j)
          BY <2>3, <3>1, <3>3, CommitsDiffer DEF LineGrows
        <5> QED BY <5>1, CommitsDiffer
      <4> QED BY <1>1, <4>1, NowMeans
    <3> QED BY <3>2, <3>3
  <2>6. TriedMerge(i)'
    <3> SUFFICES ASSUME b \in trees', MergePlanned(i), UnderWay'
                 PROVE  \/ Owes("place", "merge_place", i)' \/ Work(i) \in bare'[b]
                        \/ Conflicts(bare'[i], bare'[b])
      BY <2>1, PlansStay DEF TriedMerge, Conflicts
    <3>1. b \in trees /\ i \in DOMAIN bare /\ Work(i) \in bare[i]
      BY <1>2, <2>4, NewLine
    <3>2. CASE Owes("place", "merge_place", i)
      <4>1. ASSUME ActStep, IsNow("place", "merge_place", i)
            PROVE  Work(i) \in bare'[b] \/ Conflicts(bare'[i], bare'[b])
        BY <2>2, <3>1, <4>1 DEF ItemFacts
      <4> QED BY <1>2, <3>2, <4>1, StillOwes
    <3>3. CASE Work(i) \in bare[b]
      BY <2>3, <3>1, <3>3
    <3>4. CASE Conflicts(bare[i], bare[b])
      <4>1. bare'[i] = bare[i]
        BY <2>1, <3>1 DEF PlaceGrows, MergePlanned
      <4>2. PICK q \in Items : {i, q} \in Clash /\ Work(q) \in bare[b] \ bare[i]
        BY <1>1, <3>1, <3>4, OwnConflict DEF OffItsLine
      <4>3. Work(q) \in bare'[b] \ bare'[i]
        BY <2>3, <3>1, <4>1, <4>2
      <4> QED BY <3>1, <4>1, <4>2, <4>3 DEF Conflicts
    <3> QED BY <1>1, <2>2, <3>1, <3>2, <3>3, <3>4 DEF TriedMerge
  <2>7. ToldMerge(i)'
    <3> SUFFICES ASSUME i \in store'.merged \ pushed.merged
                 PROVE  /\ MergePlanned(i)
                        /\ \A m \in due' : Turn(m) > Turn(Move("place", i, <<"merging", "merge_place">>))
                        /\ \A j \in Items \ {i} :
                             LineOf[j] = b /\ pushed.place[j] = "merging" => j \notin store'.contains
      BY <2>1, PlansStay DEF ToldMerge, Turn, Depth, Move
    <3>1. due' \subseteq due
      BY <1>2 DEF SameTick, ActStep
    <3>2. CASE i \in store.merged
      <4>1. /\ MergePlanned(i)
            /\ \A m \in due : Turn(m) > Turn(Move("place", i, <<"merging", "merge_place">>))
            /\ \A j \in Items \ {i} :
                 LineOf[j] = b /\ pushed.place[j] = "merging" => j \notin store.contains
        BY <1>1, <3>2 DEF ToldMerge
      <4>2. ASSUME NEW j \in Items, pushed.place[j] = "merging"
            PROVE  j \in store'.contains => j \in store.contains
        BY <1>1, <1>2, <2>2, <4>2, NowMeans DEF SameTick, ItemFacts, PreparePlanned
      <4> QED BY <3>1, <4>1, <4>2
    <3>3. CASE i \notin store.merged
      <4>1. ActStep /\ IsNow("place", "merge_place", i)
        BY <1>2, <2>2, <3>3 DEF SameTick, ItemFacts
      <4>2. due' = due \ {Now}
        BY <4>1 DEF ActStep
      <4>3. \A j \in Items \ {i} : LineOf[j] = b => j \notin store'.contains
        BY <2>2, <3>3, <4>1 DEF ItemFacts
      <4> QED BY <1>1, <4>1, <4>2, <4>3, NowMeans, AfterTheMerge
    <3> QED BY <3>2, <3>3
  <2> QED BY <2>5, <2>6, <2>7
<1>3. CASE Plans
  <2>1. UNCHANGED repos /\ store' = store /\ pushed' = pushed /\ store = pushed
    BY <1>3, PlanOf
  <2>2. MergePlanned(i) => Owes("place", "merge_place", i)'
    BY <1>3, PlannedOwes
  <2> QED BY <1>1, <2>1, <2>2, PlansStay DEF repos, OwedMerge, TriedMerge, ToldMerge
<1>4. CASE AtRest
  <2>1. UNCHANGED repos /\ store' = pushed' /\ ~ UnderWay'
    BY <1>4, StepKinds DEF AtRest
  <2>2. TriedMerge(i)' /\ ToldMerge(i)'
    BY <2>1 DEF TriedMerge, ToldMerge
  <2>3. OwedMerge(i)'
    <3> SUFFICES ASSUME b \in trees, Work(i) \in bare[b], i \notin pushed'.merged
                 PROVE  MergePlanned(i)'
      BY <2>1 DEF OwedMerge, repos
    <3>1. CASE TickLost
      BY <1>1, <3>1, PlansStay DEF TickLost, OwedMerge
    <3>2. CASE RecordStep
      BY <1>1, <3>2 DEF RecordStep, Quiet, OwedMerge, MergePlanned
    <3>3. CASE TickEnds
      <4>1. pushed' = store /\ due = {} /\ UnderWay
        BY <3>3 DEF TickEnds, UnderWay
      <4>2. ~ Owes("place", "merge_place", i)
        BY <4>1 DEF Owes
      <4> QED BY <1>1, <4>1, <4>2 DEF OwedMerge
    <3> QED BY <1>4, <3>1, <3>2, <3>3 DEF AtRest
  <2> QED BY <2>2, <2>3
<1> QED BY <1>2, <1>3, <1>4, StepKinds

\* A merge that conflicts with its line goes on doing so.
LEMMA ConflictStays ==
  ASSUME ContainsInv, SameTick, NEW j \in Items, MergePlanned(j), LineOf[j] \in trees \cap trees',
         Conflicts(bare[j], bare[LineOf[j]])
  PROVE  /\ Work(j) \notin bare'[LineOf[j]] /\ Conflicts(bare'[j], bare'[LineOf[j]])
<1> DEFINE b == LineOf[j]
<1>1. b \in Bolts /\ b \in DOMAIN bare
  BY LineIsABolt DEF ContainsInv, Typed
<1>2. LineGrows(b) /\ PlaceGrows(j) /\ bare[b] \subseteq bare'[b]
  BY <1>1 DEF SameTick, BranchStep, LineGrows
<1>3. j \in DOMAIN bare /\ Work(j) \in bare[j] /\ bare[j] \subseteq bare[b] \cup {Work(j)}
  BY DEF ContainsInv, PlacesHold, HoldsItsWork, OffItsLine, MergePlanned
<1>4. bare'[j] = bare[j]
  BY <1>2, <1>3 DEF PlaceGrows, MergePlanned
<1>5. Work(j) \notin bare[b] /\ \E q \in Items : {j, q} \in Clash /\ Work(q) \in bare[b] \ bare[j]
  BY <1>3, OwnConflict
<1>6. Work(j) \notin bare'[b]
  <2> SUFFICES ASSUME Work(j) \in bare'[b] \ bare[b] PROVE FALSE
    BY <1>5
  <2>1. PICK k \in ItemsOf(b) : Work(j) = Work(k) /\ ~ Conflicts(bare[k], bare[b])
    BY <1>2, CommitsDiffer DEF LineGrows
  <2> QED BY <2>1, CommitsDiffer
<1>7. PICK q \in Items : {j, q} \in Clash /\ Work(q) \in bare[b] \ bare[j]
  BY <1>5
<1>8. Work(j) \in bare'[j] \ bare'[b] /\ Work(q) \in bare'[b] \ bare'[j]
  BY <1>2, <1>3, <1>4, <1>6, <1>7
<1> QED BY <1>6, <1>7, <1>8 DEF Conflicts

\* When a place is made, what merges before it in the tick has been tried.
LEMMA MergedBefore ==
  ASSUME ContainsInv, NEW i \in Items, NEW act, IsNow("place", act, i),
         NEW j \in Items, MergePlanned(j), LineOf[j] \in trees, Order[j] < Order[i]
  PROVE  Work(j) \in bare[LineOf[j]] \/ Conflicts(bare[j], bare[LineOf[j]])
<1>1. UnderWay /\ DuePlanned /\ TriedMerge(j)
  BY DEF IsNow, UnderWay, ContainsInv, Merges
<1>2. ~ Owes("place", "merge_place", j)
  <2> SUFFICES ASSUME NEW m \in due, m.region = "place", m.of = j PROVE FALSE
    BY DEF Owes
  <2>1. Turn(Now) <= Turn(m)
    BY <1>1, NowIsFirst
  <2>2. Turn(Now) = 3 * Order[i] + 1 /\ Turn(m) = 3 * Order[j] + 1
    BY DEF Turn, Depth, IsNow
  <2> QED BY <2>1, <2>2, OrderIs
<1> QED BY <1>1, <1>2 DEF TriedMerge

LEMMA StepPrepares ==
  ASSUME ContainsInv, [Next]_vars
  PROVE  Prepares'
<1> SUFFICES ASSUME NEW i \in Items
             PROVE  PreparedEarly(i)' /\ PrepareOwed(i)'
  BY DEF Prepares
<1> DEFINE b == LineOf[i]
<1>1. /\ Typed /\ DuePlanned /\ Drift /\ Unplaced(i) /\ ItemDrift(store, i)
      /\ PreparedEarly(i) /\ PrepareOwed(i)
  BY DEF ContainsInv, PlacesHold, Prepares, Drift, RegionDrift
<1>2. CASE SameTick
  <2>1. PlaceGrows(i) /\ pushed' = pushed
    BY <1>2 DEF SameTick, BranchStep
  <2>2. ASSUME b \in trees', i \in DOMAIN bare'
        PROVE  /\ b \in trees /\ b \in Bolts /\ LineGrows(b)
               /\ bare[b] \subseteq bare'[b]
               /\ \A c \in bare'[b] \ bare[b] :
                    \/ c = Acceptance(b)
                    \/ \E j \in ItemsOf(b) :
                         /\ c = Work(j) /\ IsNow("place", "merge_place", j)
                         /\ ~ Conflicts(bare[j], bare[b])
    <3>1. b \in trees
      BY <1>2, <2>2, NewLine
    <3>2. b \in Bolts
      BY <1>1, <3>1, LineIsABolt DEF Typed
    <3>3. LineGrows(b)
      BY <1>2, <3>2 DEF SameTick, BranchStep
    <3> QED BY <2>2, <3>1, <3>2, <3>3 DEF LineGrows
  <2>3. PreparedEarly(i)'
    <3> SUFFICES ASSUME PreparePlanned(i), i \in DOMAIN bare', b \in trees'
                 PROVE  /\ \A c \in bare'[b] \ bare'[i] :
                             \/ c = Acceptance(b)
                             \/ \E j \in ItemsOf(b) : c = Work(j) /\ MergePlanned(j) /\ Order[i] < Order[j]
                        /\ \A j \in ItemsOf(b) :
                             MergePlanned(j) /\ Order[j] < Order[i] =>
                               Work(j) \in bare'[i] \/ Conflicts(bare'[j], bare'[b])
      BY <2>1, PlansStay DEF PreparedEarly, ItemsOf, Conflicts
    <3>1. ASSUME NEW j \in ItemsOf(b), MergePlanned(j), Conflicts(bare[j], bare[b])
          PROVE  Conflicts(bare'[j], bare'[b])
      BY <1>2, <2>2, <3>1, ConflictStays DEF ItemsOf
    <3>2. CASE i \in DOMAIN bare
      <4>1. bare[i] \subseteq bare'[i]
        BY <2>1, <3>2 DEF PlaceGrows
      <4>2. /\ \A c \in bare[b] \ bare[i] :
                 \/ c = Acceptance(b)
                 \/ \E j \in ItemsOf(b) : c = Work(j) /\ MergePlanned(j) /\ Order[i] < Order[j]
            /\ \A j \in ItemsOf(b) :
                 MergePlanned(j) /\ Order[j] < Order[i] =>
                   Work(j) \in bare[i] \/ Conflicts(bare[j], bare[b])
        BY <1>1, <2>2, <3>2 DEF PreparedEarly
      <4>3. ASSUME NEW c \in (bare'[b] \ bare[b]) \ bare'[i], c # Acceptance(b)
            PROVE  \E j \in ItemsOf(b) : c = Work(j) /\ MergePlanned(j) /\ Order[i] < Order[j]
        <5>1. PICK j \in ItemsOf(b) : /\ c = Work(j) /\ IsNow("place", "merge_place", j)
                                      /\ ~ Conflicts(bare[j], bare[b])
          BY <2>2, <4>3
        <5>2. MergePlanned(j) /\ j \in Items
          BY <1>1, <5>1, NowMeans DEF ItemsOf
        <5>3. ~ (Order[j] < Order[i])
          BY <4>1, <4>2, <4>3, <5>1, <5>2
        <5>4. Order[j] # Order[i]
          BY <5>2, OrderIs DEF MergePlanned, PreparePlanned
        <5> QED BY <5>1, <5>2, <5>3, <5>4, OrderIs
      <4>4. ASSUME NEW c \in bare'[b] \ bare'[i], c # Acceptance(b)
            PROVE  \E j \in ItemsOf(b) : c = Work(j) /\ MergePlanned(j) /\ Order[i] < Order[j]
        BY <4>1, <4>2, <4>3, <4>4
      <4> QED BY <3>1, <4>1, <4>2, <4>4
    <3>3. CASE i \notin DOMAIN bare
      <4>1. IsNow("place", "prepare_place", i) /\ bare'[i] = bare[b]
        BY <2>1, <3>3 DEF PlaceGrows
      <4>2. \A c \in bare'[b] \ bare'[i] : c = Acceptance(b)
        BY <2>2, <4>1 DEF IsNow
      <4>3. ASSUME NEW j \in ItemsOf(b), MergePlanned(j), Order[j] < Order[i]
            PROVE  Work(j) \in bare'[i] \/ Conflicts(bare'[j], bare'[b])
        <5>1. j \in Items /\ LineOf[j] = b
          BY DEF ItemsOf
        <5>2. Work(j) \in bare[b] \/ Conflicts(bare[j], bare[b])
          BY <2>2, <4>1, <4>3, <5>1, MergedBefore
        <5> QED BY <3>1, <4>1, <4>3, <5>2
      <4> QED BY <4>2, <4>3
    <3> QED BY <3>2, <3>3
  <2>4. PrepareOwed(i)'
    <3> SUFFICES ASSUME PreparePlanned(i), UnderWay', b \in trees', i \in DOMAIN bare'
                 PROVE  \/ Owes("place", "prepare_place", i)'
                        \/ store'.place[i] # "absent" /\ i \in store'.exists
      BY <2>1, PlansStay DEF PrepareOwed
    <3>1. UnderWay /\ b \in trees
      BY <1>2, <2>2, StillOwes
    <3>2. ASSUME Owes("place", "prepare_place", i)
          PROVE  \/ Owes("place", "prepare_place", i)'
                 \/ store'.place[i] # "absent" /\ i \in store'.exists
      <4>1. ASSUME ActStep, IsNow("place", "prepare_place", i)
            PROVE  store'.place[i] # "absent" /\ i \in store'.exists
        BY <3>1, <4>1 DEF ActStep, ItemFacts
      <4> QED BY <1>2, <3>2, <4>1, StillOwes
    <3>3. CASE i \in DOMAIN bare
      <4>1. CASE store.place[i] # "absent" /\ i \in store.exists
        <5>1. CASE store' = store
          BY <4>1, <5>1
        <5>2. CASE ActStep
          <6>1. ItemFacts(i) /\ PlaceGoesOn(store')
            BY <5>2 DEF ActStep
          <6> QED BY <4>1, <6>1 DEF ItemFacts, PlaceGoesOn, PreparePlanned
        <5> QED BY <1>2, <5>1, <5>2 DEF SameTick
      <4> QED BY <1>1, <3>1, <3>2, <3>3, <4>1 DEF PrepareOwed
    <3>4. CASE i \notin DOMAIN bare
      <4>1. Owes("place", "prepare_place", i)
        BY <2>1, <3>4 DEF PlaceGrows, IsNow, Owes
      <4> QED BY <3>2, <4>1
    <3> QED BY <3>3, <3>4
  <2> QED BY <2>3, <2>4
<1>3. CASE Plans
  <2>1. UNCHANGED repos /\ pushed' = pushed
    BY <1>3, PlanOf
  <2>2. PreparePlanned(i) => Owes("place", "prepare_place", i)'
    BY <1>3, PlannedOwes
  <2>3. PrepareOwed(i)'
    BY <2>1, <2>2, PlansStay DEF PrepareOwed
  <2>4. PreparedEarly(i)'
    BY <1>1, <2>1, PlansStay DEF PreparedEarly, repos, ItemsOf, Conflicts
  <2> QED BY <2>3, <2>4
<1>4. CASE AtRest
  <2>1. UNCHANGED repos /\ ~ UnderWay'
    BY <1>4, StepKinds DEF AtRest
  <2>2. PrepareOwed(i)'
    BY <2>1 DEF PrepareOwed
  <2>3. CASE TickLost
    BY <1>1, <2>1, <2>2, <2>3, PlansStay DEF TickLost, repos, PreparedEarly, ItemsOf, Conflicts
  <2>4. CASE RecordStep
    <3>1. \A j : MergePlanned(j)' = MergePlanned(j) /\ PreparePlanned(j)' = PreparePlanned(j)
      BY <2>4 DEF RecordStep, Quiet, MergePlanned, PreparePlanned
    <3> QED BY <1>1, <2>1, <2>2, <3>1 DEF repos, PreparedEarly, ItemsOf, Conflicts
  <2>5. CASE TickEnds
    <3>1. pushed' = store /\ due = {} /\ UnderWay
      BY <2>5 DEF TickEnds, UnderWay
    <3> SUFFICES ASSUME store.place[i] = "absent" \/ (store.place[i] = "preparing" /\ i \notin store.exists),
                        i \in DOMAIN bare, b \in trees
                 PROVE  FALSE
      BY <2>1, <2>2, <3>1 DEF repos, PreparedEarly, PreparePlanned
    <3>2. pushed.place[i] # "none"
      BY <1>1 DEF Unplaced
    <3>3. i \in pushed.exists => i \in store.exists \/ pushed.place[i] = "removing"
      BY <1>1 DEF Drift, FactDrift
    <3>4. pushed.place[i] \in {"absent", "preparing"}
      BY <1>1, <3>2, ItemPlans, PlacePlans DEF ItemDrift
    <3>5. PreparePlanned(i)
      BY <1>1, <3>3, <3>4, ItemPlans, PlacePlans DEF PreparePlanned, ItemDrift
    <3> QED BY <1>1, <3>1, <3>5 DEF PrepareOwed, Owes
  <2> QED BY <1>4, <2>3, <2>4, <2>5 DEF AtRest
<1> QED BY <1>2, <1>3, <1>4, StepKinds

\* What has merged in this tick is of an earlier turn than what is done now.
LEMMA MergedEarlier ==
  ASSUME ContainsInv, NEW i \in Items, NEW act, IsNow("place", act, i),
         NEW j \in Items, MergePlanned(j), j \in store.merged
  PROVE  Order[j] < Order[i]
<1>1. j \notin pushed.merged /\ ToldMerge(j)
  BY DEF MergePlanned, ContainsInv, Merges
<1>2. Turn(Now) > Turn(Move("place", j, <<"merging", "merge_place">>))
  BY <1>1 DEF ToldMerge, IsNow
<1>3. Turn(Now) = 3 * Order[i] + 1 /\ Turn(Move("place", j, <<"merging", "merge_place">>)) = 3 * Order[j] + 1
  BY PlaceTurn DEF Turn, Depth, IsNow
<1> QED BY <1>2, <1>3, OrderIs

LEMMA StepKeptUp ==
  ASSUME ContainsInv, [Next]_vars
  PROVE  AllKeptUp'
<1> SUFFICES ASSUME NEW i \in Items
             PROVE  KeptUp(store, i)' /\ KeptUp(pushed, i)'
  BY DEF AllKeptUp
<1> DEFINE b == LineOf[i]
<1>1. /\ Typed /\ DuePlanned /\ KeptUp(store, i) /\ KeptUp(pushed, i) /\ PreparedEarly(i)
  BY DEF ContainsInv, Prepares, AllKeptUp
<1>2. CASE SameTick
  <2>1. PlaceGrows(i) /\ pushed' = pushed /\ store.merged \subseteq store'.merged
    BY <1>2 DEF SameTick, BranchStep, ActStep
  <2>2. CASE ~ (b \in trees' /\ i \in DOMAIN bare')
    BY <2>2 DEF KeptUp
  <2>3. CASE b \in trees' /\ i \in DOMAIN bare'
    <3>1. b \in trees
      BY <1>2, <2>3, NewLine
    <3>2. b \in Bolts
      BY <1>1, <3>1, LineIsABolt DEF Typed
    <3>3. LineGrows(b)
      BY <1>2, <3>2 DEF SameTick, BranchStep
    <3>4. ASSUME NEW c \in bare'[b] \ bare[b], c # Acceptance(b)
          PROVE  \E j \in ItemsOf(b) : /\ c = Work(j) /\ IsNow("place", "merge_place", j)
                                       /\ j \in store'.merged /\ MergePlanned(j)
      <4>1. PICK j \in ItemsOf(b) : /\ c = Work(j) /\ IsNow("place", "merge_place", j)
                                    /\ j \in store'.merged
        BY <2>3, <3>1, <3>3, <3>4 DEF LineGrows
      <4>2. MergePlanned(j)
        BY <1>1, <4>1, NowMeans DEF ItemsOf
      <4> QED BY <4>1, <4>2
    <3>5. CASE i \notin DOMAIN bare
      <4>1. IsNow("place", "prepare_place", i) /\ bare'[i] = bare[b]
        BY <2>1, <2>3, <3>5 DEF PlaceGrows
      <4>2. \A c \in bare'[b] \ bare'[i] : c = Acceptance(b)
        BY <3>4, <4>1 DEF IsNow
      <4> QED BY <4>2 DEF KeptUp
    <3>6. CASE i \in DOMAIN bare
      <4>1. bare[i] \subseteq bare'[i]
        BY <2>1, <2>3, <3>6 DEF PlaceGrows
      <4>2. KeptUp(pushed, i)'
        <5> SUFFICES ASSUME i \in pushed.contains \ pushed.merged,
                            NEW c \in bare'[b] \ bare'[i], c # Acceptance(b)
                     PROVE  \E j \in ItemsOf(b) \ pushed.merged : c = Work(j)
          BY <2>1 DEF KeptUp, ItemsOf
        <5>1. CASE c \in bare[b]
          BY <1>1, <3>1, <3>6, <4>1, <5>1 DEF KeptUp
        <5>2. CASE c \notin bare[b]
          <6>1. PICK j \in ItemsOf(b) : c = Work(j) /\ MergePlanned(j)
            BY <3>4, <5>2
          <6> QED BY <6>1 DEF MergePlanned
        <5> QED BY <5>1, <5>2
      <4>3. KeptUp(store, i)'
        <5> SUFFICES ASSUME i \in store'.contains \ store'.merged,
                            NEW c \in bare'[b] \ bare'[i], c # Acceptance(b)
                     PROVE  \E j \in ItemsOf(b) \ store'.merged : c = Work(j)
          BY DEF KeptUp, ItemsOf
        <5>1. i \notin store.merged
          BY <2>1
        <5>2. ASSUME NEW j \in ItemsOf(b), j \in store'.merged \ store.merged
              PROVE  i # j /\ i \notin store'.contains
          <6>1. j \in Items /\ i # j /\ LineOf[i] = LineOf[j]
            BY <5>2 DEF ItemsOf
          <6>2. ActStep
            BY <1>2, <5>2 DEF SameTick
          <6>3. ItemFacts(j)
            BY <6>1, <6>2 DEF ActStep
          <6> QED BY <5>2, <6>1, <6>3 DEF ItemFacts
        <5>3. CASE c \notin bare[b]
          <6>1. PICK j \in ItemsOf(b) : /\ c = Work(j) /\ IsNow("place", "merge_place", j)
                                        /\ j \in store'.merged /\ MergePlanned(j)
            BY <3>4, <5>3
          <6>2. j \in Items
            BY DEF ItemsOf
          <6>3. j \notin store.merged
            BY <6>1, <6>2, MergedEarlier, OrderIs
          <6> QED BY <5>2, <6>1, <6>3
        <5>4. CASE c \in bare[b] /\ i \in store.contains
          <6>1. PICK j \in ItemsOf(b) \ store.merged : c = Work(j)
            BY <1>1, <3>1, <3>6, <4>1, <5>1, <5>4 DEF KeptUp
          <6> QED BY <5>2, <6>1
        <5>5. CASE c \in bare[b] /\ i \notin store.contains
          <6>1. ActStep
            BY <1>2, <5>5 DEF SameTick
          <6>2. ItemFacts(i)
            BY <6>1 DEF ActStep
          <6>3. ~ (bare'[b] \subseteq bare'[i])
            OBVIOUS
          <6>4. IsNow("place", "prepare_place", i)
            BY <3>1, <5>5, <6>2, <6>3 DEF ItemFacts
          <6>5. PreparePlanned(i)
            BY <1>1, <6>4, NowMeans
          <6>6. PICK j \in ItemsOf(b) : c = Work(j) /\ MergePlanned(j) /\ Order[i] < Order[j]
            BY <1>1, <3>1, <3>6, <4>1, <5>5, <6>5 DEF PreparedEarly
          <6>7. j \in Items
            BY DEF ItemsOf
          <6>8. j \notin store.merged
            BY <6>4, <6>6, <6>7, MergedEarlier, OrderIs
          <6> QED BY <5>2, <6>6, <6>8
        <5> QED BY <5>3, <5>4, <5>5
      <4> QED BY <4>2, <4>3
    <3> QED BY <3>5, <3>6
  <2> QED BY <2>2, <2>3
<1>3. CASE Plans
  <2>1. UNCHANGED repos /\ pushed' = pushed /\ store' = store
    BY <1>3, PlanOf
  <2> QED BY <1>1, <2>1 DEF KeptUp, ItemsOf, repos
<1>4. CASE AtRest
  <2>1. UNCHANGED repos /\ store' = pushed'
    BY <1>4 DEF AtRest
  <2>2. \/ pushed' = store
        \/ pushed' = pushed
        \/ pushed'.contains = store.contains /\ pushed'.merged = store.merged
    BY <1>4 DEF AtRest, TickEnds, TickLost, RecordStep, Quiet
  <2> QED BY <1>1, <2>1, <2>2 DEF KeptUp, ItemsOf, repos
<1> QED BY <1>2, <1>3, <1>4, StepKinds

LEMMA ContainsInit ==
  ASSUME Init
  PROVE  ContainsInv
<1>1. /\ DOMAIN bare = {Main} /\ bare[Main] = {} /\ DOMAIN githost = {Main} /\ githost[Main] = {}
      /\ trees = {} /\ checkout = {} /\ due = {} /\ store = Fresh /\ pushed = Fresh
  BY DEF Init
<1>2. Fresh \in Store
  BY DEF Fresh, Store
<1>3. Typed /\ DuePlanned
  BY <1>1, <1>2 DEF Typed, Copies, Branch, DuePlanned
<1>4. Drift
  <2>1. \A b \in Bolts : BoltDrift(store, b)
    BY <1>1 DEF BoltDrift
  <2>2. \A i \in Items : ItemDrift(store, i)
    BY <1>1 DEF ItemDrift
  <2>3. FactDrift
    BY <1>1 DEF FactDrift
  <2> QED BY <2>1, <2>2, <2>3 DEF Drift, RegionDrift
<1>5. Fits
  BY <1>1 DEF Fits, LineFits, PlaceFits, Fresh
<1>6. LinesStand
  BY <1>1, WorkspaceAssumption DEF LinesStand, LineStands, NoneOff, ItemsOf, UnderWay, Fresh
<1>7. PlacesHold
  BY <1>1, WorkspaceAssumption DEF PlacesHold, OffItsLine, HoldsItsWork, Unplaced, Over, Fresh
<1>8. Merges
  BY <1>1 DEF Merges, OwedMerge, TriedMerge, ToldMerge, UnderWay
<1>9. Prepares
  BY <1>1 DEF Prepares, PreparedEarly, PrepareOwed
<1>10. AllKeptUp
  BY <1>1 DEF AllKeptUp, KeptUp
<1> QED BY <1>3, <1>4, <1>5, <1>6, <1>7, <1>8, <1>9, <1>10 DEF ContainsInv

LEMMA ContainsStep ==
  ASSUME ContainsInv, [Next]_vars
  PROVE  ContainsInv'
  BY StepTyped, StepDrift, StepFits, StepLines, StepPlaces, StepMerges, StepPrepares, StepKeptUp
  DEF ContainsInv

LEMMA ContainsShows ==
  ASSUME ContainsInv
  PROVE  ContainsIsTrue
<1> SUFFICES ASSUME NEW i \in store.contains \ store.merged, LineOf[i] \in trees, i \in DOMAIN bare,
                    NEW c \in bare[LineOf[i]] \ bare[i], c # Acceptance(LineOf[i])
             PROVE  \E j \in Items \ store.merged : c = Work(j)
  BY DEF ContainsIsTrue
<1>1. i \in Items
  BY DEF ContainsInv, Typed, Store
<1>2. KeptUp(store, i)
  BY <1>1 DEF ContainsInv, AllKeptUp
<1> QED BY <1>2 DEF KeptUp, ItemsOf

\* A place that is recorded as containing its line does contain it, whatever
\* the ticks that are lost and the order in which an instance's ids stand:
\* what its branch lacks is the acceptance of a landing or the work of a
\* sibling whose merge is not on record yet (recorded.rs, workspace.rs).
THEOREM ContainsStaysTrue ==
  Spec => []ContainsIsTrue
<1>1. Init => ContainsInv
  BY ContainsInit
<1>2. ContainsInv /\ [Next]_vars => ContainsInv'
  BY ContainsStep
<1>3. ContainsInv => ContainsIsTrue
  BY ContainsShows
<1> QED BY <1>1, <1>2, <1>3, PTL DEF Spec

------------------------------------------------------------------------------
(* What is merged is kept, where no unit is approved under a landing.        *)

\* A move that merges is of an item whose line is not landing.
LEMMA MergesBeforeLanding ==
  ASSUME MergedInv, NEW i \in Items, MergePlanned(i), LineOf[i] \in Bolts
  PROVE  ~ Landing(LineOf[i]) /\ LineOf[i] \notin store.landed /\ pushed.line[LineOf[i]] # "landing"
<1>1. NothingLate(LineOf[i]) /\ LineFits(LineOf[i]) /\ i \in ItemsOf(LineOf[i])
  BY DEF MergedInv, ContainsInv, Fits, ItemsOf
<1> QED BY <1>1 DEF NothingLate, LineFits, Landing

\* What a step adds to what is recorded as merged.
LEMMA NewlyMerged ==
  ASSUME ContainsInv, SameTick, NEW i \in Items, i \in store'.merged \ store.merged
  PROVE  /\ MergePlanned(i) /\ i \in DOMAIN bare
         /\ LineOf[i] \in trees => Work(i) \in bare'[LineOf[i]]
         /\ IF LineOf[i] = Main THEN Work(i) \in githost'[Main] /\ bare[i] \subseteq githost'[Main]
            ELSE LineOf[i] \in DOMAIN bare' /\ Work(i) \in bare'[LineOf[i]]
<1>1. ItemFacts(i)
  BY DEF SameTick, ActStep
<1>2. MergePlanned(i)
  BY <1>1, NowMeans DEF ItemFacts, ContainsInv
<1>3. i \in DOMAIN bare
  BY <1>2 DEF ContainsInv, PlacesHold, HoldsItsWork, MergePlanned
<1> QED BY <1>1, <1>2, <1>3 DEF ItemFacts

LEMMA StepInItsLine ==
  ASSUME MergedInv, [Next]_vars, NEW i \in Items
  PROVE  InItsLine(i)'
<1> DEFINE b == LineOf[i]
<1>1. ContainsInv /\ InItsLine(i) /\ Copies /\ pushed.merged \subseteq store.merged
  BY DEF MergedInv, ContainsInv, Typed, Drift, FactDrift
<1>2. CASE SameTick
  <2> SUFFICES ASSUME i \in store'.merged, b \in trees'
               PROVE  Work(i) \in bare'[b]
    BY DEF InItsLine
  <2>1. b \in trees
    BY <1>1, <1>2, NewLine, NewlyMerged
  <2>2. b \in Bolts
    BY <1>1, <2>1, LineIsABolt
  <2>3. bare[b] \subseteq bare'[b]
    BY <1>2, <2>1, <2>2 DEF SameTick, BranchStep, LineGrows
  <2> QED BY <1>1, <1>2, <2>1, <2>3, NewlyMerged DEF InItsLine
<1>3. CASE Plans \/ AtRest
  <2>1. UNCHANGED repos /\ store'.merged \subseteq store.merged
    BY <1>1, <1>3, PlanOf DEF AtRest, TickEnds, TickLost, RecordStep, Quiet
  <2> QED BY <1>1, <2>1 DEF InItsLine, repos
<1> QED BY <1>1, <1>2, <1>3, StepKinds

LEMMA StepLanded ==
  ASSUME MergedInv, [Next]_vars, NEW i \in Items
  PROVE  Landed(i)'
<1> DEFINE b == LineOf[i]
<1>1. /\ ContainsInv /\ Landed(i) /\ InItsLine(i) /\ Typed
      /\ pushed.merged \subseteq store.merged /\ pushed.landed \subseteq store.landed
  BY DEF MergedInv, ContainsInv, Drift, FactDrift
<1>2. CASE SameTick
  <2> SUFFICES ASSUME i \in store'.merged, b \in store'.landed
               PROVE  Work(i) \in githost'[Main]
    BY DEF Landed
  <2>1. githost[Main] \subseteq githost'[Main]
    BY <1>2 DEF SameTick, BranchStep
  <2>2. b \in Bolts
    BY <1>1, StepTyped DEF Typed, Store
  <2>3. b \notin store.landed =>
          pushed.line[b] = "landing" /\ b \in trees /\ bare[b] \subseteq githost'[Main]
    BY <1>2, <2>2 DEF SameTick, ActStep, LineFacts
  <2>4. i \in store.merged
    BY <1>1, <1>2, <2>2, <2>3, NewlyMerged, MergesBeforeLanding
  <2> QED BY <1>1, <2>1, <2>3, <2>4 DEF Landed, InItsLine
<1>3. CASE Plans \/ AtRest
  <2>1. UNCHANGED repos /\ store'.merged \subseteq store.merged /\ store'.landed \subseteq store.landed
    BY <1>1, <1>3, PlanOf DEF AtRest, TickEnds, TickLost, RecordStep, Quiet
  <2> QED BY <1>1, <2>1 DEF Landed, repos
<1> QED BY <1>1, <1>2, <1>3, StepKinds

LEMMA StepMergedIsKept ==
  ASSUME MergedInv, [Next]_vars
  PROVE  MergedIsKept'
<1>1. /\ ContainsInv /\ MergedIsKept /\ Typed
      /\ pushed.merged \subseteq store.merged /\ pushed.landed \subseteq store.landed
      /\ store.said = pushed.said
  BY DEF MergedInv, ContainsInv, Drift, FactDrift
<1> SUFFICES ASSUME NEW i \in store'.merged
             PROVE  LET b == LineOf[i] IN
                    \/ Work(i) \in githost'[Main]
                    \/ b \in Bolts /\ b \in DOMAIN bare' /\ Work(i) \in bare'[b]
                    \/ b \in Bolts /\ store'.said[b] = "drop"
  BY DEF MergedIsKept
<1> DEFINE b == LineOf[i]
<1>2. i \in Items /\ b \in Bolts \cup {Main}
  BY <1>1, StepTyped, WorkspaceAssumption DEF Typed, Store
<1>3. CASE SameTick
  <2>1. githost[Main] \subseteq githost'[Main] /\ store'.said = store.said
    BY <1>3 DEF SameTick, BranchStep, ActStep
  <2>2. CASE i \notin store.merged
    BY <1>1, <1>2, <1>3, <2>2, NewlyMerged
  <2>3. CASE i \in store.merged
    <3>1. CASE b \in Bolts /\ b \in DOMAIN bare /\ Work(i) \in bare[b]
      <4>1. LineGrows(b)
        BY <1>3, <3>1 DEF SameTick, BranchStep
      <4>2. CASE b \in DOMAIN bare'
        BY <3>1, <4>1, <4>2 DEF LineGrows
      <4>3. CASE b \notin DOMAIN bare'
        <5>1. pushed.line[b] = "removing"
          BY <3>1, <4>1, <4>3 DEF LineGrows
        <5>2. b \in pushed.landed \/ pushed.said[b] = "drop"
          BY <1>1, <3>1, <5>1 DEF ContainsInv, Fits, LineFits
        <5>3. Landed(i)
          BY <1>2 DEF MergedInv
        <5> QED BY <1>1, <2>1, <2>3, <3>1, <5>2, <5>3 DEF Landed
      <4> QED BY <4>2, <4>3
    <3> QED BY <1>1, <2>1, <2>3, <3>1 DEF MergedIsKept
  <2> QED BY <2>2, <2>3
<1>4. CASE Plans \/ AtRest
  <2>1. UNCHANGED repos /\ store'.merged \subseteq store.merged
    BY <1>1, <1>4, PlanOf DEF AtRest, TickEnds, TickLost, RecordStep, Quiet
  <2>2. \A a \in Bolts : store.said[a] = "drop" => store'.said[a] = "drop"
    BY <1>1, <1>4, PlanOf DEF AtRest, TickEnds, TickLost, RecordStep, Quiet
  <2> QED BY <1>1, <2>1, <2>2 DEF MergedIsKept, repos
<1> QED BY <1>1, <1>3, <1>4, StepKinds

\* A merge that is still to be made when a tick has done everything is of a
\* bolt that the tick does not close.
LEMMA NoMergeIsLeft ==
  ASSUME ContainsInv, due = {}, store # pushed, NEW i \in Items, LineOf[i] \in trees,
         MergePlanned(i), i \notin store.merged
  PROVE  i \notin store.contains
<1> DEFINE b == LineOf[i]
<1>1. /\ TriedMerge(i) /\ OwedMerge(i) /\ OffItsLine(i) /\ HoldsItsWork(i)
      /\ KeptUp(pushed, i)
  BY DEF ContainsInv, Merges, PlacesHold, AllKeptUp
<1>2. UnderWay /\ \A j : ~ Owes("place", "merge_place", j)
  BY DEF UnderWay, Owes
<1>3. Work(i) \notin bare[b]
  BY <1>1, <1>2 DEF OwedMerge, MergePlanned
<1>4. Conflicts(bare[i], bare[b])
  BY <1>1, <1>2, <1>3 DEF TriedMerge
<1>5. i \in DOMAIN bare /\ bare[i] \subseteq bare[b] \cup {Work(i)}
  BY <1>1 DEF HoldsItsWork, OffItsLine, MergePlanned
<1>6. PICK q \in Items : Work(q) \in bare[b] \ bare[i]
  <2>1. PICK p, q \in Items : Work(q) \in bare[b] \ bare[i]
    BY <1>4 DEF Conflicts
  <2> QED BY <2>1
<1>7. q \in ItemsOf(b) \ pushed.merged
  BY <1>1, <1>5, <1>6, CommitsDiffer DEF KeptUp, MergePlanned
<1>8. OwedMerge(q) /\ ToldMerge(q) /\ LineOf[q] = b /\ q # i
  BY <1>3, <1>6, <1>7 DEF ContainsInv, Merges, ItemsOf
<1>9. q \in store.merged
  BY <1>2, <1>6, <1>7, <1>8 DEF OwedMerge
<1> QED BY <1>7, <1>8, <1>9 DEF ToldMerge, MergePlanned

LEMMA StepNothingLate ==
  ASSUME LateUnits = FALSE, MergedInv, [Next]_vars, NEW b \in Bolts
  PROVE  NothingLate(b)'
<1>1. /\ ContainsInv /\ Typed /\ Drift /\ NothingLate(b) /\ LineFits(b) /\ BoltDrift(store, b)
      /\ pushed.landed \subseteq store.landed /\ pushed.merged \subseteq store.merged
      /\ LineStands(b)
  BY DEF MergedInv, ContainsInv, Drift, FactDrift, RegionDrift, Fits, LinesStand
<1>2. CASE SameTick
  <2>1. pushed' = pushed
    BY <1>2 DEF SameTick
  <2>2. b \in store'.landed \ store.landed => pushed.line[b] = "landing"
    BY <1>2 DEF SameTick, ActStep, LineFacts
  <2>3. Landing(b)' <=> Landing(b)
    BY <2>1 DEF Landing
  <2> QED BY <1>1, <2>1, <2>2, <2>3, PlansStay DEF NothingLate, LineFits, Landing, ItemsOf
<1>3. CASE Plans \/ TickLost
  <2>1. pushed' = pushed /\ store'.landed \subseteq store.landed
    BY <1>1, <1>3, PlanOf DEF TickLost
  <2>2. Landing(b)' <=> Landing(b)
    BY <2>1 DEF Landing
  <2> QED BY <1>1, <2>1, <2>2, PlansStay DEF NothingLate, ItemsOf
<1>4. CASE RecordStep
  <2>1. /\ pushed' = store' /\ store = pushed /\ store'.landed = store.landed
        /\ store'.bolt = store.bolt
    BY <1>4 DEF RecordStep, Quiet
  <2>2. Landing(b)' <=> Landing(b)
    BY <2>1 DEF Landing
  <2>3. ASSUME Landing(b), NEW i \in ItemsOf(b)
        PROVE  pushed'.unit[i] # "in-flight" /\ ~ MergePlanned(i)'
    <3>1. pushed.unit[i] # "in-flight" /\ ~ MergePlanned(i)
      BY <1>1, <2>3 DEF NothingLate
    <3>2. MergePlanned(i)' <=> MergePlanned(i)
      BY <1>4, <2>1 DEF RecordStep, MergePlanned
    <3>3. i \in Items /\ LineOf[i] \in Bolts /\ store.bolt[LineOf[i]] # "open"
      BY <2>1, <2>3 DEF ItemsOf, Landing
    <3>4. store'.unit[i] = store.unit[i]
      BY <1>4, <3>3 DEF RecordStep
    <3> QED BY <2>1, <3>1, <3>2, <3>4
  <2> QED BY <1>1, <2>1, <2>2, <2>3 DEF NothingLate, ItemsOf
<1>5. CASE TickEnds
  <2>1. pushed' = store /\ store' = store /\ due = {} /\ store # pushed
    BY <1>5 DEF TickEnds
  <2>2. Landing(b) => Landing(b)'
    BY <1>1, <2>1, BoltPlans DEF Landing, BoltDrift
  <2>3. ASSUME Landing(b)', NEW i \in ItemsOf(b)
        PROVE  pushed'.unit[i] # "in-flight" /\ ~ MergePlanned(i)'
    <3>1. i \in Items /\ LineOf[i] = b /\ ItemDrift(store, i)
      BY <1>1 DEF ItemsOf, Drift, RegionDrift
    <3>2. Landing(b) \/ (pushed.bolt[b] = "open" /\ CloseOffered(b))
      BY <1>1, <2>1, <2>3, BoltPlans DEF Landing, BoltDrift
    <3>3. pushed.unit[i] # "in-flight"
      BY <1>1, <2>3, <3>2 DEF NothingLate, CloseOffered
    <3>4. pushed'.unit[i] # "in-flight"
      BY <2>1, <3>1, <3>3, UnitPlans DEF ItemDrift
    <3>5. ASSUME MergePlanned(i)' PROVE FALSE
      <4>1. store.place[i] = "merging" /\ i \notin store.merged /\ i \in store.contains
        BY <2>1, <3>5 DEF MergePlanned
      <4>2. pushed.place[i] = "merging"
        BY <3>1, <3>3, <4>1, ItemPlans, PlacePlans DEF ItemDrift, MergePlanned
      <4>3. i \in pushed.contains
        BY <1>1, <4>1, <4>2 DEF Drift, FactDrift, PreparePlanned
      <4>4. MergePlanned(i)
        BY <1>1, <4>1, <4>2, <4>3 DEF MergePlanned
      <4>5. pushed.bolt[b] = "open"
        BY <1>1, <2>3, <3>2, <4>4 DEF NothingLate
      <4>6. b \in trees
        <5>1. i \in DOMAIN bare
          BY <1>1, <3>1, <4>2 DEF ContainsInv, PlacesHold, HoldsItsWork
        <5>2. ASSUME b \notin trees PROVE pushed.line[b] \in {"removing", "removed"}
          BY <1>1, <2>3, <5>1, <5>2 DEF LineStands, NoneOff
        <5> QED BY <1>1, <4>5, <5>2 DEF LineFits
      <4> QED BY <1>1, <2>1, <3>1, <4>1, <4>4, <4>6, NoMergeIsLeft
    <3> QED BY <3>4, <3>5
  <2> QED BY <1>1, <2>1, <2>2, <2>3 DEF NothingLate, ItemsOf
<1> QED BY <1>1, <1>2, <1>3, <1>4, <1>5, StepKinds DEF AtRest

LEMMA MergedInit ==
  ASSUME Init
  PROVE  MergedInv
<1>1. store = Fresh /\ pushed = Fresh
  BY DEF Init
<1>2. MergedIsKept /\ \A i \in Items : InItsLine(i) /\ Landed(i)
  BY <1>1 DEF MergedIsKept, InItsLine, Landed, Fresh
<1>3. \A b \in Bolts : NothingLate(b)
  BY <1>1 DEF NothingLate, Landing, Fresh
<1> QED BY <1>2, <1>3, ContainsInit DEF MergedInv

LEMMA MergedStep ==
  ASSUME LateUnits = FALSE, MergedInv, [Next]_vars
  PROVE  MergedInv'
<1>1. ContainsInv'
  BY ContainsStep DEF MergedInv
<1>2. (\A b \in Bolts : NothingLate(b))'
  BY StepNothingLate
<1>3. (\A i \in Items : InItsLine(i) /\ Landed(i))'
  BY StepInItsLine, StepLanded
<1> QED BY <1>1, <1>2, <1>3, StepMergedIsKept DEF MergedInv

\* What a work item is recorded as having merged stays in its line or on the
\* git host, through lost ticks, removed lines and landings, unless the bolt is
\* dropped.  The one thing it asks is that no unit is approved under a bolt that
\* is landing: the work of such a unit is merged into a line that has been put
\* on the git host and is removed with it (bolt.yaml, recorded.rs).
THEOREM MergedStaysKept ==
  ASSUME LateUnits = FALSE
  PROVE  Spec => []MergedIsKept
<1>1. Init => MergedInv
  BY MergedInit
<1>2. MergedInv /\ [Next]_vars => MergedInv'
  BY MergedStep
<1>3. MergedInv => MergedIsKept
  BY DEF MergedInv
<1> QED BY <1>1, <1>2, <1>3, PTL DEF Spec

------------------------------------------------------------------------------
(* What a place holds is with its line before its branch goes.               *)

\* A place that has merged is on its way out.
MergedAt(i) ==
  i \in store.merged => pushed.place[i] \in {"merging", "merged", "removing", "removed"}

\* One that is on its way out has merged, or its item was dropped.
OutOnceMerged(i) ==
  pushed.place[i] \in {"merged", "removing", "removed"} =>
    i \in pushed.merged \/ pushed.item[i] = "dropped"

\* All that a merged place holds is on the git host with its line.
LandedWhole(i) ==
  i \in store.merged /\ i \in DOMAIN bare /\ (LineOf[i] = Main \/ LineOf[i] \in store.landed)
    => bare[i] \subseteq githost[Main]

RemovedInv ==
  MergedInv /\ \A i \in Items : MergedAt(i) /\ OutOnceMerged(i) /\ LandedWhole(i)

\* A merged place's branch stands until it goes.
LEMMA MergedStands ==
  ASSUME RemovedInv, SameTick, NEW i \in Items, i \in store.merged \/ MergePlanned(i),
         i \in DOMAIN bare'
  PROVE  i \in DOMAIN bare /\ bare'[i] = bare[i]
<1>1. PlaceGrows(i) /\ PlaceFits(i) /\ ItemDrift(store, i) /\ DuePlanned
  BY DEF SameTick, BranchStep, RemovedInv, MergedInv, ContainsInv, Fits, Drift, RegionDrift
<1>2. pushed.place[i] \in {"merging", "merged", "removing", "removed"}
  BY DEF RemovedInv, MergedAt, MergePlanned
<1>3. ~ IsNow("place", "prepare_place", i)
  BY <1>1, <1>2, NowMeans DEF PreparePlanned
<1>4. Over(i)
  BY <1>1, <1>2 DEF PlaceFits
<1>5. store.item[i] # "in-type"
  BY <1>1, <1>4, ItemPlans DEF Over, ItemDrift
<1> QED BY <1>1, <1>2, <1>3, <1>5 DEF PlaceGrows

LEMMA StepMergedAt ==
  ASSUME RemovedInv, [Next]_vars, NEW i \in Items
  PROVE  MergedAt(i)'
<1>1. /\ ContainsInv /\ MergedAt(i) /\ PlaceFits(i) /\ ItemDrift(store, i)
      /\ pushed.merged \subseteq store.merged /\ ToldMerge(i)
  BY DEF RemovedInv, MergedInv, ContainsInv, Fits, Drift, RegionDrift, FactDrift, Merges
<1>2. CASE SameTick
  <2>1. pushed' = pushed
    BY <1>2 DEF SameTick
  <2>2. i \in store'.merged \ store.merged => pushed.place[i] = "merging"
    BY <1>1, <1>2, NewlyMerged DEF SameTick, ActStep, MergePlanned
  <2> QED BY <1>1, <2>1, <2>2 DEF MergedAt
<1>3. CASE Plans \/ TickLost \/ RecordStep
  <2>1. pushed'.place = pushed.place /\ store'.merged \subseteq store.merged
    BY <1>1, <1>3, PlanOf DEF TickLost, RecordStep, Quiet
  <2> QED BY <1>1, <2>1 DEF MergedAt
<1>4. CASE TickEnds
  <2>1. pushed' = store /\ store' = store
    BY <1>4 DEF TickEnds
  <2> SUFFICES ASSUME i \in store.merged
               PROVE  store.place[i] \in {"merging", "merged", "removing", "removed"}
    BY <2>1 DEF MergedAt
  <2>2. pushed.place[i] \in {"merging", "merged", "removing", "removed"}
    BY <1>1 DEF MergedAt
  <2>3. ItemPlan(i)[2] = "nothing"
    BY <1>1, <2>2, ItemPlans DEF PlaceFits, Over
  <2>4. pushed.place[i] = "merging" => i \in pushed.merged \/ MergePlanned(i)
    BY <1>1 DEF ToldMerge
  <2>5. \A busy : PlacePlan(i, busy)[1] \in {"merging", "merged", "removing", "removed"}
    <3>1. CASE pushed.place[i] = "merging" /\ i \notin pushed.merged
      BY <2>4, <3>1, PlacePlans
    <3>2. CASE pushed.place[i] # "merging" \/ i \in pushed.merged
      BY <2>2, <3>2 DEF PlacePlan
    <3> QED BY <3>1, <3>2
  <2> QED BY <1>1, <2>2, <2>3, <2>5 DEF ItemDrift
<1> QED BY <1>1, <1>2, <1>3, <1>4, StepKinds DEF AtRest

LEMMA StepOutOnceMerged ==
  ASSUME RemovedInv, [Next]_vars, NEW i \in Items
  PROVE  OutOnceMerged(i)'
<1>1. /\ ContainsInv /\ OutOnceMerged(i) /\ PlaceFits(i) /\ ItemDrift(store, i)
      /\ pushed.merged \subseteq store.merged
  BY DEF RemovedInv, MergedInv, ContainsInv, Fits, Drift, RegionDrift, FactDrift
<1>2. CASE pushed' = pushed
  BY <1>1, <1>2 DEF OutOnceMerged
<1>3. CASE RecordStep
  <2>1. pushed'.place = pushed.place /\ pushed'.merged = pushed.merged
    BY <1>3 DEF RecordStep, Quiet
  <2>2. pushed'.item[i] = pushed.item[i] \/ pushed.unit[i] = "proposed"
    BY <1>3 DEF RecordStep, Quiet
  <2> QED BY <1>1, <2>1, <2>2 DEF OutOnceMerged, PlaceFits
<1>4. CASE TickEnds
  <2>1. pushed' = store
    BY <1>4 DEF TickEnds
  <2>2. pushed.item[i] = "dropped" => store.item[i] = "dropped"
    BY <1>1, ItemPlans DEF ItemDrift
  <2>3. CASE store.place[i] = pushed.place[i]
    BY <1>1, <2>1, <2>2, <2>3 DEF OutOnceMerged
  <2>4. ASSUME NEW busy \in SUBSET Items, store.place[i] = PlacePlan(i, busy)[1]
        PROVE  OutOnceMerged(i)'
    <3>1. PlacePlan(i, busy)[1] \in {"merged", "removing", "removed"} =>
            i \in pushed.merged \/ pushed.place[i] \in {"merged", "removing", "removed"}
      BY DEF PlacePlan
    <3> QED BY <1>1, <2>1, <2>2, <2>4, <3>1 DEF OutOnceMerged
  <2>5. CASE store.item[i] = ItemPlan(i)[1] /\ ItemPlan(i)[2] # "nothing"
                /\ store.place[i] = ItemPlan(i)[2]
    BY <2>1, <2>5, ItemPlans DEF OutOnceMerged
  <2> QED BY <1>1, <2>3, <2>4, <2>5 DEF ItemDrift
<1> QED BY <1>1, <1>2, <1>3, <1>4, StepIs DEF ActStep, Plans, TickLost

LEMMA StepLandedWhole ==
  ASSUME RemovedInv, [Next]_vars, NEW i \in Items
  PROVE  LandedWhole(i)'
<1> DEFINE b == LineOf[i]
<1>1. /\ MergedInv /\ ContainsInv /\ LandedWhole(i) /\ InItsLine(i) /\ OffItsLine(i) /\ Typed
      /\ pushed.merged \subseteq store.merged /\ pushed.landed \subseteq store.landed
      /\ b \in Bolts \cup {Main}
  BY WorkspaceAssumption DEF RemovedInv, MergedInv, ContainsInv, Drift, FactDrift, PlacesHold
<1>2. CASE SameTick
  <2> SUFFICES ASSUME i \in store'.merged, i \in DOMAIN bare', b = Main \/ b \in store'.landed
               PROVE  bare'[i] \subseteq githost'[Main]
    BY DEF LandedWhole
  <2>1. githost[Main] \subseteq githost'[Main]
    BY <1>2 DEF SameTick, BranchStep
  <2>2. i \in store'.merged \ store.merged => MergePlanned(i)
    BY <1>1, <1>2, NewlyMerged
  <2>3. i \in DOMAIN bare /\ bare'[i] = bare[i]
    BY <1>2, <2>2, MergedStands
  <2>4. b \in store'.landed \ store.landed =>
          pushed.line[b] = "landing" /\ b \in trees /\ bare[b] \subseteq githost'[Main]
    <3>1. b \in store'.landed => b \in Bolts
      BY <1>1, StepTyped DEF Typed, Store
    <3> QED BY <1>2, <3>1 DEF SameTick, ActStep, LineFacts
  <2>5. CASE i \notin store.merged
    <3>1. b # Main => b \notin store'.landed
      BY <1>1, <2>2, <2>4, <2>5, MergesBeforeLanding
    <3> QED BY <1>1, <1>2, <2>3, <2>5, <3>1, NewlyMerged
  <2>6. CASE i \in store.merged /\ (b = Main \/ b \in store.landed)
    BY <1>1, <2>1, <2>3, <2>6 DEF LandedWhole
  <2>7. CASE i \in store.merged /\ b \in store'.landed \ store.landed
    BY <1>1, <2>3, <2>4, <2>7 DEF InItsLine, OffItsLine
  <2> QED BY <2>5, <2>6, <2>7
<1>3. CASE Plans \/ AtRest
  <2>1. UNCHANGED repos /\ store'.merged \subseteq store.merged /\ store'.landed \subseteq store.landed
    BY <1>1, <1>3, PlanOf DEF AtRest, TickEnds, TickLost, RecordStep, Quiet
  <2> QED BY <1>1, <2>1 DEF LandedWhole, repos
<1> QED BY <1>1, <1>2, <1>3, StepKinds

LEMMA RemovedStep ==
  ASSUME LateUnits = FALSE, RemovedInv, [Next]_vars
  PROVE  RemovedInv'
<1>1. MergedInv'
  BY MergedStep DEF RemovedInv
<1> QED BY <1>1, StepMergedAt, StepOutOnceMerged, StepLandedWhole DEF RemovedInv

LEMMA RemovedInit ==
  ASSUME Init
  PROVE  RemovedInv
<1>1. store = Fresh /\ pushed = Fresh
  BY DEF Init
<1> QED BY <1>1, MergedInit DEF RemovedInv, MergedAt, OutOnceMerged, LandedWhole, Fresh

\* When a place's branch goes, all it held is in its line or on the git host.
LEMMA GoneWithItsLine ==
  ASSUME RemovedInv, [Next]_vars, NEW i \in Items, i \in DOMAIN bare, i \notin DOMAIN bare'
  PROVE  \/ store.item[i] = "dropped"
         \/ LineOf[i] \in DOMAIN bare /\ bare[i] \subseteq bare[LineOf[i]]
         \/ bare[i] \subseteq githost[Main]
         \/ LineOf[i] \in Bolts /\ store.said[LineOf[i]] = "drop"
<1> DEFINE b == LineOf[i]
<1>1. /\ ContainsInv /\ LandedWhole(i) /\ InItsLine(i) /\ OffItsLine(i) /\ OutOnceMerged(i)
      /\ Copies /\ ItemDrift(store, i) /\ store.said = pushed.said
      /\ pushed.merged \subseteq store.merged /\ pushed.landed \subseteq store.landed
  BY DEF RemovedInv, MergedInv, ContainsInv, Typed, Drift, RegionDrift, FactDrift, PlacesHold
<1>2. SameTick
  BY <1>1, StepKinds, PlanOf DEF AtRest, repos
<1>3. pushed.place[i] = "removing"
  BY <1>2 DEF SameTick, BranchStep, PlaceGrows
<1>4. CASE pushed.item[i] = "dropped"
  BY <1>1, <1>4, ItemPlans DEF ItemDrift
<1>5. CASE i \in store.merged /\ b \in trees
  BY <1>1, <1>5 DEF InItsLine, OffItsLine, Copies
<1>6. CASE i \in store.merged /\ b \notin trees
  <2>1. CASE b = Main
    BY <1>1, <1>6, <2>1 DEF LandedWhole
  <2>2. CASE b # Main
    <3>1. b \in Bolts /\ i \in ItemsOf(b)
      BY <2>2, WorkspaceAssumption DEF ItemsOf
    <3>2. LineStands(b) /\ LineFits(b)
      BY <1>1, <3>1 DEF ContainsInv, LinesStand, Fits
    <3>3. pushed.line[b] \in {"removing", "removed"}
      BY <1>6, <3>1, <3>2 DEF LineStands, NoneOff
    <3>4. b \in pushed.landed \/ pushed.said[b] = "drop"
      BY <3>2, <3>3 DEF LineFits
    <3> QED BY <1>1, <1>6, <3>1, <3>4 DEF LandedWhole
  <2> QED BY <2>1, <2>2
<1> QED BY <1>1, <1>3, <1>4, <1>5, <1>6 DEF OutOnceMerged

\* A place's branch goes only once all that was committed on it is in its line
\* or on the git host, or with a unit or a bolt the operator dropped, however
\* many ticks are lost between the merge, its record and the removal
\* (place.yaml, workspace.rs remove_place).
THEOREM PlacesGoMerged ==
  ASSUME LateUnits = FALSE
  PROVE  Spec => RemovedOnceMerged
<1> DEFINE Gone == \A i \in Items :
                     (i \in DOMAIN bare /\ i \notin DOMAIN bare') =>
                       \/ store.item[i] = "dropped"
                       \/ LineOf[i] \in DOMAIN bare /\ bare[i] \subseteq bare[LineOf[i]]
                       \/ bare[i] \subseteq githost[Main]
                       \/ LineOf[i] \in Bolts /\ store.said[LineOf[i]] = "drop"
<1>1. Init => RemovedInv
  BY RemovedInit
<1>2. RemovedInv /\ [Next]_vars => RemovedInv'
  BY RemovedStep
<1>3. RemovedInv /\ [Next]_vars => [Gone]_vars
  BY GoneWithItsLine
<1> QED BY <1>1, <1>2, <1>3, PTL DEF Spec, RemovedOnceMerged

------------------------------------------------------------------------------
(* What landed is on the git host.                                           *)

LandedInv ==
  /\ ContainsInv
  /\ DOMAIN landedWith = Bolts /\ store.landed \in SUBSET Bolts
  /\ LandedOnTheGitHost

\* Only a landing that reached the git host is put on record.
LEMMA OnlyLandLineLands ==
  ASSUME ContainsInv, [Next]_vars
  PROVE  \/ LandLine
         \/ landedWith' = landedWith /\ store'.landed \subseteq store.landed
<1>1. pushed.landed \subseteq store.landed
  BY DEF ContainsInv, Drift, FactDrift
<1>2. CASE UNCHANGED vars \/ Plans \/ TickEnds \/ TickLost
  BY <1>1, <1>2 DEF vars, Plans, TickEnds, TickLost
<1>3. CASE Around
  <2>1. \A i \in Items : Approves(i) => RecordStep /\ landedWith' = landedWith
    BY ApprovesRecords DEF Approves, Records
  <2>2. \A i \in Items : Finishes(i) => RecordStep /\ landedWith' = landedWith
    BY FinishesRecords DEF Finishes, Records
  <2>3. \A o \in Bolts \cup Items, what \in {"yes", "drop"} :
          Answers(o, what) => RecordStep /\ landedWith' = landedWith
    BY AnswersRecords DEF Answers, Records
  <2>4. \A i \in Items : Commits(i) => store' = store /\ landedWith' = landedWith
    BY DEF Commits
  <2>5. \A n : WriteFile(n) \/ OthersPush(n) => store' = store /\ landedWith' = landedWith
    BY DEF WriteFile, OthersPush
  <2>6. RecordStep => store'.landed = store.landed
    BY DEF RecordStep
  <2> QED BY <1>3, <2>1, <2>2, <2>3, <2>4, <2>5, <2>6 DEF Around
<1>4. ASSUME Now \in due PROVE Moved \in Store /\ Moved.landed = store.landed
  BY <1>4, MovedDrifts DEF ContainsInv, Typed, Drift, SameFacts
<1>5. ASSUME NEW region, NEW act, Takes(region, act)
      PROVE  Moved \in Store /\ Moved.landed = store.landed
  BY <1>4, <1>5 DEF Takes
<1>6. CASE Moving
  BY <1>4, <1>6 DEF Moving
<1>7. CASE CreateLine \/ WriteAcceptance \/ RemoveLine
  BY <1>5, <1>7 DEF CreateLine, WriteAcceptance, RemoveLine, Store
<1>8. CASE LandLineFails \/ MergePlaceRefused
  BY <1>5, <1>8 DEF LandLineFails, MergePlaceRefused, Failed
<1>9. CASE PreparePlace \/ RebasePlace \/ RemovePlace
  BY <1>5, <1>9 DEF PreparePlace, RebasePlace, RemovePlace, Store
<1>10. CASE MergePlace \/ MergeOntoSharedLine
  BY <1>5, <1>10 DEF MergePlace, MergeOntoSharedLine, MergedFact, Store
<1> QED BY <1>2, <1>3, <1>6, <1>7, <1>8, <1>9, <1>10 DEF Next, Pass

LEMMA LandedStep ==
  ASSUME LandedInv, [Next]_vars
  PROVE  LandedInv'
<1>1. ContainsInv' /\ store'.landed \in SUBSET Bolts
  BY ContainsStep DEF LandedInv, ContainsInv, Typed, Store
<1>2. githost[Main] \subseteq githost'[Main]
  BY StepKinds, PlanOf DEF LandedInv, SameTick, BranchStep, AtRest, repos
<1>3. CASE LandLine
  <2> DEFINE b == Now.of
  <2>1. /\ Now \in due /\ b \in Bolts
    BY <1>3, NowOnLine DEF LandLine, LandedInv, ContainsInv
  <2>2. store'.landed = store.landed \cup {b}
    <3>1. Moved \in Store /\ Moved.landed = store.landed
      BY <2>1, MovedDrifts DEF LandedInv, ContainsInv, Typed, Drift, SameFacts
    <3> QED BY <1>3, <3>1 DEF LandLine, Store
  <2>3. Main \in DOMAIN githost
    BY DEF LandedInv, ContainsInv, Typed, Copies
  <2>4. /\ DOMAIN landedWith' = Bolts /\ landedWith'[b] = githost'[Main]
        /\ \A a \in Bolts : a # b => landedWith'[a] = landedWith[a]
    BY <1>3, <2>1, <2>3 DEF LandLine, LandedInv
  <2> QED BY <1>1, <1>2, <2>2, <2>4 DEF LandedInv, LandedOnTheGitHost
<1>4. CASE landedWith' = landedWith /\ store'.landed \subseteq store.landed
  BY <1>1, <1>2, <1>4 DEF LandedInv, LandedOnTheGitHost
<1> QED BY <1>3, <1>4, OnlyLandLineLands DEF LandedInv

\* A line that is recorded as landed is on the git host whole, with all it held
\* when its landing was recorded, though others push there and the push of the
\* record is lost (workspace.rs land_line).
THEOREM LandingsStand ==
  Spec => []LandedOnTheGitHost
<1>1. Init => LandedInv
  BY ContainsInit DEF Init, LandedInv, LandedOnTheGitHost, Fresh
<1>2. LandedInv /\ [Next]_vars => LandedInv'
  BY LandedStep
<1>3. LandedInv => LandedOnTheGitHost
  BY DEF LandedInv
<1> QED BY <1>1, <1>2, <1>3, PTL DEF Spec

------------------------------------------------------------------------------
(* What is where: types.                                                     *)

\* A copy has only the repository's branches, and on them what was committed.
OnlyCommits(copy) == DOMAIN copy \subseteq Branch /\ \A x \in DOMAIN copy : copy[x] \subseteq Commit

\* A line recorded as landed keeps what it landed with, so landedWith has one
\* entry to a bolt.
TypesInv ==
  /\ LandedInv
  /\ OnlyCommits(bare) /\ OnlyCommits(githost) /\ checkout \subseteq Commit
  /\ \A b \in Bolts : landedWith[b] \subseteq Commit

LEMMA CommitHas ==
  /\ \A i \in Items : Work(i) \in Commit
  /\ \A b \in Bolts : Acceptance(b) \in Commit
  /\ \A n \in 1..MaxOwn : Own(n) \in Commit
  /\ \A n \in 1..MaxElsewhere : Elsewhere(n) \in Commit
BY DEF Commit

LEMMA CommitsChanged ==
  ASSUME NEW copy, OnlyCommits(copy), NEW x, NEW v, v \subseteq Commit
  PROVE  OnlyCommits([copy EXCEPT ![x] = v])
BY DEF OnlyCommits

LEMMA CommitsWith ==
  ASSUME NEW copy, OnlyCommits(copy), NEW x \in Branch, NEW v, v \subseteq Commit
  PROVE  OnlyCommits(With(copy, x, v))
BY DEF OnlyCommits, With

LEMMA CommitsWithout ==
  ASSUME NEW copy, OnlyCommits(copy), NEW x
  PROVE  OnlyCommits(Without(copy, x))
BY DEF OnlyCommits, Without

LEMMA CommitsWorktree ==
  ASSUME OnlyCommits(bare), NEW x \in Branch, NEW from, Worktree(x, from),
         x \in trees \cup DOMAIN bare \/ from \in DOMAIN bare
  PROVE  OnlyCommits(bare')
<1>1. CASE x \in trees \cup DOMAIN bare
  BY <1>1 DEF Worktree
<1>2. CASE x \notin trees \cup DOMAIN bare
  <2>1. bare[from] \subseteq Commit
    BY <1>2 DEF OnlyCommits
  <2> QED BY <1>2, <2>1, CommitsWith DEF Worktree
<1> QED BY <1>1, <1>2

LEMMA CommitsLand ==
  ASSUME TypesInv, LandLine
  PROVE  /\ OnlyCommits(bare') /\ OnlyCommits(githost') /\ checkout' \subseteq Commit
         /\ \A b \in Bolts : landedWith'[b] \subseteq Commit
<1> DEFINE b == Now.of
           v == bare[b]
<1>1. b \in Bolts
  BY NowOnLine DEF LandLine, TypesInv, LandedInv, ContainsInv
<1>2. b \in trees /\ trees \subseteq DOMAIN bare /\ DOMAIN landedWith = Bolts
  BY DEF LandLine, TypesInv, LandedInv, ContainsInv, Typed, Copies
<1>3. v \subseteq Commit
  BY <1>2 DEF TypesInv, OnlyCommits
<1>4. /\ bare' = [bare EXCEPT ![Main] = v] /\ githost' = [githost EXCEPT ![Main] = v]
      /\ checkout' \in {v, checkout} /\ landedWith' = [landedWith EXCEPT ![b] = v]
  BY DEF LandLine
<1>5. \A a \in Bolts : landedWith'[a] = v \/ landedWith'[a] = landedWith[a]
  BY <1>2, <1>4
<1> HIDE DEF v
<1>6. OnlyCommits(bare') /\ OnlyCommits(githost')
  BY <1>3, <1>4, CommitsChanged DEF TypesInv
<1> QED BY <1>3, <1>4, <1>5, <1>6 DEF TypesInv

LEMMA CommitsOnLine ==
  ASSUME TypesInv, CreateLine \/ WriteAcceptance \/ LandLineFails \/ RemoveLine
  PROVE  OnlyCommits(bare')
<1>1. Now.of \in Bolts /\ Now.of \in Branch
  BY NowOnLine DEF CreateLine, WriteAcceptance, LandLineFails, RemoveLine, TypesInv, LandedInv,
                   ContainsInv, Branch
<1>2. OnlyCommits(bare) /\ Main \in DOMAIN bare /\ trees \subseteq DOMAIN bare
  BY DEF TypesInv, LandedInv, ContainsInv, Typed, Copies
<1>3. CASE CreateLine
  BY <1>1, <1>2, <1>3, CommitsWorktree DEF CreateLine
<1>4. CASE WriteAcceptance
  <2> DEFINE v == bare[Now.of] \cup {Acceptance(Now.of)}
  <2>1. bare' = bare \/ (Now.of \in trees /\ bare' = [bare EXCEPT ![Now.of] = v])
    BY <1>4 DEF WriteAcceptance
  <2>2. Now.of \in trees => v \subseteq Commit
    BY <1>1, <1>2, CommitHas DEF OnlyCommits
  <2> HIDE DEF v
  <2> QED BY <1>2, <2>1, <2>2, CommitsChanged
<1>5. CASE LandLineFails
  <2>1. bare' = bare \/ (Now.of \in trees /\ bare' = [bare EXCEPT ![Main] = bare[Now.of]])
    BY <1>5 DEF LandLineFails
  <2>2. Now.of \in trees => bare[Now.of] \subseteq Commit
    BY <1>2 DEF OnlyCommits
  <2> QED BY <1>2, <2>1, <2>2, CommitsChanged
<1>6. CASE RemoveLine
  BY <1>2, <1>6, CommitsWithout DEF RemoveLine
<1> QED BY <1>3, <1>4, <1>5, <1>6

LEMMA CommitsOnPlace ==
  ASSUME TypesInv, PreparePlace \/ RebasePlace \/ RemovePlace \/ MergePlace
  PROVE  OnlyCommits(bare')
<1>1. Now.of \in Items /\ Now.of \in Branch
  BY NowOnPlace DEF PreparePlace, RebasePlace, RemovePlace, MergePlace, TypesInv, LandedInv,
                    ContainsInv, Branch
<1>2. OnlyCommits(bare) /\ trees \subseteq DOMAIN bare
  BY DEF TypesInv, LandedInv, ContainsInv, Typed, Copies
<1>3. CASE PreparePlace
  <2>1. CASE Now.of \in trees \cup DOMAIN bare \/ Base \in DOMAIN bare
    BY <1>1, <1>2, <1>3, <2>1, CommitsWorktree DEF PreparePlace
  <2>2. CASE ~(Now.of \in trees \cup DOMAIN bare \/ Base \in DOMAIN bare)
    BY <1>2, <1>3, <2>2 DEF PreparePlace
  <2> QED BY <2>1, <2>2
<1>4. CASE RebasePlace
  <2> DEFINE v == bare[Now.of] \cup bare[Base]
  <2>1. \/ bare' = bare
        \/ /\ Now.of \in trees /\ Base \in DOMAIN bare
           /\ bare' = [bare EXCEPT ![Now.of] = v]
    BY <1>4 DEF RebasePlace
  <2>2. Now.of \in trees /\ Base \in DOMAIN bare => v \subseteq Commit
    BY <1>2 DEF OnlyCommits
  <2> HIDE DEF v
  <2> QED BY <1>2, <2>1, <2>2, CommitsChanged
<1>5. CASE RemovePlace
  BY <1>2, <1>5, CommitsWithout DEF RemovePlace
<1>6. CASE MergePlace
  <2> DEFINE v == bare[Base] \cup bare[Now.of]
  <2>1. \/ bare' = bare
        \/ /\ Base \in trees /\ Now.of \in DOMAIN bare
           /\ bare' = [bare EXCEPT ![Base] = v]
    BY <1>6 DEF MergePlace
  <2>2. Base \in trees /\ Now.of \in DOMAIN bare => v \subseteq Commit
    BY <1>2 DEF OnlyCommits
  <2> HIDE DEF v
  <2> QED BY <1>2, <2>1, <2>2, CommitsChanged
<1> QED BY <1>3, <1>4, <1>5, <1>6

LEMMA CommitsOntoSharedLine ==
  ASSUME TypesInv, MergeOntoSharedLine
  PROVE  OnlyCommits(bare') /\ OnlyCommits(githost')
<1>1. Now.of \in Items
  BY NowOnPlace DEF MergeOntoSharedLine, TypesInv, LandedInv, ContainsInv
<1>2. Base \in Branch
  BY <1>1, WorkspaceAssumption DEF Base, Branch
<1>3. OnlyCommits(bare) /\ OnlyCommits(githost) /\ Now.of \in DOMAIN bare
  BY DEF MergeOntoSharedLine, TypesInv, LandedInv, ContainsInv, Typed, Copies
<1>4. bare[Now.of] \subseteq Commit
  BY <1>3 DEF OnlyCommits
<1>5. /\ bare' = With(bare, Base, bare[Now.of])
      /\ githost' = githost \/ githost' = With(githost, Base, bare[Now.of])
  BY DEF MergeOntoSharedLine
<1> QED BY <1>2, <1>3, <1>4, <1>5, CommitsWith

LEMMA CommitsAround ==
  ASSUME TypesInv, Around
  PROVE  OnlyCommits(bare') /\ OnlyCommits(githost') /\ checkout' \subseteq Commit /\ landedWith' = landedWith
<1>1. /\ OnlyCommits(bare) /\ OnlyCommits(githost) /\ checkout \subseteq Commit
      /\ trees \subseteq DOMAIN bare /\ Main \in DOMAIN githost
  BY DEF TypesInv, LandedInv, ContainsInv, Typed, Copies
<1>2. ASSUME NEW i \in Items, Approves(i) \/ Finishes(i)
      PROVE  UNCHANGED repos /\ landedWith' = landedWith
  BY <1>2 DEF Approves, Finishes, Records
<1>3. ASSUME NEW o, NEW what, Answers(o, what) PROVE UNCHANGED repos /\ landedWith' = landedWith
  BY <1>3 DEF Answers, Records
<1>4. ASSUME NEW i \in Items, Commits(i)
      PROVE  OnlyCommits(bare') /\ githost' = githost /\ checkout' = checkout /\ landedWith' = landedWith
  <2> DEFINE v == bare[i] \cup {Work(i)}
  <2>1. /\ bare' = [bare EXCEPT ![i] = v] /\ i \in trees
        /\ githost' = githost /\ checkout' = checkout /\ landedWith' = landedWith
    BY <1>4 DEF Commits
  <2>2. v \subseteq Commit
    BY <1>1, <2>1, CommitHas DEF OnlyCommits
  <2> HIDE DEF v
  <2> QED BY <1>1, <2>1, <2>2, CommitsChanged
<1>5. ASSUME NEW n \in 1..MaxOwn, WriteFile(n)
      PROVE  OnlyCommits(bare') /\ githost' = githost /\ checkout' \subseteq Commit /\ landedWith' = landedWith
  <2>1. /\ checkout' = checkout \cup {Own(n)}
        /\ bare' = bare \/ bare' = [bare EXCEPT ![Main] = checkout']
        /\ githost' = githost /\ landedWith' = landedWith
    BY <1>5 DEF WriteFile
  <2>2. checkout' \subseteq Commit
    BY <1>1, <2>1, CommitHas
  <2> QED BY <1>1, <2>1, <2>2, CommitsChanged
<1>6. ASSUME NEW n \in 1..MaxElsewhere, OthersPush(n)
      PROVE  bare' = bare /\ OnlyCommits(githost') /\ checkout' = checkout /\ landedWith' = landedWith
  <2> DEFINE v == githost[Main] \cup {Elsewhere(n)}
  <2>1. /\ githost' = [githost EXCEPT ![Main] = v]
        /\ bare' = bare /\ checkout' = checkout /\ landedWith' = landedWith
    BY <1>6 DEF OthersPush
  <2>2. v \subseteq Commit
    BY <1>1, CommitHas DEF OnlyCommits
  <2> HIDE DEF v
  <2> QED BY <1>1, <2>1, <2>2, CommitsChanged
<1>7. UNCHANGED repos => OnlyCommits(bare') /\ OnlyCommits(githost') /\ checkout' \subseteq Commit
  BY <1>1 DEF repos
<1> QED BY <1>1, <1>2, <1>3, <1>4, <1>5, <1>6, <1>7 DEF Around

LEMMA CommitsStep ==
  ASSUME TypesInv, [Next]_vars
  PROVE  TypesInv'
<1>1. LandedInv'
  BY LandedStep DEF TypesInv
<1> SUFFICES /\ OnlyCommits(bare') /\ OnlyCommits(githost') /\ checkout' \subseteq Commit
             /\ \A b \in Bolts : landedWith'[b] \subseteq Commit
  BY <1>1 DEF TypesInv, OnlyCommits
<1>2. /\ OnlyCommits(bare) /\ OnlyCommits(githost) /\ checkout \subseteq Commit
      /\ \A b \in Bolts : landedWith[b] \subseteq Commit
  BY DEF TypesInv
<1>3. CASE UNCHANGED vars \/ Plans \/ TickEnds \/ TickLost \/ Moving
  BY <1>2, <1>3 DEF vars, repos, Plans, TickEnds, TickLost, Moving
<1>4. CASE LandLine
  BY <1>4, CommitsLand
<1>5. CASE CreateLine \/ WriteAcceptance \/ LandLineFails \/ RemoveLine
  <2>1. githost' = githost /\ checkout' = checkout /\ landedWith' = landedWith
    BY <1>5 DEF CreateLine, WriteAcceptance, LandLineFails, RemoveLine, Failed
  <2> QED BY <1>2, <1>5, <2>1, CommitsOnLine
<1>6. CASE PreparePlace \/ RebasePlace \/ RemovePlace \/ MergePlace
  <2>1. githost' = githost /\ checkout' = checkout /\ landedWith' = landedWith
    BY <1>6 DEF PreparePlace, RebasePlace, RemovePlace, MergePlace
  <2> QED BY <1>2, <1>6, <2>1, CommitsOnPlace
<1>7. CASE MergeOntoSharedLine
  <2>1. checkout' = checkout /\ landedWith' = landedWith
    BY <1>7 DEF MergeOntoSharedLine
  <2> QED BY <1>2, <1>7, <2>1, CommitsOntoSharedLine
<1>8. CASE MergePlaceRefused
  BY <1>2, <1>8 DEF MergePlaceRefused, Failed
<1>9. CASE Around
  BY <1>2, <1>9, CommitsAround
<1> QED BY <1>3, <1>4, <1>5, <1>6, <1>7, <1>8, <1>9 DEF Next, Pass

\* Only the repository's own branches are ever in its copies, the shared line
\* in both of them, and no more on them than was committed; a worktree is a
\* bolt's or an item's, and the facts are of items and of bolts
\* (workspace.rs, recorded.rs).
THEOREM WorkspaceTyped ==
  Spec => []TypeOK
<1>1. Init => TypesInv
  <2> SUFFICES ASSUME Init PROVE TypesInv
    OBVIOUS
  <2>1. LandedInv
    BY ContainsInit DEF Init, LandedInv, LandedOnTheGitHost, Fresh
  <2>2. /\ OnlyCommits(bare) /\ OnlyCommits(githost) /\ checkout \subseteq Commit
        /\ \A b \in Bolts : landedWith[b] \subseteq Commit
    BY DEF Init, OnlyCommits, Branch
  <2> QED BY <2>1, <2>2 DEF TypesInv
<1>2. TypesInv /\ [Next]_vars => TypesInv'
  BY CommitsStep
<1>3. TypesInv => TypeOK
  <2> SUFFICES ASSUME TypesInv PROVE TypeOK
    OBVIOUS
  <2>1. /\ Main \in DOMAIN bare /\ Main \in DOMAIN githost /\ trees \subseteq DOMAIN bare
        /\ Main \notin trees /\ DOMAIN bare \subseteq Branch
    BY DEF TypesInv, LandedInv, ContainsInv, Typed, Copies
  <2>2. store.merged \subseteq Items /\ store.contains \subseteq Items /\ store.landed \subseteq Bolts
    BY DEF TypesInv, LandedInv, ContainsInv, Typed, Store
  <2>3. trees \subseteq Bolts \cup Items
    BY <2>1 DEF Branch
  <2>4. \A copy \in {bare, githost} :
          /\ Main \in DOMAIN copy /\ DOMAIN copy \subseteq Branch
          /\ \A x \in DOMAIN copy : copy[x] \subseteq Commit
    BY <2>1 DEF TypesInv, OnlyCommits
  <2> QED BY <2>2, <2>3, <2>4 DEF TypesInv, TypeOK
<1> QED BY <1>1, <1>2, <1>3, PTL DEF Spec

------------------------------------------------------------------------------
(* What is reached along arrows                                              *)

LEMMA ReachedStarts ==
  ASSUME NEW S, NEW arrows, NEW x \in S PROVE x \in Reached(S, arrows, x)
BY DEF Reached

LEMMA ReachedGoesOn ==
  ASSUME NEW S, NEW arrows, NEW x, NEW a \in arrows,
         a[1] \in Reached(S, arrows, x), a[2] \in S
  PROVE  a[2] \in Reached(S, arrows, x)
BY DEF Reached

LEMMA ReachedIsLeast ==
  ASSUME NEW S, NEW arrows, NEW x, NEW T \in SUBSET S, x \in T,
         \A a \in arrows : a[1] \in T => a[2] \in T
  PROVE  Reached(S, arrows, x) \subseteq T
BY DEF Reached

------------------------------------------------------------------------------
(* The status view                                                           *)

\* An object is made under one that is there, and hangs off it for good: in
\* every set of objects there is one whose parent is not among them.
Forest(read) ==
  \A S \in SUBSET DOMAIN read : S # {} => \E x \in S : read[x].parent \notin S

LEMMA GroupIsOne == ASSUME NEW read, NEW x PROVE Group(read, x) \in Groups
BY DEF Group, GroupOf, Groups

\* A whole that is in nothing: each row has one, and no more.
Tops(read, x) == {t \in Wholes(read, x) : ~PartOfOneHere(read, t)}

LEMMA ArrowsOf ==
  ASSUME NEW read, NEW a \in Inside(read)
  PROVE  /\ a[1] \in Rows(read) /\ PartOfOneHere(read, a[1])
         /\ a[2] = read[a[1]].parent /\ a[2] \in Rows(read)
BY DEF Inside, PartOfOneHere

LEMMA ArrowTo ==
  ASSUME NEW read, NEW x \in Rows(read), PartOfOneHere(read, x)
  PROVE  <<x, read[x].parent>> \in Inside(read) /\ read[x].parent \in Rows(read)
BY DEF Inside, PartOfOneHere

LEMMA WholesGoOn ==
  ASSUME NEW read, NEW x \in Rows(read), NEW y \in Wholes(read, x), PartOfOneHere(read, y)
  PROVE  read[y].parent \in Wholes(read, x)
<1>1. y \in Rows(read)
  BY DEF Wholes, Reached
<1> DEFINE a == <<y, read[y].parent>>
<1>2. a \in Inside(read) /\ a[2] \in Rows(read)
  BY <1>1, ArrowTo
<1>3. a[1] = y /\ a[2] = read[y].parent
  OBVIOUS
<1> HIDE DEF a
<1> QED BY <1>2, <1>3, ReachedGoesOn DEF Wholes

LEMMA WholesAreLeast ==
  ASSUME NEW read, NEW x, NEW T \in SUBSET Rows(read), x \in T,
         \A y \in T : PartOfOneHere(read, y) => read[y].parent \in T
  PROVE  Wholes(read, x) \subseteq T
<1>1. \A a \in Inside(read) : a[1] \in T => a[2] \in T
  BY ArrowsOf
<1> QED BY <1>1, ReachedIsLeast DEF Wholes

LEMMA ATop ==
  ASSUME NEW read, Forest(read), NEW x \in Rows(read)
  PROVE  Tops(read, x) # {}
<1> DEFINE W == Wholes(read, x)
<1>1. x \in W /\ W \subseteq Rows(read)
  BY ReachedStarts DEF Wholes, Reached
<1>2. W \in SUBSET DOMAIN read /\ W # {}
  BY <1>1 DEF Rows
<1>3. PICK t \in W : read[t].parent \notin W
  BY <1>2 DEF Forest
<1>4. ~PartOfOneHere(read, t)
  BY <1>3, WholesGoOn
<1> QED BY <1>3, <1>4 DEF Tops

LEMMA OneTop ==
  ASSUME NEW read, NEW x \in Rows(read), NEW t \in Tops(read, x), NEW u \in Tops(read, x)
  PROVE  t = u
<1> DEFINE T == {y \in Wholes(read, x) : t \in Wholes(read, y)}
<1>1. Wholes(read, x) \subseteq Rows(read)
  BY DEF Wholes, Reached
<1>2. x \in T
  BY ReachedStarts DEF Wholes, Tops
<1>3. ASSUME NEW y \in T, PartOfOneHere(read, y) PROVE read[y].parent \in T
  <2> DEFINE z == read[y].parent
             N == {y} \cup Wholes(read, z)
  <2>1. z \in Wholes(read, x) /\ z \in Rows(read) /\ y \in Rows(read)
    BY <1>1, <1>3, WholesGoOn
  <2>2. z \in Wholes(read, z)
    BY <2>1, ReachedStarts DEF Wholes
  <2>3. \A v \in N : PartOfOneHere(read, v) => read[v].parent \in N
    BY <2>1, <2>2, WholesGoOn
  <2>4. N \subseteq Rows(read)
    BY <2>1 DEF Wholes, Reached
  <2>5. Wholes(read, y) \subseteq N
    BY <2>3, <2>4, WholesAreLeast
  <2>6. t \in N /\ t # y
    BY <1>3, <2>5 DEF Tops
  <2> QED BY <2>1, <2>6
<1>4. Wholes(read, x) \subseteq T
  <2> HIDE DEF T
  <2>1. T \subseteq Rows(read)
    BY <1>1 DEF T
  <2> QED BY <1>2, <1>3, <2>1, WholesAreLeast
<1>5. u \in Rows(read) /\ t \in Wholes(read, u)
  BY <1>1, <1>4 DEF Tops
<1>6. Wholes(read, u) \subseteq {u}
  <2>1. ~PartOfOneHere(read, u)
    BY DEF Tops
  <2>2. {u} \in SUBSET Rows(read) /\ u \in {u}
    BY <1>5
  <2>3. \A y \in {u} : PartOfOneHere(read, y) => read[y].parent \in {u}
    BY <2>1
  <2> QED BY <2>2, <2>3, WholesAreLeast
<1> QED BY <1>5, <1>6

\* Every row is drawn on the status view once, on its own or in one other.
LEMMA OnceOnStatus ==
  ASSUME NEW read, Forest(read), NEW x \in Rows(read)
  PROVE  TimesOnStatus(read, x) = 1
<1> DEFINE Drawings == {at \in Wholes(read, x) \X Groups : at[1] \in OnItsOwn(read, at[2])}
<1>1. PICK t : t \in Tops(read, x)
  BY ATop
<1>2. t \in Wholes(read, x) /\ t \in Rows(read) /\ ~PartOfOneHere(read, t)
  BY <1>1 DEF Tops, Wholes, Reached
<1>3. <<t, Group(read, t)>> \in Drawings
  BY <1>2, GroupIsOne DEF OnItsOwn
<1>4. ASSUME NEW at \in Drawings PROVE at = <<t, Group(read, t)>>
  <2>1. at = <<at[1], at[2]>> /\ at[1] \in Wholes(read, x)
    OBVIOUS
  <2>2. Group(read, at[1]) = at[2] /\ ~PartOfOneHere(read, at[1])
    BY DEF OnItsOwn
  <2>3. at[1] = t
    BY <1>1, <2>1, <2>2, OneTop DEF Tops
  <2> QED BY <2>1, <2>2, <2>3
<1>5. Drawings = {<<t, Group(read, t)>>}
  BY <1>3, <1>4
<1> QED BY <1>5, FS_Singleton DEF TimesOnStatus

------------------------------------------------------------------------------
(* The lanes and the forms                                                   *)

LEMMA OneLane ==
  ASSUME NEW read, NEW k \in DOMAIN Lanes, NEW l \in DOMAIN Lanes,
         NEW x \in LaneRows(read, k), x \in LaneRows(read, l)
  PROVE  k = l
<1>1. DOMAIN Lanes = {"inception", "plan", "construction", "operation"}
  BY DEF Lanes
<1>2. CASE SlipInThePlan(read, x)
  BY <1>2 DEF LaneRows, RowInLane
<1>3. CASE ~SlipInThePlan(read, x)
  <2>1. InLane(read[x].machine, k) /\ InLane(read[x].machine, l)
    BY <1>3 DEF LaneRows, RowInLane
  <2> QED BY <2>1, <1>1 DEF InLane, Lanes
<1> QED BY <1>2, <1>3

\* What has a form of its own in a lane.
Stands(read, x, mine) ==
  /\ x \in mine /\ ~NestedInItsParent(read, x, mine) /\ ~LandedSharedLineChore(read, x)
  /\ ~(Group(read, x) = "done" /\ read[x].machine = "capture")

FormIn(read, l, x) == [lane |-> l, of |-> x, draws |-> Form(read, x, LaneRows(read, l))]

LEMMA FormsAre ==
  ASSUME NEW read, NEW f
  PROVE  f \in FormsOf(read) <=>
           \E l \in DOMAIN Lanes : \E x : Stands(read, x, LaneRows(read, l)) /\ f = FormIn(read, l, x)
<1> DEFINE drawn(g, l) == ChoresHeads(read, g, LaneRows(read, l)) \cup Listed(read, g, LaneRows(read, l))
<1>1. ASSUME NEW x, NEW l
      PROVE  x \in UNION {drawn(g, l) : g \in Groups} <=> Stands(read, x, LaneRows(read, l))
  <2>1. \A g : x \in drawn(g, l) <=> x \in Held(read, g, LaneRows(read, l))
    BY DEF ChoresHeads, Listed, Held
  <2>2. \A g : x \in Held(read, g, LaneRows(read, l)) <=>
                  Group(read, x) = g /\ Stands(read, x, LaneRows(read, l))
    BY DEF Held, GroupRows, Stands
  <2>3. x \in UNION {drawn(g, l) : g \in Groups} <=> \E g \in Groups : x \in drawn(g, l)
    OBVIOUS
  <2> QED BY <2>1, <2>2, <2>3, GroupIsOne
<1>2. \A l : LaneForms(read, l) =
        {[of |-> x, draws |-> Form(read, x, LaneRows(read, l))] : x \in UNION {drawn(g, l) : g \in Groups}}
  BY DEF LaneForms
<1> HIDE DEF drawn
<1>3. f \in FormsOf(read) <=>
        \E l \in DOMAIN Lanes : \E e \in LaneForms(read, l) : f = [lane |-> l, of |-> e.of, draws |-> e.draws]
  BY DEF FormsOf
<1>4. ASSUME NEW l \in DOMAIN Lanes
      PROVE  (\E e \in LaneForms(read, l) : f = [lane |-> l, of |-> e.of, draws |-> e.draws])
               <=> \E x : Stands(read, x, LaneRows(read, l)) /\ f = FormIn(read, l, x)
  <2> DEFINE own(x) == [of |-> x, draws |-> Form(read, x, LaneRows(read, l))]
  <2>1. \A x : own(x).of = x /\ own(x).draws = Form(read, x, LaneRows(read, l))
    OBVIOUS
  <2>2. \A x : [lane |-> l, of |-> own(x).of, draws |-> own(x).draws] = FormIn(read, l, x)
    BY <2>1 DEF FormIn
  <2>3. \A e : e \in LaneForms(read, l) <=> \E x : Stands(read, x, LaneRows(read, l)) /\ e = own(x)
    BY <1>1, <1>2
  <2> HIDE DEF own
  <2> QED BY <2>2, <2>3
<1> QED BY <1>3, <1>4

LEMMA Nested ==
  ASSUME NEW read, NEW mine, NEW p, NEW x
  PROVE  x \in ChildrenOf(read, p, mine) <=>
           /\ x \in mine /\ read[x].parent = p
           /\ \/ read[p].machine = "intent" /\ read[x].machine = "elaboration"
              \/ read[p].machine = "bolt" /\ read[x].machine = "unit"
              \/ read[p].machine = "unit" /\ read[x].machine = "item"
BY DEF ChildrenOf, Nests

\* A form draws its object and what hangs off it, no more than two deep.
LEMMA DrawsParts ==
  ASSUME NEW read, NEW mine, NEW y \in mine, NEW x \in Form(read, y, mine)
  PROVE  \/ x = y
         \/ x \in ChildrenOf(read, y, mine)
         \/ \E u \in ChildrenOf(read, y, mine) : x \in ChildrenOf(read, u, mine)
BY DEF Form, Record, Ledger, Chain, LgUnit, ChoreItem, Slip, Thread, Bead, Sheet, Quote, Sessrow

LEMMA DrawsItself ==
  ASSUME NEW read, NEW mine, NEW y PROVE y \in Form(read, y, mine)
BY DEF Form, Record, Ledger, Chain, LgUnit, ChoreItem, Slip, Thread, Bead, Sheet, Quote, Sessrow

LEMMA DrawsOfItsLane ==
  ASSUME NEW read, NEW mine, NEW y \in mine PROVE Form(read, y, mine) \subseteq mine
BY DrawsParts DEF ChildrenOf

LEMMA OneForm ==
  ASSUME NEW read, NEW x, NEW f \in FormsOf(read), NEW e \in FormsOf(read),
         x \in f.draws, x \in e.draws
  PROVE  f = e
<1>a. PICK k \in DOMAIN Lanes :
        \E v : Stands(read, v, LaneRows(read, k)) /\ f = FormIn(read, k, v)
  BY FormsAre
<1>1. PICK y : Stands(read, y, LaneRows(read, k)) /\ f = FormIn(read, k, y)
  BY <1>a
<1>b. PICK l \in DOMAIN Lanes :
        \E v : Stands(read, v, LaneRows(read, l)) /\ e = FormIn(read, l, v)
  BY FormsAre
<1>2. PICK z : Stands(read, z, LaneRows(read, l)) /\ e = FormIn(read, l, z)
  BY <1>b
<1>3. /\ x \in Form(read, y, LaneRows(read, k)) /\ y \in LaneRows(read, k)
      /\ x \in Form(read, z, LaneRows(read, l)) /\ z \in LaneRows(read, l)
  BY <1>1, <1>2 DEF FormIn, Stands
<1>4. k = l
  <2>1. x \in LaneRows(read, k) /\ x \in LaneRows(read, l)
    BY <1>3, DrawsOfItsLane
  <2> QED BY <2>1, OneLane
<1> DEFINE mine == LaneRows(read, k)
<1>5. /\ y \in mine /\ \A p \in mine : y \notin ChildrenOf(read, p, mine)
      /\ z \in mine /\ \A p \in mine : z \notin ChildrenOf(read, p, mine)
  BY <1>1, <1>2, <1>4 DEF Stands, NestedInItsParent
<1>6. x \in Form(read, y, mine) /\ x \in Form(read, z, mine)
  BY <1>3, <1>4
<1>7. \A p : ChildrenOf(read, p, mine) \subseteq mine
  BY DEF ChildrenOf
<1>8. \A p, q, v : v \in ChildrenOf(read, p, mine) /\ v \in ChildrenOf(read, q, mine) => p = q
  BY DEF ChildrenOf
<1> HIDE DEF mine
<1>9. y = z
  BY <1>5, <1>6, <1>7, <1>8, DrawsParts
<1> QED BY <1>1, <1>2, <1>4, <1>9

\* What is on the board and drawn nowhere has gone to a list, to the tray, or
\* is left out by its whole's form.
LEMMA DrawnOrGone ==
  ASSUME NEW read, NEW x \in Rows(read), read[x].machine \notin OffTheBoard,
         \A f \in FormsOf(read) : x \notin f.draws
  PROVE  \/ x \in Since(read)
         \/ read[x].machine = "capture" /\ SeveralSignals(read, x)
         \/ HiddenByItsWhole(read, x)
<1> SUFFICES ASSUME ~(read[x].machine = "capture" /\ SeveralSignals(read, x))
             PROVE  x \in Since(read) \/ HiddenByItsWhole(read, x)
  OBVIOUS
<1>1. PICK l \in DOMAIN Lanes : RowInLane(read, x, l)
  <2>1. DOMAIN Lanes = {"inception", "plan", "construction", "operation"}
    BY DEF Lanes
  <2> QED BY <2>1 DEF RowInLane, InLane
<1> DEFINE mine == LaneRows(read, l)
<1>2. x \in mine
  BY <1>1 DEF LaneRows
<1>3. ASSUME NEW y, Stands(read, y, mine) PROVE x \notin Form(read, y, mine)
  <2>1. FormIn(read, l, y) \in FormsOf(read)
    BY <1>3, FormsAre
  <2> QED BY <2>1 DEF FormIn
<1> HIDE DEF mine
<1>4. CASE ~NestedInItsParent(read, x, mine)
  <2>1. ~Stands(read, x, mine)
    BY <1>3, DrawsItself
  <2>2. LandedSharedLineChore(read, x) \/ (Group(read, x) = "done" /\ read[x].machine = "capture")
    BY <1>2, <1>4, <2>1 DEF Stands
  <2> QED BY <2>2 DEF Since, Rows, LandedSharedLineChore, IsSharedLineChore
<1>5. CASE NestedInItsParent(read, x, mine)
  <2>1. PICK p \in mine : x \in ChildrenOf(read, p, mine)
    BY <1>5 DEF NestedInItsParent
  <2>2. read[x].parent = p
    BY <2>1, Nested
  <2>3. CASE read[p].machine \in {"intent", "bolt"}
    <3>1. \A q \in mine : p \notin ChildrenOf(read, q, mine)
      BY <2>3, Nested
    <3>2. Stands(read, p, mine)
      BY <2>3, <3>1 DEF Stands, NestedInItsParent, LandedSharedLineChore, IsSharedLineChore
    <3>3. x \in Form(read, p, mine)
      <4>1. CASE read[p].machine = "intent"
        BY <2>1, <4>1 DEF Form, Thread, Bead
      <4>2. CASE read[p].machine = "bolt"
        BY <2>1, <4>2 DEF Form, Record, Ledger, Chain, LgUnit
      <4> QED BY <2>3, <4>1, <4>2
    <3> QED BY <1>3, <3>2, <3>3
  <2>4. CASE read[p].machine = "unit"
    <3>1. read[x].machine = "item"
      BY <2>1, <2>4, Nested
    <3>2. CASE AcceptedSharedLineChore(read, p)
      BY <2>2, <3>1, <3>2 DEF HiddenByItsWhole
    <3>3. CASE ~AcceptedSharedLineChore(read, p) /\ ~NestedInItsParent(read, p, mine)
      <4>1. ~LandedSharedLineChore(read, p)
        BY <3>3 DEF LandedSharedLineChore, AcceptedSharedLineChore
      <4>2. Stands(read, p, mine)
        BY <2>4, <3>3, <4>1 DEF Stands
      <4>3. x \in Form(read, p, mine)
        BY <2>1, <2>4, <3>3 DEF Form, Slip
      <4> QED BY <1>3, <4>2, <4>3
    <3>4. CASE NestedInItsParent(read, p, mine)
      <4>1. PICK b \in mine : p \in ChildrenOf(read, b, mine)
        BY <3>4 DEF NestedInItsParent
      <4>2. read[b].machine = "bolt" /\ read[p].parent = b
        BY <2>4, <4>1, Nested
      <4>3. CASE Group(read, b) = "done"
        <5>1. b \in DOMAIN read
          BY <4>1 DEF mine, LaneRows, Rows
        <5> QED BY <2>2, <3>1, <4>2, <4>3, <5>1 DEF HiddenByItsWhole, OffEveryBolt
      <4>4. CASE Group(read, b) # "done"
        <5>1. \A q \in mine : b \notin ChildrenOf(read, q, mine)
          BY <4>2, Nested
        <5>2. Stands(read, b, mine)
          BY <4>2, <5>1 DEF Stands, NestedInItsParent, LandedSharedLineChore, IsSharedLineChore
        <5>3. x \in Form(read, b, mine)
          BY <2>1, <4>1, <4>2, <4>4 DEF Form, Ledger, Chain, LgUnit
        <5> QED BY <1>3, <5>2, <5>3
      <4> QED BY <4>3, <4>4
    <3> QED BY <3>2, <3>3, <3>4
  <2> QED BY <2>1, <2>3, <2>4, Nested
<1> QED BY <1>4, <1>5

LEMMA AboveGoesOn ==
  ASSUME NEW read, NEW x, NEW y \in Above(read, x), read[y].parent \in DOMAIN read
  PROVE  read[y].parent \in Above(read, x)
<1>1. y \in DOMAIN read
  BY DEF Above, Reached
<1> DEFINE a == <<y, read[y].parent>>
<1>2. a \in Ancestry(read) /\ a[1] = y /\ a[2] = read[y].parent
  BY <1>1 DEF Ancestry
<1> HIDE DEF a
<1> QED BY <1>2, ReachedGoesOn DEF Above

LEMMA AboveIsLeast ==
  ASSUME NEW read, NEW x, NEW T \in SUBSET DOMAIN read, x \in T,
         \A y \in T : read[y].parent \in DOMAIN read => read[y].parent \in T
  PROVE  Above(read, x) \subseteq T
<1>1. \A a \in Ancestry(read) : a[1] \in T => a[2] \in T
  BY DEF Ancestry
<1> QED BY <1>1, ReachedIsLeast DEF Above

\* What is above x is x, or above what x hangs off.
LEMMA AboveStep ==
  ASSUME NEW read, NEW x \in DOMAIN read, NEW y \in Above(read, x), y # x
  PROVE  read[x].parent \in DOMAIN read /\ y \in Above(read, read[x].parent)
<1> DEFINE p == read[x].parent
           N == {x} \cup Above(read, p)
<1>1. N \in SUBSET DOMAIN read /\ x \in N
  BY DEF Above, Reached
<1>2. p \in DOMAIN read => p \in Above(read, p)
  BY ReachedStarts DEF Above
<1>3. \A v \in N : read[v].parent \in DOMAIN read => read[v].parent \in N
  BY <1>2, AboveGoesOn
<1>4. Above(read, x) \subseteq N
  <2> HIDE DEF N
  <2> QED BY <1>1, <1>3, AboveIsLeast
<1>5. y \in Above(read, p)
  BY <1>4
<1>6. p \in DOMAIN read
  <2> SUFFICES ASSUME p \notin DOMAIN read PROVE FALSE
    OBVIOUS
  <2>1. {x} \in SUBSET DOMAIN read /\ x \in {x}
    OBVIOUS
  <2>2. \A v \in {x} : read[v].parent \in DOMAIN read => read[v].parent \in {x}
    OBVIOUS
  <2>3. Above(read, x) \subseteq {x}
    BY <2>1, <2>2, AboveIsLeast
  <2> QED BY <2>3
<1> QED BY <1>5, <1>6

LEMMA AboveIsAnOrder ==
  ASSUME NEW read, Forest(read), NEW x \in DOMAIN read, NEW y \in DOMAIN read,
         y \in Above(read, x), x \in Above(read, y)
  PROVE  x = y
<1> SUFFICES ASSUME x # y PROVE FALSE
  OBVIOUS
<1> DEFINE A == Above(read, x)
           T == {v \in A : x \in Above(read, v)}
<1>1. x \in A /\ A \subseteq DOMAIN read
  BY ReachedStarts DEF Above, Reached
<1>2. ASSUME NEW v \in T, read[v].parent \in DOMAIN read PROVE read[v].parent \in T
  <2>1. read[v].parent \in A /\ v \in DOMAIN read
    BY <1>1, <1>2, AboveGoesOn
  <2>2. CASE v # x
    <3>1. x \in Above(read, v)
      OBVIOUS
    <3>2. x \in Above(read, read[v].parent)
      BY <2>1, <2>2, <3>1, AboveStep
    <3> QED BY <2>1, <3>2
  <2>3. CASE v = x
    <3>1. y \in Above(read, read[v].parent)
      BY <2>3, AboveStep
    <3> DEFINE U == Above(read, read[v].parent)
    <3>2. U \in SUBSET DOMAIN read /\ \A w \in U : read[w].parent \in DOMAIN read => read[w].parent \in U
      BY AboveGoesOn DEF Above, Reached
    <3>3. Above(read, y) \subseteq U
      <4> HIDE DEF U
      <4>1. y \in U
        BY <3>1 DEF U
      <4> QED BY <3>2, <4>1, AboveIsLeast
    <3> QED BY <2>1, <3>3
  <2> QED BY <2>2, <2>3
<1>3. A \subseteq T
  <2>1. T \in SUBSET DOMAIN read /\ x \in T
    BY <1>1
  <2> HIDE DEF T
  <2> QED BY <1>2, <2>1, AboveIsLeast
<1>4. PICK t \in A : read[t].parent \notin A
  <2>1. A \in SUBSET DOMAIN read /\ A # {}
    BY <1>1
  <2> HIDE DEF A
  <2> QED BY <2>1 DEF Forest
<1>5. read[t].parent \notin DOMAIN read /\ t \in DOMAIN read
  BY <1>1, <1>4, AboveGoesOn
<1>6. \A v \in Above(read, t) : v = t
  BY <1>5, AboveStep
<1>7. x = t
  BY <1>3, <1>4, <1>6
<1> QED BY <1>6, <1>7

LEMMA MarksItself ==
  ASSUME NEW read, Forest(read), NEW x \in MayBeDrawn(read)
  PROVE  BoardObject(read, x) = x
<1> DEFINE drawn == Above(read, x) \cap MayBeDrawn(read)
<1>1. x \in DOMAIN read /\ x \in drawn /\ drawn \subseteq Above(read, x)
  BY ReachedStarts DEF MayBeDrawn, Rows, Above
<1>2. ASSUME NEW y \in drawn, drawn \subseteq Above(read, y) PROVE y = x
  <2>1. y \in DOMAIN read /\ y \in Above(read, x) /\ x \in Above(read, y)
    BY <1>1, <1>2 DEF MayBeDrawn, Rows
  <2> QED BY <1>1, <2>1, AboveIsAnOrder
<1>3. BoardObject(read, x) = CHOOSE y \in drawn : drawn \subseteq Above(read, y)
  BY <1>1 DEF BoardObject
<1> HIDE DEF drawn
<1> QED BY <1>1, <1>2, <1>3

\* What has a form of its own is marked there.
LEMMA MarkedWhereDrawn ==
  ASSUME NEW read, Forest(read), NEW f \in FormsOf(read)
  PROVE  f \in MarksOf(read, f.of, FormsOf(read))
<1>a. PICK l \in DOMAIN Lanes :
        \E v : Stands(read, v, LaneRows(read, l)) /\ f = FormIn(read, l, v)
  BY FormsAre
<1>1. PICK y : Stands(read, y, LaneRows(read, l)) /\ f = FormIn(read, l, y)
  BY <1>a
<1>2. y \in MayBeDrawn(read) /\ f.of = y
  BY <1>1 DEF FormIn, Stands, LaneRows, MayBeDrawn
<1>3. BoardObject(read, y) = y
  BY <1>2, MarksItself
<1> QED BY <1>2, <1>3 DEF MarksOf

------------------------------------------------------------------------------
(* Every read                                                                *)

\* Whatever the page reads, each object of it is in one place: nothing is drawn
\* twice, or nowhere but where the code leaves it out (page.rs lane, group_rows;
\* status.rs render).
THEOREM EveryObjectInOnePlace ==
  ASSUME NEW read, Forest(read) PROVE InOnePlace(read)
<1> DEFINE forms == FormsOf(read)
           on(x) == {f \in forms : x \in f.draws}
<1>1. ASSUME NEW x \in Rows(read) PROVE Cardinality(on(x)) <= 1
  <2>1. CASE on(x) = {}
    BY <2>1, FS_EmptySet
  <2>2. CASE on(x) # {}
    <3>1. PICK f : f \in on(x)
      BY <2>2
    <3>2. on(x) = {f}
      BY <3>1, OneForm
    <3>3. Cardinality({f}) = 1
      BY FS_Singleton
    <3> QED BY <3>2, <3>3
  <2> QED BY <2>1, <2>2
<1>2. ASSUME NEW x \in Rows(read), on(x) = {}, read[x].machine \notin OffTheBoard
      PROVE  \/ x \in Since(read)
             \/ read[x].machine = "capture" /\ SeveralSignals(read, x)
             \/ HiddenByItsWhole(read, x)
  <2>1. \A f \in FormsOf(read) : x \notin f.draws
    BY <1>2
  <2> QED BY <1>2, <2>1, DrawnOrGone
<1>3. ASSUME NEW x \in Rows(read), MarksOf(read, x, forms) = {}, NEW f \in on(x)
      PROVE  f.of # x
  <2>1. f \in FormsOf(read)
    OBVIOUS
  <2> QED BY <1>3, <2>1, MarkedWhereDrawn
<1>4. \A x \in Rows(read) : TimesOnStatus(read, x) = 1
  BY OnceOnStatus
<1> HIDE DEF on, forms
<1>5. \A x \in Rows(read) :
        /\ TimesOnStatus(read, x) = 1
        /\ Cardinality(on(x)) <= 1
        /\ (on(x) = {} /\ read[x].machine \notin OffTheBoard) =>
             \/ x \in Since(read)
             \/ read[x].machine = "capture" /\ SeveralSignals(read, x)
             \/ HiddenByItsWhole(read, x)
        /\ (Asks(read[x]) /\ MarksOf(read, x, forms) = {}) => \A f \in on(x) : f.of # x
  BY <1>1, <1>2, <1>3, <1>4
<1> QED BY <1>5 DEF InOnePlace, on, forms

\* A list goes on with the rows it began with, but where its lane holds chores
\* that are accepted or landed (page.rs list_part, lane_group).
THEOREM EveryListGoesOn == ASSUME NEW read PROVE ListsGoOn(read)
<1> SUFFICES ASSUME NEW lane \in DOMAIN Lanes, NEW g \in Groups,
                    \A x \in LaneRows(read, lane) :
                      ~AcceptedSharedLineChore(read, x) /\ ~LandedSharedLineChore(read, x)
             PROVE  ListPart(read, g, LaneRows(read, lane)) = Listed(read, g, LaneRows(read, lane))
  BY DEF ListsGoOn
<1>1. GroupRows(read, g, LaneRows(read, lane)) \subseteq LaneRows(read, lane)
  BY DEF GroupRows
<1> QED BY <1>1 DEF ListPart, Listed, Held, ChoresHeads

\* A read whose parents are made before their parts, in an order that counts.
LEMMA MadeInOrder ==
  ASSUME NEW read, NEW made, \A x \in DOMAIN read : made[x] \in Nat,
         \A x \in DOMAIN read : read[x].parent \in DOMAIN read => made[read[x].parent] < made[x]
  PROVE  Forest(read)
<1> SUFFICES ASSUME NEW S \in SUBSET DOMAIN read, S # {},
                    \A x \in S : read[x].parent \in S
             PROVE  FALSE
  BY DEF Forest
<1> DEFINE N == {made[x] : x \in S}
<1>1. N \subseteq Nat /\ N # {}
  OBVIOUS
<1>2. PICK n \in N : \A m \in N : ~ (<<m, n>> \in OpToRel(<, Nat))
  <2> HIDE DEF N
  <2> QED BY <1>1, NatLessThanWellFounded, WFMin
<1>3. PICK x \in S : n = made[x]
  BY <1>2
<1>4. made[read[x].parent] < made[x] /\ made[read[x].parent] \in N /\ made[x] \in Nat
      /\ made[read[x].parent] \in Nat
  BY <1>3
<1> QED BY <1>2, <1>3, <1>4 DEF OpToRel

LEMMA BesideIs ==
  ASSUME NEW read, NEW x, NEW o
  PROVE  /\ DOMAIN Beside(read, x, o) = DOMAIN read \cup {x}
         /\ Beside(read, x, o)[x] = o
         /\ \A y \in (DOMAIN read) \ {x} : Beside(read, x, o)[y] = read[y]
BY DEF Beside

LEMMA UnitWithItemIs ==
  ASSUME NEW unit, NEW item
  PROVE  /\ DOMAIN UnitWithItem(unit, item) \subseteq {"unit", "item"}
         /\ \A y \in DOMAIN UnitWithItem(unit, item) :
               UnitWithItem(unit, item)[y] = IF y = "unit" THEN unit ELSE item
BY DEF UnitWithItem

\* A unit with its item or without, in a whole that hangs off nothing.
WithItem(read, whole) ==
  /\ DOMAIN read \subseteq {"unit", "item", whole}
  /\ read[whole].parent = "none"
  /\ "unit" \in DOMAIN read => read["unit"].parent = whole
  /\ "item" \in DOMAIN read => read["item"].parent = "unit"

LEMMA UnderAWhole ==
  ASSUME NEW unit, NEW item, NEW whole, NEW o, whole \notin {"unit", "item"},
         unit.parent = whole, item.parent = "unit", o.parent = "none"
  PROVE  WithItem(Beside(UnitWithItem(unit, item), whole, o), whole)
<1> DEFINE parts == UnitWithItem(unit, item)
<1>1. /\ DOMAIN parts \subseteq {"unit", "item"}
      /\ \A y \in DOMAIN parts : parts[y] = IF y = "unit" THEN unit ELSE item
  BY UnitWithItemIs
<1> HIDE DEF parts
<1>2. /\ DOMAIN Beside(parts, whole, o) = DOMAIN parts \cup {whole}
      /\ Beside(parts, whole, o)[whole] = o
      /\ \A y \in (DOMAIN parts) \ {whole} : Beside(parts, whole, o)[y] = parts[y]
  BY DEF Beside
<1>3. WithItem(Beside(parts, whole, o), whole)
  BY <1>1, <1>2 DEF WithItem
<1> QED BY <1>3 DEF parts

\* The reads the runs draw the board of are some of them.
LEMMA ReadsAreForests == ASSUME NEW read \in Reads PROVE Forest(read)
<1> DEFINE made == [x \in {"none", "bolt", "repository", "intent", "capture", "proposal", "unit",
                            "item", "elaboration", "one", "two"} |->
                      CASE x \in {"unit", "elaboration", "one", "two"} -> 1
                        [] x = "item" -> 2
                        [] OTHER -> 0]
<1>1. /\ \A x \in {"none", "bolt", "repository", "intent", "capture", "proposal"} : made[x] = 0
      /\ \A x \in {"unit", "elaboration", "one", "two"} : made[x] = 1
      /\ made["item"] = 2
  OBVIOUS
<1> HIDE DEF made
<1>2. CASE read \in Building
  <2> DEFINE of(b, a, u, c, i, h) ==
               Beside(UnitWithItem([Thing("unit", "bolt", u) EXCEPT !.chore = c],
                                   [Thing("item", "unit", i) EXCEPT !.held = h]),
                      "bolt", [Thing("bolt", NoParent, b) EXCEPT !.asks = (b = "open" /\ a)])
  <2>1. PICK b \in {"open", "landing", "land-failed", "landed", "dropped"}, a \in BOOLEAN,
             u \in UnitLives, c \in BOOLEAN, i \in ItemLives, h \in BOOLEAN :
          read = of(b, a, u, c, i, h)
    <3> HIDE DEF of
    <3>1. Building = {of(b, a, u, c, i, h) :
              b \in {"open", "landing", "land-failed", "landed", "dropped"}, a \in BOOLEAN,
              u \in UnitLives, c \in BOOLEAN, i \in ItemLives, h \in BOOLEAN}
      BY DEF Building, of
    <3> QED BY <1>2, <3>1
  <2> DEFINE unit == [Thing("unit", "bolt", u) EXCEPT !.chore = c]
             item == [Thing("item", "unit", i) EXCEPT !.held = h]
             bolt == [Thing("bolt", NoParent, b) EXCEPT !.asks = (b = "open" /\ a)]
  <2>2. unit.parent = "bolt" /\ item.parent = "unit" /\ bolt.parent = "none"
    BY DEF Thing, NoParent
  <2>3. read = Beside(UnitWithItem(unit, item), "bolt", bolt)
    BY <2>1
  <2> HIDE DEF unit, item, bolt
  <2>4. WithItem(read, "bolt")
    BY <2>2, <2>3, UnderAWhole
  <2> QED BY <1>1, <2>4, MadeInOrder DEF WithItem
<1>3. CASE read \in OffBolts
  <2> DEFINE of(p, u, c, i) ==
               Beside(UnitWithItem([Thing("unit", p, u) EXCEPT !.chore = c], Thing("item", "unit", i)),
                      p, Thing(p, NoParent, IF p = "intent" THEN "open" ELSE "standing"))
  <2>1. PICK p \in {"repository", "intent"}, u \in UnitLives, c \in BOOLEAN, i \in ItemLives :
          read = of(p, u, c, i)
    <3> HIDE DEF of
    <3>1. OffBolts = {of(p, u, c, i) :
              p \in {"repository", "intent"}, u \in UnitLives, c \in BOOLEAN, i \in ItemLives}
      BY DEF OffBolts, of
    <3> QED BY <1>3, <3>1
  <2> DEFINE unit == [Thing("unit", p, u) EXCEPT !.chore = c]
             item == Thing("item", "unit", i)
             whole == Thing(p, NoParent, IF p = "intent" THEN "open" ELSE "standing")
  <2>2. unit.parent = p /\ item.parent = "unit" /\ whole.parent = "none"
    BY DEF Thing, NoParent
  <2>3. read = Beside(UnitWithItem(unit, item), p, whole)
    BY <2>1
  <2> HIDE DEF unit, item, whole
  <2>4. WithItem(read, p)
    BY <2>2, <2>3, UnderAWhole
  <2> QED BY <1>1, <2>4, MadeInOrder DEF WithItem
<1>4. CASE read \in Designing
  <2> DEFINE of(s, m, k, e, p, a, n) ==
               Beside(Beside(Beside(Beside([x \in s |-> Thing("signal", "capture", m)],
                   "capture", Thing("capture", NoParent, k)),
                   "elaboration", Thing("elaboration", "intent", e)),
                   "proposal", Thing("proposal", "planning", p)),
                   "intent", [Thing("intent", NoParent, n) EXCEPT !.asks = (n = "open" /\ a)])
  <2>1. PICK s \in {{}, {"one"}, {"one", "two"}}, m \in {"unmoved", "joined", "attached"},
             k \in {"captured", "read"}, e \in {"proposed", "working", "done", "dropped"},
             p \in {"proposed", "deferred", "approved"}, a \in BOOLEAN,
             n \in {"proposed", "open", "archiving", "archive-failed", "closed", "dropped"} :
          read = of(s, m, k, e, p, a, n)
    <3> HIDE DEF of
    <3> DEFINE ss == {{}, {"one"}, {"one", "two"}}
               ms == {"unmoved", "joined", "attached"}
               ks == {"captured", "read"}
               es == {"proposed", "working", "done", "dropped"}
               ps == {"proposed", "deferred", "approved"}
               ns == {"proposed", "open", "archiving", "archive-failed", "closed", "dropped"}
    <3>1. Designing = {of(s, m, k, e, p, a, n) :
             s \in ss, m \in ms, k \in ks, e \in es, p \in ps, a \in BOOLEAN, n \in ns}
      BY DEF Designing, of
    <3> HIDE DEF ss, ms, ks, es, ps, ns
    <3>2. \E s \in ss, m \in ms, k \in ks, e \in es, p \in ps, a \in BOOLEAN, n \in ns :
            read = of(s, m, k, e, p, a, n)
      BY <1>4, <3>1
    <3> QED BY <3>2 DEF ss, ms, ks, es, ps, ns
  <2> DEFINE signal == Thing("signal", "capture", m)
             capture == Thing("capture", NoParent, k)
             elaboration == Thing("elaboration", "intent", e)
             proposal == Thing("proposal", "planning", p)
             intent == [Thing("intent", NoParent, n) EXCEPT !.asks = (n = "open" /\ a)]
             r0 == [x \in s |-> signal]
             r1 == Beside(r0, "capture", capture)
             r2 == Beside(r1, "elaboration", elaboration)
             r3 == Beside(r2, "proposal", proposal)
  <2>2. /\ signal.parent = "capture" /\ capture.parent = "none" /\ elaboration.parent = "intent"
        /\ proposal.parent = "planning" /\ intent.parent = "none"
    BY DEF Thing, NoParent
  <2>3. read = Beside(r3, "intent", intent)
    BY <2>1
  <2> HIDE DEF signal, capture, elaboration, proposal, intent
  <2>4. DOMAIN r0 \subseteq {"one", "two"} /\ \A x \in DOMAIN r0 : r0[x].parent = "capture"
    BY <2>1, <2>2
  <2> HIDE DEF r0
  <2>5. /\ DOMAIN r1 = DOMAIN r0 \cup {"capture"} /\ r1["capture"].parent = "none"
        /\ \A x \in (DOMAIN r0) \ {"capture"} : r1[x] = r0[x]
    BY <2>2 DEF r1, Beside
  <2> HIDE DEF r1
  <2>6. /\ DOMAIN r2 = DOMAIN r1 \cup {"elaboration"} /\ r2["elaboration"].parent = "intent"
        /\ \A x \in (DOMAIN r1) \ {"elaboration"} : r2[x] = r1[x]
    BY <2>2 DEF r2, Beside
  <2> HIDE DEF r2
  <2>7. /\ DOMAIN r3 = DOMAIN r2 \cup {"proposal"} /\ r3["proposal"].parent = "planning"
        /\ \A x \in (DOMAIN r2) \ {"proposal"} : r3[x] = r2[x]
    BY <2>2 DEF r3, Beside
  <2> HIDE DEF r3
  <2>8. /\ DOMAIN read = DOMAIN r3 \cup {"intent"} /\ read["intent"].parent = "none"
        /\ \A x \in (DOMAIN r3) \ {"intent"} : read[x] = r3[x]
    BY <2>2, <2>3 DEF Beside
  <2>9. DOMAIN read \subseteq {"one", "two", "capture", "elaboration", "proposal", "intent"}
    BY <2>4, <2>5, <2>6, <2>7, <2>8
  <2>10. /\ read["intent"].parent = "none" /\ read["proposal"].parent = "planning"
         /\ read["elaboration"].parent = "intent" /\ read["capture"].parent = "none"
    BY <2>5, <2>6, <2>7, <2>8
  <2>11. \A x \in {"one", "two"} : x \in DOMAIN read => read[x].parent = "capture"
    BY <2>4, <2>5, <2>6, <2>7, <2>8
  <2> QED BY <1>1, <2>9, <2>10, <2>11, MadeInOrder
<1> QED BY <1>2, <1>3, <1>4 DEF Reads

LEMMA StoreIsAForest == Forest(OfStore)
<1> DEFINE objects == Bolts \cup Items \cup {Unit(i) : i \in Items}
<1>1. DOMAIN OfStore = objects
  BY DEF OfStore
<1>2. \A o \in Bolts : OfStore[o].parent = Main
  <2> TAKE o \in Bolts
  <2>1. OfStore[o] = [Thing("bolt", Main, store.bolt[o]) EXCEPT
                        !.asks = (store.bolt[o] = "open" /\ CloseOffered(o))]
    BY WorkspaceAssumption DEF OfStore
  <2> QED BY <2>1 DEF Thing
<1>3. \A o \in Items : OfStore[o].parent = Unit(o)
  BY WorkspaceAssumption DEF OfStore, Thing
<1>4. \A i \in Items : Unit(i) \notin Bolts \cup Items
  BY IdsApart
<1>5. \A i \in Items : OfStore[Unit(i)].parent \in Bolts \cup {Main}
  <2> TAKE i \in Items
  <2>1. OfStore[Unit(i)] = Thing("unit", LineOf[Unit(i)[2]], store.unit[Unit(i)[2]])
    BY <1>1, <1>4 DEF OfStore
  <2>2. Unit(i)[2] = i /\ LineOf[i] \in Bolts \cup {Main}
    BY WorkspaceAssumption DEF Unit
  <2> QED BY <2>1, <2>2 DEF Thing
<1>6. Main \notin objects
  BY IdsApart, WorkspaceAssumption
<1> SUFFICES ASSUME NEW S \in SUBSET objects, S # {},
                    \A x \in S : OfStore[x].parent \in S
             PROVE  FALSE
  BY <1>1 DEF Forest
<1>7. \A b \in Bolts : b \notin S
  BY <1>2, <1>6
<1>8. \A i \in Items : Unit(i) \notin S
  BY <1>5, <1>6, <1>7
<1>9. \A i \in Items : i \notin S
  BY <1>3, <1>8
<1> QED BY <1>7, <1>8, <1>9

\* Every object of the work is drawn once, or is where the code leaves it out, in
\* every state of every repository, whatever its bolts, units and items are at,
\* and in every read of the runs (page.rs lane, group_rows; status.rs render).
THEOREM WorkIsDrawnOnce == Spec => []DrawnOnce
<1>1. DrawnOnce
  BY ReadsAreForests, StoreIsAForest, EveryObjectInOnePlace, EveryListGoesOn
     DEF DrawnOnce, EveryReadDrawn
<1> QED BY <1>1, PTL
================================================================================
