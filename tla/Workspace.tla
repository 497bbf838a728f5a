------------------------------ MODULE Workspace ------------------------------
(***************************************************************************)
(* One repository as a host works on it: the lines its bolts land from,    *)
(* the places its work items are built in, and the three copies of its     *)
(* shared line: the bare clone's, the machinery's own checkout's and the   *)
(* git host's (flywheel-workspace-host, flywheel-world-host), under the    *)
(* machines of bolt.yaml, line.yaml, work-item.yaml and place.yaml.        *)
(*                                                                         *)
(* The machines read the facts the acts wrote and never a repository       *)
(* (flywheel-workspace-recorded).  A branch is the set of commits it holds *)
(* and containing it is inclusion: work reaches a branch only by a merge   *)
(* of one that holds it, so the two say the same.                          *)
(***************************************************************************)
EXTENDS Naturals, FiniteSets, Functions

CONSTANTS
  Main,         \* the repository's shared line
  Bolts,        \* bolts, each one its own line
  Items,        \* work items, one to a unit, each with a place of its own
  LineOf,       \* the line an item's place is off: a bolt, or Main
  Order,        \* the place of each bolt and item in the order of their ids
  Clash,        \* pairs of items whose work conflicts
  MaxOwn,       \* bound: files the machinery writes on the shared line
  MaxElsewhere, \* bound: commits others put on the git host's shared line
  MaxLost,      \* bound: ticks whose push is lost, or that a stop ends
  Drops,        \* bound: the bolts and items the operator may drop
  LateUnits     \* whether a unit is approved while its bolt is landing

ASSUME WorkspaceAssumption ==
  /\ LineOf \in [Items -> Bolts \cup {Main}]
  /\ Main \notin Bolts \cup Items /\ Bolts \cap Items = {}
  /\ Order \in Injection(Bolts \cup Items, Nat)
  /\ Drops \subseteq Bolts \cup Items
  /\ {MaxOwn, MaxElsewhere, MaxLost} \subseteq Nat /\ LateUnits \in BOOLEAN

Branch == {Main} \cup Bolts \cup Items

Work(i) == <<"work", i>>
Acceptance(b) == <<"acceptance", b>>
Own(n) == <<"own", n>>
Elsewhere(n) == <<"elsewhere", n>>
Commit ==
  {Work(i) : i \in Items} \cup {Acceptance(b) : b \in Bolts}
    \cup {Own(n) : n \in 1..MaxOwn} \cup {Elsewhere(n) : n \in 1..MaxElsewhere}

VARIABLES
  bare,      \* the bare clone's branches, each with what it holds
  githost,   \* the git host's
  checkout,  \* what the machinery's checkout of the shared line holds
  trees,     \* lines and places whose worktree is on disk
  store,     \* the records and facts as this host holds them
  pushed,    \* the same as of the last push that landed
  due,       \* what the tick has planned and not done yet
  landedWith, \* history: what each line held when its landing was recorded
  lost       \* history: the ticks lost

repos == <<bare, githost, checkout, trees>>
vars == <<bare, githost, checkout, trees, store, pushed, due, landedWith, lost>>

\* Partial functions: a branch that is not in the domain does not exist.
With(f, x, v) == [y \in DOMAIN f \cup {x} |-> IF y = x THEN v ELSE f[y]]
Without(f, x) == [y \in DOMAIN f \ {x} |-> f[y]]

------------------------------------------------------------------------------
(* What a tick plans, of the records and facts as it found them: as pushed.  *)

\* place.merge_slot asks whether the record named by a sibling's place is
\* merging.  A place is a region of its owner and has no record, so none is.
MergeSlot(i) == TRUE

\* line.contains_parent: the machinery makes every line under a bolt or an
\* intent, which have no parent, and a line with none contains it vacuously.
ContainsParent(b) == TRUE

ItemsOf(b) == {i \in Items : LineOf[i] = b}

\* bolt.life.open.close: offered, while no unit is in flight and one is merged.
CloseOffered(b) ==
  /\ \E i \in ItemsOf(b) : pushed.unit[i] = "merged"
  /\ \A i \in ItemsOf(b) : pushed.unit[i] # "in-flight"

LinePlan(b) ==
  CASE pushed.line[b] = "absent" -> <<"current", "create_line">>
    [] pushed.line[b] = "landing" /\ b \in pushed.landed -> <<"landed", "nothing">>
    [] pushed.line[b] = "landing" /\ b \notin pushed.landed /\ b \notin pushed.accepted
         -> <<"landing", "write_acceptance">>
    [] pushed.line[b] = "landing" /\ b \notin pushed.landed /\ b \in pushed.accepted
         -> <<"landing", "land_line">>
    [] pushed.line[b] = "landed" -> <<"removing", "nothing">>
    [] pushed.line[b] = "removing" /\ b \notin pushed.lines -> <<"removed", "nothing">>
    [] pushed.line[b] = "removing" /\ b \in pushed.lines -> <<"removing", "remove_line">>
    [] OTHER -> <<pushed.line[b], "nothing">>

BoltPlan(b) ==
  CASE pushed.bolt[b] = "open" /\ pushed.said[b] = "yes" /\ CloseOffered(b)
         -> <<"landing", "landing">>
    [] pushed.bolt[b] = "open" /\ pushed.said[b] = "drop" -> <<"dropped", "removing">>
    [] pushed.bolt[b] = "landing" /\ pushed.line[b] = "removed" -> <<"landed", "nothing">>
    [] OTHER -> <<pushed.bolt[b], "nothing">>

PlacePlan(i, busy) ==
  LET at == pushed.place[i]
      current == i \in pushed.contains
  IN CASE at = "none" /\ pushed.item[i] = "placing" -> <<"absent", "nothing">>
       [] at = "absent" -> <<"preparing", "prepare_place">>
       [] at = "preparing" /\ i \in pushed.exists /\ current -> <<"ready", "nothing">>
       [] at = "preparing" /\ i \notin pushed.exists -> <<"preparing", "prepare_place">>
       [] at = "ready" /\ ~current -> <<"behind", "nothing">>
       [] at = "behind" /\ i \notin busy /\ current -> <<"ready", "nothing">>
       [] at = "behind" /\ i \notin busy /\ ~current /\ i \in pushed.conflicted
            -> <<"conflict", "nothing">>
       [] at = "behind" /\ i \notin busy /\ ~current /\ i \notin pushed.conflicted
            -> <<"behind", "rebase_place">>
       [] at = "conflict" /\ current -> <<"ready", "nothing">>
       [] at = "merging" /\ i \in pushed.merged -> <<"merged", "nothing">>
       [] at = "merging" /\ i \notin pushed.merged /\ ~current -> <<"behind", "nothing">>
       [] at = "merging" /\ i \notin pushed.merged /\ current /\ MergeSlot(i)
            -> <<"merging", "merge_place">>
       [] at = "merged" -> <<"removing", "nothing">>
       [] at = "removing" /\ i \notin pushed.exists -> <<"removed", "nothing">>
       [] at = "removing" /\ i \in pushed.exists -> <<"removing", "remove_place">>
       [] OTHER -> <<at, "nothing">>

UnitPlan(i) ==
  CASE pushed.unit[i] = "in-flight" /\ pushed.said[i] = "drop" -> <<"dropped", "nothing">>
    [] pushed.unit[i] = "in-flight" /\ pushed.said[i] # "drop" /\ LineOf[i] \in Bolts
         /\ pushed.bolt[LineOf[i]] = "dropped" -> <<"retired", "nothing">>
    [] pushed.unit[i] = "in-flight" /\ pushed.item[i] = "merged" -> <<"merged", "nothing">>
    [] OTHER -> <<pushed.unit[i], "nothing">>

ItemPlan(i) ==
  CASE pushed.item[i] = "placing" /\ pushed.place[i] = "ready" -> <<"in-type", "nothing">>
    [] pushed.item[i] = "in-type" /\ pushed.unit[i] \in {"retired", "dropped"}
         -> <<"dropped", "removing">>
    [] pushed.item[i] = "in-type" /\ pushed.unit[i] = "in-flight" /\ i \in pushed.done
         -> <<"merging", "merging">>
    [] pushed.item[i] = "merging" /\ pushed.place[i] = "removed" -> <<"merged", "nothing">>
    [] OTHER -> <<pushed.item[i], "nothing">>

\* The regions of one object that move.  What a region under
\* an object's life does is an effect; what its life does is a command to it.
Move(region, o, plan) == [of |-> o, region |-> region, to |-> plan[1], act |-> plan[2]]

Regions(o, busy) ==
  IF o \in Bolts
  THEN {Move("line", o, LinePlan(o)), Move("bolt", o, BoltPlan(o))}
  ELSE {Move("place", o, PlacePlan(o, busy)), Move("unit", o, UnitPlan(o)),
        Move("item", o, ItemPlan(o))}

Moves(o, busy) ==
  {m \in Regions(o, busy) : m.to # pushed[m.region][o] \/ m.act # "nothing"}

Planned(busy) == UNION {Moves(o, busy) : o \in Bolts \cup Items}

Quiet == due = {} /\ store = pushed

\* A tick decides everything on what it read and then does it, in order.
\* busy: the places whose session is reported as working.
Plans ==
  /\ Quiet
  /\ \E busy \in SUBSET {i \in Items : store.item[i] = "in-type" /\ store.place[i] = "behind"} : due' = Planned(busy)
  /\ due' # {}
  /\ UNCHANGED <<repos, store, pushed, landedWith, lost>>

\* Object by object, and of an object the innermost region first.
Depth(region) ==
  CASE region \in {"line", "place"} -> 1 [] region \in {"bolt", "unit"} -> 2 [] OTHER -> 3

Turn(m) == 3 * Order[m.of] + Depth(m.region)

Now == CHOOSE m \in due : \A n \in due : Turn(m) <= Turn(n)

\* The move's own region, and the child its `enter:` commands.
Moved ==
  LET child == IF Now.region = "bolt" THEN "line" ELSE "place"
      own == [store EXCEPT ![Now.region][Now.of] = Now.to]
  IN IF Now.region \in {"bolt", "item"} /\ Now.act # "nothing"
       THEN [own EXCEPT ![child][Now.of] = Now.act] ELSE own

Taken == due' = due \ {Now} /\ UNCHANGED <<pushed, lost>>

Takes(region, act) ==
  /\ \E m \in due : m.region = region /\ m.act = act /\ m = Now
  /\ Taken

\* A transition that performs nothing.
Moving ==
  /\ \E m \in due : (m.act = "nothing" \/ m.region \in {"bolt", "item"}) /\ m = Now
  /\ Taken
  /\ store' = Moved
  /\ UNCHANGED <<repos, landedWith>>

\* An act that failed writes no fact; its transition stands and it is owed again.
Failed == store' = Moved /\ UNCHANGED <<checkout, trees, landedWith>>

------------------------------------------------------------------------------
(* The acts on a line.                                                       *)

\* HostWorkspace::worktree: made where it is absent, on the branch, which is
\* made where it is absent too.
Worktree(x, from) ==
  /\ bare' = IF x \in trees \cup DOMAIN bare THEN bare ELSE With(bare, x, bare[from])
  /\ trees' = trees \cup {x}

CreateLine ==
  /\ Takes("line", "create_line")
  /\ Worktree(Now.of, Main)
  /\ store' = [Moved EXCEPT !.lines = @ \cup {Now.of}]
  /\ UNCHANGED <<githost, checkout, landedWith>>

\* A change to catch: the acceptance is committed and not recorded.
WriteAcceptance_Untold ==
  /\ Takes("line", "write_acceptance")
  /\ Now.of \in trees
  /\ bare' = [bare EXCEPT ![Now.of] = @ \cup {Acceptance(Now.of)}]
  /\ store' = Moved
  /\ UNCHANGED <<githost, checkout, trees, landedWith>>

WriteAcceptance ==
  /\ Takes("line", "write_acceptance")
  /\ IF Now.of \in trees
     THEN /\ bare' = [bare EXCEPT ![Now.of] = @ \cup {Acceptance(Now.of)}]
          /\ store' = [Moved EXCEPT !.accepted = @ \cup {Now.of}]
     ELSE UNCHANGED bare /\ store' = Moved
  /\ UNCHANGED <<githost, checkout, trees, landedWith>>

\* git push: a branch goes to another copy only forward.
Forward(copy, x, what) == x \in DOMAIN copy => copy[x] \subseteq what

\* The shared line is put forward to the line's head in the bare clone, then
\* on the git host, then in the checkout where that fast-forwards.
LandLine ==
  LET b == Now.of IN
  /\ Takes("line", "land_line")
  /\ b \in trees /\ bare[Main] \subseteq bare[b]
  /\ bare' = [bare EXCEPT ![Main] = bare[b]]
  /\ Forward(githost, Main, bare[b])
  /\ githost' = [githost EXCEPT ![Main] = bare[b]]
  /\ checkout' = IF checkout \subseteq bare[b] THEN bare[b] ELSE checkout
  /\ store' = [Moved EXCEPT !.landed = @ \cup {b}]
  /\ landedWith' = [landedWith EXCEPT ![b] = bare[b]]
  /\ UNCHANGED trees

\* It fails before it touches anything, or at the git host: out of reach, or
\* holding a commit the bare clone lacks.
LandLineFails ==
  LET b == Now.of IN
  /\ Takes("line", "land_line")
  /\ bare' = IF b \in trees /\ bare[Main] \subseteq bare[b]
               THEN [bare EXCEPT ![Main] = bare[b]] ELSE bare
  /\ Failed /\ UNCHANGED githost

RemoveLine ==
  /\ Takes("line", "remove_line")
  /\ bare' = Without(bare, Now.of)
  /\ trees' = trees \ {Now.of}
  /\ store' = [Moved EXCEPT !.lines = @ \ {Now.of}]
  /\ UNCHANGED <<githost, checkout, landedWith>>

------------------------------------------------------------------------------
(* The acts on a place.                                                      *)

Base == LineOf[Now.of]

\* Merging x into y stops where each has work of its own that conflicts.
Conflicts(x, y) ==
  \E i, j \in Items : {i, j} \in Clash /\ Work(i) \in x \ y /\ Work(j) \in y \ x

\* A worktree still on disk is taken as it stands; a branch starts at the line.
PreparePlace ==
  /\ Takes("place", "prepare_place")
  /\ IF Now.of \in trees \cup DOMAIN bare \/ Base \in DOMAIN bare
     THEN /\ Worktree(Now.of, Base)
          /\ store' = [Moved EXCEPT !.exists = @ \cup {Now.of}, !.contains = @ \cup {Now.of}]
     ELSE store' = Moved /\ UNCHANGED <<bare, trees>>
  /\ UNCHANGED <<githost, checkout, landedWith>>

\* A line that is gone answers as a conflict does.
RebasePlace ==
  LET i == Now.of
      conflicted == \/ Base \notin DOMAIN bare
                    \/ Conflicts(bare[Base], bare[i])
  IN /\ Takes("place", "rebase_place")
     /\ IF i \notin trees THEN store' = Moved /\ UNCHANGED bare
        ELSE IF conflicted
        THEN store' = [Moved EXCEPT !.conflicted = @ \cup {i}] /\ UNCHANGED bare
        ELSE /\ bare' = [bare EXCEPT ![i] = @ \cup bare[Base]]
             /\ store' = [Moved EXCEPT !.contains = @ \cup {i}]
     /\ UNCHANGED <<githost, checkout, trees, landedWith>>

\* A change to catch: the siblings are not told that their line moved.
MergedFact_Untold(i) == [Moved EXCEPT !.merged = @ \cup {i}]

\* RecordedWorkspace::merge_place: no place of the line contains it any more.
MergedFact(i) ==
  [Moved EXCEPT !.merged = @ \cup {i},
                !.contains = @ \ {j \in Items \ {i} : LineOf[j] = LineOf[i]}]

\* A change to catch: a merge that conflicts is recorded as one that did not.
MergePlace_Conflicted ==
  LET i == Now.of IN
  /\ Takes("place", "merge_place")
  /\ Base \in trees
  /\ bare' = IF i \notin DOMAIN bare \/ Conflicts(bare[i], bare[Base])
               THEN bare ELSE [bare EXCEPT ![Base] = @ \cup bare[i]]
  /\ store' = MergedFact(i)
  /\ UNCHANGED <<githost, checkout, trees, landedWith>>

\* Into the line's own worktree.
MergePlace ==
  LET i == Now.of IN
  /\ Takes("place", "merge_place")
  /\ Base \in trees
  /\ IF i \notin DOMAIN bare \/ Conflicts(bare[i], bare[Base])
     THEN store' = [Moved EXCEPT !.conflicted = @ \cup {i}] /\ UNCHANGED bare
     ELSE bare' = [bare EXCEPT ![Base] = @ \cup bare[i]] /\ store' = MergedFact(i)
  /\ UNCHANGED <<githost, checkout, trees, landedWith>>

\* Where the line has no worktree it is taken for the shared line, and the
\* place's branch is pushed onto it in the bare clone and on the git host.
MergeOntoSharedLine ==
  LET i == Now.of IN
  /\ Takes("place", "merge_place")
  /\ Base \notin trees /\ i \in trees /\ Forward(bare, Base, bare[i])
  /\ bare' = With(bare, Base, bare[i])
  /\ \/ /\ Forward(githost, Base, bare[i])
        /\ githost' = With(githost, Base, bare[i])
        /\ store' = MergedFact(i)
     \/ UNCHANGED githost /\ store' = Moved
  /\ UNCHANGED <<checkout, trees, landedWith>>

MergePlaceRefused ==
  /\ Takes("place", "merge_place")
  /\ Base \notin trees
  /\ ~(Now.of \in trees /\ Forward(bare, Base, bare[Now.of]))
  /\ Failed /\ UNCHANGED <<bare, githost>>

RemovePlace ==
  /\ Takes("place", "remove_place")
  /\ bare' = Without(bare, Now.of)
  /\ trees' = trees \ {Now.of}
  /\ store' = [Moved EXCEPT !.exists = @ \ {Now.of}]
  /\ UNCHANGED <<githost, checkout, landedWith>>

------------------------------------------------------------------------------
(* The end of a tick, and what happens around it.                            *)

\* One push, of everything the tick wrote.
TickEnds ==
  /\ due = {} /\ store # pushed
  /\ pushed' = store
  /\ UNCHANGED <<repos, store, due, landedWith, lost>>

\* The push is lost or the host is stopped: the records and facts go back to
\* what the shared state holds, and what reached the repository stays.
TickLost ==
  /\ ~Quiet /\ lost < MaxLost
  /\ store' = pushed /\ due' = {} /\ lost' = lost + 1
  /\ UNCHANGED <<repos, pushed, landedWith>>

Records(new) ==
  /\ Quiet /\ new # store
  /\ store' = new /\ pushed' = new
  /\ UNCHANGED <<repos, due, landedWith, lost>>

\* A unit is approved; an item waits for nothing here and is to be placed.
Approves(i) ==
  /\ store.unit[i] = "proposed"
  /\ LineOf[i] \in Bolts =>
       store.bolt[LineOf[i]] \in {"open"} \cup IF LateUnits THEN {"landing", "landed"} ELSE {}
  /\ Records([store EXCEPT !.unit[i] = "in-flight", !.item[i] = "placing"])

\* The operator's yes or drop; a drop stands until it is taken.
Answers(o, what) ==
  /\ store.said[o] # "drop" /\ (what = "drop" => o \in Drops)
  /\ IF o \in Bolts
     THEN store.bolt[o] = "open" /\ (what = "yes" => CloseOffered(o))
     ELSE store.unit[o] = "in-flight" /\ what = "drop"
  /\ Records([store EXCEPT !.said[o] = what])

\* The item's last stage passes, its session having committed what it made.
Finishes(i) ==
  /\ store.item[i] = "in-type" /\ i \in DOMAIN bare /\ Work(i) \in bare[i]
  /\ Records([store EXCEPT !.done = @ \cup {i}])

Commits(i) ==
  /\ store.item[i] = "in-type" /\ i \notin store.done
  /\ i \in trees /\ Work(i) \notin bare[i]
  /\ bare' = [bare EXCEPT ![i] = @ \cup {Work(i)}]
  /\ UNCHANGED <<githost, checkout, trees, store, pushed, due, landedWith, lost>>

\* HostWorld::write_file: a commit on the checkout, pushed to the bare clone,
\* which refuses it where it is not ahead; the commit stays, and it is tried
\* again as long as the bare clone does not hold the file.
WriteFile(n) ==
  /\ Own(n) \notin bare[Main]
  /\ checkout' = checkout \cup {Own(n)}
  /\ bare' = IF bare[Main] \subseteq checkout'
               THEN [bare EXCEPT ![Main] = checkout'] ELSE bare
  /\ <<checkout', bare'>> # <<checkout, bare>>
  /\ UNCHANGED <<githost, trees, store, pushed, due, landedWith, lost>>

\* A person, or another host, puts a commit on the git host's shared line.
OthersPush(n) ==
  /\ Elsewhere(n) \notin githost[Main]
  /\ githost' = [githost EXCEPT ![Main] = @ \cup {Elsewhere(n)}]
  /\ UNCHANGED <<bare, checkout, trees, store, pushed, due, landedWith, lost>>

------------------------------------------------------------------------------
Fresh ==
  [bolt |-> [b \in Bolts |-> "open"], line |-> [b \in Bolts |-> "absent"],
   unit |-> [i \in Items |-> "proposed"], item |-> [i \in Items |-> "waiting"],
   place |-> [i \in Items |-> "none"], said |-> [o \in Bolts \cup Items |-> "nothing"],
   done |-> {}, exists |-> {}, contains |-> {}, merged |-> {}, conflicted |-> {},
   lines |-> {}, landed |-> {}, accepted |-> {}]

Init ==
  /\ bare = [x \in {Main} |-> {}] /\ githost = [x \in {Main} |-> {}] /\ checkout = {} /\ trees = {}
  /\ store = Fresh /\ pushed = Fresh /\ due = {}
  /\ landedWith = [b \in Bolts |-> {}] /\ lost = 0

Pass ==
  \/ Plans \/ Moving
  \/ CreateLine \/ WriteAcceptance \/ LandLine \/ LandLineFails \/ RemoveLine
  \/ PreparePlace \/ RebasePlace \/ RemovePlace
  \/ MergePlace \/ MergeOntoSharedLine \/ MergePlaceRefused
  \/ TickEnds

Around ==
  \/ \E i \in Items : Approves(i) \/ Finishes(i) \/ Commits(i)
  \/ \E o \in Bolts \cup Items, what \in {"yes", "drop"} : Answers(o, what)
  \/ \E n \in 1..MaxOwn : WriteFile(n)
  \/ \E n \in 1..MaxElsewhere : OthersPush(n)

Next == Pass \/ TickLost \/ Around

Spec == Init /\ [][Next]_vars

\* A host goes on with its ticks, and the git host is reached
\* by one landing of many.
Fairness == WF_vars(Pass) /\ SF_vars(LandLine)

FairSpec == Spec /\ Fairness

------------------------------------------------------------------------------
(* Properties.                                                               *)

TypeOK ==
  /\ \A copy \in {bare, githost} :
       /\ Main \in DOMAIN copy /\ DOMAIN copy \subseteq Branch
       /\ \A x \in DOMAIN copy : copy[x] \subseteq Commit
  /\ checkout \subseteq Commit /\ trees \subseteq Bolts \cup Items
  /\ store.merged \cup store.contains \subseteq Items /\ store.landed \subseteq Bolts
  /\ \A b \in Bolts : landedWith[b] \subseteq Commit

\* What a work item is recorded as having merged is in its line, or on the git
\* host with the line, for as long as the bolt is not dropped.
MergedIsKept ==
  \A i \in store.merged :
    LET b == LineOf[i] IN
    \/ Work(i) \in githost[Main]
    \/ b \in Bolts /\ b \in DOMAIN bare /\ Work(i) \in bare[b]
    \/ b \in Bolts /\ store.said[b] = "drop"

\* A line recorded as landed is on the git host whole.
LandedOnTheGitHost == \A b \in store.landed : landedWith[b] \subseteq githost[Main]

\* A place recorded as containing its line does, but for what a sibling
\* merged of which the fact is owed, and for the acceptance at a landing.
ContainsIsTrue ==
  \A i \in store.contains \ store.merged :
    LET b == LineOf[i] IN
    (b \in trees /\ i \in DOMAIN bare)
      => bare[b] \ ({Acceptance(b)} \cup {Work(j) : j \in Items \ store.merged})
           \subseteq bare[i]

\* A place's branch goes only once its line holds what was committed on it, or
\* with a unit or a bolt the operator dropped.
RemovedOnceMerged ==
  [][\A i \in Items :
       (i \in DOMAIN bare /\ i \notin DOMAIN bare') =>
         \/ store.item[i] = "dropped"
         \/ LineOf[i] \in DOMAIN bare /\ bare[i] \subseteq bare[LineOf[i]]
         \/ bare[i] \subseteq githost[Main]
         \/ LineOf[i] \in Bolts /\ store.said[LineOf[i]] = "drop"]_vars

\* A bolt the operator closes lands, whatever tick is lost, unless a shared
\* line moves under it.
ClosedBoltLands ==
  \A b \in Bolts :
    pushed.bolt[b] = "landing" ~>
      \/ store.bolt[b] = "landed"
      \/ b \in trees /\ \E copy \in {bare, githost} : ~(copy[Main] \subseteq bare[b])

\* A place whose sibling merged first takes the line and then merges.
MergesAfterASibling ==
  \A i \in Items :
    (pushed.item[i] = "merging" /\ pushed.place[i] = "behind") ~>
      (store.item[i] = "merged" \/ store.place[i] = "conflict")
=============================================================================
