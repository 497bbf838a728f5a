----------------------------- MODULE WorldProofs -----------------------------
(***************************************************************************)
(* What holds of the bootstrap for any paths of a template, any number of  *)
(* stops, pushes not heard and commits of people, and every interleaving.  *)
(***************************************************************************)
EXTENDS World, TLAPS

-----------------------------------------------------------------------------
(* The adoption of a repository *)

\* What a run does to a repository it adopts: the template is laid over what
\* it cloned, but for what the commit leaves out, and where nothing was committed
\* the repository has all but that.
AdoptInv ==
  run # Idle /\ run.at = "pushing" =>
    /\ run.making \in Repository
    /\ checkout[run.making] \in Checkouts
    /\ checkout[run.making].files = Laid(checkout[run.making].base, checkout[run.making].left)
    /\ ~checkout[run.making].committed
         => \A p \in Path : Standing(run.making)[p] # "absent" \/ p \in checkout[run.making].left

\* What a run makes, and for which effect: the built repository is adopted
\* after the loop, for none.
MakingInv ==
  run # Idle /\ run.at \in {"adopting", "pushing"} =>
    /\ run.making \notin run.man.repositories
    /\ \/ run.effect = None /\ run.making = "built"
       \/ run.effect = "create_blueprints" /\ run.making = "blueprints"
       \/ run.effect = "create_state" /\ run.making = "state"

-----------------------------------------------------------------------------
(* The record of the machine and what it is ahead of *)

Early == {None, "absent", "blueprints-ready"}

\* The record is in the instance's own repository exactly where the manifest
\* in hand names one, but for the step between the two.
BoundInv ==
  /\ scratch.instance \in Early
  /\ run # Idle =>
       /\ run.bound => "state" \in run.man.repositories
       /\ run.at # "performed" => (run.bound <=> "state" \in run.man.repositories)
       /\ run.bound /\ own.instance \in {"awaiting-app", "connected", "hosted"} => run.man.app
       /\ run.at # "opening" => Objects.instance \in State /\ Objects.curation # None
  /\ manifest # None => "state" \in manifest.repositories /\ manifest.app
  /\ own.instance # None => own.curation # None

\* Where a machine stands still: hosted, or at the decision that asks for the
\* App, with no key.
StandsStill(state) == state = "hosted" \/ (~run.key /\ state = "awaiting-app")

\* A pass that moved nothing and performed nothing is over an instance that
\* stands still, and what follows the loop finds it there.
SettledInv ==
  run # Idle =>
    /\ run.at = "performing" =>
         /\ run.before \in State /\ run.moved = FALSE
         /\ Objects.instance = MovesTo(run.before, run.man, run.key)
         /\ run.effect = EffectOf(run.before, run.man, run.key)
    /\ run.at = "performed" /\ ~run.moved /\ Objects.instance = run.before
         => StandsStill(Objects.instance)
    /\ run.at = "writing" \/ (run.at \in {"adopting", "pushing"} /\ run.effect = None)
         => run.bound /\ StandsStill(own.instance)

-----------------------------------------------------------------------------
(* The passes of a run *)

Level(state) ==
  CASE state = "blueprints-ready" -> 1
    [] state = "state-ready" -> 2
    [] state = "awaiting-app" -> 3
    [] state = "connected" -> 4
    [] state = "hosted" -> 5
    [] OTHER -> 0

Facts(man) ==
  (IF "blueprints" \in man.repositories THEN 1 ELSE 0) + (IF "state" \in man.repositories THEN 1 ELSE 0)
    + (IF man.app THEN 1 ELSE 0) + (IF man.address # None THEN 1 ELSE 0)

\* Every pass but the last moves the machine on or learns something.
PassesInv ==
  run # Idle =>
    /\ run.at = "opening" => run.passes = 0
    /\ run.at = "ticking" => run.passes <= Level(Objects.instance) + Facts(run.man)
    /\ run.at = "performing" => run.passes <= Level(run.before) + Facts(run.man) + 1
    /\ run.at \in {"adopting", "pushing"} /\ run.effect # None
         => run.passes <= Level(Objects.instance) + Facts(run.man) + 1
    /\ run.at = "performed" /\ (run.moved \/ Objects.instance # run.before)
         => run.passes <= Level(Objects.instance) + Facts(run.man)

\* A run over an instance that is hosted and is asked for nothing new.
AgainInv ==
  run # Idle /\ run.again =>
    /\ run.man = manifest /\ manifest # None /\ manifest.address # None
    /\ run.bound /\ own.instance = "hosted" /\ own.curation # None
    /\ run.built => "built" \in run.man.repositories
    /\ run.at \notin {"adopting", "pushing"}
    /\ run.at = "performing" => run.effect = None

\* Where a manifest stands the instance has its record in its own repository,
\* and a run is over that one.
StandInv == manifest # None => own.instance # None /\ (run # Idle => run.bound)

WorldInv == TypeOK /\ AdoptInv /\ MakingInv /\ BoundInv /\ SettledInv /\ PassesInv /\ AgainInv /\ StandInv

-----------------------------------------------------------------------------
(* Types *)

\* What a template makes of a repository has every path, and keeps what stood.
LEMMA FilledWhole ==
  ASSUME NEW files \in Files
  PROVE  /\ Filled(files) \in Files
         /\ \A p \in Path : /\ Filled(files)[p] # "absent"
                            /\ files[p] # "absent" => Filled(files)[p] = files[p]
BY DEF Filled, Files

\* So does what its commit makes of it, but for what that leaves out.
LEMMA LaidWhole ==
  ASSUME NEW files \in Files, NEW left \in SUBSET Path
  PROVE  /\ Laid(files, left) \in Files
         /\ \A p \in Path : /\ p \notin left => Laid(files, left)[p] # "absent"
                            /\ files[p] # "absent" => Laid(files, left)[p] = files[p]
BY FilledWhole DEF Laid, Files

LEMMA StandingType ==
  ASSUME TypeOK, NEW r \in Repository
  PROVE  Standing(r) \in Files
BY DEF TypeOK, Standing, Files, Empty

LEMMA CheckedOutType ==
  ASSUME TypeOK, NEW r \in Repository, NEW left \in SUBSET Path
  PROVE  CheckedOut(r, left) \in Checkouts
BY StandingType, LaidWhole DEF CheckedOut, Checkouts

LEMMA ObjectsType ==
  ASSUME TypeOK
  PROVE  Objects \in Records
BY DEF TypeOK, Objects

LEMMA MovesType ==
  ASSUME NEW state \in State \cup {None}, NEW man, NEW placed
  PROVE  /\ MovesTo(state, man, placed) \in State \cup {None}
         /\ state \in State => MovesTo(state, man, placed) \in State
         /\ CallsFor(state) \in Effect \cup {None}
BY DEF MovesTo, CallsFor, State, Effect

\* Every step keeps the types.
LEMMA TypeStep ==
  ASSUME TypeOK, AdoptInv, MakingInv, [Next]_vars
  PROVE  TypeOK'
<1> USE DEF TypeOK
<1>1. ASSUME NEW built \in BOOLEAN, NEW address \in {None, "named"}, Starts(built, address)
      PROVE  TypeOK'
  <2>1. (IF manifest = None THEN FreshManifest ELSE manifest) \in Manifests
    BY DEF FreshManifest, Manifests
  <2> QED  BY <1>1, <2>1 DEF Starts, Runs, Phases
<1>2. CASE PutsNew
  <2>1. [instance |-> IF Objects.instance = None THEN "absent" ELSE Objects.instance,
         curation |-> IF Objects.curation = None THEN "fresh" ELSE Objects.curation] \in Records
    BY ObjectsType DEF Records, State
  <2> QED  BY <1>2, <2>1 DEF PutsNew, Keeps, Runs, Phases
<1>3. CASE Ticks
  <2>1. Objects.instance \in State \cup {None}
    BY ObjectsType DEF Records
  <2>2. MovesTo(Objects.instance, run.man, run.key) \in State \cup {None}
    BY <2>1, MovesType
  <2>3. \A others \in {Objects.curation, "moved"} :
          [instance |-> MovesTo(Objects.instance, run.man, run.key), curation |-> others] \in Records
    BY <2>2, ObjectsType DEF Records
  <2>4. EffectOf(Objects.instance, run.man, run.key) \in Effect \cup {None}
    BY <2>2, MovesType DEF EffectOf
  <2>5. run' \in Runs
    <3> DEFINE before == Objects.instance
               effect == EffectOf(Objects.instance, run.man, run.key)
    <3>1. before \in State \cup {None} /\ effect \in Effect \cup {None} /\ run.passes + 1 \in Nat /\ run \in Runs
      BY <1>3, <2>1, <2>4 DEF Ticks, Runs
    <3>2. run' = [run EXCEPT !.at = "performing", !.before = before, !.moved = FALSE,
                             !.passes = @ + 1, !.effect = effect]
      BY <1>3 DEF Ticks
    <3> HIDE DEF before, effect
    <3> QED  BY <3>1, <3>2 DEF Runs, Phases
  <2>6. {scratch', own'} \subseteq Records
    BY <1>3, <2>3 DEF Ticks, Keeps
  <2> QED  BY <1>3, <2>5, <2>6 DEF Ticks
<1>4. CASE Performs
  <2> run \in Runs /\ run.man \in Manifests
    BY <1>4 DEF Performs, Runs
  <2>1. CASE run' = [run EXCEPT !.at = "performed"]
    BY <1>4, <2>1 DEF Performs, Runs, Phases
  <2>2. CASE run' = [run EXCEPT !.at = "performed", !.man.app = TRUE, !.moved = ~run.man.app]
    <3>1. [run.man EXCEPT !.app = TRUE] \in Manifests /\ run.man.app \in BOOLEAN
      BY DEF Manifests
    <3> QED  BY <1>4, <2>2, <3>1 DEF Performs, Runs, Phases
  <2>3. CASE run' = [run EXCEPT !.at = "performed", !.moved = run.man.address = None,
                                !.man.address = IF @ = None THEN AddressAsked(run) ELSE @]
    <3>1. [run.man EXCEPT !.address = IF @ = None THEN AddressAsked(run) ELSE @] \in Manifests
      BY DEF Manifests, AddressAsked, Runs
    <3> QED  BY <1>4, <2>3, <3>1 DEF Performs, Runs, Phases
  <2>4. CASE run' = [run EXCEPT !.at = "adopting", !.making = RepositoryOf(run.effect)]
    BY <1>4, <2>4 DEF Performs, Runs, Phases, RepositoryOf, Repository
  <2> QED  BY <1>4, <2>1, <2>2, <2>3, <2>4 DEF Performs
<1>5. CASE Adopts
  <2>1. run.making \in Repository
    BY <1>5 DEF Adopts, MakingInv, Repository
  <2>2. checkout' \in [Repository -> Checkouts \cup {None}]
    BY <1>5, <2>1, CheckedOutType DEF Adopts
  <2>3. faults' \in 0..MaxFaults
    BY <1>5, WorldAssumption DEF Adopts
  <2> QED  BY <1>5, <2>1, <2>2, <2>3, StandingType DEF Adopts, Runs, Phases
<1>6. CASE Pushes
  <2>1. run.making \in Repository
    BY <1>6 DEF Pushes, MakingInv, Repository
  <2>2. checkout[run.making].files \in Files
    BY <1>6 DEF Pushes, AdoptInv, Checkouts
  <2>3. [run.man EXCEPT !.repositories = @ \cup {run.making}] \in Manifests
    BY <1>6, <2>1 DEF Pushes, Runs, Manifests
  <2>4. run' \in Runs
    BY <1>6, <2>1, <2>3 DEF Pushes, Names, Runs, Phases
  <2> QED  BY <1>6, <2>1, <2>2, <2>4 DEF Pushes
<1>7. CASE PushRejected
  BY <1>7 DEF PushRejected
<1>8. CASE Loops
  <2>1. run' \in Runs
    BY <1>8 DEF Loops, Runs, Phases, Repository
  <2>2. {scratch', own'} \subseteq Records
    BY <1>8 DEF Loops, NoObjects, Records
  <2> QED  BY <1>8, <2>1, <2>2 DEF Loops
<1>9. CASE WritesManifest
  BY <1>9 DEF WritesManifest, Addressed, Runs, Manifests
<1>10. CASE Stops
  BY <1>10, WorldAssumption DEF Stops
<1>11. CASE PushUnheard
  <2>1. run.making \in Repository
    BY <1>11 DEF PushUnheard, MakingInv, Repository
  <2>2. checkout[run.making].files \in Files
    BY <1>11 DEF PushUnheard, AdoptInv, Checkouts
  <2> QED  BY <1>11, <2>1, <2>2, WorldAssumption DEF PushUnheard
<1>12. CASE PlacesKey
  BY <1>12 DEF PlacesKey
<1>13. ASSUME NEW r \in Repository, NEW p \in Path, PersonPushes(r, p)
       PROVE  TypeOK'
  BY <1>13, StandingType, WorldAssumption DEF PersonPushes, Files
<1>14. ASSUME NEW r \in Repository, Joins(r)
       PROVE  TypeOK'
  BY <1>14 DEF Joins
<1>15. CASE HostWorks
  BY <1>15 DEF HostWorks, Records
<1>16. CASE UNCHANGED vars
  BY <1>16 DEF vars
<1> QED  BY <1>1, <1>2, <1>3, <1>4, <1>5, <1>6, <1>7, <1>8, <1>9, <1>10, <1>11, <1>12, <1>13,
            <1>14, <1>15, <1>16 DEF Next, RunSteps

-----------------------------------------------------------------------------
(* The steps, by what they do to a run *)

\* What a run goes through: a step of a run under way leads to one of these.
LEMMA RunPhases ==
  ASSUME TypeOK, [Next]_vars, run' # Idle, run' # run
  PROVE  \/ /\ run'.at = "opening" /\ run = Idle
            /\ \E built \in BOOLEAN, address \in {None, "named"} : Starts(built, address)
         \/ run'.at = "ticking" /\ (PutsNew \/ Loops)
         \/ run'.at = "performing" /\ Ticks
         \/ run'.at = "performed" /\ (Performs \/ Pushes)
         \/ run'.at = "adopting" /\ (Performs \/ Loops)
         \/ run'.at = "pushing" /\ Adopts
         \/ run'.at = "writing" /\ (Pushes \/ Loops)
<1> USE DEF TypeOK
<1>1. ASSUME NEW built \in BOOLEAN, NEW address \in {None, "named"}, Starts(built, address)
      PROVE  run'.at = "opening" /\ run = Idle
  BY <1>1 DEF Starts, Runs
<1>2. CASE PutsNew
  BY <1>2 DEF PutsNew, Runs
<1>3. CASE Ticks
  BY <1>3 DEF Ticks, Runs
<1>4. CASE Performs
  BY <1>4 DEF Performs, Runs
<1>5. CASE Adopts
  BY <1>5 DEF Adopts, Runs
<1>6. CASE Pushes
  BY <1>6 DEF Pushes, Names, Runs
<1>7. CASE Loops
  BY <1>7 DEF Loops, Runs
<1>8. CASE PushRejected \/ WritesManifest \/ Stops \/ PushUnheard
  BY <1>8 DEF PushRejected, WritesManifest, Stops, PushUnheard
<1>9. CASE PlacesKey \/ HostWorks \/ UNCHANGED vars
  BY <1>9 DEF PlacesKey, HostWorks, vars
<1>10. CASE \E r \in Repository, p \in Path : PersonPushes(r, p)
  BY <1>10 DEF PersonPushes
<1>11. CASE \E r \in Repository : Joins(r)
  BY <1>11 DEF Joins
<1> QED  BY <1>1, <1>2, <1>3, <1>4, <1>5, <1>6, <1>7, <1>8, <1>9, <1>10, <1>11 DEF Next, RunSteps

\* What a step that leaves a run as it is may do: the host's loop works on the
\* instance, a person pushes, the key is placed, the host joins.
LEMMA RunKept ==
  ASSUME TypeOK, [Next]_vars, run' = run, run # Idle
  PROVE  /\ UNCHANGED <<checkout, manifest, scratch>>
         /\ own' = own \/ (own.curation \in {"fresh", "moved"} /\ own' = [own EXCEPT !.curation = "worked"])
         /\ own' # own => "state" \in cloned
         /\ \/ UNCHANGED remote
            \/ \E r \in Repository, p \in Path : remote' = [remote EXCEPT ![r] = [Standing(r) EXCEPT ![p] = "person"]]
<1> USE DEF TypeOK
<1>1. ASSUME NEW built \in BOOLEAN, NEW address \in {None, "named"}, Starts(built, address)
      PROVE  FALSE
  BY <1>1 DEF Starts
<1>2. CASE PutsNew
  BY <1>2 DEF PutsNew, Runs
<1>3. CASE Ticks
  BY <1>3 DEF Ticks, Runs
<1>4. CASE Performs
  BY <1>4 DEF Performs, Runs
<1>5. CASE Adopts
  BY <1>5 DEF Adopts, Runs
<1>6. CASE Pushes
  BY <1>6 DEF Pushes, Names, Runs
<1>7. CASE Loops
  BY <1>7 DEF Loops, Runs
<1>8. CASE PushRejected \/ WritesManifest \/ Stops \/ PushUnheard
  BY <1>8 DEF PushRejected, WritesManifest, Stops, PushUnheard
<1>9. CASE PlacesKey \/ HostWorks \/ UNCHANGED vars
  BY <1>9 DEF PlacesKey, HostWorks, vars
<1>10. CASE \E r \in Repository, p \in Path : PersonPushes(r, p)
  BY <1>10 DEF PersonPushes
<1>11. CASE \E r \in Repository : Joins(r)
  BY <1>11 DEF Joins
<1> QED  BY <1>1, <1>2, <1>3, <1>4, <1>5, <1>6, <1>7, <1>8, <1>9, <1>10, <1>11 DEF Next, RunSteps

-----------------------------------------------------------------------------
(* The invariant *)

\* What people push meanwhile takes nothing from a repository.
LEMMA PushedWhole ==
  ASSUME TypeOK, NEW q \in Repository, NEW r \in Repository, NEW p \in Path, NEW x \in Path,
         remote' = [remote EXCEPT ![q] = [Standing(q) EXCEPT ![p] = "person"]],
         Standing(r)[x] # "absent"
  PROVE  Standing(r)'[x] # "absent"
<1>1. Standing(q) \in Files /\ [Standing(q) EXCEPT ![p] = "person"] \in Files
  BY StandingType DEF Files
<1>2. remote'[r] = IF r = q THEN [Standing(q) EXCEPT ![p] = "person"] ELSE remote[r]
  BY DEF TypeOK
<1> QED  BY <1>1, <1>2, WorldAssumption DEF Standing, Files

LEMMA AdoptStep ==
  ASSUME TypeOK, AdoptInv, MakingInv, [Next]_vars
  PROVE  AdoptInv'
<1> SUFFICES ASSUME run' # Idle, run'.at = "pushing"
             PROVE  AdoptInv'
  BY DEF AdoptInv
<1>1. CASE run' = run
  <2>1. checkout' = checkout
    BY <1>1, RunKept
  <2>2. PICK r \in Repository : r = run.making
    BY <1>1 DEF AdoptInv
  <2>3. ASSUME ~checkout[r].committed, NEW x \in Path, x \notin checkout[r].left
        PROVE  Standing(r)'[x] # "absent"
    <3>1. Standing(r)[x] # "absent"
      BY <1>1, <2>2, <2>3 DEF AdoptInv
    <3>2. CASE remote' = remote
      BY <3>1, <3>2 DEF Standing
    <3>3. ASSUME NEW q \in Repository, NEW p \in Path,
                 remote' = [remote EXCEPT ![q] = [Standing(q) EXCEPT ![p] = "person"]]
          PROVE  Standing(r)'[x] # "absent"
      BY <3>1, <3>3, PushedWhole
    <3> QED  BY <1>1, <3>2, <3>3, RunKept
  <2>4. checkout[r] \in Checkouts /\ checkout[r].files = Laid(checkout[r].base, checkout[r].left)
    BY <1>1, <2>2 DEF AdoptInv
  <2> QED  BY <1>1, <2>1, <2>2, <2>3, <2>4 DEF AdoptInv, Standing, Laid, Filled
<1>2. CASE run' # run
  <2>1. Adopts
    BY <1>2, RunPhases
  <2> DEFINE r == run.making
  <2>2. r \in Repository /\ run'.making = r /\ run \in Runs
    BY <2>1 DEF Adopts, MakingInv, Repository, TypeOK, Runs
  <2>3. PICK left \in SUBSET Path : checkout'[r] = CheckedOut(r, left)
    BY <2>1, <2>2 DEF Adopts, TypeOK
  <2>4. remote'[r] = Standing(r) /\ CheckedOut(r, left) \in Checkouts
    BY <2>1, <2>2, CheckedOutType DEF Adopts, TypeOK
  <2>5. Standing(r)' = Standing(r) /\ Standing(r) \in Files
    BY <2>2, <2>4, StandingType, WorldAssumption DEF Standing, Files
  <2>6. ~CheckedOut(r, left).committed => \A x \in Path : Standing(r)'[x] # "absent" \/ x \in left
    BY <2>5, LaidWhole DEF CheckedOut
  <2>7. /\ CheckedOut(r, left).left = left
        /\ CheckedOut(r, left).files = Laid(CheckedOut(r, left).base, left)
    BY DEF CheckedOut
  <2> QED  BY <2>2, <2>3, <2>4, <2>6, <2>7 DEF AdoptInv, Laid, Filled, Standing
<1> QED  BY <1>1, <1>2

LEMMA MakingStep ==
  ASSUME TypeOK, MakingInv, [Next]_vars
  PROVE  MakingInv'
<1> SUFFICES ASSUME run' # Idle, run'.at \in {"adopting", "pushing"}, run' # run
             PROVE  MakingInv'
  BY DEF MakingInv
<1> USE DEF TypeOK
<1>1. CASE Performs
  BY <1>1, WorldAssumption DEF Performs, RepositoryOf, MakingInv, Runs, Effect
<1>2. CASE Loops
  BY <1>2 DEF Loops, MakingInv, Runs
<1>3. CASE Adopts
  BY <1>3 DEF Adopts, MakingInv, Runs
<1> QED  BY <1>1, <1>2, <1>3, RunPhases

\* The passes end a run's loop only where a pass settles nothing more.
LEMMA LoopSettles ==
  ASSUME TypeOK, BoundInv, SettledInv, PassesInv, run # Idle, run.at = "performed", LoopEnds(Objects)
  PROVE  /\ StandsStill(Objects.instance) /\ ~run.moved /\ Objects.instance = run.before
         /\ run.bound
<1>1. run.moved \/ Objects.instance # run.before => run.passes <= 9
  <2>1. Level(Objects.instance) \in 0..5 /\ Facts(run.man) \in 0..4
    BY DEF Level, Facts
  <2> QED  BY <2>1 DEF PassesInv, TypeOK, Runs
<1>2. ~run.moved /\ Objects.instance = run.before
  BY <1>1, PassesAssumption, WorldAssumption DEF LoopEnds, TypeOK, Runs
<1>3. StandsStill(Objects.instance)
  BY <1>2 DEF SettledInv
<1>4. ~run.bound => FALSE
  BY <1>3, WorldAssumption DEF BoundInv, Objects, StandsStill, Early, State
<1> QED  BY <1>2, <1>3, <1>4 DEF TypeOK, Runs

LEMMA BoundStep ==
  ASSUME TypeOK, MakingInv, BoundInv, SettledInv, PassesInv, [Next]_vars
  PROVE  BoundInv'
<1> USE DEF TypeOK
<1>1. ASSUME NEW built \in BOOLEAN, NEW address \in {None, "named"}, Starts(built, address)
      PROVE  BoundInv'
  BY <1>1 DEF Starts, BoundInv, Objects, FreshManifest, Runs, Manifests
<1>2. CASE PutsNew
  <2> DEFINE i == IF Objects.instance = None THEN "absent" ELSE Objects.instance
             c == IF Objects.curation = None THEN "fresh" ELSE Objects.curation
  <2>1. i \in State /\ c # None /\ (Objects.instance # None => i = Objects.instance)
    BY ObjectsType, WorldAssumption DEF Records, State
  <2>2. run' = [run EXCEPT !.at = "ticking"] /\ manifest' = manifest /\ run \in Runs
    BY <1>2 DEF PutsNew
  <2>3. IF run.bound THEN own' = [instance |-> i, curation |-> c] /\ UNCHANGED scratch
                     ELSE scratch' = [instance |-> i, curation |-> c] /\ UNCHANGED own
    BY <1>2 DEF PutsNew, Keeps
  <2>4. i = "absent" \/ i = Objects.instance
    OBVIOUS
  <2> HIDE DEF i, c
  <2> QED  BY <1>2, <2>1, <2>2, <2>3, <2>4 DEF PutsNew, BoundInv, Objects, Early, Runs
<1>3. CASE Ticks
  <2> DEFINE to == MovesTo(Objects.instance, run.man, run.key)
  <2>1. Objects.instance \in State /\ Objects.curation # None /\ to \in State
    BY <1>3, MovesType DEF Ticks, BoundInv
  <2>2. /\ run'.bound = run.bound /\ run'.man = run.man /\ run'.at = "performing"
        /\ run' # Idle => run \in Runs
        /\ manifest' = manifest
    BY <1>3 DEF Ticks, Runs
  <2>3. \E others \in {Objects.curation, "moved"} :
          IF run.bound THEN own' = [instance |-> to, curation |-> others] /\ UNCHANGED scratch
                       ELSE scratch' = [instance |-> to, curation |-> others] /\ UNCHANGED own
    BY <1>3 DEF Ticks, Keeps
  <2>4. ~run.bound => to \in Early
    <3>1. ~run.bound => /\ Objects.instance \in {"absent", "blueprints-ready"}
                        /\ "state" \notin run.man.repositories
      BY <1>3, <2>1, WorldAssumption DEF Ticks, BoundInv, Objects, Early
    <3> QED  BY <3>1 DEF MovesTo, Early
  <2>5. run.bound /\ to \in {"awaiting-app", "connected", "hosted"} => run.man.app
    BY <1>3, <2>1 DEF Ticks, BoundInv, Objects, MovesTo, Installed
  <2> HIDE DEF to
  <2> QED  BY <1>3, <2>1, <2>2, <2>3, <2>4, <2>5, WorldAssumption DEF Ticks, BoundInv, Objects, Records
<1>4. CASE Performs
  <2>1. /\ run'.bound = run.bound /\ run'.man.repositories = run.man.repositories
        /\ run.man.app => run'.man.app
        /\ run.at = "performing"
    <3> run \in Runs /\ run.man \in Manifests
      BY <1>4 DEF Performs, Runs
    <3>1. \/ run'.man = run.man
          \/ run'.man = [run.man EXCEPT !.app = TRUE]
          \/ run'.man = [run.man EXCEPT !.address = IF @ = None THEN AddressAsked(run) ELSE @]
      BY <1>4 DEF Performs, Runs
    <3>2. run'.bound = run.bound /\ run.at = "performing"
      BY <1>4 DEF Performs, Runs
    <3> QED  BY <3>1, <3>2 DEF Manifests
  <2> QED  BY <1>4, <2>1 DEF Performs, BoundInv, Objects
<1>5. CASE Adopts
  BY <1>5 DEF Adopts, BoundInv, Objects, Runs
<1>6. CASE Pushes
  <2>1. /\ run'.bound = run.bound /\ run'.man.app = run.man.app
        /\ run'.man.repositories = run.man.repositories \cup {run.making}
        /\ run'.at = IF run.effect = None THEN "writing" ELSE "performed"
    BY <1>6 DEF Pushes, Names, Runs, Manifests
  <2>2. run.effect = None => run.making = "built"
    BY <1>6, WorldAssumption DEF Pushes, MakingInv, Effect
  <2> QED  BY <1>6, <2>1, <2>2 DEF Pushes, BoundInv, Objects
<1>7. CASE Loops
  <2>1. run'.bound = (run.bound \/ "state" \in run.man.repositories) /\ run'.man = run.man
    BY <1>7 DEF Loops, Runs
  <2>2. CASE LoopEnds(Objects)
    <3>1. run.bound
      BY <1>7, <2>2, LoopSettles DEF Loops
    <3> QED  BY <1>7, <2>1, <2>2, <3>1 DEF Loops, BoundInv, Objects, NoObjects, Early
  <2>3. CASE ~LoopEnds(Objects)
    BY <1>7, <2>1, <2>3, WorldAssumption DEF Loops, BoundInv, Objects, Early, State
  <2> QED  BY <2>2, <2>3
<1>8. CASE WritesManifest
  BY <1>8, WorldAssumption DEF WritesManifest, Addressed, BoundInv, SettledInv, StandsStill, Objects, Runs, Manifests
<1>9. CASE PushRejected \/ Stops \/ PushUnheard
  BY <1>9 DEF PushRejected, Stops, PushUnheard, BoundInv
<1>10. CASE PlacesKey \/ UNCHANGED vars
  BY <1>10 DEF PlacesKey, vars, BoundInv, Objects
<1>11. CASE HostWorks
  BY <1>11, WorldAssumption DEF HostWorks, BoundInv, Objects, Records
<1>12. CASE \E r \in Repository, p \in Path : PersonPushes(r, p)
  BY <1>12 DEF PersonPushes, BoundInv, Objects
<1>13. CASE \E r \in Repository : Joins(r)
  BY <1>13 DEF Joins, BoundInv, Objects
<1> QED  BY <1>1, <1>2, <1>3, <1>4, <1>5, <1>6, <1>7, <1>8, <1>9, <1>10, <1>11, <1>12, <1>13
         DEF Next, RunSteps

\* Whoever works on the record while a run goes on leaves the state of its machine.
LEMMA RecordKept ==
  ASSUME TypeOK, [Next]_vars, run' = run, run # Idle
  PROVE  /\ Objects.instance' = Objects.instance
         /\ own'.instance = own.instance
         /\ own.curation # None => own'.curation # None
BY RunKept, WorldAssumption DEF Objects, TypeOK, Records

LEMMA SettledStep ==
  ASSUME TypeOK, MakingInv, BoundInv, SettledInv, PassesInv, [Next]_vars
  PROVE  SettledInv'
<1> SUFFICES ASSUME run' # Idle
             PROVE  SettledInv'
  BY DEF SettledInv
<1> USE DEF TypeOK
<1>1. CASE run' = run
  BY <1>1, RecordKept DEF SettledInv, StandsStill, Objects
<1>2. ASSUME NEW built \in BOOLEAN, NEW address \in {None, "named"}, Starts(built, address)
      PROVE  SettledInv'
  BY <1>2 DEF Starts, SettledInv
<1>3. CASE PutsNew
  BY <1>3 DEF PutsNew, SettledInv, Runs
<1>4. CASE Ticks
  <2> DEFINE at == Objects.instance
             to == MovesTo(at, run.man, run.key)
             effect == EffectOf(at, run.man, run.key)
  <2>1. at \in State
    BY <1>4 DEF Ticks, BoundInv
  <2>2. /\ run' = [run EXCEPT !.at = "performing", !.before = at, !.moved = FALSE,
                              !.passes = @ + 1, !.effect = effect]
        /\ run \in Runs
    BY <1>4 DEF Ticks
  <2>3. IF run.bound THEN own'.instance = to ELSE scratch'.instance = to
    BY <1>4 DEF Ticks, Keeps
  <2>4. /\ run'.at = "performing" /\ run'.before = at /\ run'.moved = FALSE /\ run'.effect = effect
        /\ run'.man = run.man /\ run'.key = run.key /\ run'.bound = run.bound
    <3> HIDE DEF at, effect
    <3> QED  BY <2>2 DEF Runs
  <2>5. Objects.instance' = to
    BY <2>3, <2>4 DEF Objects, Records
  <2> QED  BY <2>1, <2>4, <2>5 DEF SettledInv
<1>5. CASE Performs
  <2> run # Idle /\ run \in Runs /\ run.at = "performing" /\ UNCHANGED <<own, scratch>>
    BY <1>5 DEF Performs
  <2>1. /\ run.before \in State /\ run.moved = FALSE
        /\ Objects.instance = MovesTo(run.before, run.man, run.key)
        /\ run.effect = EffectOf(run.before, run.man, run.key)
    BY DEF SettledInv
  <2>2. run'.bound = run.bound /\ run'.before = run.before /\ run'.key = run.key /\ run'.effect = run.effect
    BY <1>5 DEF Performs, Runs
  <2>3. Objects.instance' = Objects.instance
    BY <2>2 DEF Objects
  <2>4. ASSUME run'.at = "performed", ~run'.moved, Objects.instance = run.before
        PROVE  StandsStill(Objects.instance)
    <3>1. run.effect = CallsFor(run.before) /\ MovesTo(run.before, run.man, run.key) = run.before
      BY <2>1, <2>4 DEF EffectOf
    <3>2. CASE run.effect = None
      <4>1. run.before \in {"awaiting-app", "hosted"}
        BY <3>1, <3>2, <2>1, WorldAssumption DEF CallsFor, State, Effect
      <4>2. run.before = "awaiting-app" => run.man.app
        <5>1. run.before = "awaiting-app" => Objects.instance \notin Early
          BY <2>4, WorldAssumption DEF Early, State
        <5> QED  BY <5>1, <2>4 DEF BoundInv, Objects
      <4> QED  BY <4>1, <4>2, <3>1, <2>4 DEF StandsStill, MovesTo, Installed
    <3>3. CASE run.effect = "register_app"
      <4>1. run.man.app
        BY <1>5, <3>3, <2>4, WorldAssumption DEF Performs, Runs, Manifests, Effect
      <4>2. run.before = "state-ready"
        BY <3>1, <3>3, <2>1, WorldAssumption DEF CallsFor, State, Effect
      <4> QED  BY <4>1, <4>2, <3>1 DEF MovesTo
    <3>4. CASE run.effect = "register_host"
      <4>1. run.man.address # None
        BY <1>5, <3>4, <2>4, WorldAssumption DEF Performs, Runs, Manifests, Effect
      <4>2. run.before = "connected"
        BY <3>1, <3>4, <2>1, WorldAssumption DEF CallsFor, State, Effect
      <4> QED  BY <4>1, <4>2, <3>1 DEF MovesTo
    <3>5. CASE run.effect \in {"create_blueprints", "create_state"}
      <4>1. RepositoryOf(run.effect) \in run.man.repositories
        BY <1>5, <3>5, <2>4, WorldAssumption DEF Performs, Runs, Effect
      <4>2. \/ run.before = "absent" /\ "blueprints" \in run.man.repositories
            \/ run.before = "blueprints-ready" /\ "state" \in run.man.repositories
        BY <4>1, <3>1, <3>5, <2>1, WorldAssumption DEF CallsFor, State, Effect, RepositoryOf
      <4> QED  BY <4>2, <3>1 DEF MovesTo
    <3> QED  BY <1>5, <3>2, <3>3, <3>4, <3>5 DEF Performs
  <2>5. run'.at \in {"performed", "adopting"} /\ (run'.at = "adopting" => run'.effect # None)
    BY <1>5, WorldAssumption DEF Performs, Runs, Effect
  <2> QED  BY <2>2, <2>3, <2>4, <2>5 DEF SettledInv, StandsStill
<1>6. CASE Adopts
  BY <1>6 DEF Adopts, SettledInv, StandsStill, Objects, Runs
<1>7. CASE Pushes
  BY <1>7 DEF Pushes, Names, SettledInv, StandsStill, Objects, Runs
<1>8. CASE Loops
  <2>1. /\ run'.at \in {"ticking", "adopting", "writing"} /\ run'.effect = None /\ run'.key = run.key
        /\ run'.at # "ticking" <=> LoopEnds(Objects)
        /\ run'.bound = (run.bound \/ "state" \in run.man.repositories)
    BY <1>8 DEF Loops, Runs
  <2>2. CASE LoopEnds(Objects)
    <3>1. StandsStill(Objects.instance) /\ run.bound
      BY <1>8, <2>2, LoopSettles DEF Loops
    <3>2. own' = own
      BY <1>8, <3>1 DEF Loops
    <3> QED  BY <2>1, <3>1, <3>2 DEF SettledInv, StandsStill, Objects
  <2>3. CASE ~LoopEnds(Objects)
    BY <2>1, <2>3 DEF SettledInv
  <2> QED  BY <2>2, <2>3
<1> QED  BY <1>1, <1>2, <1>3, <1>4, <1>5, <1>6, <1>7, <1>8, RunPhases DEF Next, RunSteps

\* A move of the machine takes it further, and what is learnt is not forgotten.
LEMMA MovesUp ==
  ASSUME NEW state \in State, NEW man, NEW placed
  PROVE  LET to == MovesTo(state, man, placed)
         IN  /\ Level(state) \in Nat /\ Level(to) \in Nat
             /\ to # state => Level(state) + 1 <= Level(to)
BY DEF MovesTo, Level, State

LEMMA FactsUp ==
  ASSUME NEW man \in Manifests
  PROVE  /\ Facts(man) \in Nat
         /\ \A r \in {"blueprints", "state"} :
              r \notin man.repositories => Facts([man EXCEPT !.repositories = @ \cup {r}]) = Facts(man) + 1
         /\ Facts([man EXCEPT !.app = TRUE]) = IF man.app THEN Facts(man) ELSE Facts(man) + 1
         /\ \A a \in {"localhost", "named"} :
              man.address = None => Facts([man EXCEPT !.address = a]) = Facts(man) + 1
<1>1. Facts(man) \in Nat
  BY DEF Facts
<1>2. ASSUME NEW r \in {"blueprints", "state"}, r \notin man.repositories
      PROVE  Facts([man EXCEPT !.repositories = @ \cup {r}]) = Facts(man) + 1
  BY <1>2 DEF Facts, Manifests
<1>3. Facts([man EXCEPT !.app = TRUE]) = IF man.app THEN Facts(man) ELSE Facts(man) + 1
  <2>1. /\ [man EXCEPT !.app = TRUE].repositories = man.repositories
        /\ [man EXCEPT !.app = TRUE].address = man.address
        /\ [man EXCEPT !.app = TRUE].app = TRUE /\ man.app \in BOOLEAN
    BY DEF Manifests
  <2> QED  BY <2>1 DEF Facts
<1>4. ASSUME NEW a \in {"localhost", "named"}, man.address = None
      PROVE  Facts([man EXCEPT !.address = a]) = Facts(man) + 1
  <2>1. /\ [man EXCEPT !.address = a].repositories = man.repositories
        /\ [man EXCEPT !.address = a].address = a /\ a # None
        /\ [man EXCEPT !.address = a].app = man.app
    BY WorldAssumption DEF Manifests
  <2> QED  BY <2>1, <1>4 DEF Facts
<1> QED  BY <1>1, <1>2, <1>3, <1>4

LEMMA PassesStep ==
  ASSUME TypeOK, MakingInv, BoundInv, SettledInv, PassesInv, [Next]_vars
  PROVE  PassesInv'
<1> SUFFICES ASSUME run' # Idle
             PROVE  PassesInv'
  BY DEF PassesInv
<1> USE DEF TypeOK
<1>1. CASE run' = run
  BY <1>1, RecordKept DEF PassesInv
<1>2. ASSUME NEW built \in BOOLEAN, NEW address \in {None, "named"}, Starts(built, address)
      PROVE  PassesInv'
  BY <1>2 DEF Starts, PassesInv
<1>3. CASE PutsNew
  <2>1. run'.at = "ticking" /\ run'.passes = 0 /\ run'.man = run.man
    BY <1>3 DEF PutsNew, PassesInv, Runs
  <2>2. Level(Objects.instance)' \in Nat /\ Facts(run.man)' \in Nat
    BY DEF Level, Facts
  <2> QED  BY <2>1, <2>2 DEF PassesInv
<1>4. CASE Ticks
  <2>1. Objects.instance \in State /\ run # Idle /\ run.passes \in Nat
        /\ run.passes <= Level(Objects.instance) + Facts(run.man)
    BY <1>4 DEF Ticks, BoundInv, PassesInv, Runs
  <2>2. run'.at = "performing" /\ run'.passes = run.passes + 1 /\ run'.man = run.man
        /\ run'.before = Objects.instance
    <3> DEFINE before == Objects.instance
               effect == EffectOf(Objects.instance, run.man, run.key)
               passes == run.passes + 1
    <3>1. run' = [run EXCEPT !.at = "performing", !.before = before, !.moved = FALSE,
                             !.passes = passes, !.effect = effect] /\ run \in Runs
      BY <1>4 DEF Ticks
    <3> HIDE DEF before, effect, passes
    <3>2. run'.at = "performing" /\ run'.passes = passes /\ run'.man = run.man /\ run'.before = before
      BY <3>1 DEF Runs
    <3> QED  BY <3>2 DEF before, passes
  <2>3. Level(Objects.instance) \in Nat /\ Facts(run.man) \in Nat
    BY DEF Level, Facts
  <2> QED  BY <2>1, <2>2, <2>3 DEF PassesInv
<1>5. CASE Performs
  <2> run # Idle /\ run \in Runs /\ run.man \in Manifests /\ run.at = "performing" /\ UNCHANGED <<own, scratch>>
    BY <1>5 DEF Performs, Runs
  <2>1. /\ run.before \in State /\ run.moved = FALSE
        /\ Objects.instance = MovesTo(run.before, run.man, run.key)
        /\ run.passes <= Level(run.before) + Facts(run.man) + 1
    BY DEF SettledInv, PassesInv
  <2>2. run'.bound = run.bound /\ run'.before = run.before /\ run'.passes = run.passes /\ run.passes \in Nat
    BY <1>5 DEF Performs, Runs
  <2>3. Objects.instance' = Objects.instance
    BY <2>2 DEF Objects
  <2>4. /\ Level(run.before) \in Nat /\ Level(Objects.instance) \in Nat
        /\ Objects.instance # run.before => Level(run.before) + 1 <= Level(Objects.instance)
        /\ Level(run.before) <= Level(Objects.instance)
    BY <2>1, MovesUp
  <2>5. Facts(run.man) \in Nat
    BY DEF Facts
  <2>6. CASE run' = [run EXCEPT !.at = "performed"]
    <3>1. run'.at = "performed" /\ run'.moved = FALSE /\ run'.man = run.man
      BY <2>6, <2>1 DEF Runs
    <3> QED  BY <2>1, <2>2, <2>3, <2>4, <2>5, <3>1 DEF PassesInv
  <2>7. CASE run' = [run EXCEPT !.at = "performed", !.man.app = TRUE, !.moved = ~run.man.app]
    <3>1. run'.at = "performed" /\ run'.moved = ~run.man.app /\ run'.man = [run.man EXCEPT !.app = TRUE]
      BY <2>7 DEF Runs
    <3>2. CASE run.man.app
      <4>1. Facts(run'.man) = Facts(run.man) /\ ~run'.moved
        BY <3>1, <3>2, FactsUp
      <4> QED  BY <2>1, <2>2, <2>3, <2>4, <2>5, <3>1, <4>1 DEF PassesInv
    <3>3. CASE ~run.man.app
      <4>1. Facts(run'.man) = Facts(run.man) + 1
        BY <3>1, <3>3, FactsUp
      <4> QED  BY <2>1, <2>2, <2>3, <2>4, <2>5, <3>1, <4>1 DEF PassesInv
    <3> QED  BY <3>2, <3>3
  <2>8. CASE run' = [run EXCEPT !.at = "performed", !.moved = run.man.address = None,
                                !.man.address = IF @ = None THEN AddressAsked(run) ELSE @]
    <3>1. /\ run'.at = "performed" /\ run'.moved = (run.man.address = None)
          /\ run'.man = [run.man EXCEPT !.address = IF @ = None THEN AddressAsked(run) ELSE @]
      BY <2>8 DEF Runs
    <3>2. AddressAsked(run) # None
      BY WorldAssumption DEF AddressAsked, Runs
    <3>3. CASE run.man.address = None
      <4>1. AddressAsked(run) \in {"localhost", "named"} /\ run'.man = [run.man EXCEPT !.address = AddressAsked(run)]
        BY <3>1, <3>3 DEF AddressAsked, Runs
      <4>2. Facts(run'.man) = Facts(run.man) + 1
        BY <3>3, <4>1, FactsUp
      <4> QED  BY <2>1, <2>2, <2>3, <2>4, <2>5, <3>1, <4>2 DEF PassesInv
    <3>4. CASE run.man.address # None
      <4>1. run'.man = run.man /\ ~run'.moved
        BY <3>1, <3>4 DEF Manifests
      <4> QED  BY <2>1, <2>2, <2>3, <2>4, <2>5, <3>1, <4>1 DEF PassesInv
    <3> QED  BY <3>3, <3>4
  <2>9. CASE run' = [run EXCEPT !.at = "adopting", !.making = RepositoryOf(run.effect)]
    <3>1. run'.at = "adopting" /\ run'.man = run.man
      BY <2>9 DEF Runs
    <3> QED  BY <2>1, <2>2, <2>3, <2>4, <2>5, <3>1 DEF PassesInv
  <2> QED  BY <1>5, <2>6, <2>7, <2>8, <2>9 DEF Performs
<1>6. CASE Adopts
  BY <1>6 DEF Adopts, PassesInv, Objects, Runs
<1>7. CASE Pushes
  <2>1. /\ run'.bound = run.bound /\ run'.passes = run.passes /\ run.passes \in Nat
        /\ run'.man = [run.man EXCEPT !.repositories = @ \cup {run.making}]
        /\ run'.at = IF run.effect = None THEN "writing" ELSE "performed"
        /\ run.man \in Manifests
    BY <1>7 DEF Pushes, Names, Runs
  <2>2. run.effect # None => run.making \in {"blueprints", "state"} /\ run.making \notin run.man.repositories
    BY <1>7 DEF Pushes, MakingInv
  <2>3. run.effect # None => /\ Facts(run'.man) = Facts(run.man) + 1 /\ Facts(run.man) \in Nat
                             /\ run.passes <= Level(Objects.instance) + Facts(run.man) + 1
    <3>1. run.effect # None => Facts([run.man EXCEPT !.repositories = @ \cup {run.making}]) = Facts(run.man) + 1
      BY <2>1, <2>2, FactsUp
    <3>2. run.effect # None => run.passes <= Level(Objects.instance) + Facts(run.man) + 1
      BY <1>7 DEF Pushes, PassesInv
    <3> QED  BY <2>1, <3>1, <3>2, FactsUp
  <2>4. Objects.instance' = Objects.instance /\ Level(Objects.instance) \in Nat
    BY <1>7, <2>1 DEF Pushes, Objects, Level
  <2> QED  BY <2>1, <2>3, <2>4 DEF PassesInv
<1>8. CASE Loops
  <2>1. /\ run'.at \in {"ticking", "adopting", "writing"} /\ run'.effect = None
        /\ run'.at # "ticking" <=> LoopEnds(Objects)
        /\ run'.bound = (run.bound \/ "state" \in run.man.repositories)
        /\ run'.man = run.man /\ run'.passes = run.passes
    BY <1>8 DEF Loops, Runs
  <2>2. ~LoopEnds(Objects) => Objects.instance' = Objects.instance
    BY <1>8, <2>1 DEF Loops, Objects
  <2>3. ~LoopEnds(Objects) => run.passes <= Level(Objects.instance) + Facts(run.man)
    BY <1>8 DEF Loops, LoopEnds, PassesInv
  <2> QED  BY <2>1, <2>2, <2>3 DEF PassesInv
<1> QED  BY <1>1, <1>2, <1>3, <1>4, <1>5, <1>6, <1>7, <1>8, RunPhases DEF Next, RunSteps

LEMMA AgainStep ==
  ASSUME TypeOK, MakingInv, BoundInv, SettledInv, PassesInv, AgainInv, [Next]_vars
  PROVE  AgainInv'
<1> SUFFICES ASSUME run' # Idle, run'.again
             PROVE  AgainInv'
  BY DEF AgainInv
<1> USE DEF TypeOK
<1>1. CASE run' = run
  BY <1>1, RunKept, RecordKept DEF AgainInv
<1>2. ASSUME NEW built \in BOOLEAN, NEW address \in {None, "named"}, Starts(built, address)
      PROVE  AgainInv'
  BY <1>2, WorldAssumption DEF Starts, AgainInv, BoundInv, State
<1> DEFINE Over == /\ run # Idle /\ run.again /\ run \in Runs /\ run.bound /\ Objects = own
                   /\ own.instance = "hosted" /\ own.curation # None
                   /\ run.man = manifest /\ manifest # None /\ manifest.address # None
                   /\ run.built => "built" \in run.man.repositories
<1>3. CASE PutsNew
  <2>1. Over
    BY <1>3 DEF PutsNew, AgainInv, Objects, Runs
  <2>2. own' = [instance |-> "hosted", curation |-> own.curation] /\ run' = [run EXCEPT !.at = "ticking"]
    BY <1>3, <2>1, WorldAssumption DEF PutsNew, Keeps, State
  <2> QED  BY <1>3, <2>1, <2>2 DEF PutsNew, AgainInv, Runs
<1>4. CASE Ticks
  <2>1. Over
    <3>1. run'.again = run.again
      <4> DEFINE before == Objects.instance
                 effect == EffectOf(Objects.instance, run.man, run.key)
                 passes == run.passes + 1
      <4>1. run' = [run EXCEPT !.at = "performing", !.before = before, !.moved = FALSE,
                               !.passes = passes, !.effect = effect] /\ run \in Runs
        BY <1>4 DEF Ticks
      <4> HIDE DEF before, effect, passes
      <4> QED  BY <4>1 DEF Runs
    <3> QED  BY <1>4, <3>1 DEF Ticks, AgainInv, Objects
  <2>2. MovesTo("hosted", run.man, run.key) = "hosted" /\ EffectOf("hosted", run.man, run.key) = None
    BY DEF MovesTo, EffectOf, CallsFor
  <2>3. (\E others \in {own.curation, "moved"} : own' = [instance |-> "hosted", curation |-> others])
        /\ run' = [run EXCEPT !.at = "performing", !.before = "hosted", !.moved = FALSE,
                              !.passes = @ + 1, !.effect = None]
    BY <1>4, <2>1, <2>2 DEF Ticks, Keeps
  <2>4. own'.instance = "hosted" /\ own'.curation # None
    BY <2>1, <2>3, WorldAssumption
  <2>5. /\ run'.at = "performing" /\ run'.effect = None /\ run'.man = run.man
        /\ run'.bound = run.bound /\ run'.built = run.built
    BY <2>1, <2>3 DEF Runs
  <2> QED  BY <1>4, <2>1, <2>4, <2>5 DEF Ticks, AgainInv
<1>5. CASE Performs
  <2>1. Over
    BY <1>5 DEF Performs, AgainInv, Objects, Runs
  <2>2. run' = [run EXCEPT !.at = "performed"]
    BY <1>5, <2>1, WorldAssumption DEF Performs, AgainInv, Effect
  <2> QED  BY <1>5, <2>1, <2>2 DEF Performs, AgainInv, Runs
<1>6. CASE Adopts
  BY <1>6 DEF Adopts, AgainInv, Runs
<1>7. CASE Pushes
  BY <1>7 DEF Pushes, Names, AgainInv, Runs
<1>8. CASE Loops
  <2>1. Over
    BY <1>8 DEF Loops, AgainInv, Objects, Runs
  <2>2. own' = own /\ manifest' = manifest
    BY <1>8, <2>1 DEF Loops
  <2>3. /\ run'.man = run.man /\ run'.built = run.built /\ run'.bound
        /\ run'.at \in {"ticking", "writing"}
    BY <1>8, <2>1 DEF Loops, Runs
  <2> QED  BY <2>1, <2>2, <2>3 DEF AgainInv
<1> QED  BY <1>1, <1>2, <1>3, <1>4, <1>5, <1>6, <1>7, <1>8, RunPhases DEF Next, RunSteps

LEMMA StandStep ==
  ASSUME TypeOK, BoundInv, SettledInv, StandInv, [Next]_vars
  PROVE  StandInv'
<1> USE DEF TypeOK
<1>1. ASSUME NEW built \in BOOLEAN, NEW address \in {None, "named"}, Starts(built, address)
      PROVE  StandInv'
  BY <1>1 DEF Starts, StandInv, BoundInv
<1>2. CASE PutsNew
  BY <1>2, WorldAssumption DEF PutsNew, Keeps, StandInv, Runs, State
<1>3. CASE Ticks
  <2>1. Objects.instance # None /\ MovesTo(Objects.instance, run.man, run.key) # None
    BY <1>3, MovesType, WorldAssumption DEF Ticks, BoundInv
  <2>2. run'.bound = run.bound /\ manifest' = manifest
    BY <1>3 DEF Ticks, Runs
  <2>3. own'.instance = own.instance \/ own'.instance = MovesTo(Objects.instance, run.man, run.key)
    BY <1>3 DEF Ticks, Keeps
  <2> QED  BY <1>3, <2>1, <2>2, <2>3 DEF Ticks, StandInv
<1>4. CASE Performs
  BY <1>4 DEF Performs, StandInv, Runs
<1>5. CASE Adopts
  BY <1>5 DEF Adopts, StandInv, Runs
<1>6. CASE Pushes
  BY <1>6 DEF Pushes, Names, StandInv, Runs
<1>7. CASE Loops
  BY <1>7 DEF Loops, StandInv, Runs
<1>8. CASE WritesManifest
  BY <1>8, WorldAssumption DEF WritesManifest, StandInv, SettledInv, StandsStill, State
<1>9. CASE PushRejected \/ Stops \/ PushUnheard \/ PlacesKey \/ UNCHANGED vars
  BY <1>9 DEF PushRejected, Stops, PushUnheard, PlacesKey, vars, StandInv
<1>10. CASE HostWorks
  BY <1>10 DEF HostWorks, StandInv, Records
<1>11. CASE \E r \in Repository, p \in Path : PersonPushes(r, p)
  BY <1>11 DEF PersonPushes, StandInv
<1>12. CASE \E r \in Repository : Joins(r)
  BY <1>12 DEF Joins, StandInv
<1> QED  BY <1>1, <1>2, <1>3, <1>4, <1>5, <1>6, <1>7, <1>8, <1>9, <1>10, <1>11, <1>12 DEF Next, RunSteps

-----------------------------------------------------------------------------
(* Theorems *)

AdoptionInv == TypeOK /\ AdoptInv /\ MakingInv

LEMMA AdoptionStart == Init => AdoptionInv
<1> SUFFICES ASSUME Init PROVE AdoptionInv
  OBVIOUS
<1>1. edits \in 0..MaxEdits /\ faults \in 0..MaxFaults
  BY WorldAssumption DEF Init
<1>2. {scratch, own} \subseteq Records /\ cloned \subseteq Repository
  BY DEF Init, Records, NoObjects
<1>3. /\ remote \in [Repository -> Files \cup {None}] /\ checkout \in [Repository -> Checkouts \cup {None}]
      /\ manifest = None /\ run = Idle /\ key \in BOOLEAN
  BY DEF Init
<1> QED  BY <1>1, <1>2, <1>3 DEF AdoptionInv, TypeOK, AdoptInv, MakingInv

LEMMA AdoptionStep == AdoptionInv /\ [Next]_vars => AdoptionInv'
BY TypeStep, AdoptStep, MakingStep DEF AdoptionInv

LEMMA AdoptionHolds == Spec => []AdoptionInv
BY AdoptionStart, AdoptionStep, PTL DEF Spec

\* Every variable of the bootstrap has its type.
THEOREM WorldTyped == Spec => []TypeOK
<1>1. AdoptionInv => TypeOK
  BY DEF AdoptionInv
<1> QED  BY <1>1, AdoptionHolds, PTL

\* What a person put in a repository is never overwritten.
LEMMA PushKeeps ==
  ASSUME AdoptionInv, NEW r \in Repository, NEW p \in Path, Standing(r)[p] = "person",
         run # Idle, run.at = "pushing", checkout[run.making].committed,
         remote[run.making] = checkout[run.making].base,
         remote' = [remote EXCEPT ![run.making] = checkout[run.making].files]
  PROVE  Standing(r)'[p] = "person"
<1> DEFINE c == checkout[run.making]
<1>1. run.making \in Repository /\ c \in Checkouts /\ c.files = Laid(c.base, c.left)
  BY DEF AdoptionInv, AdoptInv
<1>2. c.base \in Files /\ c.files \in Files /\ c.files # None /\ c.base # None
  BY <1>1, WorldAssumption DEF Checkouts, Files
<1>3. CASE r = run.making
  <2>1. Standing(r) = c.base
    BY <1>2, <1>3 DEF Standing
  <2>2. Laid(c.base, c.left)[p] = "person"
    BY <1>1, <1>2, <2>1, LaidWhole DEF Checkouts
  <2>3. remote'[r] = c.files
    BY <1>1, <1>3 DEF AdoptionInv, TypeOK
  <2> QED  BY <1>1, <1>2, <2>2, <2>3 DEF Standing
<1>4. CASE r # run.making
  <2>1. remote'[r] = remote[r]
    BY <1>4 DEF AdoptionInv, TypeOK
  <2> QED  BY <2>1 DEF Standing
<1> QED  BY <1>3, <1>4

\* Adoption rewrites nothing: what a person put in a repository stands, for any
\* paths, stops and commits (bootstrap.rs: what is missing is added).
THEOREM AdoptionIsAddition == Spec => AdoptionRewritesNothing
<1>1. ASSUME AdoptionInv, [Next]_vars, NEW r \in Repository, NEW p \in Path, Standing(r)[p] = "person"
      PROVE  Standing(r)'[p] = "person"
  <2> USE <1>1
  <2>1. CASE remote' = remote
    BY <2>1 DEF Standing
  <2>2. CASE Adopts
    <3>1. Standing(run.making) \in Files /\ Standing(run.making) # None /\ run.making \in Repository
      BY <2>2, StandingType, WorldAssumption DEF Adopts, AdoptionInv, MakingInv, Files, Repository
    <3>2. remote'[r] = IF r = run.making THEN Standing(r) ELSE remote[r]
      BY <2>2 DEF Adopts, AdoptionInv, TypeOK
    <3> QED  BY <3>1, <3>2 DEF Standing
  <2>3. CASE (Pushes \/ PushUnheard) /\ remote' # remote
    BY <2>3, PushKeeps DEF Pushes, PushUnheard
  <2>4. ASSUME NEW q \in Repository, NEW x \in Path, PersonPushes(q, x)
        PROVE  Standing(r)'[p] = "person"
    <3>1. Standing(q) \in Files /\ [Standing(q) EXCEPT ![x] = "person"] \in Files
      BY StandingType DEF AdoptionInv, Files
    <3>2. remote'[r] = IF r = q THEN [Standing(q) EXCEPT ![x] = "person"] ELSE remote[r]
      BY <2>4 DEF PersonPushes, AdoptionInv, TypeOK
    <3> QED  BY <3>1, <3>2, WorldAssumption DEF Standing, Files
  <2> QED
    BY <2>1, <2>2, <2>3, <2>4
    DEF Next, RunSteps, Starts, PutsNew, Ticks, Performs, PushRejected, Loops, WritesManifest, Stops, PlacesKey,
        Joins, HostWorks, vars
<1>2. AdoptionInv /\ [Next]_vars
        => [\A r \in Repository, p \in Path : Standing(r)[p] = "person" => Standing(r)'[p] = "person"]_remote
  BY <1>1
<1> QED  BY <1>2, AdoptionHolds, PTL DEF Spec, AdoptionRewritesNothing

\* A repository is named with the whole of what its template requires, but for
\* what the commit of that very adoption left out, however many runs were stopped
\* over it.
THEOREM NamedHolds == Spec => NamedHoldsItsTemplate
<1> DEFINE Named == \A r \in Repository :
                      run # Idle /\ run' # Idle /\ r \in run'.man.repositories \ run.man.repositories
                        => \A p \in Path : Standing(r)'[p] # "absent" \/ p \in checkout[r].left
<1>1. ASSUME AdoptionInv, [Next]_vars
      PROVE  Named
  <2> SUFFICES ASSUME NEW r \in Repository, run # Idle, run' # Idle,
                      r \in run'.man.repositories, r \notin run.man.repositories
               PROVE  \A p \in Path : Standing(r)'[p] # "absent" \/ p \in checkout[r].left
    OBVIOUS
  <2> USE <1>1 DEF AdoptionInv, TypeOK
  <2>1. CASE Pushes
    <3> DEFINE c == checkout[run.making]
    <3>1. r = run.making
      BY <2>1 DEF Pushes, Names, Runs, Manifests
    <3>2. /\ c.files = Laid(c.base, c.left) /\ c.base \in Files /\ c.left \in SUBSET Path
          /\ c.files # None
      BY <2>1, LaidWhole, WorldAssumption DEF Pushes, AdoptInv, Checkouts, Files
    <3>3. CASE c.committed
      <4>1. remote'[r] = c.files
        BY <2>1, <3>1, <3>3 DEF Pushes
      <4> QED  BY <3>1, <3>2, <4>1, LaidWhole DEF Standing
    <3>4. CASE ~c.committed
      BY <2>1, <3>1, <3>4 DEF Pushes, AdoptInv, Standing
    <3> QED  BY <3>3, <3>4
  <2>2. CASE ~Pushes
    <3>1. run'.man.repositories = run.man.repositories
      <4>1. CASE PutsNew \/ Adopts \/ Loops
        BY <4>1 DEF PutsNew, Adopts, Loops, Runs
      <4>2. CASE Ticks
        <5> DEFINE before == Objects.instance
                   effect == EffectOf(Objects.instance, run.man, run.key)
                   passes == run.passes + 1
        <5>1. run' = [run EXCEPT !.at = "performing", !.before = before, !.moved = FALSE,
                                 !.passes = passes, !.effect = effect] /\ run \in Runs
          BY <4>2 DEF Ticks
        <5> HIDE DEF before, effect, passes
        <5> QED  BY <5>1 DEF Runs
      <4>3. CASE Performs
        <5>1. run \in Runs /\ run.man \in Manifests
          BY <4>3 DEF Performs, Runs
        <5>2. \/ run'.man = run.man
              \/ run'.man = [run.man EXCEPT !.app = TRUE]
              \/ run'.man = [run.man EXCEPT !.address = IF @ = None THEN AddressAsked(run) ELSE @]
          BY <4>3, <5>1 DEF Performs, Runs
        <5> QED  BY <5>1, <5>2 DEF Manifests
      <4> QED  BY <2>2, <4>1, <4>2, <4>3, RunPhases
    <3> QED  BY <3>1
  <2> QED  BY <2>1, <2>2
<1>2. AdoptionInv /\ [Next]_vars => [Named]_vars
  BY <1>1
<1> QED  BY <1>2, AdoptionHolds, PTL DEF Spec, NamedHoldsItsTemplate

LEMMA WorldStart == Init => WorldInv
<1> SUFFICES ASSUME Init PROVE WorldInv
  OBVIOUS
<1>1. AdoptionInv
  BY AdoptionStart
<1> QED  BY <1>1, WorldAssumption
         DEF Init, WorldInv, AdoptionInv, BoundInv, SettledInv, PassesInv, AgainInv, StandInv, NoObjects, Early

LEMMA WorldStep == WorldInv /\ [Next]_vars => WorldInv'
BY TypeStep, AdoptStep, MakingStep, BoundStep, SettledStep, PassesStep, AgainStep, StandStep DEF WorldInv

LEMMA WorldHolds == Spec => []WorldInv
BY WorldStart, WorldStep, PTL DEF Spec

\* A run that was not stopped leaves the instance hosted, or at the decision
\* that asks for its key, with a manifest that names its state and its App.
THEOREM RunsFinish == Spec => RunFinishes
<1> DEFINE Finish == run # Idle /\ run.at = "writing" /\ run' = Idle /\ UNCHANGED faults
                       => /\ own.instance = "hosted" \/ (~run.key /\ own.instance = "awaiting-app")
                          /\ "state" \in manifest'.repositories /\ manifest'.app
<1>1. ASSUME WorldInv, [Next]_vars
      PROVE  Finish
  <2> SUFFICES ASSUME run # Idle, run.at = "writing", run' = Idle, UNCHANGED faults
               PROVE  /\ own.instance = "hosted" \/ (~run.key /\ own.instance = "awaiting-app")
                      /\ "state" \in manifest'.repositories /\ manifest'.app
    OBVIOUS
  <2> USE <1>1 DEF WorldInv
  <2>1. WritesManifest
    BY DEF TypeOK, Next, RunSteps, Starts, PutsNew, Ticks, Performs, Adopts, Pushes, PushRejected, Loops, Stops,
           PushUnheard, PlacesKey, PersonPushes, Joins, HostWorks, vars
  <2>2. run.bound /\ StandsStill(own.instance)
    BY DEF SettledInv
  <2>3. "state" \in run.man.repositories /\ run.man.app
    BY <2>2 DEF StandsStill, BoundInv
  <2>4. /\ manifest'.repositories = run.man.repositories
        /\ manifest'.app = run.man.app
    BY <2>1 DEF WritesManifest, Addressed, TypeOK, Runs, Manifests
  <2> QED  BY <2>2, <2>3, <2>4 DEF StandsStill
<1>2. WorldInv /\ [Next]_vars => [Finish]_vars
  BY <1>1
<1> QED  BY <1>2, WorldHolds, PTL DEF Spec, RunFinishes

\* Once a manifest stands no run takes the instance's record back, and one over a
\* hosted instance, asked for nothing new, changes no repository and nothing in
\* the manifest but the address it is given.
THEOREM NothingTakenBack == Spec => RunsTakeNothingBack
<1> DEFINE Kept == run # Idle /\ run' # run =>
                     /\ manifest # None =>
                          /\ own'.instance \in {own.instance, MovesTo(own.instance, run.man, run.key)}
                          /\ own.curation \in {"worked", "moved"} => own'.curation \in {"worked", "moved"}
                     /\ run.again =>
                          /\ UNCHANGED remote
                          /\ manifest' # manifest => manifest' = [manifest EXCEPT !.address = run.address]
<1>1. ASSUME WorldInv, [Next]_vars
      PROVE  Kept
  <2> SUFFICES ASSUME run # Idle, run' # run
               PROVE  Kept
    OBVIOUS
  <2> USE <1>1 DEF WorldInv
  <2>1. ASSUME manifest # None
        PROVE  /\ own'.instance \in {own.instance, MovesTo(own.instance, run.man, run.key)}
               /\ own.curation \in {"worked", "moved"} => own'.curation \in {"worked", "moved"}
    <3>1. own.instance # None /\ own.curation # None /\ run.bound /\ Objects = own
      BY <2>1 DEF StandInv, BoundInv, Objects
    <3>2. CASE PutsNew
      BY <3>1, <3>2 DEF PutsNew, Keeps
    <3>3. CASE Ticks
      BY <3>1, <3>3 DEF Ticks, Keeps
    <3>4. CASE Loops
      BY <3>1, <3>4 DEF Loops
    <3> QED
      BY <3>2, <3>3, <3>4
      DEF Next, RunSteps, Starts, Performs, Adopts, Pushes, PushRejected, WritesManifest, Stops, PushUnheard,
          PlacesKey, PersonPushes, Joins, HostWorks, vars
  <2>2. ASSUME run.again
        PROVE  /\ UNCHANGED remote
               /\ manifest' # manifest => manifest' = [manifest EXCEPT !.address = run.address]
    <3>1. run.man = manifest /\ run.at \notin {"adopting", "pushing"}
      BY <2>2 DEF AgainInv
    <3>2. CASE WritesManifest
      BY <3>1, <3>2 DEF WritesManifest, Addressed
    <3> QED
      BY <3>1, <3>2
      DEF Next, RunSteps, Starts, PutsNew, Ticks, Performs, Adopts, Pushes, PushRejected, Loops, Stops,
          PushUnheard, PlacesKey, PersonPushes, Joins, HostWorks, vars
  <2> QED  BY <2>1, <2>2
<1>2. WorldInv /\ [Next]_vars => [Kept]_vars
  BY <1>1
<1> QED  BY <1>2, WorldHolds, PTL DEF Spec, RunsTakeNothingBack
=============================================================================
