------------------------------- MODULE World -------------------------------
(***************************************************************************)
(* The bootstrap of an instance: `flywheel init` drives the instance's own *)
(* machine (definitions/instance.yaml) against the git host, and keeps what *)
(* it learns in the manifest, which it writes once, when it has finished   *)
(* (flywheel/src/init.rs, flywheel-world-host bootstrap.rs, effects.rs).   *)
(* `flywheel host join` then clones what the manifest names (join.rs).     *)
(*                                                                         *)
(* The machine's record is kept in a scratch repository until the          *)
(* instance's own state repository stands, and is seeded there then.  A    *)
(* run may be stopped anywhere, and is run again by the operator.  People  *)
(* push to the repositories it adopts while it adopts them.                *)
(***************************************************************************)
EXTENDS Naturals, FiniteSets

CONSTANTS
  Path,       \* the paths a template requires
  None,       \* no repository, no checkout, no manifest, no object, no effect
  Idle,       \* no run under way
  MaxPasses,  \* the passes of one run: 12
  MaxEdits,   \* bound: the commits people make
  MaxFaults   \* bound: the stops, the pushes not heard, the commits that leave something out

VARIABLES
  remote,    \* the git host: for each repository, what stands at each path
  checkout,  \* under the root's scratch directory: a repository being adopted
  manifest,  \* flywheel.yaml as it stands on disk
  scratch,   \* the objects in the scratch repository
  own,       \* the objects in the instance's own state repository
  key,       \* the App's key is where the manifest says
  cloned,    \* what the host has cloned under its root
  run,       \* the run under way
  edits, faults

vars == <<remote, checkout, manifest, scratch, own, key, cloned, run, edits, faults>>

Repository == {"state", "blueprints", "built"}

\* The order a join takes them in (all_repositories).
Before(r) == CASE r = "state" -> {} [] r = "blueprints" -> {"state"} [] OTHER -> {"state", "blueprints"}

Empty == [p \in Path |-> "absent"]

State == {"absent", "blueprints-ready", "state-ready", "awaiting-app", "connected", "hosted"}

Effect == {"create_blueprints", "create_state", "register_app", "register_host"}

ASSUME WorldAssumption ==
  /\ {MaxPasses, MaxEdits, MaxFaults} \subseteq Nat
  /\ None \notin State \cup Effect \cup {"localhost", "named", "fresh", "worked", "moved"}
  /\ None \notin [Path -> {"absent", "template", "person"}]

\* A run has a pass for each move of the machine and each fact it learns.
ASSUME PassesAssumption == MaxPasses >= 10

\* The instance's record, and the other objects of the store with their leases
\* and their status: as they were put, worked on by a host, or moved by a tick.
NoObjects == [instance |-> None, curation |-> None]

FreshManifest == [repositories |-> {}, app |-> FALSE, address |-> None]

-----------------------------------------------------------------------------
(* The instance's machine *)

\* Mutant: a key in hand is an installation.
Installed_ByKey(man, placed) == placed

\* app_installed: seen for a recorded App and for no other.
Installed(man, placed) == man.app /\ placed

\* The state the evidence moves the machine to, or the one it is in.
MovesTo(state, man, placed) ==
  CASE state = "absent" /\ "blueprints" \in man.repositories -> "blueprints-ready"
    [] state = "blueprints-ready" /\ "state" \in man.repositories -> "state-ready"
    [] state = "state-ready" /\ Installed(man, placed) -> "connected"
    [] state = "state-ready" /\ man.app /\ ~Installed(man, placed) -> "awaiting-app"
    [] state = "awaiting-app" /\ Installed(man, placed) -> "connected"
    [] state = "connected" /\ man.address # None -> "hosted"
    [] OTHER -> state

\* The effect a state calls back for as long as it is not left.
CallsFor(state) ==
  CASE state = "absent" -> "create_blueprints"
    [] state = "blueprints-ready" -> "create_state"
    [] state = "state-ready" -> "register_app"
    [] state = "connected" -> "register_host"
    [] OTHER -> None

\* Mutant: the effect is called when its state is entered, and not again.
EffectOf_OnEntry(state, man, placed) ==
  LET to == MovesTo(state, man, placed) IN IF to # state THEN CallsFor(to) ELSE None

\* tick_settled: one move at most, and then the effect of the state it leads to
\* unless that one is to be left as well.
EffectOf(state, man, placed) ==
  LET to == MovesTo(state, man, placed)
  IN  IF MovesTo(to, man, placed) = to THEN CallsFor(to) ELSE None

RepositoryOf(effect) == IF effect = "create_state" THEN "state" ELSE "blueprints"

-----------------------------------------------------------------------------
(* A run: its records *)

Objects == IF run.bound THEN own ELSE scratch

Keeps(objects) ==
  IF run.bound THEN own' = objects /\ UNCHANGED scratch ELSE scratch' = objects /\ UNCHANGED own

\* The manifest an earlier run left, or a fresh one, and the store of the record.
Starts(built, address) ==
  /\ run = Idle
  /\ LET man == IF manifest = None THEN FreshManifest ELSE manifest
     IN  run' = [at |-> "opening", man |-> man, key |-> key, built |-> built, address |-> address,
                 bound |-> "state" \in man.repositories, passes |-> 0, effect |-> None, before |-> None,
                 moved |-> FALSE, making |-> None,
                 again |-> /\ manifest # None /\ own.instance = "hosted" /\ man.address # None
                           /\ built => "built" \in man.repositories]
  /\ UNCHANGED <<remote, checkout, manifest, scratch, own, key, cloned, edits, faults>>

\* Mutant: the records are put whatever stands.
PutsNew_Always ==
  /\ run # Idle /\ run.at = "opening"
  /\ Keeps([instance |-> "absent", curation |-> "fresh"])
  /\ run' = [run EXCEPT !.at = "ticking"]
  /\ UNCHANGED <<remote, checkout, manifest, key, cloned, edits, faults>>

\* put_new for the instance and for its singletons, each where it is absent.
PutsNew ==
  /\ run # Idle /\ run.at = "opening"
  /\ Keeps([instance |-> IF Objects.instance = None THEN "absent" ELSE Objects.instance,
            curation |-> IF Objects.curation = None THEN "fresh" ELSE Objects.curation])
  /\ run' = [run EXCEPT !.at = "ticking"]
  /\ UNCHANGED <<remote, checkout, manifest, key, cloned, edits, faults>>

\* tick_settled ticks the whole store: beside the instance every object in it
\* may move, and leases and status are written.
Ticks ==
  /\ run # Idle /\ run.at = "ticking"
  /\ \E others \in {Objects.curation, "moved"} :
       Keeps([instance |-> MovesTo(Objects.instance, run.man, run.key), curation |-> others])
  /\ run' = [run EXCEPT !.at = "performing", !.before = Objects.instance, !.moved = FALSE,
                        !.passes = @ + 1, !.effect = EffectOf(Objects.instance, run.man, run.key)]
  /\ UNCHANGED <<remote, checkout, manifest, key, cloned, edits, faults>>

AddressAsked(r) == IF r.address = None THEN "localhost" ELSE r.address

\* perform, for what does not reach the git host or is proved already.
Performs ==
  /\ run # Idle /\ run.at = "performing"
  /\ \/ /\ run.effect = None
        /\ run' = [run EXCEPT !.at = "performed"]
     \/ /\ run.effect = "register_app"
        /\ run' = [run EXCEPT !.at = "performed", !.man.app = TRUE, !.moved = ~run.man.app]
     \/ /\ run.effect = "register_host"
        /\ run' = [run EXCEPT !.at = "performed", !.moved = run.man.address = None,
                              !.man.address = IF @ = None THEN AddressAsked(run) ELSE @]
     \/ /\ run.effect \in {"create_blueprints", "create_state"}
        /\ run' = IF RepositoryOf(run.effect) \in run.man.repositories
                    THEN [run EXCEPT !.at = "performed"]
                    ELSE [run EXCEPT !.at = "adopting", !.making = RepositoryOf(run.effect)]
  /\ UNCHANGED <<remote, checkout, manifest, scratch, own, key, cloned, edits, faults>>

-----------------------------------------------------------------------------
(* A run: create_or_adopt *)

Standing(r) == IF remote[r] = None THEN Empty ELSE remote[r]

\* Mutant: the template is written over what stands.
Filled_Over(files) == [p \in Path |-> "template"]

\* What is missing is added, and nothing that stands is rewritten.
Filled(files) == [p \in Path |-> IF files[p] = "absent" THEN "template" ELSE files[p]]

\* The template laid over what stands, without what the commit leaves out.
Laid(files, left) == [p \in Path |-> IF p \in left THEN files[p] ELSE Filled(files)[p]]

\* Mutant: a checkout an earlier run left is taken as it is.
CheckedOut_Left(r, left) ==
  IF checkout[r] # None THEN [checkout[r] EXCEPT !.committed = FALSE]
  ELSE [base |-> Standing(r), files |-> Laid(Standing(r), left), left |-> left,
        committed |-> Laid(Standing(r), left) # Standing(r)]

\* The scratch checkout made anew, with the template's commit where there was
\* anything to commit.
CheckedOut(r, left) ==
  [base |-> Standing(r), files |-> Laid(Standing(r), left), left |-> left,
   committed |-> Laid(Standing(r), left) # Standing(r)]

\* A commit may leave out what was missing: the whole of it where git refuses
\* the commit, and what the repository's own .gitignore names.  A commit that
\* fails is taken for one with nothing to say, and the run goes on.
Adopts ==
  /\ run # Idle /\ run.at = "adopting"
  /\ remote' = [remote EXCEPT ![run.making] = Standing(run.making)]
  /\ \E left \in SUBSET {p \in Path : Standing(run.making)[p] = "absent"} :
       /\ IF left = {} THEN UNCHANGED faults ELSE faults < MaxFaults /\ faults' = faults + 1
       /\ checkout' = [checkout EXCEPT ![run.making] = CheckedOut(run.making, left)]
  /\ run' = [run EXCEPT !.at = "pushing"]
  /\ UNCHANGED <<manifest, scratch, own, key, cloned, edits>>

\* The repository is named from here on, and the run goes on where it was.
Names(r) ==
  run' = [run EXCEPT !.at = IF run.effect = None THEN "writing" ELSE "performed",
                     !.man.repositories = @ \cup {r}, !.moved = TRUE, !.making = None]

\* The push lands, or nothing was committed and nothing is pushed; the checkout
\* is removed.
Pushes ==
  /\ run # Idle /\ run.at = "pushing"
  /\ LET r == run.making
     IN  /\ \/ ~checkout[r].committed /\ UNCHANGED remote
            \/ /\ checkout[r].committed /\ remote[r] = checkout[r].base
               /\ remote' = [remote EXCEPT ![r] = checkout[r].files]
         /\ checkout' = [checkout EXCEPT ![r] = None]
         /\ Names(r)
  /\ UNCHANGED <<manifest, scratch, own, key, cloned, edits, faults>>

\* Someone pushed since it was cloned: the run fails where it is.
PushRejected ==
  /\ run # Idle /\ run.at = "pushing"
  /\ checkout[run.making].committed /\ remote[run.making] # checkout[run.making].base
  /\ run' = Idle
  /\ UNCHANGED <<remote, checkout, manifest, scratch, own, key, cloned, edits, faults>>

-----------------------------------------------------------------------------
(* A run: the loop, and what follows it *)

\* A pass that performed nothing and moved nothing is the last.
LoopEnds(objects) == (~run.moved /\ objects.instance = run.before) \/ run.passes = MaxPasses

\* The record moves into the instance's own repository once it stands: what is
\* held so far is seeded there, over whatever it held.  When the loop ends the
\* scratch repository is removed.
Loops ==
  /\ run # Idle /\ run.at = "performed"
  /\ LET binds == ~run.bound /\ "state" \in run.man.repositories
         ends == LoopEnds(Objects)
     IN  /\ own' = IF binds THEN scratch ELSE own
         /\ scratch' = IF ends THEN NoObjects ELSE scratch
         /\ run' = [run EXCEPT !.bound = @ \/ binds, !.effect = None,
                               !.at = IF ~ends THEN "ticking"
                                      ELSE IF run.built /\ "built" \notin run.man.repositories THEN "adopting"
                                      ELSE "writing",
                               !.making = IF ends /\ run.built /\ "built" \notin run.man.repositories
                                            THEN "built" ELSE None]
  /\ UNCHANGED <<remote, checkout, manifest, key, cloned, edits, faults>>

\* A name given once the host is registered is its address from then on.
Addressed(man) ==
  IF run.address # None /\ man.address # None THEN [man EXCEPT !.address = run.address] ELSE man

WritesManifest ==
  /\ run # Idle /\ run.at = "writing"
  /\ manifest' = Addressed(run.man)
  /\ run' = Idle
  /\ UNCHANGED <<remote, checkout, scratch, own, key, cloned, edits, faults>>

-----------------------------------------------------------------------------
(* Around the runs *)

\* A run is stopped, by whatever refuses a step of it or by the machine.
Stops ==
  /\ run # Idle /\ faults < MaxFaults
  /\ run' = Idle
  /\ faults' = faults + 1
  /\ UNCHANGED <<remote, checkout, manifest, scratch, own, key, cloned, edits>>

\* The template's push lands and its answer is lost.
PushUnheard ==
  /\ run # Idle /\ run.at = "pushing" /\ faults < MaxFaults
  /\ checkout[run.making].committed /\ remote[run.making] = checkout[run.making].base
  /\ remote' = [remote EXCEPT ![run.making] = checkout[run.making].files]
  /\ run' = Idle
  /\ faults' = faults + 1
  /\ UNCHANGED <<checkout, manifest, scratch, own, key, cloned, edits>>

PlacesKey ==
  /\ ~key /\ key' = TRUE
  /\ UNCHANGED <<remote, checkout, manifest, scratch, own, cloned, run, edits, faults>>

\* People have repositories of their own, and push to them.
PersonPushes(r, p) ==
  /\ edits < MaxEdits
  /\ remote' = [remote EXCEPT ![r] = [Standing(r) EXCEPT ![p] = "person"]]
  /\ edits' = edits + 1
  /\ UNCHANGED <<checkout, manifest, scratch, own, key, cloned, run, faults>>

\* clone_repositories: each repository of the manifest in turn, bare and then
\* its line; one the manifest holds no remote for fails the join.
Joins(r) ==
  /\ manifest # None /\ manifest.address # None
  /\ r \in manifest.repositories /\ r \notin cloned
  /\ Before(r) \subseteq cloned
  /\ cloned' = cloned \cup {r}
  /\ UNCHANGED <<remote, checkout, manifest, scratch, own, key, run, edits, faults>>

\* The host's loop works on what init made.
HostWorks ==
  /\ "state" \in cloned /\ own.curation \in {"fresh", "moved"}
  /\ own' = [own EXCEPT !.curation = "worked"]
  /\ UNCHANGED <<remote, checkout, manifest, scratch, key, cloned, run, edits, faults>>

Init ==
  /\ remote = [r \in Repository |-> None]
  /\ checkout = [r \in Repository |-> None]
  /\ manifest = None
  /\ scratch = NoObjects /\ own = NoObjects
  /\ key = FALSE
  /\ cloned = {}
  /\ run = Idle
  /\ edits = 0 /\ faults = 0

RunSteps == PutsNew \/ Ticks \/ Performs \/ Adopts \/ Pushes \/ PushRejected \/ Loops \/ WritesManifest

Next ==
  \/ \E built \in BOOLEAN, address \in {None, "named"} : Starts(built, address)
  \/ RunSteps
  \/ Stops
  \/ PushUnheard
  \/ PlacesKey
  \/ \E r \in Repository, p \in Path : PersonPushes(r, p)
  \/ \E r \in Repository : Joins(r)
  \/ HostWorks

Spec == Init /\ [][Next]_vars

\* A run goes on once it is started; the operator places the key, runs init
\* again for as long as it has not finished, and joins.
Fairness ==
  /\ WF_vars(RunSteps)
  /\ WF_vars(\E built \in BOOLEAN, address \in {None, "named"} : Starts(built, address))
  /\ WF_vars(PlacesKey)
  /\ WF_vars(\E r \in Repository : Joins(r))

FairSpec == Spec /\ Fairness

-----------------------------------------------------------------------------
(* Properties *)

Files == [Path -> {"absent", "template", "person"}]
Manifests == [repositories : SUBSET Repository, app : BOOLEAN, address : {None, "localhost", "named"}]
Records == [instance : State \cup {None}, curation : {None, "fresh", "worked", "moved"}]
Checkouts == [base : Files, files : Files, left : SUBSET Path, committed : BOOLEAN]
Phases == {"opening", "ticking", "performing", "adopting", "pushing", "performed", "writing"}
Runs == [at : Phases, man : Manifests, key : BOOLEAN, built : BOOLEAN, address : {None, "named"},
         bound : BOOLEAN, passes : Nat, effect : Effect \cup {None}, before : State \cup {None},
         moved : BOOLEAN, making : Repository \cup {None}, again : BOOLEAN]

\* Every variable has its type.
TypeOK ==
  /\ remote \in [Repository -> Files \cup {None}]
  /\ checkout \in [Repository -> Checkouts \cup {None}]
  /\ manifest \in Manifests \cup {None}
  /\ {scratch, own} \subseteq Records
  /\ key \in BOOLEAN /\ cloned \subseteq Repository
  /\ run \in Runs \cup {Idle}
  /\ edits \in 0..MaxEdits /\ faults \in 0..MaxFaults

\* What a person put in a repository stands, whenever init adopts it and
\* whatever they push meanwhile (bootstrap.rs: adoption adds what is missing
\* and rewrites nothing, 220).
AdoptionRewritesNothing ==
  [][\A r \in Repository, p \in Path :
       Standing(r)[p] = "person" => Standing(r)'[p] = "person"]_remote

\* A repository is named with the whole of what its template requires, but for
\* what the commit of that very adoption left out: no stop, no push rejected or
\* not heard and no commit of an earlier run is taken for the template's (204,
\* 208).
NamedHoldsItsTemplate ==
  [][\A r \in Repository :
       run # Idle /\ run' # Idle /\ r \in run'.man.repositories \ run.man.repositories
         => \A p \in Path : Standing(r)'[p] # "absent" \/ p \in checkout[r].left]_vars

\* A run that was not stopped leaves the instance hosted where the key is
\* placed, and otherwise at the decision that asks for it, with a manifest that
\* names its state and its App (204, 207).
RunFinishes ==
  [][run # Idle /\ run.at = "writing" /\ run' = Idle /\ UNCHANGED faults
       => /\ own.instance = "hosted" \/ (~run.key /\ own.instance = "awaiting-app")
          /\ "state" \in manifest'.repositories /\ manifest'.app]_vars

\* Once a manifest stands no run takes the instance's record back: its machine
\* stays or moves as its evidence says, and what a host has worked on is not
\* made anew.  One over an instance that is hosted and was asked for nothing new
\* changes no repository, and nothing in the manifest but the address it is
\* given (204).
RunsTakeNothingBack ==
  [][run # Idle /\ run' # run =>
       /\ manifest # None =>
            /\ own'.instance \in {own.instance, MovesTo(own.instance, run.man, run.key)}
            /\ own.curation \in {"worked", "moved"} => own'.curation \in {"worked", "moved"}
       /\ run.again =>
            /\ UNCHANGED remote
            /\ manifest' # manifest => manifest' = [manifest EXCEPT !.address = run.address]]_vars

\* Whatever was stopped, rejected or not heard, run again init comes to a
\* hosted instance with its manifest on disk (204: a half-finished bootstrap is
\* finished by the next).
BootstrapFinishes == <>[](own.instance = "hosted" /\ manifest # None)

\* Four that fail.  The machine's record is ahead of the manifest wherever a run
\* is stopped between a pass and its end: in the scratch repository past
\* `absent`, and no later run names the blueprints; in the instance's own past
\* `connected`, and no later run registers the host.
BlueprintsAreNamed == <>[](manifest # None /\ "blueprints" \in manifest.repositories)

HostIsRegistered == <>[](manifest # None /\ manifest.address # None)

\* A commit that git refuses passes for one with nothing to say: the repository
\* is named without its template, and no later run makes it (bootstrap.rs: what
\* is missing is added).
NamedIsWhole ==
  [][\A r \in Repository :
       run # Idle /\ run' # Idle /\ r \in run'.man.repositories \ run.man.repositories
         => \A p \in Path : Standing(r)'[p] # "absent"]_vars

\* The ticks of a second run are those of the whole store (init.rs: a second
\* run is a no-op).
SecondRunWritesNothing ==
  [][run # Idle /\ run.again /\ run' # run
       => /\ UNCHANGED <<own, remote>>
          /\ manifest' # manifest => manifest' = [manifest EXCEPT !.address = run.address]]_vars
=============================================================================
