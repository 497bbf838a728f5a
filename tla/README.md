# flywheel-next in TLA+

Flywheel reconciles declared state machines (`src/definitions`) over objects kept
in a git repository. Any number of hosts run the same loop: fetch, renew leases,
tick the machines, commit, push once. There is no server between them. What they
agree on, they agree on by the compare-and-swap of a push. The operator reads one
list of numbered decisions, the rail, and answers by number, from a page each host
serves or in a chat.

The modules model, from the bottom up: the shared line the hosts race on and the
store it implements; the lease that says who acts on an object; the rail that says
what the operator answered; the work itself, as an item with its sessions, as the
branches it is built on, and as the evidence it starts from; the page and the chat
the operator sits at; and the bootstrap that makes an instance. TLC checks each on
small instances, and each has theorems that TLAPS proves for every value of the
constants.

## The system

| Component | State it keeps | Operations | What makes it correct | Module |
|---|---|---|---|---|
| Shared line (`flywheel-store-git`) | `main` on the git host; per host a branch, a checkout, the head it last fetched, the guards of the flush, the run-record entries owed | `put`, `append`, `receive`, `append_run`, `begin_tick`, `flush`, `end_tick`, `push_unpushed`, `open` | no commit that landed disappears; no file loses what was written to it; a lost tick leaves nothing behind | `SharedLine`, `Store` |
| Leases (`GitStore::lease`, `Host::renew_and_take`) | one branch per object with one record; per host its remote-tracking branch and its own | take, renew, release, mark | one host acts; a holder is not replaced early; a gone holder is replaced | `Lease` |
| Rail and register (`flywheel-engine` rail, runtime; `flywheel-domain` commands) | entries (decision, number, retracted when), the counter, what stands | derive, number, retract, prune | a number is given once; a fold keeps its own; the register tells what stands | `Rail` |
| Responses (`eval_response`, `catalogue::answer`) | responses in order, the responses applied to each object | answer, answer a row, dictate | an answer reaches what its number named, and everything of a fold | `Rail`, `Page` |
| Engine tick (`tick.rs`) | the configuration of each object | plan over a snapshot, apply, effects | nested regions end with their parent; what was planned is what was read | in each module, for its machines |
| Sessions (`flywheel-sessions-herdr`, `-operator`) | session records, threads, panes | start, report, answer, end, take over | one live session per charge; an exit is read once | `Stage` |
| Workspace (`flywheel-workspace-host`, `-recorded`) | lines, places, facts, three copies of the shared line | create, prepare, rebase, merge, land, remove | the facts agree with the branches; nothing merged is lost | `Workspace` |
| Domain (`flywheel-domain` signals, offers, effects) | captures, signals, moves, intents, elaborations | read, judge, join, attach, gather, propose | a move and its citation agree; material is counted once and reaches work | `Curation` |
| Surfaces (`flywheel-surface` http, catalogue) | the calls kept while a pass runs, the read the page is answered from | the catalogue's tools, the stream of changes | each call recorded once; what is recorded is shown | `Page` |
| Chat sink (`chat.rs`, `discord.rs`, `sinks.rs`) | the delivery mark, the presenter's lease, the inbox | deliver, mark, hear, reply | what was not shown is not marked; what was written is heard | `Chat` |
| Views (`page.rs`, `status.rs`) | none: a function of one read | the rail's cards, the board, the status view | what stands is drawn once; a letter names what it was drawn with | `Cards`, `Board` |
| World (`flywheel-world-host`, `init.rs`) | the manifest, the repositories, the instance's record | bootstrap, join | run again until it stands; nothing of a person's is rewritten | `World` |

Hosts interact only through the git host (pushes of `main` and of the lease
branches, both with an expected old value) and through what they read there. In
one process the loop and the page's calls take turns on one store; a session
reports from a process of its own. The hard behaviours are the races on a push and
what the loser does, an answer of the git host that is lost, a stop between two
steps of one write, two stores written by one act (records and repositories,
records and the blueprints' files, a record and a manifest), clocks apart, a
decision that goes and comes back while someone answers it, folds whose members
leave one at a time, and sessions, of which the record, the thread and the pane
change apart from each other. `PROJECT.json` lists each one at its line under
`hazards`.

## The modules

### SharedLine

A ref is its whole history, a sequence of commits, so "reaches" is "is a prefix
of". A commit is a snapshot: the tree and the effect ids of its message. A file is
the sequence of entries written to it; for a record that is the lineage of its
states, whose length is the envelope's `seq`.

| State | Code |
|---|---|
| `main` | `refs/heads/main` on the git host |
| `head[h]`, `fetched[h]` | the local branch with its checkout; `GitStore.fetched` |
| `doing[h]`, `attempt[h]` | `in_tick`, and which push is under way (`flush`, `push_unpushed`) |
| `guards[h]`, `owed[h]`, `pending[h]`, `offline[h]` | the fields of `GitStore` with these meanings |
| `said[h]`, `writes` | history: entries a host produced; the bound |

A write is one action, and a push another, so another host's push may fall between
any two. `PushLands` is the compare-and-swap; `Rejected` is the whole of what
follows a rejection: fetch, compare the guards, replay, give up or try again. The
environment is the constant `Faults`: calls between ticks, the operator's
disconnect, a stop anywhere, a refused take, a tick that fails, a push whose
answer is lost, a push that reaches nothing.

Abstracted: the content of records, the paths of files, and the merge base of
histories that are not sequences. The working tree and the branch are one value.

### Store

What the state store promises whoever is written over it, as the traits of
`flywheel-atoms` say it and the store of its tests behaves: each host works over
what it last read, what one tick wrote lands in one step or not at all, and only
over what it was made from. `SharedLine` implements it under whole ticks:
`Contract == INSTANCE Store WITH stored <- Tree(main), read <- ..., drafts <- ...`,
where a host's drafts are what its checkout holds beyond what it fetched, and
`IsAStore == Contract!Spec` is checked with the store's liveness: what was written
lands or is dropped.

### Lease

One object's lease. A write of the branch is two steps with the git host in
between: `put_orphan` moves the local branch, then pushes. `asking[h]` is the
write in between, with what the remote is expected to hold and what the local
branch goes back to. `Reads` is `one_lease`, with its fallback to the host's own
branch. The clock is read once a pass (`set_now`), so `clock[h]` lags `now` and may
run `Ahead` of other hosts. `Claim` is `renew_and_take` for the object, `Acts` the
point of `tick_as` that requires the lease, `Mark` the machine of `lease.yaml`
written back, `Release` and `MarkExpired` the two halves of a takeover.

### Rail

`obj` holds the units, the leases, whose decision is that no host covers them, and
the responses, which are objects with decisions of their own. `Decisions` is
`rail::derive`, `Numbered` the one write of the rail record that numbers, retracts
and prunes, `Addresses` is `eval_response`. A tick is one step over any set of
objects with any evidence: a tick that loses its push is discarded whole
(SharedLine), and the set stands for the scope and for the leases a host holds
(Lease), so the module covers any number of connected hosts.

The unit's machine is the part of `unit.yaml` that enters and leaves the proposed
decision; its type is defined and its parent stands. Ids, wording and the order
decisions are shown in are left out: numbers go to new decisions in any order.

### Cards

The rail as the page draws it, over the states of `Rail`: a card a decision, its
group and the answers its controls offer (`CardOf`), the rows of a fold with their
letters (`RowsOf`, `ChoreRows`), and what a number with a letter names when it
comes back (`RowObject`). `IdOrder` is the order the units' ids count them in, which
gives the letters.

### Stage

One item, the one stage of its type (`fast@3` and `chore@2` have one) and its
sessions, under herdr. A session is named by its attempt.

| State | Code |
|---|---|
| `item` | the regions of `work-item.yaml`, the type, `stage.yaml` and `session.yaml` nested in each other, and the counter `attempt` |
| `record[a]`, `known` | `fact/session/<item>/<stage>/<a>`: absent, running, or with `ended_at`; whether it names a pane |
| `thread[a]` | the exits and answers of the session's thread |
| `agent[a]` | what the multiplexer holds: nothing, an agent at its prompt, one at work; `away` is at work on the computer of a host that was taken over, and `back` where that host runs again |
| `given` | responses not yet applied |
| `unit` | the parent: under way, in `retired` or `dropped` (`over`), or `landed` |
| `rounds` | history: send-backs by verdict since the item was placed |

`Pass` is `tick_as` for the item: every region's transition is read from one
state of the world (`ActivityTo`, `PresenceTo`, `SessionTo`, `RunTo`, `StagesTo`,
`LifeTo`), innermost first they are applied (`Moved`), and the effects follow
(`AfterSession`, `AfterLife`). Regions under a state the item has left go on
moving, as they do in `plan_tick`. `Started`, `Answered` and `EndedOf` are `start`,
`answer` and `end` of the herdr binding with what each leaves behind when the
multiplexer refuses half of it. `CloseExited` is the host machine's
`end_exited_sessions`, and `CloseTab` its `remove_stale_layout`, which closes the tab
the unit's panes share once the unit is gone (`UnitGone`). `Finished` has no case for
an owner that has ended: `ended_object` asks a final state of every region the object
stands in, and an item's `place` (`work-item.yaml`) has none, so an item never counts
as ended, while a unit, which has one region, does. Both are taken of the panes one host lists (`Held`): the
one that runs the item, or one that was taken over and came back, which finds the
records of its sessions ended. `Report`, `Kill`, `TakeOver`, `Returns`, `Respond`,
`UnitEnds` and `UnitLands` are the actors around the item, and fall between any two
passes.

`KeepAlive` is true whatever `stage.yaml` says: `keep_alive_of` looks for a state
that runs a session in the item's own machine, and the item's runs its type.
`SendBacks` is zero: nothing bumps the counter.

Abstracted: a pane at its prompt on another computer, which is closed as one at work
there is; idle is folded into working, and offers, refusals and moved lines are
left out. The place's life and the merge are `proved`, nondeterministic in each
pass. `invalid` is read as `stalled` wherever the item reads it. The item's `waiting`
is before `Init`. The operator's runner, which has no pane, is not modelled.

### Workspace

One repository under a host: branches as the sets of commits they hold, three
copies of its shared line (`bare` the clone's, `checkout` the machinery's own,
`githost`), the worktrees on disk, and the records and facts (`store` as this host
holds them, `pushed` as they last landed). `Plans` reads everything and lists the
moves of the tick in `due`; each is then made by its own action when its turn comes
(`Turn`: the bolts and items in the order of their ids, `Order`, the innermost
region of each first), so a stop (`TickLost`) falls between any two and takes back
the records while the repositories keep what was done. `LateUnits` says whether a
unit may be approved while its bolt is landing. `LinePlan`, `BoltPlan`, `PlacePlan`, `UnitPlan`
and `ItemPlan` are the transitions of `line.yaml`, `bolt.yaml`, `place.yaml`,
`unit.yaml` and `work-item.yaml` in their order; the acts are
`flywheel-workspace-host` with the facts `flywheel-workspace-recorded` writes.
`MergeSlot` and `ContainsParent` are true, for the reasons at their definitions:
the code asks for a record that never exists. `Commits`, `OthersPush`, `WriteFile`
and `Answers` are what is around. A branch containing another is inclusion, since
work comes to a branch only by a merge.

### Board

The status view (`GroupOf`, `OnItsOwn`) and the board (`LaneRows`, `GroupRows`,
`Form`, `MarksOf`), as functions of one read, a function from ids to objects. A form
is the set of objects it draws. `Reads` are three families of objects: a bolt with
a unit and its item, a unit off every bolt, a thread beside a proposal and a note,
each object in any state of its life. What a row is drawn in, and what that is drawn
in (`Wholes`), and what an object hangs off (`Above`) are least sets closed under
those arrows (`Reached`). `Drawn` takes `Workspace` with `Board`: it reads the store
of `Workspace` as the page does (`OfStore`) and draws it whenever a pass has pushed.

### Curation

`files` is the blueprints' shared line, `checkout` this host's copy with what it
has not pushed, `records` the state store as landed. What one pass or call writes
is a HISTORY, the sequence of worlds it goes through; a pass lands its records at
the end in one flush, so one that is stopped keeps the files of some point of its
history and no record, while a call of the page puts record by record and keeps
both. `CaptureStep`, `CurationStep` and `IntentStep` are the machines of
`capture.yaml`, `curation.yaml` and `intent.yaml`; `RecordRead`, `RecordMoves`,
`ProposeIntents`, `Gather`, `DropSignals`, `SplitIntent` and `ProposeElaboration`
their effects. Sessions deliver from processes of their own, one entry at a time.
`PageCurates` is the curator surface of the page, which nothing keeps from a
session that is over.

### Page

The page of one host, as far as its calls reach: `store` says who holds the state
store (a request, the loop's turn, its pass), `kept` the calls set aside as files
while a pass runs, `listed` and `doing` what the turn is taking up, `latest` the
read the page is answered from, `changed`, `told`, `follow` and `seen` what an open
page is told and shows. Each tool is the list of its writes (`Writes`), pushed one
by one, and a stop falls between any two. The pass is one step and giving the store
back another, so that a page told of a move may ask in between. The response to a
page's own call has no delivery id unless it is kept; the one `catalogue` gives
otherwise is made of the clock, which does not go back here.

### Chat and Channel

`Channel` is what the people in a channel see, the decisions they are to see and the
mark that says they did; `Chat` is the hosts behind it. The channel is a sequence, and
a message's id its place in it. Two hosts have each
a side of the wire (`wire`), and something in hand (`work`); `mark` and `presenter`
are shared. Posting, marking in a tick, and the tick's push are apart, and so are
hearing, recording and replying. `Waited` is the reading of the history after a
connection; `skipped` names what this run of a host never hears, which is what the
code gives up: a history it could not read, a message of a sink someone else
presents. What is handed over of a history and what waited are sets put in the order
of their numbers (`HandOverAll`, `Ascending`). `NothingMissed` is what `Heard` rests
on, state by state: whatever was asked for is to come to a host that is connected,
waits there, is in its hands or is recorded, or its run skipped it.

### World

`flywheel init` as a run over the git host, the manifest, the scratch record and
the instance's own record. `Ticks` and `Performs` are one pass of the loop of
`init.rs`; `Adopts` and `Pushes` are `create_or_adopt`, with people pushing in
between; `Loops` binds the record to the instance's own repository; the manifest is
written once, at the end. A run is stopped anywhere and started again. `Joins` and
`HostWorks` are the host that follows.

`tick_settled` ticks the whole store a run is bound to, its leases and its status
with it. The instance's machine is followed state by state; everything else in the
store is `curation`, which is as it was put (`fresh`), worked on by a host, or moved
by a tick of `init`, and which any tick may move. A commit leaves out any of what was
missing (`left`): all of it where git refuses the commit, which `create_or_adopt`
takes for one with nothing to say, and what the repository's own `.gitignore` names.
Each costs a fault.

### MC modules

`MCSharedLine`, `MCLease`, `MCRail`, `MCWorkspace`, `MCCuration`, `MCPage` and
`MCChat` extend each module with the names and functions the configurations need;
`MCRail` takes `Rail` with `Cards`, and `MCWorkspace` extends `Drawn`.
Symmetry is used where hosts are interchangeable and no liveness is checked.
`Stage` and `World` need no names and are run as they are.

## What the runs show

| Run | Question | Instance |
|---|---|---|
| `line_ticks` | Do whole ticks of racing hosts keep the line, strand nothing, keep what was said, converge, and implement the store? | 2 hosts, one record, one thread, one effect, 4 writes, unreachable git host |
| `line_faults` | Whatever goes wrong, does a history only grow, and a replay only add? | 2 hosts, a record and a delivery, 3 writes, 2 pushes a flush, every fault |
| `lease_prompt` | Where holders renew in time, does one host act, over a route that fails, is cut and loses answers, and is a holder that stops for good replaced? | 2 hosts, renew 1, stale and expiry 2, 3 hours |
| `lease_clocks` | With clocks apart, slow passes, lapses, stops and takeovers, is a holder ever replaced before its expiry? | clocks an hour apart, 3 hours |
| `rail_answers` | Are numbers given once and kept, does the register tell what stands, does one answer to a fold move every object in it, and does a letter of a card keep naming its chore? | 2 units in one batch, yes and later, entries pruned after 1, a week of 1, clock to 3 |
| `stage_work` | Is one agent at work at a time, does an answer follow its question, and does a pane go once its session's record is ended or its unit is gone? | 2 sessions, 4 entries a thread, every exit, killed panes, takeovers and returns, refused prompts |
| `workspace_copies` | Is what was recorded as merged or landed in the branches, are the facts true, and does a closed bolt land? Is each object of the work drawn in one place? | one bolt, 2 items that conflict, one file of the machinery, one push from elsewhere, one lost tick, drops |
| `curation_moves` | Do moves and citations agree, is material counted once, is every delivered move made and does material come to an elaboration? | one capture, one signal, a curator's run, a hand, one stop or outage |
| `page_calls` | Is a call one response, a yes to all a yes to what was shown, every kept call settled, and what is recorded shown? | one call of the page and a client's hand on one signal, 2 decisions, one fault |
| `chat_hears` | Does the mark never pass over what was not shown, and is what was written heard? | 2 hosts, one message, one decision, one fault |
| `world_init` | Is nothing of a person's rewritten, is a repository named with its template but for what its commit left out, does a later run take nothing back, and does the bootstrap finish? | 3 repositories of 2 paths, 3 faults (stops, pushes not heard, commits that leave something out), one push by people |

One run shows a disagreement between the code and what the repository says of it.
`line_restart`: a restarted host fetches before it pushes what it had committed,
and its next push replaces commits that had landed. Two hosts, a stop between a
commit and its push, one push of the other host in between.

### Met while modelling

More was met than there is a run for. Each of these TLC showed with a property
that the modules keep, or would show with one line more:

| Where | What | Property |
|---|---|---|
| `store.rs:543` | after a rejected push the guards are compared with the checkout and not with what was fetched, so a tick that wrote any record is given up though no file overlaps | |
| `store.rs:1497` | a push that landed and whose answer was lost leaves what a run record was to say owed, and it is written again | `RunEntriesOnce` of SharedLine, with `unheard` |
| `store.rs:689` | a host stopped between moving its local lease branch and pushing it reads itself as the holder when it is opened again, and two hosts act | `OneActs` of Lease, with `crash` |
| `eval.rs:287` | a unit is deferred and offered again under number 2; an answer to number 1, not yet applied, answers number 2 | `LateAnswersLandNowhere` of Rail |
| `runtime.rs:180` | a lease uncovered again stands under its retracted entry, which is then pruned | `EntriesTellWhatStands` with a lease |
| `stages.rs:125` | an exit of not-done is judged again on every pass, and the stage goes round past its bound | `SendBacksBounded` of Stage |
| `sessions.rs:177` | a work item never counts as ended, since its region `place` has no final state: the pane of a merged item stands until its unit lands, where `atoms.yaml:95`, `sessions.rs:43` and `session.yaml:24` have it closed | `OwnersPanesClose` of Stage |
| `place.yaml:86` | a place sent behind while its item is merging is never asked to merge again | `MergesAfterASibling` of Workspace |
| `unit.yaml:97` | a unit is approved whatever its bolt is doing: one approved while the bolt is landing is merged into a line that has landed, and is removed with it | `MergedIsKept` of Workspace, with `LateUnits` |
| `commands.rs:770` | a transition is put before its effects and what they answer is dropped: a move the blueprints refused is not owed again | `StillOwed` of Curation |
| `host.rs:2564` | the moves that are applied are read before the push that makes the session's own, and that push also carries what a stop left committed: a signal is marked joined by a move that is no longer there, and the intent, which other joins may raise later, never cites it | `CitedWhereMoved` of Curation, with two signals |
| `catalogue.rs:835` | the curator surface is taken after its session is over: it writes moves over moves and a second exit | |
| `http.rs:349` | a session, an ask or a capture is made again with the call that makes it | `MadeOnce` of Page |
| `http.rs:271` | a pass that only fetched moves no generation, so an open page does not come to hold it | `EveryMoveIsShown` of Page |
| `derived.rs:834` | a decision raised at the very time of the mark counts as delivered | `DeliveredIsShown` of Channel |
| `page.rs:838` | an approved chore that moves on after its fold was raised joins the rows, and one put off and offered again comes back between them: the letters after it shift, which the comment rules out | `LetterStillNames` without `Joins` |
| `page.rs:3602` | a list goes on from rows that hold the accepted and landed chores its beginning left out, so that it repeats as many | `ListsGoOn` of Board without its second disjunct |
| `page.rs:2545` | the items of an accepted chore, and of a bolt that is over, are drawn nowhere | `InOnePlace` of Board without `HiddenByItsWhole` |
| `page.rs:2779` | the mark of an elaboration, a unit or an item drawn inside another's form is drawn nowhere | `InOnePlace` of Board over every decision |
| `bootstrap.rs:122` | a commit git refuses passes for one with nothing to say: the repository is named without its template and no later run makes it, against `bootstrap.rs:91` | `NamedIsWhole` of World |
| `init.rs:206` | the ticks of a second run are those of the whole store: it moves other objects and writes leases and status, where `init.rs:88` calls it a no-op | `SecondRunWritesNothing` of World |
| `init.rs:313` | a run stopped between its record and its manifest leaves what no later run names | `BlueprintsAreNamed`, `HostIsRegistered` of World |

Some properties hold and have no run of their own, because another that is run says
more or a theorem says it for every instance. Theorems are `RunEntriesOnce` and
`NothingOverwritten` of SharedLine, `SessionsEndOnce` of Stage, `SignalTakesOneMove` of
Page, `RemovedOnceMerged` and `LandedOnTheGitHost` of Workspace, `AcknowledgedOnce` of
Channel, `NothingMissed` of Chat, and the type invariants of Rail, Lease, Stage, Workspace,
World, Page, Curation and Chat.

### Bounds

Two hosts are enough for every race here: a push is compared with one value, and
what a third host pushes looks to a loser like what the second pushed. Three
retries are the code's own; `line_faults` gives a flush two pushes, so that its
three writes, of which a fault of the route takes one, still reach the last one
and the refusal after it. In `line_ticks` four writes let a host lose a race,
replay, lose again and reach the last attempt, and let entries be owed from one
tick to the next. For a lease the renewal is an hour; in `lease_clocks` stale and
expiry keep the code's order (1 minute, 5 minutes, 24 hours) an hour apart, and in
`lease_prompt` they coincide, which leaves the machine's state `stale` to the other
run. There, once a host has stopped for good nothing else goes wrong (`Happens`), so
that the hours left reach an expiry and a take. For the rail the counter of days is
one for the week and one for the month, which keeps a week no longer than a month,
and the clock goes on past the pruning of the first entry. `Steps` says how far the
clock moves between two ticks: the passes of one sweep share an hour (`set_now`).
`RaisedAgain = FALSE` leaves out a fold that is raised again in the hour it was
retracted in, by the next object of its batch: it stands under its retracted entry,
as the lease at `runtime.rs:180` does. The code does not rule that out; what the
register tells where it happens is what `RegisterTells` and `RegisterTellsUntil`
prove, which do not assume it. Two chores give every order of letters, of
leaving and of joining. In `stage_work`
two sessions are what one can be mistaken for, and four entries let a session ask,
be answered, ask again and be answered; a start past the last session is refused, as
by a multiplexer that holds no more. In `workspace_copies` two items give every
sibling the code tells apart, and one push from elsewhere, one file of the
machinery and one lost tick fall at any point. `LateUnits` is `FALSE` there: a unit
approved under a bolt that is landing is a row of the table above. The reads the board
is drawn of give each object a whole and a part at most, since nothing drawn
depends on a third. In `curation_moves` one signal meets
a curator, a hand, an adapter, a pass cut or in an outage, and two elaborations of an
intent: the proposal awaiting approval and the one after it. `Words = {"drop"}`
stands for every move that names no intent, since nothing else tells them apart. In
`page_calls` the page's call is any of its tools and the other a client's hand that
may be sent again. In `chat_hears` one message and one decision meet every hearing
of two hosts. The three faults of `world_init` are a run
stopped twice, which is what a half-finished bootstrap finished by another half
needs, and a commit that leaves something out. One push of a person's falls before
an adoption, between its clone and its push, or after it.

Deadlock is checked in `line_ticks`, `line_faults`, `rail_answers`, `stage_work` and
`world_init`. The other models stop when their clock or their calls have reached
their bound.

### Fairness

The loop of `main.rs` takes passes for ever, whatever a pass returned, and sweeps
every scope. So `TickBegins`, `TickEnds`, the answer to a push and `SettleRecord`
are weakly fair in SharedLine; time, the pass and the answer to a push in Lease; a
tick over every object in Rail, with no evidence promised; the passes over the item
and over the host's own object in Stage, whose `alive` (`engine/host.yaml`) tries
`end_exited_sessions` before `remove_stale_layout`, with no promise that a place is
made or a merge proved, that an agent ever reports, that the unit ends or lands, or that a host comes back; `Pass` in Workspace, with
`LandLine` strongly fair: a git host that comes and goes answers at last; the passes
of Curation, whose weak fairness is written out as `[]<>Quiet \/ []<><<...>>` because
the ENABLED of a pass is a fold over its history; the writes and the turns in Page,
with the read that follows a change strongly fair, since requests queue for the store
and are let in in order (`http.rs`); the wires and turns in Chat. In World a run goes
on once it is started, and the operator places the key, runs `init` again and joins:
what the repository asks of them. No fault, no call and no answer is fair.

## What is proved

`SharedLineProofs`. `TypesHold` and `HistoriesAlwaysGrow` hold under every fault.
The invariant behind `HistoriesGrow` is that both ends of every comparison are
histories in which each commit keeps every entry of its parent, so that a path
only one side changed since the common ancestor has on that side a longer value.
`ReplaysExtendTheLine` says that a push that lands after a rejection or a reconnect
lands on top of what it expected. `TicksKeepTheLine`, `TicksStrandNothing` and
`TicksOverwriteNothing` assume hosts that write only in ticks and an environment
that at most loses pushes and answers: the strengthening is that `fetched` is an
ancestor of `head` everywhere, and equal to it between ticks. Under the same
assumptions `TicksKeepTheRecord` says that no entry of a run record is lost: each
entry a host produced is on the line or owed, and what it owes is on its checkout
while it is being pushed (`KeptInv`). `TicksAreAStore` is the refinement of `Store`
step by step: the initial states map to its initial states, and every step to one of
its steps or to a stutter. It takes that a host learns of each push of its own: what
it holds beyond what it fetched is its own, and what it has not fetched is not
(`OwnInv`). The fairness half of `IsAStore` stays with TLC. `TicksSayOnce` says that no
entry of a run record is written twice, where the only fault is a git host that cannot
be reached (`TicksAnswered`): a host knows all that the line has of its own record,
nobody else writes there, and what the line holds followed by what is owed is in order
(`OnceInv`).

`LeaseProofs`. `LeaseTypesHold`, `NeverTakenEarly` and `RenewalsNeverRollBack`
hold under every fault. The invariant says of every write under way that what it
would put on the branch follows from what it expects there, by the hour it was
asked at. `OneHostActs` and `HostsBelieveWhatStands` assume holders that renew in
time and clocks closer than the expiry is to the stale window; these assumptions
are conjuncts of the theorem's hypothesis, and the
hazards about leases say what fails without them.

`RailProofs`. `RailTypesHold` carries the fact that every number below the
counter has been given; `NumbersAreNeverReused` follows since the numbers of a
pass start at the counter and end below the next one. The finite set of
decisions comes from the finite set of objects, through the surjection that
derives one from the other. `NumbersAreKept` assumes that a
decision is not raised again in the hour it was retracted in (`RaisedAgain`), for
the reason under Bounds; its invariant (`RegisterInv`) adds that what stands is what
the objects raise, one decision to a card (`Founded`), without which a fold might find
no entry, or several, when it is derived again. `RegisterTells` does not assume it: an
entry that is not retracted is always of a decision that stands, and a decision of an
object alone, a unit without a batch or a response, always has one while it stands.
Such an object cannot be asked at the same point twice: once asked it goes on, and comes
back, if it does, from a deferral that lasts some time (`Week > 0`), so a retracted
entry of its is of an earlier point or its object is past it (`Behind`). A lease keeps
its point and a fold takes that of its first row, so for them `RegisterTellsUntil` says
the same of a decision until the tick that raises it over its own retracted entry.
`LettersStillName` takes `RaisedAgain` as `NumbersAreKept` does. It is about the page's
cards: a letter is the place of a row in its fold, a letter of a card a step old still
finds the row it was drawn for, or none, since every entry's number was given to its
decision (`Linked`) and nothing is later than the clock (`InTime`).

`StageProofs`. `AnswersReachAskers` and `SessionsRunOnce` rest on `StageInv`: nothing is
told to or heard from a session before it is on record, an agent at work is on a
thread whose last entry is not an exit, and every answer on a thread follows a question
(`Told`); an item that is blocked waits for the session that asked, and no other has
started since. `OneAgentAtWork` adds that every agent listed here is of a session on
record and not closed, and that only the newest runs (`Alone`). All three, and
`StageTyped`, leave out `unrecorded`, a start that fails between the agent and its record, after which an
agent works that no record names. `OneAgentAtWork` assumes further that nothing goes
wrong but kills, takeovers and answers untold: `unlisted` and `unclosed` break it, which
the hazards say.

`WorkspaceProofs`. A tick decides everything on what was pushed and then does it, so
what is due is a function of `pushed`. The invariant (`ContainsInv`, `MergedInv`) says
how far the tick has come: which moves may still be due, how far each region may have
drifted from what was pushed, and what the acts done have left in the branches. A lost
tick leaves the branches changed and the records as they were, so most of the
invariant is about work that is in a branch and not on record, which the next tick,
deciding on the same records, merges again in the same order. Every action is first
shown to be one of a few kinds of step (`StepIs`), and each part is kept by the kinds.
`ContainsStaysTrue` and `LandingsStand`, that the git host keeps whatever a bolt landed
with, have no hypothesis, nor has `WorkspaceTyped`: a branch is made or put forward
only from one that is there, which for a line and for a place that has a worktree is
what `ContainsInv` says. `MergedStaysKept` and `PlacesGoMerged`, that no place goes
before its work is in the branch it was for, assume that no unit is approved under a
bolt that is landing (`LateUnits`).

`WorkspaceProofs` also holds the theorems about `Board`, a function of one read.
`EveryObjectInOnePlace` is about every read that is a forest (`Forest`: in any set of
objects there is one whose parent is not in it), which a read is since an object is
made under one that is there and hangs off it for good. Along the arrows from a row
to what it is drawn in there is then exactly one that is in nothing, so the status
page draws the row once. On the board no two lanes hold one object, and an object that
is nested in its parent begins no form and is drawn in its parent's alone, since a form
holds at most what is two below it. `WorkIsDrawnOnce` applies it to
the store of a repository in any state, and to the reads of the run; it takes that
the ids of units are no others' (`IdsApart`).

`PageProofs`. `CallsAreRecordedOnce`, `YesAllAnswersWhatWasNamed` and `SignalsMoveOnce`
rest on one invariant (`PageInv`). That a call is recorded once is not inductive: it takes that a
call kept stays named as kept, so that it is made each time under the delivery of the
first, and that a page's own request which was not kept is made in one go, which a
stop ends for good. A yes to all is written in the order of the numbers, which takes
that a finite set of numbers can be listed so. A signal moves once because whoever has
it still to move began when it had no move, and the store was theirs from there on
(`OneMove`).

`IntakeProofs` is about Curation and, through `Wire == INSTANCE Chat WITH ...`, about
Chat, whose `Channel` it extends; the two share no state. `CurationTyped`, `ElaborationsShareNothing` and
`MarksAreCited` rest on one invariant (`CurationInv`), which says of the records, of the
host's checkout and of whatever a delivery holds the same thing (`Fit`): every
proposal that waits with an answer is of an intent that is proposed, what is no intent
cites nothing, a move attaches a signal only to what is an intent (`Attaches`), and two
elaborations of an intent have nothing in common. That last part is kept because an
elaboration takes only what its intent cites and no other has taken. A pass is a
history of acts, each of them over the set of what it takes up. What every act keeps
the fold of the acts keeps (`FoldExists`, `SetInduction`), for any set that is finite:
the least number of elements at which it would fail leads to a contradiction. So
`CurationAssumption` says that captures and intents are finite sets, that a reader
reads at least one message at a time, and that gatherings are over intents.
`MarksAreCited` takes, beyond the invariant, what a step of a pass leaves of the moves
it began with, act by act, and wherever it is stopped.

`MarkPassesOverNothing` of Chat: every mark is the time of some rendering
that was posted, and by a rendering everything raised before it was shown. The mark
alone would not be inductive: a push may be lost after the rendering was posted and
another host present meanwhile, so that the mark is put of a rendering that is not
the last.

`ChatTyped`, `AcknowledgementsAreSaidOnce` and `NothingFallsThrough` of Chat assume
`Wire!ChatAssumption`, which `chat_hears` evaluates, and each rests on the one before.
To the types belong that a message was written once and that whatever is in hand was
asked for by one that was written (`Fits`, `IsAsked`). An acknowledgement is said once
because every reply, and what a host is about to reply, is on record (`RepliesSettled`,
`RepliesAlone`): a host is about to reply only to what it has put on record itself, which
no other can do again. That no answer falls through says of each host that what it took
from the wire is kept and what it did not take is still to come (`HearsAll`). It takes
the part on replies, since the reading of the history passes over a message that was
replied to, and a reply that fails drops the rest of its message. What a host takes up
is the end to end of what each message asks for, in the order of their numbers:
`FlattenIs` and `AscendingIs` are about any sequence of sequences and any finite set of
numbers.

`WorldProofs`. `AdoptionIsAddition`, `NamedHolds`, `RunsFinish` and
`NothingTakenBack`, for any paths, stops, refused commits and commits of people. The
invariant says what a run is in the middle of and for which effect, what its checkout
holds beside what its commit left out, and where the record is bound: once a manifest
stands a run is bound to the instance's own repository from its start, so no record is
seeded over it (`StandInv`).
That ten passes are enough for a run that is not stopped (`RunsFinish`,
`PassesAssumption`) is a ranking: each pass that leaves the loop unfinished raises the
level of the record or adds a fact.

The assumptions are the named `ASSUME`s of the modules, which TLC evaluates in
every run.

## What is only model-checked

Liveness (`HostsConverge`, `GoneIsReplaced`, `OneAnswerForAll`,
`FinishedPanesClose`, `ClosedBoltLands`, `MovesAreCarriedOut`,
`MaterialReachesAProposal`, `KeptIsMade`, `SentIsShown`, `Heard`,
`BootstrapFinishes`) is out of the prover's reach, and so is the fairness half of
`IsAStore`.

`EntriesTellWhatStands` is checked under `RaisedAgain = FALSE`; the theorems on the
register are the two above, which need not assume it.

`DeliveredIsShown` of Channel, `CitedWhereMoved` and `StillOwed` of Curation,
`OwnersPanesClose` of Stage, and `NamedIsWhole`, `SecondRunWritesNothing`,
`BlueprintsAreNamed` and `HostIsRegistered` of World are stated and listed in no run:
they fail as the table above says.

## What is not modelled

Components with status `not_modelled` in `PROJECT.json`, with the reason there.
Within the modelled ones: heartbeats, seeding and the operator's own commits
(SharedLine); a stop between writing a file and committing it; a second process on
one checkout; a disconnected host's rail, which answers its writes without making
them (`host.rs:380`); machines with nested regions under the rail (Rail); types of
several stages, units and elaborations with sessions of their own, and a crash
between a session's record and the fields added to it (Stage); takes and the moving
of a line under a session (Workspace); the signals folder of an adapter, the covers
of a set, the close and the archive of an intent, and the claims of a challenge
(Curation); open-intent, propose-unit and revive as calls of the page, a page over a
clock that goes back, and the loop's waking before its poll is due (Page); the
second wire and Discord's own protocol (Chat); credentials, the App's flow over the
network, leaving an instance, and a manifest torn by a stop in mid write, which is a
plain `fs::write` (World).

## Plan

Every safety property a run checks is a theorem, but for the fairness half of
`IsAStore` and for `EntriesTellWhatStands`, of which `RegisterTells` and
`RegisterTellsUntil` prove what holds without `RaisedAgain`, and so is the safety half of `Heard`; so is the type invariant of every
module with a state of its own that has one (Stage's where no start goes unrecorded).
Proving the board found that `BoardObject` named an ancestor beyond the read where the
board may draw nothing above an object; the code lights the object itself
(`page.rs:2779`), and so does the model now. Proving Curation found that its `Gather`
let an elaboration be limited by `MaxElabs` only once there was a first; the bound is
now a disjunct of its own.
