----------------------------- MODULE SharedLine -----------------------------
(***************************************************************************)
(* The shared line of a state repository and the checkouts the hosts keep  *)
(* of it (flywheel-store-git/src/store.rs, driven by Host::tick).          *)
(*                                                                         *)
(* A ref is its whole history, a sequence of commits, so "reaches" is      *)
(* "is a prefix of".  A commit is a snapshot, as in git: the tree, the     *)
(* effect ids its message carries and the host that made it.  A file is    *)
(* the sequence of entries written to it.  For a record that is the        *)
(* lineage of its states, whose length is the envelope's seq.              *)
(*                                                                         *)
(* Writes made inside a tick are committed at once and pushed when the     *)
(* tick ends; writes made outside one (a call from the page, a report) are *)
(* pushed at once.  A push is one compare-and-swap of the remote head and  *)
(* never checks that what it pushes descends from what it expects.         *)
(***************************************************************************)
EXTENDS Naturals, SequencesExt

CONSTANTS
  Host,       \* hosts; each also names its own run-record file
  Record,     \* object files, written under a guard on their seq
  Log,        \* threads: files appended to with no guard
  Delivery,   \* response and ask files, created once and named by their id
  Effect,     \* effect ids
  Retries,    \* pushes tried by one flush (RETRIES = 3)
  MaxWrites,  \* bound: writes made, and pushes gone wrong, of all hosts together
  Faults      \* what the environment may do beside whole, connected ticks

AllFaults ==
  {"call",        \* writes outside a tick
   "cut",         \* the operator's disconnect and reconnect
   "crash",       \* a host stops anywhere and is opened again
   "take",        \* a lease take is refused in the middle of a tick
   "error",       \* a tick returns early with an error
   "unheard",     \* a push lands and its answer is lost
   "unreachable"} \* a push and the fetch after it reach nothing

ASSUME LineAssumption ==
  /\ Host # {}
  /\ Retries \in Nat \ {0}
  /\ MaxWrites \in Nat
  /\ Faults \subseteq AllFaults

\* A path names one file.
ASSUME FileAssumption ==
  /\ Record \cap (Log \cup Delivery \cup Host) = {}
  /\ Log \cap (Delivery \cup Host) = {} /\ Delivery \cap Host = {}

VARIABLES
  main,     \* the shared line on the git host
  head,     \* each host's local branch; its checkout holds the tree of it
  fetched,  \* each host's idea of the shared line
  doing,    \* what each host is in the middle of
  attempt,  \* pushes already rejected in the flush under way
  guards,   \* records this flush writes, with the seq each was written against
  offline,  \* the disconnected flag
  pending,  \* effect ids this process holds to be written
  owed,     \* run-record entries said and not known to have landed
  said,     \* how many run-record entries each host has produced
  writes    \* writes made so far

vars == <<main, head, fetched, doing, attempt, guards, offline, pending, owed,
          said, writes>>

File == Record \cup Log \cup Delivery \cup Host

Idle == "idle"
Tick == "tick"
\* A tick that returned early with an error: in_tick is still set, and what it
\* committed is still on the checkout.
Failed == "failed"
\* A flush at the end of a tick, of one call, of one append to the run record,
\* and the push of what was committed while the route was cut.
Flushing == {"tick ends", "call", "run record"}
Pushing == Flushing \cup {"reconnect"}

Commit == [by : Host \cup {"init"}, tree : [File -> Seq(Host \cup Nat)], effects : SUBSET Effect]

\* A history, which has at least its first commit.
Line == Seq(Commit) \ {<<>>}

-----------------------------------------------------------------------------
(* Histories *)

\* objects::reaches: the first of two histories is an ancestor of the second.
Reaches(s, t) == IsPrefix(s, t)

Tree(line) == line[Len(line)].tree

EffectsOf(line) == UNION {line[i].effects : i \in DOMAIN line}

\* objects::common_ancestor: the longest history both share.
CommonAncestor(s, t) ==
  LET n == CHOOSE k \in 0..Len(s) :
             /\ Reaches(SubSeq(s, 1, k), t)
             /\ k = Len(s) \/ ~Reaches(SubSeq(s, 1, k + 1), t)
  IN  SubSeq(s, 1, n)

\* objects::changed_paths between two commits.
Changed(from, to) == {f \in File : Tree(from)[f] # Tree(to)[f]}

\* One more commit on a line.
CommitOn(line, h, tree, effects) ==
  Append(line, [by |-> h, tree |-> tree, effects |-> effects])

\* The tree of a line with entries added at the end of one file.
Added(line, f, entries) == [Tree(line) EXCEPT ![f] = @ \o entries]

\* Mutant: the paths the other writer changed are not looked at.
Overlap_NotCompared(ours, onto) == FALSE

\* replay_onto: a path both sides changed since they parted is a loss.  What is
\* replayed is one commit under a message of its own, which names no effect.
Overlap(ours, onto) ==
  LET base == CommonAncestor(ours, onto)
  IN  Changed(base, ours) \cap Changed(base, onto) # {}

\* Mutant: the checkout is not put on the base the replay is for.
Replayed_InPlace(h, ours, onto) == CommitOn(ours, h, Tree(ours), {})

Replayed(h, ours, onto) ==
  LET mine == Changed(CommonAncestor(ours, onto), ours)
  IN  CommitOn(onto, h,
               [f \in File |-> IF f \in mine THEN Tree(ours)[f] ELSE Tree(onto)[f]], {})

\* on_fetched_head: the checkout moves to what was fetched only when nothing
\* local is ahead of it.
OnFetchedHead(local, line) == IF Reaches(local, line) THEN line ELSE local

-----------------------------------------------------------------------------
(* The checkouts *)

Connected(h) == ~offline[h]

\* A call from the page, the chat or a report is taken between two ticks.
MayCall(h) ==
  /\ "call" \in Faults
  /\ doing[h] \in {Idle, Failed}
  /\ writes < MaxWrites

MayWrite(h) == MayCall(h) \/ (doing[h] = Tick /\ writes < MaxWrites)

\* A commit made now.  With in_tick set, or with the route cut, it stays
\* local; otherwise its push follows at once.
Committed(h, line, flush) ==
  /\ head' = [head EXCEPT ![h] = line]
  /\ writes' = writes + 1
  /\ doing' = [doing EXCEPT ![h] = IF @ = Idle /\ Connected(h) THEN flush ELSE @]
  /\ attempt' = [attempt EXCEPT ![h] = 0]
  /\ UNCHANGED <<main, fetched, offline>>

\* put: a record written against the seq it was read at.  Its guard replaces
\* the one an earlier put of the same record left.
Put(h, r) ==
  /\ MayWrite(h)
  /\ Committed(h, CommitOn(head[h], h, Added(head[h], r, <<h>>), {}), "call")
  /\ guards' = [guards EXCEPT ![h] = [x \in DOMAIN @ \cup {r} |->
                  IF x = r THEN Len(Tree(head[h])[r]) ELSE @[x]]]
  /\ UNCHANGED <<pending, owed, said>>

\* append: a thread entry, written with no guard.
AppendThread(h, l) ==
  /\ MayWrite(h)
  /\ Committed(h, CommitOn(head[h], h, Added(head[h], l, <<h>>), {}), "call")
  /\ UNCHANGED <<guards, pending, owed, said>>

\* receive and put_ask: a file named by the delivery, written if it is not
\* there and answered Recorded whatever becomes of the push.  Only calls do it.
Receive(h, d) ==
  /\ MayCall(h)
  /\ Tree(head[h])[d] = <<>>
  /\ Committed(h, CommitOn(head[h], h, Added(head[h], d, <<h>>), {}), "call")
  /\ UNCHANGED <<guards, pending, owed, said>>

\* write_effect: a commit whose message carries the id and whose tree is its
\* parent's, unless the local history or this process already holds the id.
WriteEffect(h, e) ==
  /\ MayWrite(h)
  /\ e \notin EffectsOf(head[h]) \cup pending[h]
  /\ Committed(h, CommitOn(head[h], h, Tree(head[h]), {e}), "call")
  /\ pending' = [pending EXCEPT ![h] = @ \cup {e}]
  /\ UNCHANGED <<guards, owed, said>>

\* append_run outside a tick, as the sweep's settle_record calls it: what is
\* owed is written again, and kept owed until its push lands.
SettleRecord(h) ==
  /\ doing[h] = Idle
  /\ owed[h] # <<>>
  /\ head' = [head EXCEPT ![h] = CommitOn(@, h, Added(@, h, owed[h]), {})]
  /\ IF Connected(h)
       THEN /\ doing' = [doing EXCEPT ![h] = "run record"]
            /\ attempt' = [attempt EXCEPT ![h] = 0]
            /\ UNCHANGED owed
       ELSE /\ owed' = [owed EXCEPT ![h] = <<>>]
            /\ UNCHANGED <<doing, attempt>>
  /\ UNCHANGED <<main, fetched, guards, offline, pending, said, writes>>

-----------------------------------------------------------------------------
(* The tick *)

\* Mutant: only a rejected push fetches.
TickBegins_NoFetch(h) ==
  /\ doing[h] \in {Idle, Failed}
  /\ doing' = [doing EXCEPT ![h] = Tick]
  /\ UNCHANGED <<main, head, fetched, attempt, guards, offline, pending, owed, said, writes>>

\* begin_tick and the fetch every tick does first.  With the route cut the
\* host reads its own line.
TickBegins(h) ==
  /\ doing[h] \in {Idle, Failed}
  /\ doing' = [doing EXCEPT ![h] = Tick]
  /\ fetched' = [fetched EXCEPT ![h] = IF offline[h] THEN head[h] ELSE main]
  /\ head' = [head EXCEPT ![h] = IF offline[h] THEN @ ELSE OnFetchedHead(@, main)]
  /\ UNCHANGED <<main, attempt, guards, offline, pending, owed, said, writes>>

\* A lease take refused by the git host: the loser fetches at once to read who
\* holds it, in the middle of its tick.
TakeRefused(h) ==
  /\ "take" \in Faults
  /\ doing[h] = Tick
  /\ Connected(h)
  /\ fetched' = [fetched EXCEPT ![h] = main]
  /\ head' = [head EXCEPT ![h] = OnFetchedHead(@, main)]
  /\ UNCHANGED <<main, doing, attempt, guards, offline, pending, owed, said, writes>>

\* Host::tick returns early: begin_tick has no end_tick, and the loop goes on.
TickFails(h) ==
  /\ "error" \in Faults
  /\ doing[h] = Tick
  /\ doing' = [doing EXCEPT ![h] = Failed]
  /\ UNCHANGED <<main, head, fetched, attempt, guards, offline, pending, owed, said, writes>>

\* The end of Host::tick: append_run writes what is owed and what this tick
\* says, and end_tick flushes.  A flush with the route cut or with nothing to
\* send is over at once, and clears what is owed.
TickEnds(h) ==
  \E k \in IF writes < MaxWrites THEN 0..1 ELSE {0} :
    LET entries == owed[h] \o [i \in 1..k |-> said[h] + i]
        line == IF entries = <<>> THEN head[h]
                ELSE CommitOn(head[h], h, Added(head[h], h, entries), {})
        over == offline[h] \/ line = fetched[h]
    IN  /\ doing[h] = Tick
        /\ said' = [said EXCEPT ![h] = @ + k]
        /\ writes' = writes + k
        /\ head' = [head EXCEPT ![h] = line]
        /\ doing' = [doing EXCEPT ![h] = IF over THEN Idle ELSE "tick ends"]
        /\ owed' = [owed EXCEPT ![h] = IF over THEN <<>> ELSE entries]
        /\ guards' = [guards EXCEPT ![h] = IF over THEN <<>> ELSE @]
        /\ attempt' = [attempt EXCEPT ![h] = 0]
        /\ UNCHANGED <<main, fetched, offline, pending>>

-----------------------------------------------------------------------------
(* The flush *)

\* Mutant: a push with no expected-old.
PushLands_Forced(h) ==
  /\ doing[h] \in Pushing
  /\ main' = head[h]
  /\ fetched' = [fetched EXCEPT ![h] = head[h]]
  /\ doing' = [doing EXCEPT ![h] = Idle]
  /\ guards' = [guards EXCEPT ![h] = <<>>]
  /\ owed' = [owed EXCEPT ![h] = <<>>]
  /\ UNCHANGED <<head, attempt, offline, pending, said, writes>>

\* The push lands: main was where this host expected it.  Nothing compares
\* what is pushed with what it replaces.
PushLands(h) ==
  /\ doing[h] \in Pushing
  /\ main = fetched[h]
  /\ main' = head[h]
  /\ fetched' = [fetched EXCEPT ![h] = head[h]]
  /\ doing' = [doing EXCEPT ![h] = Idle]
  /\ guards' = [guards EXCEPT ![h] = IF doing[h] = "reconnect" THEN @ ELSE <<>>]
  /\ owed' = [owed EXCEPT ![h] = IF doing[h] \in {"tick ends", "run record"} THEN <<>> ELSE @]
  /\ pending' = [pending EXCEPT ![h] = IF doing[h] = "reconnect" THEN {} ELSE @]
  /\ UNCHANGED <<head, attempt, offline, said, writes>>

\* A record this flush wrote is not at the seq it was written against.  What
\* is read is the checkout, which still holds this host's own commits.
GuardFails(h, local) ==
  \E r \in DOMAIN guards[h] : Len(Tree(local)[r]) # guards[h][r]

\* Mutant: a lost race leaves the commits on the checkout.
GivesUp_Keeps(h, line) ==
  /\ UNCHANGED <<head, attempt>>
  /\ doing' = [doing EXCEPT ![h] = Idle]

\* The flush gives up and the checkout is put at `line`.
GivesUp(h, line) ==
  /\ head' = [head EXCEPT ![h] = line]
  /\ doing' = [doing EXCEPT ![h] = Idle]
  /\ UNCHANGED attempt

TriesAgain(h, line) ==
  /\ head' = [head EXCEPT ![h] = line]
  /\ attempt' = [attempt EXCEPT ![h] = @ + 1]
  /\ UNCHANGED doing

\* Mutant: one attempt too many.
LastAttempt_OneMore(h) == attempt[h] = Retries

LastAttempt(h) == attempt[h] + 1 = Retries

\* flush after a rejected push: fetch, compare the guards, replay and try
\* again.  A third rejection is Refused: the end of a tick and an append to
\* the run record put the checkout back, any other call leaves it as it is.
FlushRejected(h, line) ==
  LET local == OnFetchedHead(head[h], line)
      lost == GuardFails(h, local) \/ (~LastAttempt(h) /\ Overlap(head[h], line))
      again == ~lost /\ ~LastAttempt(h)
  IN  /\ \/ lost /\ GivesUp(h, line)
         \/ again /\ TriesAgain(h, Replayed(h, head[h], line))
         \/ /\ ~lost /\ ~again
            /\ GivesUp(h, IF doing[h] = "call" THEN local ELSE line)
      /\ guards' = [guards EXCEPT ![h] = IF again THEN @ ELSE <<>>]

\* push_unpushed after a rejected push: fetch and replay, with no guards.  A
\* third rejection leaves the replayed commit on the checkout.
ReconnectRejected(h, line) ==
  /\ \/ Overlap(head[h], line) /\ GivesUp(h, line)
     \/ /\ ~Overlap(head[h], line)
        /\ IF LastAttempt(h) THEN GivesUp(h, Replayed(h, head[h], line))
                             ELSE TriesAgain(h, Replayed(h, head[h], line))
  /\ UNCHANGED guards

\* Mutant: entries are said to have landed whatever became of the push.
Rejected_Forgets(h, line) ==
  /\ doing[h] \in Pushing
  /\ fetched' = [fetched EXCEPT ![h] = line]
  /\ owed' = [owed EXCEPT ![h] = <<>>]
  /\ FlushRejected(h, line)
  /\ UNCHANGED <<offline, pending, said>>

Rejected(h, line) ==
  /\ doing[h] \in Pushing
  /\ fetched' = [fetched EXCEPT ![h] = line]
  /\ IF doing[h] = "reconnect" THEN ReconnectRejected(h, line) ELSE FlushRejected(h, line)
  /\ UNCHANGED <<offline, pending, owed, said>>

\* main moved since this host fetched.
PushRejected(h) ==
  /\ main # fetched[h]
  /\ Rejected(h, main)
  /\ UNCHANGED <<main, writes>>

\* A push whose answer says nothing of what main holds counts as a write, so
\* that what it makes a host do again is bounded.
GoesWrong ==
  /\ writes < MaxWrites
  /\ writes' = writes + 1

\* Neither the push nor the fetch after it reaches the git host.
PushUnreachable(h) ==
  /\ "unreachable" \in Faults
  /\ GoesWrong
  /\ Rejected(h, fetched[h])
  /\ UNCHANGED main

\* The push lands and this host is told it did not.
PushUnheard(h) ==
  /\ "unheard" \in Faults
  /\ GoesWrong
  /\ main = fetched[h]
  /\ main' = head[h]
  /\ Rejected(h, head[h])

-----------------------------------------------------------------------------
(* The route and the process *)

\* The operator's disconnect.
Disconnect(h) ==
  /\ "cut" \in Faults
  /\ doing[h] = Idle
  /\ Connected(h)
  /\ offline' = [offline EXCEPT ![h] = TRUE]
  /\ UNCHANGED <<main, head, fetched, doing, attempt, guards, pending, owed, said, writes>>

\* Reconnect: fetch, renew what is held (the lease branches, not this line),
\* and push_unpushed, which replays what was committed over what it finds.
Reconnect(h) ==
  LET local == OnFetchedHead(head[h], main)
      replayed == IF Reaches(main, local) THEN local ELSE Replayed(h, local, main)
      lost == ~Reaches(main, local) /\ Overlap(local, main)
      over == local = main \/ lost
  IN  /\ offline[h]
      /\ doing[h] = Idle
      /\ offline' = [offline EXCEPT ![h] = FALSE]
      /\ fetched' = [fetched EXCEPT ![h] = main]
      /\ head' = [head EXCEPT ![h] = IF over THEN main ELSE replayed]
      /\ doing' = [doing EXCEPT ![h] = IF over THEN Idle ELSE "reconnect"]
      /\ attempt' = [attempt EXCEPT ![h] = 0]
      /\ UNCHANGED <<main, guards, pending, owed, said, writes>>

\* The process stops at any point and the host is opened again on the same
\* checkout: memory is gone, the branch is not, and open fetches.
CrashAndOpen(h) ==
  /\ "crash" \in Faults
  /\ offline' = [offline EXCEPT ![h] = FALSE]
  /\ fetched' = [fetched EXCEPT ![h] = main]
  /\ head' = [head EXCEPT ![h] = OnFetchedHead(@, main)]
  /\ doing' = [doing EXCEPT ![h] = Idle]
  /\ attempt' = [attempt EXCEPT ![h] = 0]
  /\ guards' = [guards EXCEPT ![h] = <<>>]
  /\ pending' = [pending EXCEPT ![h] = {}]
  /\ owed' = [owed EXCEPT ![h] = <<>>]
  /\ UNCHANGED <<main, said, writes>>
-----------------------------------------------------------------------------
(* The specification *)

\* The first commit of the shared line, which every host clones.
Root == <<[by |-> "init", tree |-> [f \in File |-> <<>>], effects |-> {}]>>

Init ==
  /\ main = Root
  /\ head = [h \in Host |-> Root]
  /\ fetched = [h \in Host |-> Root]
  /\ doing = [h \in Host |-> Idle]
  /\ attempt = [h \in Host |-> 0]
  /\ guards = [h \in Host |-> <<>>]
  /\ offline = [h \in Host |-> FALSE]
  /\ pending = [h \in Host |-> {}]
  /\ owed = [h \in Host |-> <<>>]
  /\ said = [h \in Host |-> 0]
  /\ writes = 0

Next ==
  \E h \in Host :
    \/ \E r \in Record : Put(h, r)
    \/ \E l \in Log : AppendThread(h, l)
    \/ \E d \in Delivery : Receive(h, d)
    \/ \E e \in Effect : WriteEffect(h, e)
    \/ SettleRecord(h)
    \/ TickBegins(h)
    \/ TakeRefused(h)
    \/ TickFails(h)
    \/ TickEnds(h)
    \/ PushLands(h)
    \/ PushRejected(h)
    \/ PushUnreachable(h)
    \/ PushUnheard(h)
    \/ Disconnect(h)
    \/ Reconnect(h)
    \/ CrashAndOpen(h)

Spec == Init /\ [][Next]_vars

\* The loop of main.rs keeps taking passes, a pass ends, a push is answered,
\* and a sweep does not end while its record is unsaid.
Fairness ==
  \A h \in Host :
    /\ WF_vars(TickBegins(h))
    /\ WF_vars(TickEnds(h))
    /\ WF_vars(PushLands(h) \/ PushRejected(h))
    /\ WF_vars(SettleRecord(h))

LiveSpec == Spec /\ Fairness

-----------------------------------------------------------------------------
(* Properties *)

\* Every variable has its type.
TypeOK ==
  /\ main \in Line
  /\ head \in [Host -> Line]
  /\ fetched \in [Host -> Line]
  /\ doing \in [Host -> {Idle, Tick, Failed} \cup Pushing]
  /\ attempt \in [Host -> 0..(Retries - 1)]
  /\ DOMAIN guards = Host
  /\ \A h \in Host : DOMAIN guards[h] \subseteq Record /\ \A r \in DOMAIN guards[h] : guards[h][r] \in Nat
  /\ offline \in [Host -> BOOLEAN]
  /\ pending \in [Host -> SUBSET Effect]
  /\ owed \in [Host -> Seq(Nat)]
  /\ said \in [Host -> Nat]
  /\ writes \in 0..MaxWrites

\* A commit that reached main on the git host stays in its history
\* (git-only.yaml guarantees.durable).
LineIsAppendOnly == [][Reaches(main, main')]_main

\* No push takes anything away from a file that stands on the shared line: a
\* record's new state was made from the one that stood, a thread keeps every
\* entry, a response and a run record stay (single_writer, 144, I15).
NothingOverwritten ==
  [][\A f \in File : IsPrefix(Tree(main)[f], Tree(main')[f])]_main

\* Between ticks a connected host has no commit of its own left on its
\* checkout: a tick that did not land was put back (end_tick).
NothingStranded ==
  \A h \in Host : doing[h] = Idle /\ Connected(h) => head[h] = fetched[h]

\* The run record of a host on the shared line says each entry once and in the
\* order it was said (127, append_run).
RunEntriesOnce ==
  \A h \in Host : \A i, j \in DOMAIN Tree(main)[h] : i < j => Tree(main)[h][i] < Tree(main)[h][j]

\* An entry a host produced is on the shared line, on its own branch or still
\* owed: a lost push loses none of them (79, 167, owed_run).
RunEntriesKept ==
  \A h \in Host : \A n \in 1..said[h] :
    n \in ToSet(Tree(main)[h]) \cup ToSet(Tree(head[h])[h]) \cup ToSet(owed[h])

\* What a host lands after a rejection, or on coming back, goes on top of what
\* stands, whatever state its checkout was in: the line keeps its history and
\* every file what was written to it (replay_onto, push_unpushed, 165).
ReplayExtendsLine ==
  [][\A h \in Host :
       /\ doing[h] \in Pushing
       /\ attempt[h] > 0 \/ doing[h] = "reconnect"
       /\ doing'[h] = Idle
       /\ main' # main
       => /\ Reaches(main, main')
          /\ \A f \in File : IsPrefix(Tree(main)[f], Tree(main')[f])]_vars

\* Along every history, the shared line's and each checkout's, a commit takes
\* nothing away from any file of its parent: a replay puts a host's paths on
\* another base without dropping what that base holds of them.
Grows(line) ==
  \A j \in 1..Len(line) : \A i \in 1..j : \A f \in File : IsPrefix(line[i].tree[f], line[j].tree[f])

HistoriesGrow == Grows(main) /\ \A h \in Host : Grows(head[h])

\* Once hosts stop writing, every checkout comes to the shared line and no
\* host owes its record an entry (130, D7: a never-notified host converges).
HostsConverge == <>[](\A h \in Host : head[h] = main /\ owed[h] = <<>>)

\* What a host has committed and not landed, over what it fetched.
Drafts ==
  [h \in Host |-> [f \in File |->
     LET was == Len(Tree(fetched[h])[f]) IN
     SubSeq(Tree(head[h])[f], was + 1, Len(Tree(head[h])[f]))]]

Contract ==
  INSTANCE Store WITH stored <- Tree(main), drafts <- Drafts,
                      read <- [h \in Host |-> Tree(fetched[h])]

\* Whole ticks over the shared line are a store: what one tick wrote lands in
\* one step over the very files it was made from, or is dropped, and in the end
\* it is one or the other (traits.rs StateStore, 134, 167).
IsAStore == Contract!Spec
=============================================================================
