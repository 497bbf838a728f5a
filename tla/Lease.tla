-------------------------------- MODULE Lease --------------------------------
(***************************************************************************)
(* One lease: a branch of the state repository that holds one commit, the  *)
(* lease record (GitStore::lease and put_orphan in                         *)
(* flywheel-store-git/src/store.rs, driven by Host::tick).                 *)
(*                                                                         *)
(* Every write of the branch is two steps with the git host in between:    *)
(* the host moves its own local branch to the record it asks for, then     *)
(* pushes it expecting the remote branch where its remote-tracking branch  *)
(* says it is.  What a host reads is the remote-tracking branch or, where  *)
(* there is none, its own.                                                 *)
(*                                                                         *)
(* The lease machine (definitions/engine/lease.yaml) is ticked by every    *)
(* host over what it reads and its state is written with the record.       *)
(***************************************************************************)
EXTENDS Naturals

CONSTANTS
  Host,
  Nobody,      \* the holder of a lease nobody holds
  None,        \* no branch, no record, nothing asked for
  RenewEvery,  \* RENEW_EVERY = 1 minute
  Stale,       \* stale_after = 5 minutes
  Expiry,      \* lease_expiry = 24 hours
  Ahead,       \* how far each host's clock runs ahead of the slowest
  MaxTick,     \* how long a pass lasts when it is not slow
  MaxTime,     \* bound: the hour the model stops at
  Taken,       \* the lease is asked for with Take even when it is held (the rail's)
  Faults       \* what the environment may do

AllFaults ==
  {"lapse",       \* a holder may take no pass for any time
   "slow",        \* a pass may last any time
   "crash",       \* a host stops anywhere and is opened again
   "gone",        \* a host stops for good
   "takeover",    \* the operator answers takeover for a host that may be alive
   "cut",         \* the operator's disconnect and reconnect
   "unreachable", \* a push or a fetch does not reach the git host
   "unheard"}     \* a push lands and its answer is lost

ASSUME LeaseAssumption ==
  /\ Host # {} /\ Nobody \notin Host
  /\ {RenewEvery, Stale, Expiry, MaxTick, MaxTime} \subseteq Nat
  /\ Ahead \in [Host -> Nat]
  /\ Taken \in BOOLEAN
  /\ Faults \subseteq AllFaults

VARIABLES
  now,       \* true time
  clock,     \* the hour each host read at the top of its pass
  branch,    \* the lease branch on the git host
  tracking,  \* each host's remote-tracking branch
  local,     \* each host's own branch
  asking,    \* the write each host is in the middle of
  doing,     \* where each host is in its pass
  marked,    \* the hosts that ticked the lease's machine in this pass
  offline    \* the disconnected flag

vars == <<now, clock, branch, tracking, local, asking, doing, marked, offline>>

State == {"free", "held", "stale", "expired"}

\* A commit is its record and the hour in its message, which is all its id is
\* made from.
Record == [holder : Host \cup {Nobody}, renewed : Nat, state : State, at : Nat]

ASSUME NoneIsNoRecord == None \notin Record

\* A write under way: what is pushed, what the remote is expected to hold, and
\* what the local branch goes back to when the push is rejected.
Asked == [op : {"take", "renew", "mark", "release"},
          record : Record \cup {None}, expected : Record \cup {None}, before : Record \cup {None}]

ASSUME NoneIsNotAsked == None \notin Asked

Idle == "idle"

\* Bound: once a host has stopped for good nothing else goes wrong.
Happens(fault) == fault \in Faults /\ \A h \in Host : doing[h] # "gone"

-----------------------------------------------------------------------------
(* What a host reads *)

HolderOf(record) == IF record = None THEN Nobody ELSE record.holder

\* read_leases, one_lease: the remote-tracking branch wins where both stand.
Reads(h) == IF tracking[h] # None THEN tracking[h] ELSE local[h]

Mine(h) == HolderOf(Reads(h)) = h

\* Mutant: what is older than the stale window is expired.
Expired_AtStale(h, record) ==
  HolderOf(record) # Nobody => record.renewed + Stale < clock[h]

\* Mutant: only a lease nobody holds may be taken.
Expired_FreeOnly(h, record) == HolderOf(record) = Nobody

\* renew_and_take: nobody holds it, or its holder stopped renewing.
Expired(h, record) ==
  HolderOf(record) # Nobody => record.renewed + Expiry < clock[h]

RenewalDue(h, record) == record.renewed + RenewEvery <= clock[h]

\* The lease machine over a record read at this host's hour.  A holder whose
\* heartbeat is old is expired as well, which only adds to when it may be.
NextState(h, record) ==
  LET old(d) == record.renewed + d < clock[h]
  IN  CASE record.state = "free" /\ record.holder # Nobody -> "held"
        [] record.state = "held" /\ record.holder = Nobody -> "free"
        [] record.state = "held" /\ old(Stale) -> "stale"
        [] record.state = "stale" /\ record.holder = Nobody -> "free"
        [] record.state = "stale" /\ ~old(Stale) -> "held"
        [] record.state = "stale" /\ old(Expiry) -> "expired"
        [] record.state = "expired" /\ record.holder = Nobody -> "free"
        [] record.state = "expired" /\ ~old(Stale) -> "held"
        [] OTHER -> record.state

-----------------------------------------------------------------------------
(* Writing the branch *)

\* put_orphan up to its push.
Asks(h, op, record) ==
  /\ asking' = [asking EXCEPT ![h] =
       [op |-> op, record |-> record, expected |-> tracking[h], before |-> local[h]]]
  /\ local' = [local EXCEPT ![h] = record]

AsksNothing == UNCHANGED <<asking, local>>

\* Mutant: a take writes the hour before this pass's.
TakenRecord_HourBefore(h) ==
  [holder |-> h, renewed |-> clock[h] - RenewEvery, at |-> clock[h],
   state |-> IF Reads(h) = None THEN "free" ELSE Reads(h).state]

\* The record a take writes: the machine's state is kept as it was read.
TakenRecord(h) ==
  [holder |-> h, renewed |-> clock[h], at |-> clock[h],
   state |-> IF Reads(h) = None THEN "free" ELSE Reads(h).state]

\* The record a renewal writes is the one it read, at this hour.
RenewedRecord(h, record) ==
  [holder |-> record.holder, renewed |-> clock[h], state |-> record.state, at |-> clock[h]]

\* The record a mark writes is the one it read, whoever holds it.
MarkedRecord(h, state) ==
  [holder |-> HolderOf(Reads(h)),
   renewed |-> IF Reads(h) = None THEN clock[h] ELSE Reads(h).renewed,
   state |-> state,
   at |-> clock[h]]

\* renew_and_take for one object, or the rail's take at the top of a tick.
Claim(h) ==
  /\ doing[h] = "begun"
  /\ asking[h] = None
  /\ doing' = [doing EXCEPT ![h] = "claimed"]
  /\ \/ /\ Mine(h) /\ RenewalDue(h, Reads(h)) /\ ~offline[h]
        /\ IF Taken THEN Asks(h, "take", TakenRecord(h))
                    ELSE Asks(h, "renew", RenewedRecord(h, Reads(h)))
     \/ /\ ~Mine(h) /\ Expired(h, Reads(h)) /\ ~offline[h]
        /\ Asks(h, "take", TakenRecord(h))
     \/ /\ \/ offline[h]
           \/ Mine(h) /\ ~RenewalDue(h, Reads(h))
           \/ ~Mine(h) /\ ~Expired(h, Reads(h))
        /\ AsksNothing
  /\ UNCHANGED <<now, clock, branch, tracking, marked, offline>>

\* put of the lease's machine: the state it reached is written with the record
\* as it was read, whoever holds it.
Mark(h) ==
  /\ doing[h] \in {"claimed", "acting"} /\ h \notin marked
  /\ asking[h] = None
  /\ Reads(h) # None
  /\ NextState(h, Reads(h)) # Reads(h).state
  /\ Asks(h, "mark", MarkedRecord(h, NextState(h, Reads(h))))
  /\ marked' = marked \cup {h}
  /\ UNCHANGED <<now, clock, branch, tracking, doing, offline>>

\* expire_leases, for a gone host answered takeover: its lease is released ...
Release(h) ==
  /\ Happens("takeover")
  /\ doing[h] \in {"claimed", "acting"}
  /\ asking[h] = None
  /\ HolderOf(Reads(h)) \notin {h, Nobody}
  /\ Asks(h, "release", None)
  /\ doing' = [doing EXCEPT ![h] = "releasing"]
  /\ UNCHANGED <<now, clock, branch, tracking, marked, offline>>

\* ... and what is then read of it is marked expired.
MarkExpired(h) ==
  /\ doing[h] = "releasing"
  /\ asking[h] = None
  /\ Asks(h, "mark", MarkedRecord(h, "expired"))
  /\ doing' = [doing EXCEPT ![h] = "claimed"]
  /\ UNCHANGED <<now, clock, branch, tracking, marked, offline>>

\* Mutant: a push with no expected-old.
PushLands_Forced(h) ==
  /\ asking[h] # None
  /\ branch' = asking[h].record
  /\ tracking' = [tracking EXCEPT ![h] = asking[h].record]
  /\ asking' = [asking EXCEPT ![h] = None]
  /\ UNCHANGED <<now, clock, local, doing, marked, offline>>

\* Mutant: only the push of a take or a renewal expects where the remote is.
PushLands_MarkForced(h) ==
  /\ asking[h] # None
  /\ asking[h].op # "mark" => branch = asking[h].expected
  /\ branch' = asking[h].record
  /\ tracking' = [tracking EXCEPT ![h] = asking[h].record]
  /\ asking' = [asking EXCEPT ![h] = None]
  /\ UNCHANGED <<now, clock, local, doing, marked, offline>>

\* The push lands, and git moves the remote-tracking branch with it.
PushLands(h) ==
  /\ asking[h] # None
  /\ branch = asking[h].expected
  /\ branch' = asking[h].record
  /\ tracking' = [tracking EXCEPT ![h] = asking[h].record]
  /\ asking' = [asking EXCEPT ![h] = None]
  /\ UNCHANGED <<now, clock, local, doing, marked, offline>>

\* Mutant: the local branch stays at what was asked for.
LocalAfterRejection_Stays(h) == local[h]

\* put_orphan puts the local branch back; release has deleted it already.
LocalAfterRejection(h) == IF asking[h].op = "release" THEN None ELSE asking[h].before

\* The push is rejected.  Only a take looks at that: the loser fetches, and
\* `seen` is what the fetch brings.
Rejected(h, seen) ==
  /\ asking[h] # None
  /\ local' = [local EXCEPT ![h] = LocalAfterRejection(h)]
  /\ tracking' = [tracking EXCEPT ![h] = IF asking[h].op = "take" THEN seen ELSE @]
  /\ asking' = [asking EXCEPT ![h] = None]
  /\ UNCHANGED <<now, clock, doing, marked, offline>>

PushRejected(h) ==
  /\ asking[h] # None /\ branch # asking[h].expected
  /\ Rejected(h, branch)
  /\ UNCHANGED branch

PushUnreachable(h) ==
  /\ Happens("unreachable")
  /\ Rejected(h, tracking[h])
  /\ UNCHANGED branch

PushUnheard(h) ==
  /\ Happens("unheard")
  /\ asking[h] # None /\ branch = asking[h].expected
  /\ branch' = asking[h].record
  /\ Rejected(h, asking[h].record)

-----------------------------------------------------------------------------
(* The pass *)

\* The host reads the hour once a pass and fetches, pruning what is gone.
TickBegins(h) ==
  /\ doing[h] = Idle
  /\ asking[h] = None
  /\ doing' = [doing EXCEPT ![h] = "begun"]
  /\ clock' = [clock EXCEPT ![h] = now + Ahead[h]]
  /\ \/ ~offline[h] /\ tracking' = [tracking EXCEPT ![h] = branch]
     \/ (offline[h] \/ Happens("unreachable")) /\ UNCHANGED tracking
  /\ UNCHANGED <<now, branch, local, asking, marked, offline>>

\* tick_as writes on an object only where its lease reads as this host's.
Acts(h) ==
  /\ doing[h] = "claimed"
  /\ asking[h] = None
  /\ Mine(h)
  /\ doing' = [doing EXCEPT ![h] = "acting"]
  /\ UNCHANGED <<now, clock, branch, tracking, local, asking, marked, offline>>

TickEnds(h) ==
  /\ doing[h] \in {"claimed", "acting"}
  /\ asking[h] = None
  /\ doing' = [doing EXCEPT ![h] = Idle]
  /\ marked' = marked \ {h}
  /\ UNCHANGED <<now, clock, branch, tracking, local, asking, offline>>

Disconnect(h) ==
  /\ Happens("cut")
  /\ doing[h] = Idle /\ asking[h] = None /\ ~offline[h]
  /\ offline' = [offline EXCEPT ![h] = TRUE]
  /\ UNCHANGED <<now, clock, branch, tracking, local, asking, doing, marked>>

\* Reconnect fetches and renews what then still reads as this host's.
Reconnect(h) ==
  /\ offline[h] /\ doing[h] = Idle /\ asking[h] = None
  /\ offline' = [offline EXCEPT ![h] = FALSE]
  /\ tracking' = [tracking EXCEPT ![h] = branch]
  /\ LET read == IF branch # None THEN branch ELSE local[h]
     IN  IF HolderOf(read) = h /\ RenewalDue(h, read)
           THEN /\ asking' = [asking EXCEPT ![h] =
                     [op |-> "renew", expected |-> branch, before |-> local[h], record |-> RenewedRecord(h, read)]]
                /\ local' = [local EXCEPT ![h] = RenewedRecord(h, read)]
           ELSE AsksNothing
  /\ UNCHANGED <<now, clock, branch, doing, marked>>

\* A stop at any point; the branches are on disk and open fetches.
CrashAndOpen(h) ==
  /\ Happens("crash")
  /\ doing[h] # "gone"
  /\ doing' = [doing EXCEPT ![h] = Idle]
  /\ marked' = marked \ {h}
  /\ asking' = [asking EXCEPT ![h] = None]
  /\ offline' = [offline EXCEPT ![h] = FALSE]
  /\ tracking' = [tracking EXCEPT ![h] = branch]
  /\ UNCHANGED <<now, clock, branch, local>>

\* A stop for good, in the middle of anything.  The others go on.
Goes(h) ==
  /\ "gone" \in Faults
  /\ \A k \in Host : doing[k] # "gone"
  /\ \E k \in Host \ {h} : ~offline[k]
  /\ doing' = [doing EXCEPT ![h] = "gone"]
  /\ asking' = [asking EXCEPT ![h] = None]
  /\ UNCHANGED <<now, clock, branch, tracking, local, marked, offline>>

\* A pass is over within MaxTick, but where it may be slow ...
PassesPrompt ==
  \A h \in Host : doing[h] \in {Idle, "gone"} \/ now + Ahead[h] < clock[h] + MaxTick

\* ... and a holder renews before its lease is stale, but where it may lapse.
RenewsPrompt ==
  \A h \in Host :
    HolderOf(branch) = h /\ doing[h] # "gone" => now + Ahead[h] < branch.renewed + Stale

TimePasses ==
  /\ now < MaxTime
  /\ "slow" \in Faults \/ PassesPrompt
  /\ "lapse" \in Faults \/ RenewsPrompt
  /\ now' = now + 1
  /\ UNCHANGED <<clock, branch, tracking, local, asking, doing, marked, offline>>

Init ==
  /\ now = 0
  /\ clock = Ahead
  /\ branch = None
  /\ tracking = [h \in Host |-> None]
  /\ local = [h \in Host |-> None]
  /\ asking = [h \in Host |-> None]
  /\ doing = [h \in Host |-> Idle]
  /\ marked = {}
  /\ offline = [h \in Host |-> FALSE]

Next ==
  \/ TimePasses
  \/ \E h \in Host :
       \/ TickBegins(h)
       \/ Claim(h)
       \/ Acts(h)
       \/ Mark(h)
       \/ Release(h)
       \/ MarkExpired(h)
       \/ TickEnds(h)
       \/ PushLands(h)
       \/ PushRejected(h)
       \/ PushUnreachable(h)
       \/ PushUnheard(h)
       \/ Disconnect(h)
       \/ Reconnect(h)
       \/ CrashAndOpen(h)
       \/ Goes(h)

Spec == Init /\ [][Next]_vars

\* Time passes, and the loop of main.rs keeps taking passes.
Fairness ==
  /\ WF_vars(TimePasses)
  /\ \A h \in Host :
       /\ WF_vars(TickBegins(h))
       /\ WF_vars(Claim(h))
       /\ WF_vars(MarkExpired(h))
       /\ WF_vars(TickEnds(h))
       /\ WF_vars(PushLands(h) \/ PushRejected(h))

LiveSpec == Spec /\ Fairness

-----------------------------------------------------------------------------
(* Properties *)

TypeOK ==
  /\ now \in 0..MaxTime
  /\ clock \in [Host -> Nat]
  /\ branch \in Record \cup {None}
  /\ tracking \in [Host -> Record \cup {None}]
  /\ local \in [Host -> Record \cup {None}]
  /\ asking \in [Host -> Asked \cup {None}]
  /\ doing \in [Host -> {Idle, "begun", "claimed", "acting", "releasing", "gone"}]
  /\ marked \subseteq Host
  /\ offline \in [Host -> BOOLEAN]

\* A holder is replaced by another only when its last renewal is older than
\* the expiry, whatever was read when and however the pushes interleave: by
\* true time no sooner than the clocks differ (128, 150, 163).
NotTakenEarly ==
  [][\A a, b \in Host :
       a # b /\ HolderOf(branch) = a /\ HolderOf(branch') = b
         => branch.renewed + Expiry < now + Ahead[b]]_branch

\* While the same host holds the lease no write, its own or another host's
\* mark, puts its renewal back (163).
RenewalNeverRolledBack ==
  [][\A h \in Host :
       HolderOf(branch) = h /\ HolderOf(branch') = h => branch.renewed <= branch'.renewed]_branch

\* No two hosts are writing on the object at once (tick_as: nothing writes on
\* an object whose lease another host holds, 128, 149, I15).
OneActs == \A a, b \in Host : doing[a] = "acting" /\ doing[b] = "acting" => a = b

\* A host that has just fetched and reads itself as the holder is the holder
\* (put_orphan: no local branch answers for a lease it does not hold).
BelievesWhatStands ==
  [][\A h \in Host :
       doing[h] = Idle /\ doing'[h] = "begun" /\ tracking'[h] = branch
         => (Mine(h)' => HolderOf(branch) = h)]_vars

\* The lease of a host that stopped for good, in the middle of anything, comes
\* to another, or to nobody, when the hour of its expiry comes (150, lease.yaml
\* expired): what it left half done on the branch or in its own is no bar.
GoneIsReplaced ==
  \A h \in Host :
    doing[h] = "gone" /\ HolderOf(branch) = h /\ branch.renewed + Expiry < MaxTime
      ~> HolderOf(branch) # h
=============================================================================
