------------------------------- MODULE Chat -------------------------------
(***************************************************************************)
(* One chat sink: a channel of the platform, the hosts that loaded it and  *)
(* the records they share (flywheel-surface chat.rs and discord.rs,        *)
(* flywheel-domain sinks.rs, Host::hear, sink.yaml).  The presenter posts  *)
(* the standing decisions and marks how far it delivered; what people      *)
(* write is heard through the gateway or, after a silence, read from the   *)
(* channel's history, taken once, recorded and replied to.  Channel says   *)
(* what the channel, its decisions and the mark are.                       *)
(***************************************************************************)
EXTENDS Channel, FiniteSets, Sequences, SequencesExt

CONSTANTS
  Hosts,      \* the hosts that loaded the sink's channel
  Messages,   \* the messages people may write
  Kinds,      \* what a message may be: "answer", "all", "forward" or "other"
  Nobody,     \* the holder of a free lease
  MaxRaised,  \* bound: decisions raised
  MaxNow,     \* bound: turns of the clock
  MaxFaults   \* bound: stops, connections lost, calls that fail, pushes lost

ASSUME ChatAssumption ==
  /\ Kinds \subseteq {"answer", "all", "forward", "other"}
  /\ Nobody \notin Hosts
  /\ {MaxRaised, MaxFaults} \subseteq Nat /\ MaxNow \in Nat \ {0}

VARIABLES
  now,       \* the clock a turn reads
  filed,     \* the responses and captures on record: <<message, decision>>
  presenter, \* the holder of the sink's lease
  wire,      \* a host's side of the connection, and what waits in its inbox
  work,      \* what a host is in the middle of
  skipped,   \* history: <<host, message>> that this run of the host never hears
  faults     \* the faults so far

vars == <<channel, now, raised, standing, filed, mark, presenter, wire, work, skipped, faults>>
clock == <<now, raised>>

Deaf ==
  [up |-> FALSE, connected |-> FALSE, from |-> Never, unread |-> FALSE,
   gateway |-> 0, after |-> Never, handed |-> {}, waiting |-> <<>>]

\* in: what a host has in hand; giving: what the messages it took ask for and it
\* has not given; posted: the rendering of this tick, or Never.
Idle == [in |-> "idle", giving |-> <<>>, posted |-> Never]

Presents(h) == presenter = h
Stopped(h) == ~wire[h].up

\* derived.rs standing_delivered: a decision raised since the mark.
Due == \E d \in standing : raised[d] > mark.at

------------------------------------------------------------------------------
(* The wire.                                                                 *)

\* Inbox::seen
Seen(w, n) == IF n > w.after THEN [w EXCEPT !.after = n] ELSE w

\* Inbox::message: a message of the channel, from the gateway or the history.
\* One this bot wrote is accounted for and not handed over.
HandOver(w, n) ==
  IF channel[n].what # "said" \/ n \in w.handed
    THEN Seen(w, n)
    ELSE [Seen(w, n) EXCEPT !.handed = @ \cup {n}, !.waiting = Append(@, n)]

\* A host starts: it listens, accounting for what its sink's mark delivered.
Starts(h) ==
  /\ Stopped(h)
  /\ wire' = [wire EXCEPT ![h] = [Deaf EXCEPT !.up = TRUE, !.after = mark.delivery]]
  /\ UNCHANGED <<channel, clock, standing, filed, mark, presenter, work, skipped, faults>>

Unread(h, ns) == {<<h, channel[n].of>> : n \in {k \in Said \cap ns : k \notin wire[h].handed}}

\* Listener::ready: connected, and what was sent meanwhile is to be read from
\* after what is accounted for; with nothing accounted for nothing is read.
Connects(h) ==
  /\ wire[h].up /\ ~wire[h].connected
  /\ LET from == IF wire[h].unread THEN wire[h].from ELSE wire[h].after IN
     /\ wire' = [wire EXCEPT ![h].connected = TRUE, ![h].gateway = Len(channel),
                             ![h].from = from, ![h].unread = from # Never]
     /\ skipped' = skipped \cup Unread(h, IF from = Never THEN Ids ELSE 1..from)
  /\ UNCHANGED <<channel, clock, standing, filed, mark, presenter, work, faults>>

\* The gateway hands over the next entry of the channel.
Arrives(h) ==
  /\ wire[h].connected /\ wire[h].gateway < Len(channel)
  /\ LET n == wire[h].gateway + 1 IN
     wire' = [wire EXCEPT ![h] = [HandOver(@, n) EXCEPT !.gateway = n]]
  /\ UNCHANGED <<channel, clock, standing, filed, mark, presenter, work, skipped, faults>>

\* Numbers in their order.
Ascending(numbers) ==
  CHOOSE f \in [1..Cardinality(numbers) -> numbers] :
    \A i, j \in 1..Cardinality(numbers) : i < j => f[i] < f[j]

\* What is read of the history is handed over as if it had just arrived, and
\* what waits is put in the order it was written.
HandOverAll(w, read) ==
  LET new == read \ w.handed
  IN [w EXCEPT !.unread = FALSE, !.after = Len(channel), !.handed = @ \cup new,
               !.waiting = Ascending(Range(@) \cup new)]

\* A change to catch: only what was sent after the gateway stood is read.
Waited_SinceConnected(h) ==
  /\ wire[h].up /\ wire[h].unread
  /\ wire' = [wire EXCEPT ![h] = HandOverAll(@, {n \in Said : n > wire[h].gateway})]
  /\ UNCHANGED <<channel, clock, standing, filed, mark, presenter, work, skipped, faults>>

\* Inbox::waited: the history since what was accounted for when the connection
\* stood, read beside the gateway.  What this bot has replied to was answered
\* by an earlier run.
Waited(h) ==
  /\ wire[h].up /\ wire[h].unread
  /\ LET unanswered == {n \in Said : Replies(channel[n].of) = {}}
     IN wire' = [wire EXCEPT ![h] = HandOverAll(@, {n \in unanswered : n > wire[h].from})]
  /\ UNCHANGED <<channel, clock, standing, filed, mark, presenter, work, skipped, faults>>

\* The history could not be read: said under attention, and not tried again.
WaitedFails(h) ==
  /\ wire[h].up /\ wire[h].unread /\ faults < MaxFaults
  /\ wire' = [wire EXCEPT ![h].unread = FALSE]
  /\ skipped' = skipped \cup Unread(h, {n \in Ids : n > wire[h].from})
  /\ faults' = faults + 1
  /\ UNCHANGED <<channel, clock, standing, filed, mark, presenter, work>>

\* The connection is lost; the gateway replays nothing.
Disconnects(h) ==
  /\ wire[h].connected /\ faults < MaxFaults
  /\ wire' = [wire EXCEPT ![h].connected = FALSE]
  /\ faults' = faults + 1
  /\ UNCHANGED <<channel, clock, standing, filed, mark, presenter, work, skipped>>

\* Everything of the wire and of the turn is lost, and what this run skipped is
\* the next run's to hear again.
Stops(h) ==
  /\ wire[h].up /\ faults < MaxFaults
  /\ wire' = [wire EXCEPT ![h] = Deaf] /\ work' = [work EXCEPT ![h] = Idle]
  /\ skipped' = {s \in skipped : s[1] # h}
  /\ faults' = faults + 1
  /\ UNCHANGED <<channel, clock, standing, filed, mark, presenter>>

------------------------------------------------------------------------------
(* What is heard (Host::hear, Chat::receive).                                *)

\* What another host presents is that host's to hear and is let go here; what
\* nobody presents waits.
LetsGo(h) ==
  /\ wire[h].up /\ work[h].in = "idle" /\ wire[h].waiting # <<>>
  /\ presenter \notin {h, Nobody}
  /\ skipped' = skipped \cup {<<h, channel[n].of>> : n \in Range(wire[h].waiting)}
  /\ wire' = [wire EXCEPT ![h].waiting = <<>>]
  /\ UNCHANGED <<channel, clock, standing, filed, mark, presenter, work, faults>>

\* What one message asks for: an answer to the decision it names, to each that
\* stands, a capture, or nothing the sink accepts.
Asked(n) ==
  LET m == channel[n].of IN
  CASE channel[n].kind = "answer" -> <<<<m, channel[n].number>>>>
    [] channel[n].kind = "all" ->
         [k \in 1..Cardinality(standing) |-> <<m, Ascending(standing)[k]>>]
    [] OTHER -> <<<<m, 0>>>>

\* The presenter takes all that waits, in the order it waits.
Hears(h) ==
  /\ wire[h].up /\ work[h].in = "idle" /\ wire[h].waiting # <<>> /\ Presents(h)
  /\ LET w == wire[h].waiting
         giving == FlattenSeq([k \in DOMAIN w |-> Asked(w[k])])
     IN work' = [work EXCEPT ![h] = [Idle EXCEPT !.in = IF giving = <<>> THEN "idle" ELSE "hearing",
                                                 !.giving = giving]]
  /\ wire' = [wire EXCEPT ![h].waiting = <<>>]
  /\ UNCHANGED <<channel, clock, standing, filed, mark, presenter, skipped, faults>>

Giving(h) == work[h].in = "hearing"
Given(h) == Head(work[h].giving)
GoesOnWith(h, rest) ==
  work' = [work EXCEPT ![h].in = IF rest = <<>> THEN "idle" ELSE "hearing", ![h].giving = rest]
GivesNext(h) == GoesOnWith(h, Tail(work[h].giving))

\* record_call: recorded once by its delivery's identity.  A capture and what
\* was recorded before get no reply; a message the sink does not accept is
\* replied to and not recorded.
Records(h) ==
  /\ Giving(h)
  /\ LET g == Given(h) IN
     IF KindOf(g[1]) # "other" /\ g \in filed
     THEN GivesNext(h) /\ UNCHANGED filed
     ELSE /\ filed' = (IF KindOf(g[1]) = "other" THEN filed ELSE filed \cup {g})
          /\ IF KindOf(g[1]) = "forward" THEN GivesNext(h)
             ELSE work' = [work EXCEPT ![h].in = "replying"]
  /\ UNCHANGED <<channel, clock, standing, mark, presenter, wire, skipped, faults>>

RepliesTo(h) ==
  /\ work[h].in = "replying"
  /\ channel' = Append(channel, [what |-> "reply", of |-> Given(h)[1], number |-> Given(h)[2]])
  /\ GivesNext(h)
  /\ UNCHANGED <<clock, standing, filed, mark, presenter, wire, skipped, faults>>

\* A reply that fails ends the reading of its message, and the first thing that
\* another asks for is next.
ReplyFails(h) ==
  /\ work[h].in = "replying" /\ faults < MaxFaults
  /\ LET giving == work[h].giving
     IN \E next \in 1..(Len(giving) + 1) :
          /\ \A k \in 1..(next - 1) : giving[k][1] = Given(h)[1]
          /\ next \in DOMAIN giving => giving[next][1] # Given(h)[1]
          /\ GoesOnWith(h, SubSeq(giving, next, Len(giving)))
  /\ faults' = faults + 1
  /\ UNCHANGED <<channel, clock, standing, filed, mark, presenter, wire, skipped>>

------------------------------------------------------------------------------
(* A tick: the lease, what was answered, and the delivery.                   *)

\* The sink's lease is taken where it is free, or its holder has stopped.
TakesPresenter(h) ==
  /\ wire[h].up /\ work[h].in = "idle"
  /\ presenter \notin {k \in Hosts : k = h \/ ~Stopped(k)}
  /\ presenter' = h
  /\ UNCHANGED <<channel, clock, standing, filed, mark, wire, work, skipped, faults>>

\* The responses on record are applied, and their decisions stand no longer.
Applies(h) ==
  /\ wire[h].up /\ work[h].in = "idle"
  /\ standing' = {d \in standing : \A g \in filed : g[2] # d}
  /\ standing' # standing
  /\ UNCHANGED <<channel, clock, filed, mark, presenter, wire, work, skipped, faults>>

Rendering == [what |-> "post", shows |-> standing, at |-> now]

\* Chat::deliver: the rendering is posted, and then the mark is put.
Delivers(h) ==
  /\ wire[h].up /\ work[h].in = "idle" /\ Presents(h) /\ Due
  /\ channel' = Append(channel, Rendering)
  /\ work' = [work EXCEPT ![h].in = "marking", ![h].posted = Len(channel')]
  /\ wire' = [wire EXCEPT ![h].after = IF @ = Never THEN Len(channel') ELSE @]
  /\ UNCHANGED <<clock, standing, filed, mark, presenter, skipped, faults>>

\* A change to catch: the mark is put though the platform failed.
DeliveryFails_Marked(h) ==
  /\ wire[h].up /\ work[h].in = "idle" /\ Presents(h) /\ Due
  /\ faults < MaxFaults
  /\ mark' = [mark EXCEPT !.at = now]
  /\ faults' = faults + 1
  /\ UNCHANGED <<channel, clock, standing, filed, presenter, wire, work, skipped>>

\* The platform did not answer in time, or failed after some of the pieces.
DeliveryFails(h) ==
  /\ wire[h].up /\ work[h].in = "idle" /\ Presents(h) /\ Due
  /\ faults < MaxFaults
  /\ channel' \in {channel, Append(channel, [what |-> "piece"])}
  /\ faults' = faults + 1
  /\ UNCHANGED <<clock, standing, filed, mark, presenter, wire, work, skipped>>

\* The tick's push: the mark lands with it, or is lost with it.
Marks(h) ==
  /\ work[h].in = "marking"
  /\ work' = [work EXCEPT ![h] = Idle]
  /\ \/ /\ mark' = [at |-> channel[work[h].posted].at, delivery |-> work[h].posted]
        /\ UNCHANGED faults
     \/ /\ faults < MaxFaults
        /\ faults' = faults + 1 /\ UNCHANGED mark
  /\ UNCHANGED <<channel, clock, standing, filed, presenter, wire, skipped>>

------------------------------------------------------------------------------
(* What people and machines do.                                              *)

\* A pass raises a decision, at the clock of its turn.
Raises ==
  /\ Len(raised) < MaxRaised
  /\ raised' = Append(raised, now) /\ standing' = standing \cup {Len(raised')}
  /\ UNCHANGED <<channel, now, filed, mark, presenter, wire, work, skipped, faults>>

\* The next turn reads the clock.
TurnsOver ==
  /\ now < MaxNow /\ now' = now + 1
  /\ mark.at = now \/ now \in Range(raised)
  /\ \A h \in Hosts : work[h].in = "idle"
  /\ UNCHANGED <<channel, raised, standing, filed, mark, presenter, wire, work, skipped, faults>>

\* An answer is to a decision some rendering showed.
Says(m) ==
  /\ ~IsSaid(m)
  /\ \E k \in Kinds, d \in 0..MaxRaised :
       /\ IF k = "answer" THEN Shown(d) ELSE d = 0
       /\ channel' = Append(channel, [what |-> "said", of |-> m, kind |-> k, number |-> d])
  /\ UNCHANGED <<clock, standing, filed, mark, presenter, wire, work, skipped, faults>>

Init ==
  /\ channel = <<>> /\ now = 1 /\ raised = <<>> /\ standing = {} /\ filed = {}
  /\ mark = [at |-> 0, delivery |-> Never] /\ presenter = Nobody
  /\ wire = [h \in Hosts |-> [Deaf EXCEPT !.up = TRUE]] /\ work = [h \in Hosts |-> Idle]
  /\ skipped = {} /\ faults = 0

Wires(h) == Starts(h) \/ Connects(h) \/ Arrives(h) \/ Waited(h)
Turns(h) ==
  \/ LetsGo(h) \/ Hears(h) \/ Records(h) \/ RepliesTo(h)
  \/ TakesPresenter(h) \/ Applies(h) \/ Delivers(h) \/ Marks(h)
Faulty(h) ==
  Disconnects(h) \/ Stops(h) \/ WaitedFails(h) \/ ReplyFails(h) \/ DeliveryFails(h)

Next ==
  \/ \E h \in Hosts : Wires(h) \/ Turns(h) \/ Faulty(h)
  \/ Raises \/ TurnsOver \/ \E m \in Messages : Says(m)

Spec == Init /\ [][Next]_vars

\* A host that stopped is started again and connects, and its loop goes round.
Fairness == \A h \in Hosts : WF_vars(Wires(h)) /\ WF_vars(Turns(h))

FairSpec == Spec /\ Fairness

------------------------------------------------------------------------------
(* Properties.                                                               *)

Entry ==
  [what : {"said"}, of : Messages, kind : Kinds, number : 0..MaxRaised]
    \cup [what : {"reply"}, of : Messages, number : 0..MaxRaised]
    \cup [what : {"post"}, shows : SUBSET (1..MaxRaised), at : 1..MaxNow]
    \cup [what : {"piece"}]

\* Type invariant: every record of the channel, of the sink and of the hosts
\* that present it, and no host has read beyond the channel's end.
TypeOK ==
  /\ channel \in Seq(Entry) /\ now \in 1..MaxNow /\ raised \in Seq(1..now)
  /\ standing \subseteq DOMAIN raised /\ filed \subseteq Messages \X (0..MaxRaised)
  /\ mark \in [at : 0..now, delivery : {Never} \cup Posts]
  /\ presenter \in Hosts \cup {Nobody}
  /\ wire \in [Hosts -> [up : BOOLEAN, connected : BOOLEAN, from : 0..Len(channel),
                         unread : BOOLEAN, gateway : 0..Len(channel),
                         after : 0..Len(channel), handed : SUBSET Said, waiting : Seq(Said)]]
  /\ work \in [Hosts -> [in : {"idle", "hearing", "replying", "marking"},
                         giving : Seq(Messages \X (0..MaxRaised)),
                         posted : {Never} \cup Posts]]
  /\ skipped \subseteq Hosts \X Messages
  /\ faults \in 0..MaxFaults

\* What is still to come to a host: by the gateway, or read from the history.
ToCome(h) ==
  {n \in Said : \/ wire[h].connected /\ n > wire[h].gateway
                \/ wire[h].unread /\ n > wire[h].from}

\* The messages a host took of which something is not given yet.
InHand(h) == {g[1] : g \in Range(work[h].giving)}

\* No answer or forward falls between a connection and the history read beside
\* it, between the wire and the turn, or between two presenters: a host that is
\* connected has it yet to come, waiting or in hand, or it is recorded, or is one
\* that this run of the host has skipped (discord.rs ready, waited; host.rs hear).
NothingMissed ==
  \A h \in Hosts, n \in Said :
    LET m == channel[n].of IN
    wire[h].connected /\ channel[n].kind \in {"answer", "forward"} =>
      \/ n \in ToCome(h) \cup Range(wire[h].waiting) \/ m \in InHand(h)
      \/ \E d \in 0..MaxRaised : <<m, d>> \in filed
      \/ <<h, m>> \in skipped

\* An answer or a forward written in the channel is recorded, if not one its
\* presenter's run has skipped (chat.rs receive, discord.rs ready).
IsHeard(m) == \E d \in 0..MaxRaised : <<m, d>> \in filed
Heard ==
  \A m \in Messages :
    (IsSaid(m) /\ KindOf(m) \in {"answer", "forward"})
      ~> (IsHeard(m) \/ <<presenter, m>> \in skipped)
=============================================================================
