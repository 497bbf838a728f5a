-------------------------------- MODULE Rail --------------------------------
(***************************************************************************)
(* The rail: the decisions that stand, the register that numbers them, and *)
(* the responses that answer a number (flywheel-engine/src/rail.rs,        *)
(* runtime.rs, eval.rs, tick.rs; flywheel-domain/src/commands.rs).         *)
(*                                                                         *)
(* A decision is derived from the state of an object and named by the      *)
(* object it stands on, or by the batch it folds into, and the point it    *)
(* was raised at.  The register gives it a number, keeps the entry while   *)
(* it stands and for a while after, and a response names the number.       *)
(*                                                                         *)
(* A tick plans over one snapshot, applies what fired and derives the      *)
(* rail.  It is one step here: a tick that lost the race on the shared     *)
(* line is discarded whole (SharedLine).  It covers any set of objects,    *)
(* which stands for the scope it was called with and for the leases the    *)
(* host holds (Lease), so any number of hosts is covered too.              *)
(***************************************************************************)
EXTENDS Integers, Sequences, FiniteSetsExt

CONSTANTS
  Units,        \* units of work, proposed to the operator
  Leases,       \* lease objects, whose decision is that no host covers them
  Batches,      \* values of the batch field, by which units fold
  Batch,        \* the batch of each unit, or NoBatch
  NoBatch,
  Answers,      \* what the operator may answer
  Steps,        \* how far the clock may be on when a tick reads it: 0 within a sweep
  RaisedAgain,  \* whether a tick may raise what a tick at the same hour retracted
  Week,         \* how long a deferred unit stays out of the count
  Month,        \* KEPT_AFTER_RETRACTION_DAYS
  MaxClock,     \* bound: the last point of the clock
  MaxResponses  \* bound: responses given

Never == -1
Nobody == 0     \* the object of an answer that names a number alone

ASSUME RailAssumption ==
  /\ IsFiniteSet(Units) /\ IsFiniteSet(Leases)
  /\ Batch \in [Units -> Batches \cup {NoBatch}]
  /\ NoBatch \notin Batches
  /\ Steps \subseteq Nat /\ RaisedAgain \in BOOLEAN
  /\ Week \in Nat /\ Month \in Nat /\ MaxClock \in Nat /\ MaxResponses \in Nat
  /\ Units \cap Leases = {} /\ Batches \cap (Units \cup Leases) = {}
  /\ \A x \in Units \cup Leases \cup Batches : x \notin Nat

VARIABLES
  obj,      \* every object: its state, when it was entered, the responses applied to it
  said,     \* the responses given, in order: the number and the object named, the answer
  entries,  \* the register: the number of each decision, and when it went
  next,     \* the counter
  standing, \* the decisions the last derive found, as the rail record holds them
  clock,    \* the host's clock
  given     \* history: the decision each number was last given to

vars == <<obj, said, entries, next, standing, clock, given>>
-----------------------------------------------------------------------------
(* The machines.  A guard is an answer, or one of: "seen", the evidence the  *)
(* state waits for; "unseen", its absence; "week"; and the three reads of    *)
(* the response machine.  The first transition whose guard holds fires.      *)
(* Of the unit's machine these are the transitions that enter and leave its  *)
(* proposed state for good, and those of approved work until it is in        *)
(* flight, here "started": its type is defined and its parent stands.        *)

Transitions ==
  [offered      |-> <<[on |-> "seen",    to |-> "proposed"]>>,
   proposed     |-> <<[on |-> "seen",    to |-> "superseded"],
                      [on |-> "yes",     to |-> "approved"],
                      [on |-> "drop",    to |-> "dropped"],
                      [on |-> "later",   to |-> "deferred"]>>,
   deferred     |-> <<[on |-> "seen",    to |-> "superseded"],
                      [on |-> "week",    to |-> "proposed"],
                      [on |-> "drop",    to |-> "dropped"]>>,
   approved     |-> <<[on |-> "drop",    to |-> "dropped"],
                      [on |-> "seen",    to |-> "started"]>>,
   started      |-> <<[on |-> "drop",    to |-> "dropped"]>>,
   free         |-> <<[on |-> "seen",    to |-> "uncovered"]>>,
   uncovered    |-> <<[on |-> "unseen",  to |-> "free"],
                      [on |-> "ok",      to |-> "acknowledged"]>>,
   acknowledged |-> <<[on |-> "unseen",  to |-> "free"]>>,
   given        |-> <<[on |-> "applied", to |-> "applied"],
                      [on |-> "gone",    to |-> "unapplicable"],
                      [on |-> "untaken", to |-> "unapplicable"]>>,
   unapplicable |-> <<[on |-> "seen",    to |-> "reported"],
                      [on |-> "ok",      to |-> "reported"]>>]

Rules(state) == IF state \in DOMAIN Transitions THEN Transitions[state] ELSE <<>>

\* The states that carry `decision:`.
Deciding == {"proposed", "uncovered", "unapplicable"}

States == DOMAIN Transitions \cup {"superseded", "dropped", "applied", "reported"}

Given == 1..Len(said)
Objects == Units \cup Leases \cup Given

\* Whether some transition of the object's state names the answer.
TakesAnswer(o, answer) ==
  \E j \in DOMAIN Rules(obj[o].state) : Rules(obj[o].state)[j].on = answer
-----------------------------------------------------------------------------
(* Deriving the rail.                                                        *)

\* What names an object's decision: its batch where it has one, or itself.
Card(o) == IF o \in Units /\ Batch[o] # NoBatch THEN Batch[o] ELSE o

\* The entries of a card that are not retracted.
Held(card) == {d \in DOMAIN entries : d.of = card /\ entries[d].gone = Never}

\* The decision a card with these objects in a deciding state stands as: for
\* a fold the entry the register holds, and otherwise one raised when the
\* first of them entered.
DecisionOn_ByFirst(card, objects, members) ==
  [of |-> card, since |-> Min({objects[o].since : o \in members})]

DecisionOn(card, objects, members) ==
  IF card \in Batches /\ Held(card) # {}
  THEN CHOOSE d \in Held(card) :
         \A e \in Held(card) : entries[d].number <= entries[e].number
  ELSE [of |-> card, since |-> Min({objects[o].since : o \in members})]

Decisions(objects) ==
  LET deciders == {o \in DOMAIN objects : objects[o].state \in Deciding}
  IN {DecisionOn(card, objects, {o \in deciders : Card(o) = card}) :
        card \in {Card(o) : o \in deciders}}

\* number_for: the next number, whatever entries are left.
Counter_AfterKept == Max({entries[d].number : d \in DOMAIN entries} \cup {0}) + 1
Counter == next

\* retract_gone: the entries, those whose decision has gone marked so once.
Retracted_LastDerive(stand, now) ==
  [d \in DOMAIN entries |->
     IF entries[d].gone = Never /\ d \notin standing
     THEN [entries[d] EXCEPT !.gone = now] ELSE entries[d]]

Retracted(stand, now) ==
  [d \in DOMAIN entries |->
     IF entries[d].gone = Never /\ d \notin stand
     THEN [entries[d] EXCEPT !.gone = now] ELSE entries[d]]

\* prune_retracted: what is left of them.
Kept(told, now) ==
  {d \in DOMAIN told : told[d].gone = Never \/ now - told[d].gone < Month}

\* number_all, retract_gone and prune_retracted, in one write of the rail
\* record.  New decisions are numbered in the order their ids count, which is
\* any order here.
Numbered(objects, now) ==
  /\ standing' = Decisions(objects)
  /\ LET new     == standing' \ DOMAIN entries
         numbers == Counter..(Counter + Cardinality(new) - 1)
         told    == Retracted(standing', now)
     IN \E number \in Bijection(new, numbers) :
          /\ entries' = [d \in Kept(told, now) \cup new |->
                           IF d \in new THEN [number |-> number[d], gone |-> Never] ELSE told[d]]
          /\ given' = [n \in DOMAIN given \cup numbers |->
                         IF n \in numbers THEN CHOOSE d \in new : number[d] = n ELSE given[n]]
          /\ next' = Counter + Cardinality(new)
-----------------------------------------------------------------------------
(* What a response reaches.                                                  *)

\* decision_of: the decision a number names, standing or retracted.
Named(n) == {d \in DOMAIN entries : entries[d].number = n}

\* eval_response: an answer addresses the objects its number's decision is on,
\* by the object or the batch and the kind, whenever that decision was raised;
\* one that names an object addresses that object alone.
Addresses_ObjectsOnly(i, o) ==
  IF said[i].number = Never THEN said[i].object = o
  ELSE /\ said[i].object \in {o, Nobody}
       /\ obj[o].state \in Deciding
       /\ \E d \in Named(said[i].number) : d.of = o

Addresses(i, o) ==
  IF said[i].number = Never THEN said[i].object = o
  ELSE /\ said[i].object \in {o, Nobody}
       /\ obj[o].state \in Deciding
       /\ \E d \in Named(said[i].number) : d.of = Card(o)

\* The responses not yet applied to an object that answer it so.
Answering(o, answer) ==
  {i \in Given \ obj[o].applied : said[i].answer = answer /\ Addresses(i, o)}

\* response.applied, response.decision_present and response.taken.
IsApplied(i) == \E o \in Objects : i \in obj[o].applied
IsPresent(i) ==
  IF said[i].number = Never THEN TakesAnswer(said[i].object, said[i].answer)
  ELSE Named(said[i].number) \cap standing # {}
IsTaken(i) == said[i].object = Nobody \/ TakesAnswer(said[i].object, said[i].answer)

Holds(o, guard, seen, now) ==
  CASE guard = "seen"    -> o \in seen
    [] guard = "unseen"  -> o \notin seen
    [] guard = "week"    -> now - obj[o].since >= Week
    [] guard = "applied" -> IsApplied(o)
    [] guard = "gone"    -> ~IsPresent(o)
    [] guard = "untaken" -> ~IsTaken(o)
    [] OTHER             -> Answering(o, guard) # {}

\* The transitions of an object whose guards hold; plan_tick takes the first.
Open(o, seen, now) ==
  {j \in DOMAIN Rules(obj[o].state) : Holds(o, Rules(obj[o].state)[j].on, seen, now)}

Fires(o, seen, now) == Open(o, seen, now) # {}
Fired(o, seen, now) == Rules(obj[o].state)[Min(Open(o, seen, now))]

\* A transition on an answer consumes the first response that gives it.
Reads == {"seen", "unseen", "week", "applied", "gone", "untaken"}
Consumed(o, guard) == IF guard \in Reads THEN {} ELSE {Min(Answering(o, guard))}

\* apply.  A lease keeps the point it was taken at, and no response: neither
\* is on the branch its state is marked on.
Moved(o, rule, now) ==
  IF o \in Leases THEN [obj[o] EXCEPT !.state = rule.to]
  ELSE [state   |-> rule.to,
        since   |-> now,
        applied |-> obj[o].applied \cup Consumed(o, rule.on)]
-----------------------------------------------------------------------------
\* tick_as over some objects, with the evidence read for them.
Tick(scope, seen, step) ==
  LET now == clock + step
  IN /\ now <= MaxClock
     /\ clock' = now
     /\ obj' = [o \in Objects |->
                  IF o \in scope /\ Fires(o, seen, now)
                  THEN Moved(o, Fired(o, seen, now), now) ELSE obj[o]]
     /\ Numbered(obj', now)
     /\ RaisedAgain \/ \A d \in standing' \cap DOMAIN entries : entries[d].gone = Never
     /\ UNCHANGED said

\* A response is recorded and its object put beside the others.
Said(number, object, answer) ==
  /\ Len(said) < MaxResponses
  /\ said' = Append(said, [number |-> number, object |-> object, answer |-> answer])

WithResponse ==
  [o \in Objects \cup {Len(said) + 1} |->
     IF o \in Objects THEN obj[o] ELSE [state |-> "given", since |-> clock, applied |-> {}]]

\* The answer tool on a number the register once gave.
Answer(number, answer) ==
  /\ Said(number, Nobody, answer)
  /\ obj' = WithResponse
  /\ UNCHANGED <<entries, next, standing, clock, given>>

\* The answer tool on one row of a fold, which renumbers the rail first.
AnswerRow(unit, answer) ==
  /\ Batch[unit] # NoBatch
  /\ obj[unit].state \in Deciding
  /\ Numbered(obj, clock)
  /\ \E d \in standing' \cap DOMAIN entries' :
       d.of = Batch[unit] /\ Said(entries'[d].number, unit, answer)
  /\ obj' = WithResponse
  /\ UNCHANGED clock

\* Such a call refused once the rail is numbered, and `apply`, which numbers it
\* before it looks for the decision it was given.
Renumber ==
  /\ Numbered(obj, clock)
  /\ UNCHANGED <<obj, said, clock>>

\* A dictation names an object, and no number.
Dictate(unit, answer) ==
  /\ Said(Never, unit, answer)
  /\ obj' = WithResponse
  /\ UNCHANGED <<entries, next, standing, clock, given>>
-----------------------------------------------------------------------------
Init ==
  /\ obj = [o \in Units \cup Leases |->
              [state   |-> IF o \in Units THEN "offered" ELSE "free",
               since   |-> 0,
               applied |-> {}]]
  /\ said = <<>>
  /\ entries = <<>>
  /\ next = 1
  /\ standing = {}
  /\ clock = 0
  /\ given = <<>>

Next ==
  \/ \E scope \in SUBSET Objects : \E seen \in SUBSET scope, step \in Steps :
       Tick(scope, seen, step)
  \/ \E number \in 1..(next - 1), answer \in Answers : Answer(number, answer)
  \/ \E unit \in Units, answer \in Answers : AnswerRow(unit, answer)
  \/ Renumber
  \/ \E unit \in Units : Dictate(unit, "drop")

Spec == Init /\ [][Next]_vars

\* The loop sweeps every object again and again.  No evidence is owed to
\* anyone: it may stay as it is for ever.
Fairness == WF_vars(Tick(Objects, {}, 0))
LiveSpec == Spec /\ Fairness
-----------------------------------------------------------------------------
(* What the rail is for.                                                     *)

Ids == [of : Units \cup Leases \cup Batches \cup Nat, since : Nat]

TypeOK ==
  /\ said \in Seq([number : Nat \cup {Never}, object : Units \cup {Nobody},
                   answer : Answers \cup {"drop"}])
  /\ obj \in [Objects -> [state : States, since : Nat, applied : SUBSET Given]]
  /\ DOMAIN entries \subseteq Ids
  /\ entries \in [DOMAIN entries -> [number : Nat \ {0}, gone : Nat \cup {Never}]]
  /\ next \in Nat \ {0}
  /\ standing \subseteq Ids
  /\ clock \in Nat
  /\ given \in [1..(next - 1) -> Ids]

\* A number is given once: whatever is retracted and pruned, and however often
\* an object comes back, it is never given to a second decision.
NumbersNeverReused == [][\A n \in DOMAIN given : given'[n] = given[n]]_vars

\* A decision keeps its number while it stands, and a fold keeps it while any
\* object of its batch does, whichever of them leaves first.
NumberKept ==
  [][\A d \in standing : (\E e \in standing' : e.of = d.of) =>
       /\ d \in standing' \cap DOMAIN entries \cap DOMAIN entries'
       /\ entries'[d].number = entries[d].number]_vars

\* The register tells what stands: each standing decision has an entry, and an
\* entry is retracted exactly when its decision has gone.
EntriesTellWhatStands ==
  /\ standing \subseteq DOMAIN entries
  /\ \A d \in DOMAIN entries : (entries[d].gone = Never) <=> (d \in standing)

\* One answer to a fold is the answer of every object standing in it, whichever
\* of them ticks first and in however many ticks.
Asked(i, u) ==
  /\ said[i].number # Never /\ said[i].object \in {u, Nobody}
  /\ given[said[i].number] \in standing
  /\ given[said[i].number].of = Card(u)
  /\ obj[u].state = "proposed" /\ TakesAnswer(u, said[i].answer)

OneAnswerForAll ==
  \A i \in 1..MaxResponses, u \in Units :
    (i \in Given /\ Asked(i, u))
      ~> (i \in obj[u].applied \/ obj[u].state # "proposed")

\* An answer moves an object only while the decision its number names stands
\* on that object: an earlier reply cannot land on a question that has changed.
LateAnswersLandNowhere ==
  [][\A u \in Units, i \in Given :
       (i \in obj'[u].applied \ obj[u].applied /\ said[i].number # Never)
         => \E d \in standing \cap Named(said[i].number) : d.of = Card(u)]_vars
=============================================================================
