------------------------------- MODULE Page -------------------------------
(***************************************************************************)
(* The page of one host: the store the loop and the page's requests share, *)
(* the calls kept while a pass holds it, the writes each tool of the       *)
(* catalogue makes, and what an open page is told (flywheel-surface        *)
(* http.rs and catalogue.rs, page/template.html, the loop of main.rs).     *)
(*                                                                         *)
(* A request makes its call at once while it can have the store.  While a  *)
(* pass holds it the call is kept as a file and made by the loop's next    *)
(* turn, under one delivery however often that turn is cut.  Each write of *)
(* a call is pushed on its own, and the host may stop between any two.     *)
(*                                                                         *)
(* One page is open.  The line is the state repository as this host's      *)
(* checkout has it, so a read of it is the value the line had.  The pass   *)
(* is one step, and its store is given back in another: a page told that   *)
(* the store moved may ask between the two.                                *)
(***************************************************************************)
EXTENDS Naturals, FiniteSets, Sequences, FiniteSetsExt

CONSTANTS
  Calls,     \* the calls the page and a member's client may send
  Tools,     \* the tools each may name, and who may send it: <<tool, from>>
  NoRead,    \* the latest read of a host that made none
  MaxRaised, \* bound: decisions raised
  MaxFaults  \* bound: stops, calls sent again, files not written, read or removed

\* answer: a numbered answer, and any other dictation.  all: the header's yes
\* all.  open: open-session.  capture: the box.  hand: attach-signal and
\* drop-signal, on the one signal there is.  ask: ask.
AllTools == {"answer", "all", "open", "capture", "hand", "ask"}

ASSUME PageAssumption ==
  /\ Tools \in [Calls -> SUBSET (AllTools \X {"page", "client"})]
  /\ {MaxRaised, MaxFaults} \subseteq Nat

VARIABLES
  line,    \* the state repository: see Line
  sent,    \* what each call asks for, once it was sent
  reply,   \* what the caller was last answered
  kept,    \* the files of calls kept, in the order they came
  said,    \* the calls refused in the run record, or set aside unread
  store,   \* who holds the store
  listed,  \* the files the turn under way is to take up
  doing,   \* the call being made, and the writes it has still to make
  moved,   \* whether the turn under way moved something
  latest,  \* the latest read
  changed, \* the generation `/events` numbers
  seen,    \* what the open page shows
  told,    \* events sent and not yet read: of a change, of a read made
  follow,  \* whether a change waits for the read that follows it
  faults   \* the faults so far

vars == <<line, sent, reply, kept, said, store, listed, doing, moved, latest, changed,
          seen, told, follow, faults>>
turn == <<listed, doing, moved>>
shown == <<latest, changed, seen, told, follow>>

Numbers == 1..MaxRaised
Nobody == "nobody"
Nothing == [call |-> Nobody, todo |-> <<>>]
Unsent == [tool |-> "none", from |-> "nobody", names |-> {}]

\* A response is named by its delivery: the call's where the call has one, and
\* the next of its own otherwise.
Responses == [by : Calls, of : Numbers \cup {0}, nth : Nat]

\* taken: the responses a pass has applied.  recorded: those whose response
\* object is written too.  made: the sessions, captures and asks a call made.
Line ==
  [raised : 0..MaxRaised, standing : SUBSET Numbers, responses : SUBSET Responses,
   recorded : SUBSET Responses, taken : SUBSET Responses,
   made : SUBSET (Calls \X Nat), moves : Seq(Calls)]

Read == [line : Line, generation : Nat]

ASSUME ReadAssumption == NoRead \notin Read

Given(c) == {r \in line.responses : r.by = c}
Made(c) == {m \in line.made : m[1] = c}
Up == store # "down"
Passing == store \in {"turn", "pass"}
-----------------------------------------------------------------------------
(* The catalogue: the writes of each tool, in order.                         *)

\* A change to catch: a kept call goes without a delivery of its own.
HasDelivery_OnlyAClients(c) == sent[c].tool # "all" /\ sent[c].from = "client"

\* with_delivery, and a client's own; yes all makes its calls with none.
HasDelivery(c) == sent[c].tool # "all" /\ (sent[c].from = "client" \/ reply[c] = "kept")

\* catalogue::delivered_before
DeliveredBefore(c) == HasDelivery(c) /\ \E r \in line.recorded : r.by = c

\* A change to catch: yes all answers every decision that stands.
YesAllAnswers_AllStanding(c) == line.standing

\* yes_to_each: of the numbers the control named, those that still stand.
YesAllAnswers(c) == line.standing \cap sent[c].names

\* A call refused before it writes: a hand on a signal that has its move
\* (unmoved_of), and a yes all of whose numbers none stands.
Refuses(c) ==
  \/ sent[c].tool = "hand" /\ ~DeliveredBefore(c) /\ line.moves # <<>>
  \/ sent[c].tool = "all" /\ YesAllAnswers(c) = {}

\* record_refusals: a yes all refused whole leaves no entry.
SaidOf(c) == IF sent[c].tool = "all" THEN said ELSE said \cup {c}

Step(do, n) == [do |-> do, of |-> n]
Records(n) == <<Step("receive", n), Step("record", n)>>

\* The numbers in order, each recorded before the next.
Ascending(numbers) ==
  CHOOSE f \in [1..Cardinality(numbers) -> numbers] :
    \A i, j \in 1..Cardinality(numbers) : i < j => f[i] < f[j]

YesAllWrites(c) ==
  LET answers == Ascending(YesAllAnswers(c))
  IN [k \in 1..(2 * Cardinality(YesAllAnswers(c))) |->
        Records(answers[(k + 1) \div 2])[2 - (k % 2)]]

\* open_session makes its session before it is recorded; ask its ask after.
OpenSessionWrites == <<Step("make", 0)>> \o Records(0)
AskWrites == Records(0) \o <<Step("make", 0)>>

\* capture and the hands look first whether they were delivered before.
CaptureWrites(c) == IF DeliveredBefore(c) THEN <<>> ELSE <<Step("make", 0)>> \o Records(0)
HandWrites(c) == IF DeliveredBefore(c) THEN <<>> ELSE Records(0) \o <<Step("move", 0)>>

\* catalogue::call, and the control that makes several.
Writes(c) ==
  CASE sent[c].tool = "answer"  -> Records(Min(sent[c].names))
    [] sent[c].tool = "all"     -> YesAllWrites(c)
    [] sent[c].tool = "open"    -> OpenSessionWrites
    [] sent[c].tool = "ask"     -> AskWrites
    [] sent[c].tool = "capture" -> CaptureWrites(c)
    [] sent[c].tool = "hand"    -> HandWrites(c)

\* What is left of a call whose delivery proves to be received already: not the
\* recording, which comes next, and of an ask nothing.
LeftOf(c, todo) == IF sent[c].tool = "ask" THEN <<>> ELSE Tail(todo)

\* The next write of the call being made, by whoever makes it: the response
\* file, the response object, what the tool makes, the signal's move.
Writing ==
  /\ Up /\ doing.todo # <<>>
  /\ LET c == doing.call
         s == Head(doing.todo)
         again == s.do = "receive" /\ HasDelivery(c) /\ Given(c) # {}
         nth == Cardinality(Given(c))
     IN
     /\ line' = CASE again -> line
                  [] s.do = "receive" /\ ~again ->
                       [line EXCEPT !.responses = @ \cup {[by |-> c, of |-> s.of, nth |-> nth + 1]}]
                  [] s.do = "record" ->
                       [line EXCEPT !.recorded = @ \cup {[by |-> c, of |-> s.of, nth |-> nth]}]
                  [] s.do = "make" ->
                       [line EXCEPT !.made = @ \cup {<<c, Cardinality(Made(c)) + 1>>}]
                  [] s.do = "move" -> [line EXCEPT !.moves = Append(@, c)]
     /\ doing' = [doing EXCEPT !.todo = IF again THEN LeftOf(c, Tail(@)) ELSE Tail(@)]
  /\ UNCHANGED <<sent, reply, kept, said, store, listed, moved, shown, faults>>
-----------------------------------------------------------------------------
(* Reads.                                                                    *)

\* Served::current_with: the latest read where the store has not moved since it
\* was made, and a fresh one where it has.
Current ==
  IF latest # NoRead /\ latest.line = line THEN latest
  ELSE [line |-> line, generation |-> changed]

\* A read is made, and a fresh one is said on `/events`.
Reads(heard) ==
  /\ latest' = Current
  /\ told' = IF latest' = latest THEN told \ heard ELSE (told \ heard) \cup {"shown"}

\* Served::follow: the read a change asks for, and the one at the start.
Follows ==
  /\ store = "free" /\ follow
  /\ Reads({})
  /\ follow' = FALSE
  /\ UNCHANGED <<line, sent, reply, kept, said, store, turn, changed, seen, faults>>

GenerationOf(event) == IF event = "changed" THEN changed ELSE latest.generation

\* The open page reads an event that names the generation it holds.
Ignores(event) ==
  /\ Up /\ event \in told /\ GenerationOf(event) = seen.generation
  /\ told' = told \ {event}
  /\ UNCHANGED <<line, sent, reply, kept, said, store, turn, latest, changed, seen, follow, faults>>

\* One that names another: it fetches itself, from the latest read there is
\* while a pass holds the store.
Fetches(event) ==
  /\ event \in told /\ GenerationOf(event) # seen.generation
  /\ \/ /\ store = "free"
        /\ Reads({event})
     \/ /\ Passing
        /\ told' = told \ {event}
        /\ UNCHANGED latest
  /\ seen' = latest'
  /\ UNCHANGED <<line, sent, reply, kept, said, store, turn, changed, follow, faults>>

Hears(event) == Ignores(event) \/ Fetches(event)
-----------------------------------------------------------------------------
(* A request.                                                                *)

\* What may be asked: the page's own control names what the page shows, and a
\* client any number it was ever told of.
Asks(c) ==
  LET known(from) == IF from = "page" THEN seen.line.standing ELSE 1..line.raised
      names(tool, from) ==
        CASE tool = "all"    -> {known(from)} \ {{}}
          [] tool = "answer" -> {{n} : n \in known(from)}
          [] OTHER           -> {{}}
  IN UNION {{[tool |-> t[1], from |-> t[2], names |-> n] : n \in names(t[1], t[2])} : t \in Tools[c]}

\* invoke, answer_all, curate and protocol_message: a request comes.
Sends(c) ==
  /\ Up /\ sent[c] = Unsent
  /\ \E ask \in Asks(c) : sent' = [sent EXCEPT ![c] = ask]
  /\ reply' = [reply EXCEPT ![c] = "waiting"]
  /\ UNCHANGED <<line, kept, said, store, turn, shown, faults>>

\* A client that named its delivery sends it again, answered or not.
SendsAgain(c) ==
  /\ Up /\ sent[c].from = "client"
  /\ reply[c] # "waiting" /\ faults < MaxFaults
  /\ reply' = [reply EXCEPT ![c] = "waiting"]
  /\ faults' = faults + 1
  /\ UNCHANGED <<line, sent, kept, said, store, turn, shown>>

\* The store can be had: the call is refused before it writes, or made.
GoesIn(c) ==
  /\ reply[c] = "waiting" /\ store = "free"
  /\ \/ /\ Refuses(c)
        /\ reply' = [reply EXCEPT ![c] = "refused"]
        /\ said' = SaidOf(c)
        /\ UNCHANGED <<store, doing>>
     \/ /\ ~Refuses(c)
        /\ store' = "request"
        /\ doing' = [call |-> c, todo |-> Writes(c)]
        /\ UNCHANGED <<reply, said>>
  /\ UNCHANGED <<line, sent, kept, listed, moved, shown, faults>>

\* A change to catch: the caller is told its call is kept where no file was
\* written.
IsKept_Unwritten(c) ==
  /\ reply[c] = "waiting" /\ Passing
  /\ reply' = [reply EXCEPT ![c] = "kept"]
  /\ \/ kept' = Append(kept, c) /\ UNCHANGED faults
     \/ faults < MaxFaults /\ faults' = faults + 1 /\ UNCHANGED kept
  /\ seen' = IF sent[c].from = "page" THEN latest ELSE seen
  /\ UNCHANGED <<line, sent, said, store, turn, latest, changed, told, follow>>

\* A pass holds it: the call is kept, and the page answered from the latest
\* read; or the file cannot be written and the caller is told.
IsKept(c) ==
  /\ reply[c] = "waiting" /\ Passing
  /\ \/ /\ reply' = [reply EXCEPT ![c] = "kept"]
        /\ kept' = Append(kept, c)
        /\ seen' = IF sent[c].from = "page" THEN latest ELSE seen
        /\ UNCHANGED faults
     \/ /\ faults < MaxFaults
        /\ reply' = [reply EXCEPT ![c] = "refused"]
        /\ faults' = faults + 1
        /\ UNCHANGED <<kept, seen>>
  /\ UNCHANGED <<line, sent, said, store, turn, latest, changed, told, follow>>

\* The call is made.  The page's own request is answered with a read that holds
\* it, made before the store is given back.
Answers ==
  /\ store = "request" /\ doing.todo = <<>>
  /\ reply' = [reply EXCEPT ![doing.call] = "made"]
  /\ IF sent[doing.call].from = "page"
     THEN Reads({}) /\ seen' = latest'
     ELSE UNCHANGED <<latest, told, seen>>
  /\ store' = "free"
  /\ doing' = Nothing
  /\ UNCHANGED <<line, sent, kept, said, listed, moved, changed, follow, faults>>
-----------------------------------------------------------------------------
(* The loop.                                                                 *)

\* Served::take_turn, and the list take_up reads.
TakesTurn ==
  /\ store = "free"
  /\ store' = "turn"
  /\ IF latest = NoRead THEN Reads({}) ELSE UNCHANGED <<latest, told>>
  /\ listed' = kept
  /\ moved' = FALSE
  /\ UNCHANGED <<line, sent, reply, kept, said, doing, changed, seen, follow, faults>>

\* take_up: the oldest file of the list, whose call is made or refused.
TakesUp ==
  /\ store = "turn" /\ listed # <<>> /\ doing = Nothing
  /\ LET c == Head(listed) IN
     /\ doing' = [call |-> c, todo |-> IF Refuses(c) THEN <<>> ELSE Writes(c)]
     /\ said' = IF Refuses(c) THEN SaidOf(c) ELSE said
  /\ UNCHANGED <<line, sent, reply, kept, store, listed, moved, shown, faults>>

AllWritten == store = "turn" /\ doing # Nothing /\ doing.todo = <<>>

\* The call of a file is made: the file, the oldest there is, is removed.
LetsGo ==
  /\ AllWritten
  /\ doing' = Nothing
  /\ kept' = Tail(kept) /\ listed' = Tail(listed)
  /\ moved' = TRUE
  /\ UNCHANGED <<line, sent, reply, said, store, shown, faults>>

\* A file that cannot be removed ends the taking up with an error, which counts
\* nothing of what was made before it.
CannotLetGo ==
  /\ AllWritten /\ faults < MaxFaults
  /\ doing' = Nothing
  /\ listed' = <<>>
  /\ moved' = FALSE
  /\ faults' = faults + 1
  /\ UNCHANGED <<line, sent, reply, kept, said, store, shown>>

\* One that cannot be read is set aside, and said.
SetsAside ==
  /\ store = "turn" /\ listed # <<>> /\ doing = Nothing /\ faults < MaxFaults
  /\ kept' = Tail(kept) /\ listed' = Tail(listed)
  /\ said' = said \cup {Head(listed)}
  /\ faults' = faults + 1
  /\ UNCHANGED <<line, sent, reply, store, doing, moved, shown>>

\* A change to catch: the pages are told only of what the page kept.
Moved_KeptOnly(here) == moved

\* Whether the turn moved something: a call taken up, an answer applied or a
\* decision raised here.
Moved(here) == moved \/ here \/ line.responses # line.taken

\* Host::once: what was given is applied, and a decision may be raised, here or
\* by another host whose writes the pass fetched.  The loop says the store moved
\* where its own turn moved it, while it still holds the store.
Passes ==
  /\ store = "turn" /\ listed = <<>> /\ doing = Nothing
  /\ store' = "pass"
  /\ \E raised \in line.raised..Min({line.raised + 1, MaxRaised}), here \in BOOLEAN :
     /\ here => raised > line.raised
     /\ line' = [line EXCEPT
          !.raised = raised,
          !.taken = line.responses,
          !.standing = (@ \ {r.of : r \in line.responses}) \cup ((line.raised + 1)..raised)]
     /\ IF Moved(here)
        THEN changed' = changed + 1 /\ told' = told \cup {"changed"} /\ follow' = TRUE
        ELSE UNCHANGED <<changed, told, follow>>
  /\ moved' = FALSE
  /\ UNCHANGED <<sent, reply, kept, said, listed, doing, latest, seen, faults>>

\* The store is given back.
TurnEnds ==
  /\ store = "pass"
  /\ store' = "free"
  /\ UNCHANGED <<line, sent, reply, kept, said, turn, shown, faults>>

\* The host stops anywhere; the files and the line are what is left.
Stops ==
  /\ Up /\ faults < MaxFaults
  /\ store' = "down"
  /\ listed' = <<>> /\ doing' = Nothing /\ moved' = FALSE
  /\ latest' = NoRead
  /\ reply' = [c \in Calls |-> IF reply[c] = "waiting" THEN "none" ELSE reply[c]]
  /\ told' = {} /\ follow' = FALSE
  /\ faults' = faults + 1
  /\ UNCHANGED <<line, sent, kept, said, changed, seen>>

\* It starts at the first generation; the open page's stream reconnects, and its
\* first event names the generation there is.
Starts ==
  /\ ~Up
  /\ store' = "free"
  /\ changed' = 1
  /\ told' = {"changed"} /\ follow' = TRUE
  /\ UNCHANGED <<line, sent, reply, kept, said, turn, latest, seen, faults>>
-----------------------------------------------------------------------------
Empty ==
  [raised |-> 0, standing |-> {}, responses |-> {}, recorded |-> {}, taken |-> {},
   made |-> {}, moves |-> <<>>]

Init ==
  /\ line = Empty
  /\ sent = [c \in Calls |-> Unsent]
  /\ reply = [c \in Calls |-> "none"]
  /\ kept = <<>> /\ said = {}
  /\ store = "free" /\ listed = <<>> /\ doing = Nothing /\ moved = FALSE
  /\ latest = NoRead /\ changed = 1
  /\ seen = [line |-> Empty, generation |-> 1]
  /\ told = {} /\ follow = TRUE
  /\ faults = 0

Makes == Writing \/ Answers \/ TakesUp \/ LetsGo
Turns == TakesTurn \/ Passes \/ TurnEnds \/ Starts

Next ==
  \/ Makes \/ Turns \/ Follows
  \/ \E event \in told : Hears(event)
  \/ \E c \in Calls : Sends(c) \/ SendsAgain(c) \/ GoesIn(c) \/ IsKept(c)
  \/ CannotLetGo \/ SetsAside \/ Stops

Spec == Init /\ [][Next]_vars

\* What is begun goes on and the loop takes its turns; the read that follows a
\* change queues for the store, which is given in order; and an open page reads
\* its stream.
FairSpec ==
  /\ Spec
  /\ WF_vars(Makes \/ Turns)
  /\ SF_vars(Follows)
  /\ \A event \in {"changed", "shown"} : WF_vars(Hears(event))
-----------------------------------------------------------------------------
Ask ==
  [tool : AllTools \cup {"none"}, from : {"page", "client", "nobody"}, names : SUBSET Numbers]
Write == [do : {"receive", "record", "make", "move"}, of : Numbers \cup {0}]

(* Every variable holds values of its kind; a call in the making is held by  *)
(* a request or by the turn (http.rs 65-100, 108-182).                       *)
TypeOK ==
  /\ line \in Line
  /\ sent \in [Calls -> Ask]
  /\ reply \in [Calls -> {"none", "waiting", "made", "kept", "refused"}]
  /\ kept \in Seq(Calls) /\ listed \in Seq(Calls)
  /\ said \subseteq Calls
  /\ store \in {"down", "free", "request", "turn", "pass"}
  /\ doing \in [call : Calls \cup {Nobody}, todo : Seq(Write)]
  /\ doing # Nothing => store \in {"request", "turn"} /\ doing.call \in Calls
  /\ moved \in BOOLEAN /\ follow \in BOOLEAN
  /\ latest \in Read \cup {NoRead} /\ seen \in Read
  /\ changed \in Nat /\ told \subseteq {"changed", "shown"} /\ faults \in 0..MaxFaults

(* A call is one response however often its delivery arrives and however     *)
(* often the turn that makes it is cut: kept, stopped, made again, sent      *)
(* again (http.rs take_up, with_delivery; catalogue's deliveries).           *)
RecordedOnce ==
  \A c \in Calls : sent[c].tool # "all" => Cardinality(Given(c)) <= 1

(* A yes all answers no decision the operator's control did not name, though *)
(* decisions arrive between the page's read, the tap and the turn that makes *)
(* it (http.rs answer_all, yes_to_each).                                     *)
YesToWhatWasNamed ==
  \A r \in line.responses : sent[r.by].tool = "all" => r.of \in sent[r.by].names

(* Two hands on one signal, or one made again after a stop, move it once     *)
(* (catalogue.rs unmoved_of, delivered_before).                              *)
SignalTakesOneMove == Len(line.moves) <= 1

Settled(c) ==
  \/ Given(c) # {} \/ c \in said
  \/ sent[c].tool = "all" /\ sent[c].names \cap line.standing = {}

(* Every call kept is at length made, refused in the run record or set aside *)
(* where that is said, whatever stops the host or its turn: again and again  *)
(* there is none that waits (http.rs keep, take_up).                         *)
KeptIsMade == []<>(\A c \in Calls : reply[c] = "kept" => Settled(c))

(* What is recorded is at length on the open page, whoever sent it and       *)
(* whatever read the page was answered with meanwhile, unless something      *)
(* failed (http.rs follow, events; main.rs's loop).                          *)
SentIsShown == []<>(line.responses \subseteq seen.line.responses \/ faults > 0)

(* The sessions, captures and asks a delivery makes are made once, though it *)
(* is made again: "made again as the same delivery, which records nothing    *)
(* twice" (http.rs:349-351).                                                 *)
MadeOnce == \A c \in Calls : Cardinality(Made(c)) <= 1

(* The open page comes to hold every move of the store: the generation is    *)
(* "raised by the loop when its store moved" (http.rs:145-148).              *)
EveryMoveIsShown == []<>(seen.line = line)
=============================================================================
