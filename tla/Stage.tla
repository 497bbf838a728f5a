-------------------------------- MODULE Stage --------------------------------
(***************************************************************************)
(* One work item, the one stage of its type (fast@3, chore@2) and the      *)
(* sessions charged for it, with the multiplexer between: the machines of  *)
(* work-item.yaml, stage.yaml and session.yaml as tick.rs runs them, over  *)
(* the session records and threads of flywheel-sessions-operator and the   *)
(* agents of flywheel-sessions-herdr.                                      *)
(*                                                                         *)
(* A session is named by its attempt.  The stage reads the exit of one     *)
(* attempt, which it counts itself; a start takes another, which it counts *)
(* from the records.                                                       *)
(***************************************************************************)
EXTENDS Naturals, FiniteSets, Sequences

CONSTANTS
  MaxSendBacks,  \* the stage's max_send_backs
  Exits,         \* what agents report: a subset of AllExits
  Happens,       \* what goes wrong around the sessions: a subset of AllFaults
  MaxSessions,   \* bound: attempts the multiplexer starts
  MaxEntries     \* bound: exits and answers on one thread

\* done with a verdict of not-done among its deliverables is "not-done";
\* invalid is read as stalled everywhere it is read here.
AllExits == {"done", "not-done", "stalled", "blocked"}

AllFaults ==
  {"kill",        \* a pane is closed by hand, or its process dies
   "taken-over",  \* the host running a session is released to another
   "unlisted",    \* a pass cannot reach the multiplexer and reads no pane
   "unrecorded",  \* a start fails after the agent stands and before its record
   "untold",      \* the multiplexer refuses the prompt of an answer
   "unclosed"}    \* the multiplexer refuses to close a pane

ASSUME StageAssumption ==
  /\ {MaxSendBacks, MaxSessions, MaxEntries} \subseteq Nat
  /\ MaxSessions > 0
  /\ Exits \subseteq AllExits /\ Happens \subseteq AllFaults

Attempt == 1..MaxSessions
None == "none"   \* no instance of a region; no exit on a thread

VARIABLES
  item,      \* the work item's configuration, and its counter of attempts
  given,     \* the operator's responses the item has not applied
  unit,      \* in-flight; over, when it was dropped or its bolt retired; or landed
  record,    \* each session's record: none, running (ended_at is null), ended
  known,     \* the sessions whose record names their pane
  thread,    \* each session's exits and answers, in order
  agent,     \* each session's agent: none, standing at its prompt, working, away or back
  rounds     \* history: send-backs by verdict since the item was placed

vars == <<item, given, unit, record, known, thread, agent, rounds>>

\* What the multiplexer lists here.  An agent is away at work on the computer of a
\* host that was taken over, and back where that host runs again and lists it; a
\* pane at its prompt there is left out, since it is closed no other way.
Listed == {"standing", "working"}
Held == {Listed, {"back"}}

unitOver == unit = "over"

------------------------------------------------------------------------------
(* The sessions' records and threads.                                        *)

Ended == {"done", "not-done", "stalled"}

\* A change to catch: the exit outlives the answer to it.
ExitOf_Outlives(a) ==
  LET exits == {k \in 1..(IF a \in Attempt THEN Len(thread[a]) ELSE 0) :
                  thread[a][k] # "answer"}
  IN IF exits = {} THEN None
     ELSE thread[a][CHOOSE k \in exits : \A j \in exits : j <= k]

\* The newest exit that no answer has cleared.
ExitOf(a) ==
  IF a \notin Attempt \/ thread[a] = <<>> \/ thread[a][Len(thread[a])] = "answer"
    THEN None ELSE thread[a][Len(thread[a])]

Running(a) == record[a] = "running" /\ ExitOf(a) \notin Ended

Attempts(rec) == {a \in Attempt : rec[a] # None}
Highest(rec) == CHOOSE a \in Attempts(rec) : \A b \in Attempts(rec) : b <= a
Current(rec) == IF Attempts(rec) = {} THEN 1 ELSE Highest(rec)

NextAttempt ==
  IF Attempts(record) = {} THEN 1
  ELSE IF Running(Highest(record)) THEN Highest(record) ELSE Highest(record) + 1

\* session.exit and session.pane, of the newest session on record.
Exit == ExitOf(Current(record))
Pane(reached) ==
  Running(Current(record)) /\ agent[Current(record)] \in Listed /\ reached

\* keep_alive_of walks the item's own machine and none that it runs, so no
\* record says what stage.yaml gives, and a record that says nothing is kept.
KeepAlive == TRUE

\* Nothing bumps the counter.
SendBacks == 0

\* stage.verdict and stage.join_met: the exit of the attempt the item counts.
Verdict == ExitOf(item.attempt + 1)

------------------------------------------------------------------------------
(* What each region goes to in a pass, as read before any of them moves.     *)
(* Regions under a state the item has left still move.                       *)

\* The responses addressed to the item that a pattern of any text takes.
Texts == IF item.life = "stopped" THEN given ELSE given \ {"retry"}

ActivityTo(text) ==
  CASE item.activity = "working" /\ Exit = "blocked" -> "blocked"
    [] item.activity = "working" /\ Exit \in Ended   -> "exited"
    [] item.activity = "blocked" /\ text # None      -> "working"
    [] OTHER -> item.activity

PresenceTo(reached) ==
  IF item.presence = "unknown" /\ ~Pane(reached) THEN "gone" ELSE item.presence

SessionTo(reached) ==
  CASE item.session = "requested" -> "starting"
    [] item.session = "starting" /\ Pane(reached) -> "alive"
    [] item.session = "alive" /\ item.activity = "exited" -> "exited"
    [] item.session = "alive" /\ item.activity # "exited"
         /\ item.presence = "gone" /\ Exit = None -> "lost"
    [] OTHER -> item.session

Asking == item.run = "sessions" /\ Verdict # "blocked"
SentBack == Asking /\ "send back" \in given
LostOne == Asking /\ ~SentBack /\ item.session = "lost"
Judges == Asking /\ ~SentBack /\ ~LostOne /\ Verdict # None

RunTo ==
  CASE item.run = "resolving" -> "sessions"
    [] SentBack -> "sent-back"
    [] Judges -> (CASE Verdict = "done" -> "passed"
                    [] Verdict = "not-done" /\ SendBacks < MaxSendBacks -> "sent-back"
                    [] OTHER -> "stopped")
    [] OTHER -> item.run

StageAgain == item.stages = "ff-apply" /\ item.run = "sent-back"
StagesTo ==
  IF item.stages = "ff-apply" /\ item.run \in {"passed", "stopped"}
    THEN item.run ELSE item.stages

\* proved: the place or the merge is where the item's life waits for it to be.
LifeTo(proved) ==
  LET life == item.life IN
  CASE life = "ready" /\ proved -> "placing"
    [] life = "placing" /\ proved -> "in-type"
    [] life = "in-type" /\ unitOver -> "dropped"
    [] life = "in-type" /\ ~unitOver /\ "retire" \in given -> "ready"
    [] life = "in-type" /\ ~unitOver /\ "retire" \notin given
         /\ item.stages = "passed" -> "archiving"
    [] life = "in-type" /\ ~unitOver /\ "retire" \notin given
         /\ item.stages = "stopped" -> "stopped"
    [] life = "stopped" /\ "retry" \in given -> "in-type"
    [] life = "stopped" /\ "retry" \notin given
         /\ ("drop" \in given \/ unitOver) -> "dropped"
    [] life = "archiving" /\ (unitOver \/ "drop" \in given) -> "dropped"
    [] life = "archiving" /\ ~unitOver /\ "drop" \notin given /\ proved -> "merging"
    [] life = "merging" /\ proved -> "merged"
    [] OTHER -> life

\* The responses a pass applies.
Applied(text, proved) ==
  (IF item.activity = "blocked" /\ text # None THEN {text} ELSE {})
  \cup (IF SentBack THEN {"send back"} ELSE {})
  \cup (CASE item.life = "in-type" /\ LifeTo(proved) = "ready" -> {"retire"}
          [] item.life = "stopped" /\ LifeTo(proved) = "in-type" -> {"retry"}
          [] item.life = "stopped" /\ "drop" \in given /\ "retry" \notin given -> {"drop"}
          [] item.life = "archiving" /\ ~unitOver /\ "drop" \in given -> {"drop"}
          [] OTHER -> {})

------------------------------------------------------------------------------
(* The configuration a pass leaves: innermost first, a state that is entered *)
(* with everything under it fresh.                                           *)

NoSession(i) == [i EXCEPT !.session = None, !.activity = None, !.presence = None]
EntersSessions(i) == [NoSession(i) EXCEPT !.run = "sessions", !.session = "requested"]
EntersStage(i) == [NoSession(i) EXCEPT !.stages = "ff-apply", !.run = "resolving"]
EntersAlive(i) ==
  [i EXCEPT !.session = "alive", !.activity = "working", !.presence = "unknown"]

MovesSession(i, text, reached) ==
  LET within == [i EXCEPT !.activity = ActivityTo(text), !.presence = PresenceTo(reached)]
      to == SessionTo(reached)
  IN IF to = "alive" /\ i.session # "alive" THEN EntersAlive(within)
     ELSE [within EXCEPT !.session = to]

MovesRun(i) ==
  CASE item.run = "resolving" -> EntersSessions(i)
    [] LostOne -> [EntersSessions(i) EXCEPT !.attempt = @ + 1]
    [] OTHER -> [i EXCEPT !.run = RunTo]

MovesStages(i) ==
  IF StageAgain THEN EntersStage(i) ELSE [i EXCEPT !.stages = StagesTo]

\* enter: {session: ended}, of the transitions that end the work.
Ending(proved) ==
  /\ LifeTo(proved) \in {"dropped", "ready"} /\ item.life \notin {"dropped", "ready"}

MovesLife(i, proved) ==
  LET to == LifeTo(proved)
      told == IF Ending(proved) /\ i.session # None
                THEN [NoSession(i) EXCEPT !.session = "ended"] ELSE i
      moved == [told EXCEPT !.life = to]
  IN IF to = "in-type" /\ item.life # "in-type" THEN EntersStage(moved) ELSE moved

Moved(text, reached, proved) ==
  MovesLife(MovesStages(MovesRun(MovesSession(item, text, reached))), proved)

------------------------------------------------------------------------------
(* What the effects make of the sessions.                                    *)

As == [record |-> record, known |-> known, thread |-> thread, agent |-> agent]

\* A start by the same name finds the session running, or its agent standing.
\* A multiplexer that is not reached, or holds no more, refuses it.
Started(w, reached) ==
  LET a == NextAttempt
      fresh == w.agent[a] \notin Listed
      recorded(at) ==
        [w EXCEPT !.record[a] = "running", !.agent[a] = at,
                  !.known = IF fresh THEN @ \cup {a} ELSE @]
  IN IF a \notin Attempt \/ ~reached THEN {w}
     ELSE IF Running(a) THEN {w}
     ELSE IF fresh
       THEN {recorded("working")}
            \cup IF "unrecorded" \in Happens
                   THEN {[w EXCEPT !.agent[a] = at] : at \in {"standing", "working"}}
                   ELSE {}
       ELSE {recorded(w.agent[a])}

\* The answer on the thread, then the prompt to an agent that is there.
Answered(w, reached) ==
  LET a == Current(w.record)
      said == [w EXCEPT !.thread[a] = Append(@, "answer")]
      told == [said EXCEPT !.agent[a] = IF @ \in Listed THEN "working" ELSE @]
  IN IF ~reached THEN {said}
     ELSE {told} \cup (IF "untold" \in Happens THEN {said} ELSE {})

\* A change to catch: only the record is closed.
EndedOf_RecordOnly(w, a, reached) == {[w EXCEPT !.record[a] = "ended"]}

\* The pane the record names is closed, whatever comes of it, and the record.
EndedOf(w, a, reached) ==
  LET over == [w EXCEPT !.record[a] = "ended"]
      closed == [over EXCEPT !.agent[a] = IF @ \in Listed THEN None ELSE @]
  IN IF a \notin w.known \/ ~reached THEN {over}
     ELSE {closed} \cup (IF "unclosed" \in Happens THEN {over} ELSE {})

Starts(reached) == item.session \in {"requested", "starting"} /\ ~Pane(reached)

\* deliver_answer is proven by an answer newer than the exit.
Delivers(text) ==
  item.activity = "blocked" /\ text # None /\ ExitOf(Current(record)) # None

\* The exit of a session that is not kept, and the end of the work.
EndsExited == item.session = "alive" /\ item.activity = "exited" /\ ~KeepAlive

AfterSession(text, reached) ==
  CASE Starts(reached) -> Started(As, reached)
    [] Delivers(text) -> Answered(As, reached)
    [] EndsExited -> EndedOf(As, Current(record), reached)
    [] OTHER -> {As}

AfterLife(w, reached, proved) ==
  IF Ending(proved) /\ item.session # None
    THEN EndedOf(w, Current(w.record), reached) ELSE {w}

------------------------------------------------------------------------------
Reached == IF "unlisted" \in Happens THEN BOOLEAN ELSE {TRUE}

Becomes(w) ==
  /\ record' = w.record /\ known' = w.known
  /\ thread' = w.thread /\ agent' = w.agent

\* One pass over the item.
Pass(text, reached, proved) ==
  /\ text \in Texts \cup {None} /\ (text = None => Texts = {})
  /\ item' = Moved(text, reached, proved)
  /\ given' = given \ Applied(text, proved)
  /\ \E w \in AfterSession(text, reached) :
       \E x \in AfterLife(w, reached, proved) : Becomes(x)
  /\ rounds' = IF item.life # "in-type" /\ item'.life = "in-type" THEN 0
               ELSE IF Judges /\ RunTo = "sent-back" /\ rounds <= MaxSendBacks
                 THEN rounds + 1 ELSE rounds
  /\ UNCHANGED unit

\* A change to catch: a record that is ended already is passed over.
Finished_Exited(a) == record[a] # "ended" /\ ExitOf(a) \in Ended /\ ~KeepAlive

\* Its owner's end finishes no session: ended_object asks an end of every region
\* of the item, and its region `place` has none.
Finished(a) == record[a] = "ended" \/ (ExitOf(a) \in Ended /\ ~KeepAlive)

\* A host's own pass closes every pane it still lists of a finished session.
ToClose(held) == {a \in known : agent[a] \in held /\ Finished(a)}

CloseExited(held) ==
  /\ ToClose(held) # {}
  /\ record' = [a \in Attempt |-> IF a \in ToClose(held) THEN "ended" ELSE record[a]]
  /\ \E left \in IF "unclosed" \in Happens THEN SUBSET ToClose(held) ELSE {{}} :
       agent' = [a \in Attempt |-> IF a \in ToClose(held) \ left THEN None ELSE agent[a]]
  /\ UNCHANGED <<item, given, unit, known, thread, rounds>>

\* The unit's one region is at a state that is final.
UnitGone == unit # "in-flight"

\* A tab is labelled by the unit whose panes it holds, and closed with all of
\* them once the unit is gone, by a pass that finds no finished session's pane.
CloseTab(held) ==
  /\ ToClose(held) = {}
  /\ UnitGone /\ \E a \in Attempt : agent[a] \in held
  /\ agent' = [a \in Attempt |-> IF agent[a] \in held THEN None ELSE agent[a]]
  /\ UNCHANGED <<item, given, unit, record, known, thread, rounds>>

\* An agent at work says how it went, and stands at its prompt.  What one on
\* another computer says it says before its host is back: nothing tells the two
\* apart.
Report(a, exit) ==
  /\ agent[a] \in {"working", "away"}
  /\ Len(thread[a]) < MaxEntries - (IF exit = "blocked" THEN 1 ELSE 0)
  /\ thread' = [thread EXCEPT ![a] = Append(@, exit)]
  /\ agent' = [agent EXCEPT ![a] = IF @ = "working" THEN "standing" ELSE None]
  /\ UNCHANGED <<item, given, unit, record, known, rounds>>

Kill(a) ==
  /\ "kill" \in Happens
  /\ agent[a] \in Listed
  /\ agent' = [agent EXCEPT ![a] = None]
  /\ UNCHANGED <<item, given, unit, record, known, thread, rounds>>

\* The session's record is closed by the host that takes over; its agent is on
\* another computer, where it may still report.
TakeOver(a) ==
  /\ "taken-over" \in Happens
  /\ Running(a)
  /\ record' = [record EXCEPT ![a] = "ended"]
  /\ agent' = [agent EXCEPT ![a] = IF @ = "working" THEN "away" ELSE None]
  /\ UNCHANGED <<item, given, unit, known, thread, rounds>>

\* The host that was taken over comes back, and is alive again.
Returns(a) ==
  /\ agent[a] = "away"
  /\ agent' = [agent EXCEPT ![a] = "back"]
  /\ UNCHANGED <<item, given, unit, record, known, thread, rounds>>

\* The operator answers what stands, or dictates what the item's state takes.
Standing(answer) ==
  CASE answer = "text" ->
         /\ item.life = "in-type" /\ item.stages = "ff-apply"
         /\ item.run = "sessions" /\ item.session = "alive"
         /\ item.activity = "blocked"
    [] answer = "retry"     -> item.life = "stopped"
    [] answer = "drop"      -> item.life \in {"stopped", "archiving"}
    [] answer = "retire"    -> item.life = "in-type"
    [] answer = "send back" -> /\ item.life = "in-type" /\ item.stages = "ff-apply"
                               /\ item.run = "sessions"

Answers == {"text", "retry", "drop", "retire", "send back"}

Respond(answer) ==
  /\ Standing(answer) /\ answer \notin given
  /\ given' = given \cup {answer}
  /\ UNCHANGED <<item, unit, record, known, thread, agent, rounds>>

UnitEnds ==
  /\ unit = "in-flight"
  /\ unit' = "over"
  /\ UNCHANGED <<item, given, record, known, thread, agent, rounds>>

\* Its items are merged and the bolt above it has landed.
UnitLands ==
  /\ unit = "in-flight" /\ item.life = "merged"
  /\ unit' = "landed"
  /\ UNCHANGED <<item, given, record, known, thread, agent, rounds>>

Init ==
  /\ item = [life |-> "ready", stages |-> None, run |-> None, session |-> None,
             activity |-> None, presence |-> None, attempt |-> 0]
  /\ given = {} /\ unit = "in-flight"
  /\ record = [a \in Attempt |-> None] /\ known = {}
  /\ thread = [a \in Attempt |-> <<>>] /\ agent = [a \in Attempt |-> None]
  /\ rounds = 0

Passes(proved) ==
  \E text \in Answers \cup {None}, reached \in Reached : Pass(text, reached, proved)

Next ==
  \/ \E proved \in BOOLEAN : Passes(proved)
  \/ \E held \in Held : CloseExited(held)
  \/ \E held \in Held : CloseTab(held)
  \/ \E a \in Attempt : (\E e \in Exits : Report(a, e)) \/ Kill(a) \/ TakeOver(a) \/ Returns(a)
  \/ \E answer \in Answers : Respond(answer)
  \/ UnitEnds
  \/ UnitLands

Spec == Init /\ [][Next]_vars

\* The loop passes over the item and its own host for ever, on each host that
\* runs; a host that was taken over need not come back.
Fairness ==
  /\ WF_vars(\E proved \in BOOLEAN : Passes(proved))
  /\ \A held \in Held : WF_vars(CloseExited(held)) /\ WF_vars(CloseTab(held))
LiveSpec == Spec /\ Fairness

------------------------------------------------------------------------------
(* What the stage is for.                                                    *)

Config ==
  [life : {"ready", "placing", "in-type", "archiving", "merging", "merged",
           "stopped", "dropped"},
   stages : {"ff-apply", "passed", "stopped", None},
   run : {"resolving", "sessions", "sent-back", "passed", "stopped", None},
   session : {"requested", "starting", "alive", "exited", "lost", "ended", None},
   activity : {"working", "blocked", "exited", None},
   presence : {"unknown", "gone", None},
   attempt : Nat]

TypeOK ==
  /\ item \in Config
  /\ given \subseteq Answers /\ unit \in {"in-flight", "over", "landed"}
  /\ record \in [Attempt -> {"running", "ended", None}]
  /\ known \subseteq Attempt
  /\ thread \in [Attempt -> Seq(AllExits \cup {"answer"})]
  /\ agent \in [Attempt -> Listed \cup {"away", "back", None}]
  /\ rounds \in 0..(MaxSendBacks + 1)

\* One agent is at work in the item's place at a time.
OneAtWork == Cardinality({a \in Attempt : agent[a] = "working"}) <= 1

\* An answer goes to the session that asked, straight after its question.
AnswerReachesAsker ==
  \A a \in Attempt : \A k \in 1..Len(thread[a]) :
    thread[a][k] = "answer" => k > 1 /\ thread[a][k - 1] = "blocked"

\* A session that has ended or reported its end is never running again: what
\* starts next is another attempt.
SessionsEndOnce ==
  [][\A a \in Attempt : record[a] # None /\ ~Running(a) => ~Running(a)']_vars

\* A pane goes from every host that lists it once the record of its session is
\* ended, by whichever pass or host, and once its unit is over or has landed,
\* whatever the record says (sessions.rs: panes_to_end, layout_to_close).
FinishedPanesClose ==
  \A a \in Attempt :
    ((record[a] = "ended" /\ a \in known) \/ unit # "in-flight") ~> agent[a] \notin UNION Held

\* One that fails.  The pane of an item that has reached its end is closed
\* (atoms.yaml:95, sessions.rs:43): a merged item's session is not told to end,
\* and its pane stands for as long as its unit does.
OwnersPanesClose ==
  item.life \in {"merged", "dropped"} ~> \A a \in known : agent[a] \notin UNION Held

\* fast@3: one send-back, then the item stops and waits on the operator.
SendBacksBounded == rounds <= MaxSendBacks
=============================================================================
