----------------------------- MODULE StageProofs -----------------------------
(***************************************************************************)
(* What holds of Stage for any number of attempts, of send-backs and of    *)
(* entries on a thread.                                                    *)
(***************************************************************************)
EXTENDS Stage, FiniteSetTheorems, SequenceTheorems, WellFoundedInduction, TLAPS

-----------------------------------------------------------------------------
(* The attempts                                                             *)

LEMMA LeastOf ==
  ASSUME NEW S, S \subseteq Nat, S # {}
  PROVE  \E n \in S : \A m \in S : n <= m
<1>1. PICK n \in S : \A m \in S : ~ (<<m, n>> \in OpToRel(<, Nat))
  BY NatLessThanWellFounded, WFMin
<1>2. \A m \in S : ~(m < n)
  BY <1>1 DEF OpToRel
<1> QED  BY <1>2

Records == [Attempt -> {"running", "ended", None}]

\* The session on record with the highest attempt, or the first of all.
LEMMA CurrentIs ==
  ASSUME NEW rec \in Records
  PROVE  /\ Current(rec) \in Attempt
         /\ \A b \in Attempt : rec[b] # None => b <= Current(rec)
         /\ rec[Current(rec)] = None => Attempts(rec) = {} /\ Current(rec) = 1
         /\ Attempts(rec) # {} => Current(rec) = Highest(rec)
<1>0. MaxSessions \in Nat \ {0} /\ Attempt \subseteq Nat /\ 1 \in Attempt
  BY StageAssumption DEF Attempt
<1>1. CASE Attempts(rec) = {}
  BY <1>0, <1>1 DEF Current, Attempts
<1>2. CASE Attempts(rec) # {}
  <2> DEFINE below == {MaxSessions - a : a \in Attempts(rec)}
  <2>1. below \subseteq Nat /\ below # {}
    BY <1>0, <1>2 DEF Attempts, Attempt
  <2>2. PICK n \in below : \A m \in below : n <= m
    <3> HIDE DEF below
    <3> QED  BY <2>1, LeastOf
  <2>3. PICK a \in Attempts(rec) : n = MaxSessions - a
    BY <2>2
  <2>4. \A b \in Attempts(rec) : b <= a
    <3> SUFFICES ASSUME NEW b \in Attempts(rec) PROVE b <= a
      OBVIOUS
    <3>1. MaxSessions - a <= MaxSessions - b
      BY <2>2, <2>3
    <3>2. a \in Nat /\ b \in Nat
      BY <1>0 DEF Attempts
    <3> QED  BY <1>0, <3>1, <3>2
  <2>5. Highest(rec) \in Attempts(rec) /\ \A b \in Attempts(rec) : b <= Highest(rec)
    BY <2>4 DEF Highest
  <2> QED  BY <1>2, <2>5 DEF Current, Attempts
<1> QED  BY <1>1, <1>2

LEMMA CurrentFound ==
  ASSUME NEW rec \in Records, NEW a \in Attempt, rec[a] # None,
         \A b \in Attempt : rec[b] # None => b <= a
  PROVE  Current(rec) = a
<1>1. /\ Current(rec) \in Attempt /\ Attempts(rec) # {}
      /\ a <= Current(rec) /\ rec[Current(rec)] # None
  BY CurrentIs DEF Attempts
<1> QED  BY <1>1 DEF Attempt

-----------------------------------------------------------------------------
(* The sessions                                                             *)

\* What stands of a thread.
LastOf(entries) ==
  IF entries = <<>> \/ entries[Len(entries)] = "answer" THEN None ELSE entries[Len(entries)]

LEMMA ExitIs == ASSUME NEW a \in Attempt PROVE ExitOf(a) = LastOf(thread[a])
BY DEF ExitOf, LastOf

Threads == Seq(AllExits \cup {"answer"})

World ==
  [record : Records, known : SUBSET Attempt, thread : [Attempt -> Threads],
   agent : [Attempt -> Listed \cup {"away", "back", None}]]

\* Every answer on a thread follows a question.
Asked(entries) ==
  \A k \in 1..Len(entries) : entries[k] = "answer" => k > 1 /\ entries[k - 1] = "blocked"

\* A session has a thread and an agent once it has a record, and while its
\* agent is at work it has said nothing that an answer has not cleared.
Told(w) ==
  /\ w \in World
  /\ \A a \in Attempt :
       /\ w.record[a] = None => w.thread[a] = <<>> /\ w.agent[a] = None
       /\ w.agent[a] \in {"working", "away"} => LastOf(w.thread[a]) = None
       /\ Asked(w.thread[a])

\* Every agent listed here is of a session that is on record and not closed,
\* and only the newest session runs.
Runs(w, a) == w.record[a] = "running" /\ LastOf(w.thread[a]) \notin Ended

Alone(w) ==
  \A a \in Attempt :
    /\ w.agent[a] \in Listed => a \in w.known /\ w.record[a] = "running"
    /\ Runs(w, a) => \A b \in Attempt : w.record[b] # None => b <= a

\* What has ended or reported its end runs no more.
StaysOver(w, x) ==
  \A a \in Attempt : w.record[a] # None /\ ~Runs(w, a) => x.record[a] # None /\ ~Runs(x, a)

LEMMA WorldNow == As \in World <=> /\ record \in Records /\ known \in SUBSET Attempt
                                   /\ thread \in [Attempt -> Threads]
                                   /\ agent \in [Attempt -> Listed \cup {"away", "back", None}]
BY DEF As, World

LEMMA RunningIs == ASSUME NEW a \in Attempt PROVE Running(a) <=> Runs(As, a)
BY ExitIs DEF Running, Runs, As

\* One more entry on a thread.
LEMMA OneMoreEntry ==
  ASSUME NEW entries \in Threads, NEW e \in AllExits \cup {"answer"}, Asked(entries),
         e = "answer" => LastOf(entries) = "blocked"
  PROVE  /\ Append(entries, e) \in Threads
         /\ LastOf(Append(entries, e)) = IF e = "answer" THEN None ELSE e
         /\ Asked(Append(entries, e))
<1> DEFINE more == Append(entries, e)
<1>1. /\ more \in Threads /\ Len(more) = Len(entries) + 1 /\ Len(entries) \in Nat
      /\ \A i \in 1..Len(entries) : more[i] = entries[i]
      /\ more[Len(entries) + 1] = e
      /\ entries = <<>> <=> Len(entries) = 0
  BY AppendProperties, EmptySeq, LenProperties DEF Threads
<1> HIDE DEF more
<1>2. more # <<>>
  BY <1>1
<1>3. LastOf(more) = IF e = "answer" THEN None ELSE e
  BY <1>1, <1>2 DEF LastOf
<1>4. ASSUME NEW k \in 1..Len(more), more[k] = "answer" PROVE k > 1 /\ more[k - 1] = "blocked"
  <2>1. CASE k \in 1..Len(entries)
    <3>1. k > 1 /\ entries[k - 1] = "blocked" /\ k - 1 \in 1..Len(entries)
      BY <1>1, <1>4, <2>1 DEF Asked
    <3> QED  BY <1>1, <3>1
  <2>2. CASE k = Len(entries) + 1
    <3>1. LastOf(entries) = "blocked"
      BY <1>1, <1>4, <2>2
    <3>2. entries # <<>> /\ entries[Len(entries)] = "blocked"
      BY <3>1 DEF LastOf, None
    <3>3. Len(entries) \in 1..Len(entries) /\ k - 1 = Len(entries) /\ k > 1
      BY <1>1, <2>2, <3>2
    <3> QED  BY <1>1, <3>2, <3>3
  <2> QED  BY <1>1, <2>1, <2>2
<1> QED  BY <1>1, <1>3, <1>4 DEF more, Asked


\* A start finds the newest session running, or takes an attempt after all
\* others when the newest of them does not run.
Newest(b) == record[b] # None /\ \A c \in Attempt : record[c] # None => c <= b

LEMMA StartsNext ==
  ASSUME Told(As), NEW reached \in BOOLEAN, NEW w \in Started(As, reached), "unrecorded" \notin Happens
  PROVE  \/ w = As
         \/ \E a \in Attempt :
              /\ record[a] = None
              /\ \A b \in Attempt : record[b] # None => b < a
              /\ \A b \in Attempt : Newest(b) => ~Running(b)
              /\ w = [As EXCEPT !.record[a] = "running", !.agent[a] = "working", !.known = @ \cup {a}]
<1>1. /\ record \in Records /\ Attempt \subseteq Nat
      /\ \A b \in Attempt : record[b] = None => agent[b] = None
  BY WorldNow DEF Told, As, Attempt
<1> DEFINE a == NextAttempt
<1>2. CASE w # As
  <2>1. a \in Attempt /\ ~Running(a)
    BY <1>2 DEF Started, As
  <2>2. /\ record[a] = None
        /\ \A b \in Attempt : record[b] # None => b < a
        /\ \A b \in Attempt : Newest(b) => ~Running(b)
    <3>1. CASE Attempts(record) = {}
      BY <2>1, <3>1 DEF Attempts, Newest
    <3>2. CASE Attempts(record) # {}
      <4>1. /\ Highest(record) \in Attempt /\ record[Highest(record)] # None
            /\ \A b \in Attempt : record[b] # None => b <= Highest(record)
        BY <1>1, <3>2, CurrentIs
      <4>2. a = Highest(record) + 1 /\ ~Running(Highest(record))
        BY <2>1, <3>2 DEF NextAttempt
      <4> DEFINE h == Highest(record)
      <4>3. h \in Int /\ a = h + 1 /\ \A b \in Attempt : b \in Int
        BY <4>1, <4>2, StageAssumption DEF Attempt
      <4>4. \A b \in Attempt : record[b] # None => b <= h
        BY <4>1
      <4> HIDE DEF h, a
      <4>5. \A b \in Attempt : record[b] # None => b < a
        BY <4>3, <4>4
      <4>6. record[a] = None
        BY <2>1, <4>3, <4>5
      <4>7. ASSUME NEW b \in Attempt, record[b] # None, \A c \in Attempt : record[c] # None => c <= b
            PROVE  ~Running(b)
        <5>1. b = h
          BY <4>1, <4>3, <4>4, <4>7 DEF h
        <5> QED  BY <4>2, <5>1 DEF h
      <4> QED  BY <4>5, <4>6, <4>7 DEF Newest
    <3> QED  BY <3>1, <3>2
  <2>3. agent[a] \notin Listed
    BY <1>1, <2>1, <2>2 DEF Listed, None
  <2> HIDE DEF a
  <2>4. w = [As EXCEPT !.record[a] = "running", !.agent[a] = "working", !.known = @ \cup {a}]
    BY <1>2, <2>1, <2>3 DEF Started, As, a
  <2> QED  BY <2>1, <2>2, <2>4
<1> QED  BY <1>2

\* A start gives the item one agent at work, of a session that has said nothing.
LEMMA StartedTold ==
  ASSUME Told(As), NEW reached \in BOOLEAN, NEW w \in Started(As, reached), "unrecorded" \notin Happens
  PROVE  Told(w) /\ (Alone(As) => Alone(w)) /\ StaysOver(As, w)
<1>1. CASE w = As
  BY <1>1 DEF StaysOver
<1>2. CASE \E a \in Attempt :
             /\ record[a] = None
             /\ \A b \in Attempt : record[b] # None => b < a
             /\ \A b \in Attempt : Newest(b) => ~Running(b)
             /\ w = [As EXCEPT !.record[a] = "running", !.agent[a] = "working", !.known = @ \cup {a}]
  <2>1. PICK a \in Attempt :
             /\ record[a] = None
             /\ \A b \in Attempt : record[b] # None => b < a
             /\ \A b \in Attempt : Newest(b) => ~Running(b)
             /\ w = [As EXCEPT !.record[a] = "running", !.agent[a] = "working", !.known = @ \cup {a}]
    BY <1>2
  <2>2. /\ As \in World /\ As.record = record /\ As.thread = thread /\ As.agent = agent /\ As.known = known
        /\ thread[a] = <<>>
    BY <2>1 DEF Told, As
  <2>3. /\ w.record = [record EXCEPT ![a] = "running"] /\ w.agent = [agent EXCEPT ![a] = "working"]
        /\ w.known = known \cup {a} /\ w.thread = thread /\ w \in World
    BY <2>1, <2>2 DEF World, Records, Listed
  <2>4. Told(w)
    BY <2>1, <2>2, <2>3 DEF Told, World, Records, LastOf, None
  <2>5. Alone(As) => Alone(w)
    <3> SUFFICES ASSUME Alone(As), NEW b \in Attempt
                 PROVE  /\ w.agent[b] \in Listed => b \in w.known /\ w.record[b] = "running"
                        /\ Runs(w, b) => \A c \in Attempt : w.record[c] # None => c <= b
      BY DEF Alone
    <3>1. CASE b = a
      <4>1. \A c \in Attempt : w.record[c] # None => c <= a
        BY <2>1, <2>2, <2>3 DEF World, Records, Attempt
      <4> QED  BY <2>2, <2>3, <3>1, <4>1 DEF World, Records
    <3>2. CASE b # a
      <4>1. ~Runs(w, b)
        <5>1. Runs(w, b) => Runs(As, b)
          BY <2>1, <2>2, <2>3, <3>2 DEF Runs, World, Records
        <5>2. Runs(As, b) => Newest(b) /\ Running(b)
          BY <2>2, RunningIs DEF Alone, Newest, Runs, None
        <5> QED  BY <2>1, <5>1, <5>2
      <4> QED  BY <2>2, <2>3, <3>2, <4>1 DEF Alone, World, Records
    <3> QED  BY <3>1, <3>2
  <2>6. StaysOver(As, w)
    BY <2>1, <2>2, <2>3 DEF StaysOver, Runs, World, Records
  <2> QED  BY <2>4, <2>5, <2>6
<1> QED  BY <1>1, <1>2, StartsNext

\* The answer to the newest session, which has asked, puts it back to work.
LEMMA AnsweredTold ==
  ASSUME Told(As), NEW reached \in BOOLEAN, NEW w \in Answered(As, reached), Exit = "blocked"
  PROVE  /\ Told(w) /\ (Alone(As) => Alone(w))
         /\ StaysOver(As, w)
<1> DEFINE a == Current(record)
<1>1. /\ As \in World /\ As.record = record /\ As.thread = thread /\ As.agent = agent /\ As.known = known
      /\ record \in Records /\ thread \in [Attempt -> Threads] /\ agent \in [Attempt -> Listed \cup {"away", "back", None}]
  BY DEF Told, As, World
<1>2. a \in Attempt /\ \A b \in Attempt : record[b] # None => b <= a
  BY <1>1, CurrentIs
<1>3. LastOf(thread[a]) = "blocked" /\ thread[a] \in Threads /\ Asked(thread[a])
  BY <1>1, <1>2, ExitIs DEF Exit, Told
<1> HIDE DEF a
<1> DEFINE more == Append(thread[a], "answer")
<1>4. more \in Threads /\ LastOf(more) = None /\ Asked(more)
  BY <1>3, OneMoreEntry
<1> HIDE DEF more
<1>5. /\ w.record = record /\ w.known = known /\ w.thread = [thread EXCEPT ![a] = more]
      /\ w.agent = agent \/ w.agent = [agent EXCEPT ![a] = IF @ \in Listed THEN "working" ELSE @]
      /\ w = [record |-> w.record, known |-> w.known, thread |-> w.thread, agent |-> w.agent]
  BY <1>1 DEF Answered, As, a, more
<1>6. record[a] # None
  BY <1>1, <1>2, <1>3 DEF Told, LastOf, None
<1>7. w \in World
  BY <1>1, <1>2, <1>4, <1>5 DEF World, Listed
<1>8. \A b \in Attempt : /\ w.thread[b] = IF b = a THEN more ELSE thread[b]
                         /\ w.agent[b] \in Listed <=> agent[b] \in Listed
                         /\ b # a => w.agent[b] = agent[b]
                         /\ agent[b] = None => w.agent[b] = None
  BY <1>1, <1>5 DEF Listed, None
<1>9. Told(w)
  BY <1>1, <1>4, <1>5, <1>6, <1>7, <1>8 DEF Told
<1>10. Alone(As) => Alone(w)
  BY <1>1, <1>2, <1>5, <1>6, <1>8 DEF Alone, Runs
<1>11. StaysOver(As, w)
  BY <1>1, <1>3, <1>5, <1>8 DEF StaysOver, Runs, Ended
<1> QED  BY <1>9, <1>10, <1>11

\* A session that is closed is closed with its pane, unless the multiplexer is
\* not reached or refuses it.
LEMMA EndedTold ==
  ASSUME NEW w \in World, Told(w), NEW reached \in BOOLEAN,
         NEW x \in EndedOf(w, Current(w.record), reached)
  PROVE  /\ Told(x)
         /\ x.thread = w.thread
         /\ Current(x.record) = Current(w.record)
         /\ StaysOver(w, x)
         /\ Alone(w) /\ reached /\ "unclosed" \notin Happens => Alone(x)
<1> DEFINE a == Current(w.record)
<1>1. w.record \in Records /\ a \in Attempt /\ \A b \in Attempt : w.record[b] # None => b <= a
  BY CurrentIs DEF World
<1> HIDE DEF a
<1>2. /\ x.record = [w.record EXCEPT ![a] = "ended"] /\ x.thread = w.thread /\ x.known = w.known
      /\ \/ x.agent = w.agent
         \/ x.agent = [w.agent EXCEPT ![a] = IF @ \in Listed THEN None ELSE @]
      /\ x \in World
      /\ reached /\ "unclosed" \notin Happens /\ a \in w.known
           => x.agent = [w.agent EXCEPT ![a] = IF @ \in Listed THEN None ELSE @]
  <2>1. \/ x = [w EXCEPT !.record[a] = "ended"]
        \/ x = [w EXCEPT !.record[a] = "ended", !.agent[a] = IF @ \in Listed THEN None ELSE @]
    BY DEF EndedOf, a
  <2>2. reached /\ "unclosed" \notin Happens /\ a \in w.known
          => x = [w EXCEPT !.record[a] = "ended", !.agent[a] = IF @ \in Listed THEN None ELSE @]
    BY DEF EndedOf, a
  <2> DEFINE rec == [w.record EXCEPT ![a] = "ended"]
             agents == [w.agent EXCEPT ![a] = IF @ \in Listed THEN None ELSE @]
  <2>3. rec \in Records /\ agents \in [Attempt -> Listed \cup {"away", "back", None}]
    BY <1>1 DEF World, Records
  <2>4. x = [w EXCEPT !.record = rec] \/ x = [w EXCEPT !.record = rec, !.agent = agents]
    BY <2>1
  <2>5. reached /\ "unclosed" \notin Happens /\ a \in w.known => x = [w EXCEPT !.record = rec, !.agent = agents]
    BY <2>2
  <2> HIDE DEF rec, agents
  <2>6. /\ x.record = rec /\ x.thread = w.thread /\ x.known = w.known
        /\ x.agent = w.agent \/ x.agent = agents
        /\ x \in World
    BY <2>3, <2>4 DEF World
  <2>7. reached /\ "unclosed" \notin Happens /\ a \in w.known => x.agent = agents
    BY <2>5 DEF World
  <2> QED  BY <2>6, <2>7 DEF rec, agents
<1>3. Told(x)
  BY <1>1, <1>2 DEF Told, World, Records, Listed, None
<1>4. Current(x.record) = a
  <2>1. x.record \in Records /\ x.record[a] # None /\ \A b \in Attempt : x.record[b] # None => b <= a
    <3>1. \A b \in Attempt : x.record[b] # None => b = a \/ w.record[b] # None
      BY <1>1, <1>2 DEF World, Records
    <3>2. a <= a
      BY <1>1, StageAssumption DEF Attempt
    <3>3. x.record \in Records /\ x.record[a] = "ended"
      BY <1>1, <1>2 DEF World, Records
    <3> QED  BY <1>1, <3>1, <3>2, <3>3 DEF None
  <2> QED  BY <1>1, <2>1, CurrentFound
<1>5. ASSUME Alone(w), reached, "unclosed" \notin Happens PROVE Alone(x)
  <2> SUFFICES ASSUME NEW b \in Attempt
               PROVE  /\ x.agent[b] \in Listed => b \in x.known /\ x.record[b] = "running"
                      /\ Runs(x, b) => \A c \in Attempt : x.record[c] # None => c <= b
    BY DEF Alone
  <2>1. CASE b = a
    <3>1. ~Runs(x, a)
      BY <1>1, <1>2 DEF Runs, World, Records
    <3>2. x.agent[a] \notin Listed
      <4>1. CASE a \in w.known
        BY <1>1, <1>2, <1>5, <4>1 DEF World, Listed, None
      <4>2. CASE a \notin w.known
        BY <1>1, <1>2, <1>5, <4>2 DEF Alone, World, Listed, None
      <4> QED  BY <4>1, <4>2
    <3> QED  BY <2>1, <3>1, <3>2
  <2>2. CASE b # a
    <3>1. Runs(w, b) => w.record[a] = None \/ a <= b
      BY <1>1, <1>5 DEF Alone
    <3>2. /\ x.record[b] = w.record[b] /\ x.agent[b] = w.agent[b] /\ x.thread[b] = w.thread[b]
          /\ \A c \in Attempt \ {a} : x.record[c] = w.record[c]
      BY <1>1, <1>2, <2>2 DEF World, Records
    <3>3. Runs(x, b) => Runs(w, b)
      BY <3>2 DEF Runs
    <3>4. Runs(w, b) => w.record[b] # None /\ \A c \in Attempt : w.record[c] # None => c <= b
      BY <1>5 DEF Alone, Runs, None
    <3>5. Runs(w, b) => b <= a
      BY <1>1, <3>4
    <3>6. ~Runs(w, b)
      <4>1. w.record[a] = None => Attempts(w.record) = {}
        BY <1>1, CurrentIs DEF a
      <4>2. w.record[a] = None => w.record[b] = None
        BY <4>1 DEF Attempts
      <4> QED  BY <1>1, <2>2, <3>1, <3>4, <3>5, <4>2, StageAssumption DEF Attempt
    <3> QED  BY <1>2, <1>5, <3>2, <3>3, <3>6 DEF Alone
  <2> QED  BY <2>1, <2>2
<1>6. StaysOver(w, x)
  BY <1>1, <1>2 DEF StaysOver, Runs, World, Records, None
<1> QED  BY <1>2, <1>3, <1>4, <1>5, <1>6 DEF a

-----------------------------------------------------------------------------
(* The item                                                                 *)

\* Nothing is asked under a session that has no agent yet.
Quiet(i) == i.session \in {"requested", "starting"} => i.activity = None

\* What a pass makes of the item: it stays blocked only while it was asked
\* something and was told nothing, or when it has just been asked.
LEMMA MovedItem ==
  ASSUME item \in Config, Quiet(item), NEW text, NEW reached, NEW proved
  PROVE  /\ Moved(text, reached, proved) \in Config
         /\ Quiet(Moved(text, reached, proved))
         /\ Moved(text, reached, proved).activity = "blocked" => ActivityTo(text) = "blocked"
<1> DEFINE Fine(i) == /\ i \in Config /\ Quiet(i)
                      /\ i.activity = "blocked" => ActivityTo(text) = "blocked"
           m1 == MovesSession(item, text, reached)
           m2 == MovesRun(m1)
           m3 == MovesStages(m2)
<1>1. ASSUME NEW i, Fine(i)
      PROVE  /\ Fine(NoSession(i)) /\ Fine(EntersSessions(i)) /\ Fine(EntersStage(i))
             /\ Fine([NoSession(i) EXCEPT !.session = "ended"])
  <2> DEFINE n == NoSession(i)
  <2>1. n \in Config /\ n.session = None /\ n.activity = None
    BY <1>1 DEF NoSession, Config, None
  <2>2. EntersSessions(i) = [n EXCEPT !.run = "sessions", !.session = "requested"]
    BY DEF EntersSessions
  <2>3. EntersStage(i) = [n EXCEPT !.stages = "ff-apply", !.run = "resolving"]
    BY DEF EntersStage
  <2> HIDE DEF n
  <2>4. Fine(n)
    BY <2>1 DEF Quiet, None
  <2>5. Fine(EntersSessions(i))
    BY <2>1, <2>2 DEF Config, Quiet, None
  <2>6. Fine(EntersStage(i))
    BY <2>1, <2>3 DEF Config, Quiet, None
  <2>7. Fine([n EXCEPT !.session = "ended"])
    BY <2>1 DEF Config, Quiet, None
  <2> QED  BY <2>4, <2>5, <2>6, <2>7 DEF n
<1>2. Fine(m1)
  <2> DEFINE act == ActivityTo(text)
             pres == PresenceTo(reached)
             to == SessionTo(reached)
             within == [item EXCEPT !.activity = act, !.presence = pres]
  <2>1. /\ act \in {"working", "blocked", "exited", None}
        /\ item.session \in {"requested", "starting"} => act = None
    BY DEF ActivityTo, Config, Quiet, None
  <2>2. pres \in {"unknown", "gone", None}
    BY DEF PresenceTo, Config
  <2>3. /\ to \in {"requested", "starting", "alive", "exited", "lost", "ended", None}
        /\ to \in {"requested", "starting"} => item.session \in {"requested", "starting"}
    BY DEF SessionTo, Config, None
  <2>4. m1 = IF to = "alive" /\ item.session # "alive" THEN EntersAlive(within)
             ELSE [within EXCEPT !.session = to]
    BY DEF MovesSession
  <2> HIDE DEF act, pres, to, m1
  <2>5. /\ m1 \in Config /\ Quiet(m1)
        /\ m1.activity = "blocked" => act = "blocked"
    BY <2>1, <2>2, <2>3, <2>4 DEF EntersAlive, Config, Quiet, None
  <2> QED  BY <2>5 DEF act
<1> HIDE DEF m1
<1>3. Fine(m2)
  <2>1. RunTo \in {"resolving", "sessions", "sent-back", "passed", "stopped", None}
    BY DEF RunTo, Config, None
  <2> DEFINE run == RunTo
  <2>2. m2 = EntersSessions(m1) \/ m2 = [EntersSessions(m1) EXCEPT !.attempt = @ + 1] \/ m2 = [m1 EXCEPT !.run = run]
    BY DEF MovesRun
  <2> HIDE DEF run, m2
  <2>3. Fine([m1 EXCEPT !.run = run])
    BY <1>2, <2>1 DEF Config, Quiet, run
  <2>4. Fine([EntersSessions(m1) EXCEPT !.attempt = @ + 1])
    <3> DEFINE i == EntersSessions(m1)
    <3>1. Fine(i)
      BY <1>1, <1>2
    <3> HIDE DEF i
    <3>2. Fine([i EXCEPT !.attempt = @ + 1])
      BY <3>1 DEF Config, Quiet
    <3> QED  BY <3>2 DEF i
  <2> QED  BY <1>1, <1>2, <2>2, <2>3, <2>4
<1> HIDE DEF m2
<1>4. Fine(m3)
  <2> DEFINE stages == StagesTo
  <2>1. stages \in {"ff-apply", "passed", "stopped", None}
    BY DEF StagesTo, Config, None
  <2>2. m3 = EntersStage(m2) \/ m3 = [m2 EXCEPT !.stages = stages]
    BY DEF MovesStages
  <2> HIDE DEF stages, m3
  <2>3. Fine([m2 EXCEPT !.stages = stages])
    BY <1>3, <2>1 DEF Config, Quiet
  <2> QED  BY <1>1, <1>3, <2>2, <2>3
<1> HIDE DEF m3
<1>5. Fine(MovesLife(m3, proved))
  <2> DEFINE to == LifeTo(proved)
             told == IF Ending(proved) /\ m3.session # None
                       THEN [NoSession(m3) EXCEPT !.session = "ended"] ELSE m3
             moved == [told EXCEPT !.life = to]
  <2>1. to \in {"ready", "placing", "in-type", "archiving", "merging", "merged", "stopped", "dropped"}
    BY DEF LifeTo, Config
  <2>2. Fine(told)
    BY <1>1, <1>4
  <2>3. MovesLife(m3, proved) = EntersStage(moved) \/ MovesLife(m3, proved) = moved
    BY DEF MovesLife
  <2> HIDE DEF to, told
  <2>4. Fine(moved)
    BY <2>1, <2>2 DEF Config, Quiet
  <2> HIDE DEF moved
  <2> QED  BY <1>1, <2>3, <2>4
<1> QED  BY <1>5 DEF Moved, m1, m2, m3

-----------------------------------------------------------------------------
(* Every step                                                               *)

\* An item that is blocked waits for the session that asked, and no other has
\* started since.
StageInv ==
  /\ TypeOK /\ Quiet(item) /\ Told(As)
  /\ item.activity = "blocked" => Exit = "blocked"

\* The agents a pass leaves.
LEMMA PassTold ==
  ASSUME StageInv, "unrecorded" \notin Happens, NEW text, NEW reached \in BOOLEAN, NEW proved,
         NEW w \in AfterSession(text, reached), NEW x \in AfterLife(w, reached, proved)
  PROVE  /\ Told(x) /\ (Alone(As) /\ reached /\ "unclosed" \notin Happens => Alone(x))
         /\ ActivityTo(text) = "blocked" => LastOf(x.thread[Current(x.record)]) = "blocked"
         /\ StaysOver(As, x)
<1>1. item \in Config /\ Quiet(item) /\ Told(As) /\ (item.activity = "blocked" => Exit = "blocked")
  BY DEF StageInv, TypeOK
<1>2. /\ Told(w) /\ (Alone(As) => Alone(w)) /\ StaysOver(As, w)
      /\ ActivityTo(text) = "blocked" => w = As
  <2>1. CASE Starts(reached)
    <3>2. item.activity = None
      BY <1>1, <2>1 DEF Starts, Quiet
    <3>4. ~Delivers(text) /\ ~EndsExited
      BY <3>2 DEF Delivers, EndsExited, None
    <3>1. w \in Started(As, reached)
      BY <2>1, <3>4 DEF AfterSession
    <3>3. ActivityTo(text) # "blocked"
      BY <3>2 DEF ActivityTo, None
    <3> QED  BY <1>1, <3>1, <3>3, StartedTold
  <2>2. CASE ~Starts(reached) /\ Delivers(text)
    <3>2. item.activity = "blocked" /\ text # None
      BY <2>2 DEF Delivers
    <3>1. w \in Answered(As, reached)
      BY <2>2, <3>2 DEF AfterSession, EndsExited
    <3>3. ActivityTo(text) # "blocked"
      BY <3>2 DEF ActivityTo
    <3> QED  BY <1>1, <3>1, <3>2, <3>3, AnsweredTold
  <2>3. CASE ~Starts(reached) /\ ~Delivers(text)
    <3>1. w = As
      BY <2>3 DEF AfterSession, EndsExited, KeepAlive
    <3> QED  BY <1>1, <3>1 DEF StaysOver
  <2> QED  BY <2>1, <2>2, <2>3
<1>3. /\ Told(x) /\ StaysOver(w, x) /\ (Alone(w) /\ reached /\ "unclosed" \notin Happens => Alone(x))
      /\ x.thread = w.thread /\ Current(x.record) = Current(w.record)
  <2>1. w \in World
    BY <1>2 DEF Told
  <2>2. x = w \/ x \in EndedOf(w, Current(w.record), reached)
    BY DEF AfterLife
  <2> QED  BY <1>2, <2>1, <2>2, EndedTold DEF StaysOver
<1>4. ActivityTo(text) = "blocked" => Exit = "blocked"
  BY <1>1 DEF ActivityTo
<1>5. Exit = LastOf(thread[Current(record)])
  <2>1. Current(record) \in Attempt
    BY <1>1, CurrentIs, WorldNow DEF Told
  <2> QED  BY <2>1, ExitIs DEF Exit
<1>6. StaysOver(As, x)
  BY <1>2, <1>3 DEF StaysOver
<1> QED  BY <1>2, <1>3, <1>4, <1>5, <1>6 DEF As

LEMMA TypesNow ==
  ASSUME Told(As)
  PROVE  /\ record \in [Attempt -> {"running", "ended", None}]
         /\ known \subseteq Attempt
         /\ thread \in [Attempt -> Seq(AllExits \cup {"answer"})]
         /\ agent \in [Attempt -> Listed \cup {"away", "back", None}]
         /\ Current(record) \in Attempt /\ Exit = LastOf(thread[Current(record)])
<1>1. record \in Records
  BY WorldNow DEF Told
<1>2. Current(record) \in Attempt
  BY <1>1, CurrentIs
<1> QED  BY <1>2, ExitIs, WorldNow DEF Told, Records, Threads, Exit

LEMMA PassKeeps ==
  ASSUME StageInv, "unrecorded" \notin Happens, NEW text, NEW reached \in Reached, NEW proved,
         Pass(text, reached, proved)
  PROVE  /\ StageInv'
         /\ Alone(As) /\ Happens \subseteq {"kill", "taken-over", "untold"} => Alone(As)'
         /\ StaysOver(As, As')
<1>1. reached \in BOOLEAN /\ (Happens \subseteq {"kill", "taken-over", "untold"} => reached)
  BY DEF Reached
<1>2. PICK w \in AfterSession(text, reached) : \E x \in AfterLife(w, reached, proved) : Becomes(x)
  BY DEF Pass
<1>3. PICK x \in AfterLife(w, reached, proved) : Becomes(x)
  BY <1>2
<1>4. /\ Told(x) /\ (Alone(As) /\ reached /\ "unclosed" \notin Happens => Alone(x))
      /\ ActivityTo(text) = "blocked" => LastOf(x.thread[Current(x.record)]) = "blocked"
      /\ StaysOver(As, x)
  BY <1>1, PassTold
<1>5. As' = x
  <2>1. x = [record |-> x.record, known |-> x.known, thread |-> x.thread, agent |-> x.agent]
    BY <1>4 DEF Told, World
  <2> QED  BY <1>3, <2>1 DEF Becomes, As
<1>6. item' = Moved(text, reached, proved) /\ item \in Config /\ Quiet(item)
  BY DEF Pass, StageInv, TypeOK
<1>7. item' \in Config /\ Quiet(item') /\ (item'.activity = "blocked" => ActivityTo(text) = "blocked")
  BY <1>6, MovedItem
<1>8. given' \subseteq Answers /\ unit' \in {"in-flight", "over", "landed"}
  BY DEF Pass, StageInv, TypeOK
<1>9. rounds' \in 0..(MaxSendBacks + 1)
  <2>1. rounds \in 0..(MaxSendBacks + 1) /\ MaxSendBacks \in Nat
    BY StageAssumption DEF StageInv, TypeOK
  <2>2. \/ rounds' = 0 \/ rounds' = rounds
        \/ rounds <= MaxSendBacks /\ rounds' = rounds + 1
    BY DEF Pass
  <2> QED  BY <2>1, <2>2
<1>10. /\ record' = x.record /\ known' = x.known /\ thread' = x.thread /\ agent' = x.agent
  BY <1>3 DEF Becomes
<1>11. x \in World
  BY <1>4 DEF Told
<1>12. TypeOK'
  BY <1>7, <1>8, <1>9, <1>10, <1>11 DEF TypeOK, World, Records, Threads
<1>13. item'.activity = "blocked" => Exit' = "blocked"
  <2>1. Current(record') \in Attempt
    BY <1>10, <1>11, CurrentIs DEF World
  <2>2. Exit' = LastOf(thread'[Current(record')])
    BY <2>1 DEF Exit, ExitOf, LastOf, Current, Highest, Attempts
  <2> QED  BY <1>4, <1>7, <1>10, <2>2
<1> QED  BY <1>1, <1>4, <1>5, <1>7, <1>12, <1>13 DEF StageInv

\* One session reports, and stands at its prompt or is gone.
LEMMA ReportKeeps ==
  ASSUME StageInv, NEW a \in Attempt, NEW exit \in AllExits, Report(a, exit)
  PROVE  StageInv' /\ (Alone(As) => Alone(As)') /\ StaysOver(As, As')
<1>1. /\ record \in [Attempt -> {"running", "ended", None}] /\ known \subseteq Attempt
      /\ thread \in [Attempt -> Threads] /\ agent \in [Attempt -> Listed \cup {"away", "back", None}]
      /\ Current(record) \in Attempt /\ Exit = LastOf(thread[Current(record)])
      /\ As.record = record /\ As.thread = thread /\ As.agent = agent /\ As.known = known
      /\ Told(As)
  BY TypesNow DEF StageInv, Threads, As
<1> DEFINE more == Append(thread[a], exit)
<1>2. /\ agent[a] \in {"working", "away"} /\ LastOf(thread[a]) = None /\ Asked(thread[a])
      /\ record[a] # None
  BY <1>1 DEF Report, Told, None
<1>3. more \in Threads /\ LastOf(more) = exit /\ Asked(more)
  <2>1. exit # "answer" /\ exit \in AllExits \cup {"answer"} /\ thread[a] \in Threads
    BY <1>1 DEF AllExits
  <2> QED  BY <1>2, <2>1, OneMoreEntry
<1> HIDE DEF more
<1>4. /\ thread' = [thread EXCEPT ![a] = more]
      /\ agent' = [agent EXCEPT ![a] = IF @ = "working" THEN "standing" ELSE None]
      /\ UNCHANGED <<item, given, unit, record, known, rounds>>
  BY DEF Report, more
<1>5. As' \in World /\ As'.record = record /\ As'.known = known /\ As'.thread = thread' /\ As'.agent = agent'
  BY <1>1, <1>3, <1>4 DEF As, World, Records, Listed
<1>6. \A b \in Attempt : /\ b # a => thread'[b] = thread[b] /\ agent'[b] = agent[b]
                         /\ thread'[a] = more
                         /\ agent'[a] \in {"standing", None}
                         /\ agent'[a] \in Listed => agent[a] \in Listed
  BY <1>1, <1>2, <1>4 DEF Listed, None
<1>7. Told(As')
  BY <1>1, <1>2, <1>3, <1>5, <1>6 DEF Told, None
<1>8. item.activity # "blocked" \/ Current(record) # a
  BY <1>1, <1>2 DEF StageInv, None
<1>9. Exit' = LastOf(thread'[Current(record)])
  <2>1. Current(record)' = Current(record)
    BY <1>4 DEF Current, Highest, Attempts
  <2> QED  BY <1>1, <2>1 DEF Exit, ExitOf, LastOf
<1>10. TypeOK'
  BY <1>4, <1>5 DEF StageInv, TypeOK, World, Records, Threads
<1>11. StageInv'
  BY <1>1, <1>4, <1>6, <1>7, <1>8, <1>9, <1>10 DEF StageInv, Quiet
<1>12. Alone(As) => Alone(As')
  <2> SUFFICES ASSUME Alone(As), NEW b \in Attempt
               PROVE  /\ As'.agent[b] \in Listed => b \in As'.known /\ As'.record[b] = "running"
                      /\ Runs(As', b) => \A c \in Attempt : As'.record[c] # None => c <= b
    BY DEF Alone
  <2>1. Runs(As', b) => Runs(As, b)
    BY <1>1, <1>2, <1>5, <1>6 DEF Runs, Ended, None
  <2> QED  BY <1>1, <1>5, <1>6, <2>1 DEF Alone
<1>13. StaysOver(As, As')
  BY <1>1, <1>2, <1>5, <1>6 DEF StaysOver, Runs, Ended, None
<1> QED  BY <1>11, <1>12, <1>13

\* What becomes of a pane that is not reported on.
MovesOn(from, to) ==
  to \in {from, None} \/ (from = "working" /\ to = "away") \/ (from = "away" /\ to = "back")

\* Sessions are closed with their panes, or lose them: nothing is said and no
\* record is taken away.
LEMMA ClosingKeeps ==
  ASSUME StageInv, UNCHANGED <<item, given, unit, known, thread, rounds>>,
         record' \in Records, agent' \in [Attempt -> Listed \cup {"away", "back", None}],
         \A a \in Attempt :
           /\ record'[a] \in {record[a], "ended"} /\ (record[a] = None => record'[a] = None)
           /\ MovesOn(agent[a], agent'[a])
  PROVE  /\ StageInv' /\ StaysOver(As, As')
         /\ Alone(As) /\ (\A a \in Attempt : agent'[a] \in Listed => record'[a] = record[a]) => Alone(As)'
<1>1. /\ record \in [Attempt -> {"running", "ended", None}] /\ known \subseteq Attempt
      /\ thread \in [Attempt -> Threads] /\ agent \in [Attempt -> Listed \cup {"away", "back", None}]
      /\ Current(record) \in Attempt /\ Exit = LastOf(thread[Current(record)])
      /\ As.record = record /\ As.thread = thread /\ As.agent = agent /\ As.known = known
      /\ Told(As)
  BY TypesNow DEF StageInv, Threads, As
<1>2. As' \in World /\ As'.record = record' /\ As'.known = known /\ As'.thread = thread /\ As'.agent = agent'
  BY <1>1 DEF As, World
<1>3. Told(As')
  BY <1>1, <1>2 DEF Told, Listed, None, MovesOn
<1>4. Current(record') = Current(record)
  <2>1. Attempts(record') = Attempts(record)
    BY <1>1 DEF Attempts, None
  <2> QED  BY <2>1 DEF Current, Highest
<1>5. Exit' = Exit
  BY <1>4 DEF Exit, ExitOf
<1>6. TypeOK'
  BY <1>2 DEF StageInv, TypeOK, World, Records, Threads
<1>7. StageInv'
  BY <1>3, <1>5, <1>6 DEF StageInv
<1>8. ASSUME Alone(As), \A a \in Attempt : agent'[a] \in Listed => record'[a] = record[a]
      PROVE  Alone(As')
  <2> SUFFICES ASSUME NEW b \in Attempt
               PROVE  /\ As'.agent[b] \in Listed => b \in As'.known /\ As'.record[b] = "running"
                      /\ Runs(As', b) => \A c \in Attempt : As'.record[c] # None => c <= b
    BY DEF Alone
  <2>1. Runs(As', b) => Runs(As, b)
    BY <1>1, <1>2 DEF Runs
  <2>2. \A c \in Attempt : record'[c] # None => record[c] # None
    OBVIOUS
  <2>3. agent'[b] \in Listed => agent[b] \in Listed
    BY DEF Listed, None, MovesOn
  <2> QED  BY <1>1, <1>2, <1>8, <2>1, <2>2, <2>3 DEF Alone
<1>9. StaysOver(As, As')
  BY <1>1, <1>2 DEF StaysOver, Runs, None
<1> QED  BY <1>7, <1>8, <1>9

OnlyTheseFaults == Happens \subseteq {"kill", "taken-over", "untold"}

LEMMA StageStep ==
  ASSUME StageInv, "unrecorded" \notin Happens, [Next]_vars
  PROVE  StageInv' /\ (OnlyTheseFaults /\ Alone(As) => Alone(As)') /\ StaysOver(As, As')
<1>1. /\ record \in Records /\ known \subseteq Attempt
      /\ agent \in [Attempt -> Listed \cup {"away", "back", None}]
      /\ \A a \in Attempt : record[a] = None => agent[a] = None
  BY TypesNow DEF StageInv, Records, Told, As
<1>2. ASSUME NEW proved, Passes(proved) PROVE StageInv' /\ (OnlyTheseFaults /\ Alone(As) => Alone(As)') /\ StaysOver(As, As')
  BY <1>2, PassKeeps DEF Passes, OnlyTheseFaults
<1>3. ASSUME NEW held \in Held, CloseExited(held)
      PROVE  StageInv' /\ (OnlyTheseFaults /\ Alone(As) => Alone(As)') /\ StaysOver(As, As')
  <2>1. PICK left \in IF "unclosed" \in Happens THEN SUBSET ToClose(held) ELSE {{}} :
          agent' = [a \in Attempt |-> IF a \in ToClose(held) \ left THEN None ELSE agent[a]]
    BY <1>3 DEF CloseExited
  <2>2. record' = [a \in Attempt |-> IF a \in ToClose(held) THEN "ended" ELSE record[a]]
        /\ UNCHANGED <<item, given, unit, known, thread, rounds>>
    BY <1>3 DEF CloseExited
  <2>3. \A a \in ToClose(held) : record[a] # None
    BY <1>1 DEF ToClose, Held, Listed, None
  <2>4. record' \in Records /\ agent' \in [Attempt -> Listed \cup {"away", "back", None}]
    BY <1>1, <2>1, <2>2 DEF Records
  <2>5. OnlyTheseFaults => \A a \in Attempt : agent'[a] \in Listed => record'[a] = record[a]
    BY <2>1, <2>2 DEF OnlyTheseFaults, ToClose, Held, Listed, None
  <2>6. \A a \in Attempt :
           /\ record'[a] \in {record[a], "ended"} /\ (record[a] = None => record'[a] = None)
           /\ MovesOn(agent[a], agent'[a])
    BY <2>1, <2>2, <2>3 DEF MovesOn
  <2> QED  BY <2>2, <2>4, <2>5, <2>6, ClosingKeeps
<1>4. ASSUME NEW a \in Attempt, NEW e \in Exits, Report(a, e) PROVE StageInv' /\ (Alone(As) => Alone(As)') /\ StaysOver(As, As')
  BY <1>4, ReportKeeps, StageAssumption
<1>5. ASSUME NEW a \in Attempt, Kill(a) \/ TakeOver(a) \/ Returns(a) PROVE StageInv' /\ (Alone(As) => Alone(As)') /\ StaysOver(As, As')
  <2>1. /\ UNCHANGED <<item, given, unit, known, thread, rounds>>
        /\ \/ record' = record /\ agent' = [agent EXCEPT ![a] = None]
           \/ /\ record[a] = "running" /\ record' = [record EXCEPT ![a] = "ended"]
              /\ agent' = [agent EXCEPT ![a] = IF @ = "working" THEN "away" ELSE None]
           \/ agent[a] = "away" /\ record' = record /\ agent' = [agent EXCEPT ![a] = "back"]
    BY <1>5 DEF Kill, TakeOver, Returns, Running
  <2>2. record' \in Records /\ agent' \in [Attempt -> Listed \cup {"away", "back", None}]
    BY <1>1, <2>1 DEF Records, Listed
  <2>3. \A b \in Attempt :
           /\ record'[b] \in {record[b], "ended"} /\ (record[b] = None => record'[b] = None)
           /\ MovesOn(agent[b], agent'[b])
           /\ agent'[b] \in Listed => record'[b] = record[b]
    BY <1>1, <2>1 DEF Records, Listed, None, MovesOn
  <2> QED  BY <2>1, <2>2, <2>3, ClosingKeeps
<1>6. CASE UNCHANGED <<record, known, thread, agent, item, rounds>> /\ given' \subseteq Answers /\ unit' \in {"in-flight", "over", "landed"}
  <2>1. TypeOK'
    BY <1>6 DEF StageInv, TypeOK
  <2>2. As' = As /\ Exit' = Exit
    BY <1>6 DEF As, Exit, ExitOf, Current, Attempts, Highest
  <2> QED  BY <1>6, <2>1, <2>2 DEF StageInv, StaysOver
<1>7. ASSUME NEW answer \in Answers, Respond(answer) PROVE StageInv' /\ (OnlyTheseFaults /\ Alone(As) => Alone(As)') /\ StaysOver(As, As')
  <2>1. UNCHANGED <<record, known, thread, agent, item, rounds>> /\ given' = given \cup {answer} /\ unit' = unit
    BY <1>7 DEF Respond
  <2>2. given' \subseteq Answers /\ unit' \in {"in-flight", "over", "landed"}
    BY <2>1 DEF StageInv, TypeOK
  <2> QED  BY <1>6, <2>1, <2>2
<1>8. CASE UnitEnds \/ UnitLands \/ UNCHANGED vars
  BY <1>6, <1>8 DEF UnitEnds, UnitLands, vars, StageInv, TypeOK
<1>9. ASSUME NEW held \in Held, CloseTab(held)
      PROVE  StageInv' /\ (OnlyTheseFaults /\ Alone(As) => Alone(As)') /\ StaysOver(As, As')
  <2>1. /\ UNCHANGED <<item, given, unit, known, thread, rounds>> /\ record' = record
        /\ agent' = [a \in Attempt |-> IF agent[a] \in held THEN None ELSE agent[a]]
    BY <1>9 DEF CloseTab
  <2>2. record' \in Records /\ agent' \in [Attempt -> Listed \cup {"away", "back", None}]
    BY <1>1, <2>1
  <2>3. \A b \in Attempt :
           /\ record'[b] \in {record[b], "ended"} /\ (record[b] = None => record'[b] = None)
           /\ MovesOn(agent[b], agent'[b])
           /\ agent'[b] \in Listed => record'[b] = record[b]
    BY <1>1, <2>1 DEF MovesOn
  <2> QED  BY <2>1, <2>2, <2>3, ClosingKeeps
<1> QED  BY <1>2, <1>3, <1>4, <1>5, <1>7, <1>8, <1>9 DEF Next

LEMMA InitStage == Init => StageInv /\ Alone(As)
<1> SUFFICES ASSUME Init PROVE StageInv /\ Alone(As)
  OBVIOUS
<1>1. MaxSendBacks \in Nat /\ MaxSessions \in Nat \ {0}
  BY StageAssumption
<1>2. TypeOK
  <2>1. item \in Config
    BY DEF Init, Config, None
  <2>2. \A S : <<>> \in Seq(S)
    OBVIOUS
  <2>3. rounds \in 0..(MaxSendBacks + 1)
    BY <1>1 DEF Init
  <2> QED  BY <2>1, <2>2, <2>3 DEF Init, TypeOK, None, Listed
<1>3. As \in World /\ As.record = record /\ As.thread = thread /\ As.agent = agent /\ As.known = known
  BY <1>2 DEF TypeOK, As, World, Records, Threads
<1>4. \A k \in 1..Len(<<>>) : FALSE
  OBVIOUS
<1>5. Told(As) /\ Alone(As)
  BY <1>3, <1>4 DEF Init, Told, Alone, Asked, Runs, None, Listed
<1> QED  BY <1>2, <1>5 DEF Init, StageInv, Quiet, None

\* An answer goes on a thread straight after the question it answers, whatever
\* is killed, taken over, out of reach, untold or not closed: no other session
\* starts while the item waits for it (deliver_answer, stage.yaml).
THEOREM AnswersReachAskers == ASSUME "unrecorded" \notin Happens PROVE Spec => []AnswerReachesAsker
<1>1. StageInv /\ [Next]_vars => StageInv'
  BY StageStep
<1>2. StageInv => AnswerReachesAsker
  BY DEF StageInv, Told, Asked, AnswerReachesAsker, As
<1> QED  BY <1>1, <1>2, InitStage, PTL DEF Spec

\* What the item, its sessions, their records, the agents on the terminal and
\* the answers under way can be, where no start goes unrecorded.
THEOREM StageTyped == ASSUME "unrecorded" \notin Happens PROVE Spec => []TypeOK
<1>1. StageInv /\ [Next]_vars => StageInv'
  BY StageStep
<1>2. StageInv => TypeOK
  BY DEF StageInv
<1> QED  BY <1>1, <1>2, InitStage, PTL DEF Spec

\* No two agents are at work in the item's place, however often its sessions
\* are killed, lost, taken over and started again (start, close_ended).
THEOREM OneAgentAtWork == ASSUME OnlyTheseFaults PROVE Spec => []OneAtWork
<1>1. "unrecorded" \notin Happens
  BY DEF OnlyTheseFaults
<1>2. StageInv /\ Alone(As) /\ [Next]_vars => StageInv' /\ Alone(As)'
  BY <1>1, StageStep
<1>3. StageInv /\ Alone(As) => OneAtWork
  <2> SUFFICES ASSUME StageInv, Alone(As) PROVE OneAtWork
    OBVIOUS
  <2> DEFINE working == {a \in Attempt : agent[a] = "working"}
  <2>1. ASSUME NEW a \in working, NEW b \in working PROVE a = b
    <3>1. \A c \in working : Runs(As, c)
      BY DEF Alone, StageInv, Told, Runs, As, Listed, Ended, None
    <3>2. a <= b /\ b <= a /\ a \in Nat /\ b \in Nat
      BY <3>1, StageAssumption DEF Alone, Runs, As, Attempt, None
    <3> QED  BY <3>2
  <2> HIDE DEF working
  <2>2. working = {} \/ \E a : working = {a}
    BY <2>1
  <2>3. Cardinality(working) <= 1
    <3>1. CASE working = {}
      BY <3>1, FS_EmptySet
    <3>2. CASE \E a : working = {a}
      <4>1. PICK a : working = {a}
        BY <3>2
      <4>2. Cardinality({a}) = 1
        BY FS_Singleton
      <4> QED  BY <4>1, <4>2
    <3> QED  BY <2>2, <3>1, <3>2
  <2> QED  BY <2>3 DEF working, OneAtWork
<1> QED  BY <1>2, <1>3, InitStage, PTL DEF Spec

\* A session that has ended or reported its end never runs again: an answer
\* goes to one that asked, and what starts next is another attempt.
THEOREM SessionsRunOnce == ASSUME "unrecorded" \notin Happens PROVE Spec => SessionsEndOnce
<1>1. StageInv /\ [Next]_vars => StageInv'
  BY StageStep
<1>2. StageInv /\ [Next]_vars
        => [\A a \in Attempt : record[a] # None /\ ~Running(a) => ~Running(a)']_vars
  <2> SUFFICES ASSUME StageInv, [Next]_vars, NEW a \in Attempt, record[a] # None, ~Running(a)
               PROVE  ~Running(a)'
    OBVIOUS
  <2>1. StaysOver(As, As') /\ As.record = record
    BY StageStep DEF As
  <2>2. ~Runs(As, a)
    BY RunningIs
  <2>3. Running(a)' <=> Runs(As', a)
    BY DEF Running, Runs, ExitOf, LastOf, As
  <2> QED  BY <2>1, <2>2, <2>3 DEF StaysOver
<1> QED  BY <1>1, <1>2, InitStage, PTL DEF Spec, SessionsEndOnce
=============================================================================
